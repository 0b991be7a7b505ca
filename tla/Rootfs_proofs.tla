---------------------------- MODULE Rootfs_proofs ----------------------------
(***************************************************************************)
(* Proofs about Rootfs, for every set of packages, all dependencies and    *)
(* every configuration: its type invariant, that the target always has     *)
(* what the packages in it need to run, the order in which scripts work on *)
(* packages, and what a run of rootfs that ends well leaves: nothing else  *)
(* than what is configured and needed, all of that, and in its present     *)
(* version.                                                                *)
(***************************************************************************)
EXTENDS Rootfs, Scripts_proofs

----------------------------------------------------------------------------
\* Types

\* Uninstalling packages installs none.
LEMMA WithoutType == \A S : Without(S) \subseteq installed
BY DEF Without, Remaining

LEMMA UnpackageType == \A p : Unpackage(p) \subseteq installed
BY WithoutType DEF Unpackage

\* What is kept of a relation is part of it.
LEMMA KeptType == \A n : Kept(n) \subseteq n
BY DEF Kept

\* Every step of a script keeps the types.
LEMMA StepType ==
    ASSUME TypeOK, NEW p \in Pkg, Step(p)
    PROVE  TypeOK'
<1> USE DEF TypeOK
<1>d. /\ BuildDepends[p] \in Seq(Pkg)
      /\ RunDepends[p] \in Seq(Pkg)
      /\ HasSources \subseteq Pkg
  BY RootfsAssumption
<1>l. /\ {"start", "check", "rule", "depends", "opkg"} \subseteq Labels
      /\ {"build", "package", "install"} \subseteq Ops
      /\ <<>> \in Seq(Pkg)
  BY DEF Labels, Ops
<1>c. UNCHANGED config => Selected(config)'
  BY DEF Selected
<1>1. CASE BuildStart(p)
  <2>1. \/ Return
        \/ Goto("depends", BuildDepends[p])
    BY <1>1 DEF BuildStart
  <2>2. stack' \in Seq(Frames)
    BY <1>1, <2>1, <1>d, <1>l, GotoType, ReturnType DEF BuildStart, At
  <2>3. installed' \subseteq installed
    BY <1>1, WithoutType, UnpackageType DEF BuildStart
  <2>4. newer' \subseteq newer
    BY <1>1, KeptType DEF BuildStart
  <2>5. unpacked' \subseteq Pkg /\ built' \subseteq built /\ archived' \subseteq archived
    BY <1>1 DEF BuildStart
  <2>6. QED  BY <1>1, <2>2, <2>3, <2>4, <2>5, <1>c DEF BuildStart, walk
<1>2. CASE BuildInstalldev(p)
  <2>1. CASE ForEach("build", "rule")
    BY <1>2, <2>1, <1>l, <1>c, ForEachType DEF BuildInstalldev, At, walk, files
  <2>2. CASE Todo # <<>> /\ Goto("depends", Tail(Todo))
    <3>1. Tail(Todo) \in Seq(Pkg)
      BY <1>2, <2>2, TopType, HeadTailProperties DEF BuildInstalldev, At
    <3>2. stack' \in Seq(Frames)
      BY <1>2, <2>2, <3>1, <1>l, GotoType DEF BuildInstalldev, At
    <3>3. QED  BY <1>2, <3>2, <1>c DEF BuildInstalldev, walk, files
  <2>3. QED  BY <1>2, <2>1, <2>2 DEF BuildInstalldev
<1>3. CASE BuildRule(p)
  <2>1. newer' \subseteq newer \cup ({"stamp"} \X {p})
    BY <1>3, KeptType DEF BuildRule
  <2>2. stack' \in Seq(Frames)
    BY <1>3, ReturnType DEF BuildRule, At
  <2>3. QED  BY <1>3, <2>1, <2>2, <1>c DEF BuildRule, walk
<1>4. CASE PackageStart(p)
  BY <1>4, <1>l, <1>c, CallType DEF PackageStart, At, walk, files
<1>5. CASE PackageCheck(p)
  <2>1. \/ Return
        \/ Goto("depends", RunDepends[p])
    BY <1>5 DEF PackageCheck
  <2>2. stack' \in Seq(Frames)
    BY <1>5, <2>1, <1>d, <1>l, GotoType, ReturnType DEF PackageCheck, At
  <2>3. installed' \subseteq installed /\ archived' \subseteq archived
    BY <1>5, WithoutType DEF PackageCheck
  <2>4. newer' \subseteq newer
    BY <1>5, KeptType DEF PackageCheck
  <2>5. QED  BY <1>5, <2>2, <2>3, <2>4, <1>c DEF PackageCheck, walk
<1>6. CASE PackageDepends(p)
  BY <1>6, <1>l, <1>c, ForEachType DEF PackageDepends, At, walk, files
<1>7. CASE PackageRule(p)
  <2>1. newer' \subseteq newer \cup ({"archive"} \X {p})
    BY <1>7, KeptType DEF PackageRule
  <2>2. stack' \in Seq(Frames)
    BY <1>7, ReturnType DEF PackageRule, At
  <2>3. QED  BY <1>7, <2>1, <2>2, <1>c DEF PackageRule, walk
<1>8. CASE InstallStart(p)
  <2>1. \/ Return
        \/ Call("package", p, "depends", RunDepends[p])
    BY <1>8 DEF InstallStart
  <2>2. stack' \in Seq(Frames)
    BY <1>8, <2>1, <1>d, <1>l, CallType, ReturnType DEF InstallStart, At
  <2>3. installed' \subseteq installed /\ archived' \subseteq archived
    BY <1>8, WithoutType DEF InstallStart
  <2>4. newer' \subseteq newer
    BY <1>8, KeptType DEF InstallStart
  <2>5. QED  BY <1>8, <2>2, <2>3, <2>4, <1>c DEF InstallStart, walk
<1>9. CASE InstallDepends(p)
  BY <1>9, <1>l, <1>c, ForEachType DEF InstallDepends, At, walk, files
<1>10. CASE InstallOpkg(p)
  <2>1. /\ installed' \subseteq installed \cup {p}
        /\ newer' \subseteq newer
        /\ outdated' \subseteq outdated
    BY <1>10 DEF InstallOpkg
  <2>2. stack' \in Seq(Frames)
    BY <1>10, ReturnType DEF InstallOpkg, At
  <2>3. QED  BY <1>10, <2>1, <2>2, <1>c DEF InstallOpkg, walk
<1>11. CASE InstallRefused(p)
  BY <1>11, <1>c DEF InstallRefused, files
<1>12. QED
  BY <1>1, <1>2, <1>3, <1>4, <1>5, <1>6, <1>7, <1>8, <1>9, <1>10, <1>11 DEF Step

\* Every step of rootfs itself keeps the types.
LEMMA WalkType ==
    ASSUME TypeOK, RootfsStart \/ RootfsStale \/ RootfsInstall \/ RootfsOpk
    PROVE  TypeOK'
<1> USE DEF TypeOK
<1>c. UNCHANGED config => Selected(config)'
  BY DEF Selected
<1>f. \A q \in Pkg : /\ <<Frame("install", q)>> \in Seq(Frames)
                     /\ <<Frame("package", q)>> \in Seq(Frames)
  BY DEF Frame, Frames, Labels, Ops
<1>e. <<>> \in Seq(Frames)
  OBVIOUS
<1>p. RootfsPackages \subseteq Pkg /\ OpkPackages \subseteq Pkg
  BY DEF RootfsPackages, OpkPackages
<1>1. CASE RootfsStart
  BY <1>1, <1>c, <1>e DEF RootfsStart, files
<1>2. CASE RootfsStale
  <2>1. installed' \subseteq installed
    BY <1>2, WithoutType DEF RootfsStale
  <2>2. newer' \subseteq newer
    BY <1>2, KeptType DEF RootfsStale
  <2>3. pass' \in {"stale", "install"} /\ rest' \subseteq Pkg
    BY <1>2, <1>p DEF RootfsStale
  <2>4. QED  BY <1>2, <2>1, <2>2, <2>3, <1>c DEF RootfsStale
<1>3. CASE RootfsInstall
  BY <1>3, <1>c, <1>e, <1>p, <1>f DEF RootfsInstall, files
<1>4. CASE RootfsOpk
  BY <1>4, <1>c, <1>f DEF RootfsOpk, files
<1>5. QED  BY <1>1, <1>2, <1>3, <1>4

\* Every edit keeps the types.
LEMMA EditType ==
    ASSUME TypeOK, NEW p \in Pkg, Edit(p)
    PROVE  TypeOK'
<1> USE DEF TypeOK
<1>c. UNCHANGED config => Selected(config)'
  BY DEF Selected
<1>1. stack' = stack /\ pass' = pass /\ rest' = rest /\ done' \in BOOLEAN
  BY DEF Edit
<1>2. CASE EditConfig(p)
  <2>1. config' \in [Pkg -> {"y", "m", "n"}] /\ Selected(config)'
    BY <1>2 DEF EditConfig, Selected
  <2>2. QED  BY <1>1, <1>2, <2>1 DEF EditConfig, files
<1>3. CASE EditRev(p)
  <2>1. newer' \subseteq newer \cup ({"control"} \X {p})
    BY <1>3, KeptType DEF EditRev
  <2>2. QED  BY <1>1, <1>3, <2>1, <1>c DEF EditRev
<1>4. CASE EditPatch(p)
  BY <1>1, <1>4, <1>c DEF EditPatch
<1>5. CASE EditBuild(p)
  <2>1. newer' \subseteq newer \cup ({"build", "control"} \X {p})
    BY <1>5, KeptType DEF EditBuild
  <2>2. QED  BY <1>1, <1>5, <2>1, <1>c DEF EditBuild
<1>6. CASE EditInstall(p)
  <2>1. newer' \subseteq newer \cup ({"install", "control", "rule"} \X {p})
    BY <1>6, KeptType DEF EditInstall
  <2>2. QED  BY <1>1, <1>6, <2>1, <1>c DEF EditInstall
<1>7. QED  BY <1>2, <1>3, <1>4, <1>5, <1>6 DEF Edit

\* Every variable has its type in every reachable state.
THEOREM TypeCorrect == Spec => []TypeOK
<1>1. Init => TypeOK
  <2> SUFFICES ASSUME Init PROVE TypeOK
    OBVIOUS
  <2>1. Selected(config)
    <3>1. \A q \in Pkg : config[q] = "n"
      BY DEF Init
    <3>2. QED  BY <3>1 DEF Selected
  <2>2. <<>> \in Seq(Frames)
    OBVIOUS
  <2>3. QED  BY <2>1, <2>2 DEF Init, TypeOK
<1>2. TypeOK /\ [Next]_vars => TypeOK'
  <2> SUFFICES ASSUME TypeOK, [Next]_vars PROVE TypeOK'
    OBVIOUS
  <2>c. UNCHANGED config => (Selected(config))' = Selected(config)
    BY DEF Selected
  <2>1. CASE \E p \in Pkg : Step(p)
    BY <2>1, StepType
  <2>2. CASE RootfsStart \/ RootfsStale \/ RootfsInstall \/ RootfsOpk
    BY <2>2, WalkType
  <2>3. ASSUME NEW p \in Pkg, NEW op \in {"package", "install"}, Start(op, p)
        PROVE  TypeOK'
    <3>1. <<Frame(op, p)>> \in Seq(Frames)
      BY DEF Frame, Frames, Labels, Ops
    <3>2. QED  BY <2>3, <3>1, <2>c DEF Start, files, TypeOK
  <2>4. CASE \E p \in Pkg : Edit(p)
    BY <2>4, EditType
  <2>5. CASE Abort
    BY <2>5, <2>c DEF Abort, files, TypeOK
  <2>6. CASE UNCHANGED vars
    BY <2>6, <2>c DEF vars, TypeOK
  <2>7. QED  BY <2>1, <2>2, <2>3, <2>4, <2>5, <2>6 DEF Next
<1>3. QED  BY <1>1, <1>2, PTL DEF Spec

----------------------------------------------------------------------------
\* The target contains what its packages need

\* Uninstalling keeps the target closed.
LEMMA WithoutClosed ==
    ASSUME installed \subseteq Pkg, RootfsClosed, NEW S
    PROVE  \A p \in Without(S) : Elems(RunDepends[p]) \subseteq Without(S)
BY RemainingClosed DEF Without, RootfsClosed, Usable

\* No package is ever in the target without the packages that it needs to run:
\* not while rootfs removes what is stale, a package is built again behind its
\* back or opkg refuses one, nor when a run stops half-way
\* (scripts/uninstall:13, scripts/install:50-58).
THEOREM Closed == Spec => []RootfsClosed
<1>1. Init => RootfsClosed
  BY DEF Init, RootfsClosed
<1>2. TypeOK /\ RootfsClosed /\ [Next]_vars => RootfsClosed'
  <2> SUFFICES ASSUME TypeOK, RootfsClosed, [Next]_vars PROVE RootfsClosed'
    OBVIOUS
  <2>t. installed \subseteq Pkg
    BY DEF TypeOK
  <2>1. ASSUME NEW S, installed' = Without(S) PROVE RootfsClosed'
    BY <2>1, <2>t, WithoutClosed DEF RootfsClosed, Usable
  <2>2. ASSUME UNCHANGED installed PROVE RootfsClosed'
    BY <2>2 DEF RootfsClosed, Usable
  <2>3. ASSUME NEW p \in Pkg, Step(p) PROVE RootfsClosed'
    <3>1. CASE BuildStart(p)
      BY <3>1, <2>1, <2>2 DEF BuildStart, Unpackage
    <3>2. CASE BuildInstalldev(p) \/ PackageStart(p) \/ PackageDepends(p)
                   \/ InstallDepends(p) \/ InstallRefused(p)
      BY <3>2, <2>2
         DEF BuildInstalldev, PackageStart, PackageDepends, InstallDepends,
             InstallRefused, files
    <3>3. CASE BuildRule(p) \/ PackageRule(p)
      BY <3>3, <2>2 DEF BuildRule, PackageRule
    <3>4. CASE PackageCheck(p)
      BY <3>4, <2>1, <2>2 DEF PackageCheck
    <3>5. CASE InstallStart(p)
      BY <3>5, <2>1, <2>2 DEF InstallStart
    <3>6. CASE InstallOpkg(p)
      BY <3>6, <2>2 DEF InstallOpkg, Usable, RootfsClosed
    <3>7. QED  BY <2>3, <3>1, <3>2, <3>3, <3>4, <3>5, <3>6 DEF Step
  <2>4. CASE RootfsStale
    BY <2>4, <2>1, <2>2 DEF RootfsStale
  <2>5. CASE RootfsStart \/ RootfsInstall \/ RootfsOpk
    BY <2>5, <2>2 DEF RootfsStart, RootfsInstall, RootfsOpk, files
  <2>6. CASE \E p \in Pkg : Edit(p)
    BY <2>6, <2>2
       DEF Edit, EditConfig, EditRev, EditPatch, EditBuild, EditInstall, files
  <2>7. CASE \E p \in Pkg, op \in {"package", "install"} : Start(op, p)
    BY <2>7, <2>2 DEF Start, files
  <2>8. CASE Abort \/ UNCHANGED vars
    BY <2>8, <2>2 DEF Abort, files, vars
  <2>9. QED  BY <2>3, <2>4, <2>5, <2>6, <2>7, <2>8 DEF Next
<1>3. QED  BY <1>1, <1>2, TypeCorrect, PTL DEF Spec

----------------------------------------------------------------------------
\* rootfs leaves nothing else

\* What the packages of ROOTFS_PACKAGES need to run, themselves included.
Wanted == Needed(RootfsPackages)

\* A script `install' works on a wanted package, and the rest of its loop is
\* over what that package needs.
InstallsWanted(f) ==
    f.op = "install" => /\ f.pkg \in Wanted
                        /\ Elems(f.todo) \subseteq Elems(RunDepends[f.pkg])

\* Once rootfs has removed what is stale, only wanted packages are installed.
WalkInv ==
    /\ done => Idle /\ installed \subseteq Wanted
    /\ pass \in {"install", "opk"} =>
           installed \subseteq Wanted /\ \A f \in Elems(stack) : InstallsWanted(f)
    /\ pass = "install" => rest \subseteq RootfsPackages

\* The configured packages are wanted, and so is what a wanted one needs.
LEMMA WantedClosed ==
    /\ RootfsPackages \subseteq Wanted
    /\ \A p \in Wanted : \A q \in Elems(RunDepends[p]) \cap Pkg : q \in Wanted
<1>1. RootfsPackages \subseteq Pkg
  BY DEF RootfsPackages
<1>2. RootfsPackages \subseteq Wanted
  BY <1>1, UsersSelf DEF Wanted, Needed
<1>3. ASSUME NEW p \in Wanted, NEW q \in Elems(RunDepends[p]), q \in Pkg
      PROVE  q \in Wanted
  <2>1. PICK r \in RootfsPackages : r \in Users(p, RunDepends)
    BY DEF Wanted, Needed
  <2>2. r \in Users(q, RunDepends)
    BY <2>1, <1>3, UsersDownward DEF Wanted, Needed
  <2>3. QED  BY <1>3, <2>2 DEF Wanted, Needed
<1>4. QED  BY <1>2, <1>3

\* Wanted is a matter of the configuration alone.
LEMMA WantedStable == UNCHANGED config => Wanted' = Wanted
BY DEF Wanted, Needed, RootfsPackages

\* A step of a script that installs nothing new, and keeps to wanted packages
\* in the frames it leaves, keeps the invariant.
LEMMA StepKeeps ==
    ASSUME TypeOK, WalkInv, NEW p \in Pkg, Step(p), UNCHANGED walk,
           pass \in {"install", "opk"} =>
               /\ installed' \subseteq installed \cup Wanted
               /\ \A f \in Elems(stack') \ Elems(stack) : InstallsWanted(f)
    PROVE  WalkInv'
<1>1. Wanted' = Wanted /\ RootfsPackages' = RootfsPackages
  BY WantedStable DEF walk, RootfsPackages
<1>2. \A f : InstallsWanted(f) <=> InstallsWanted(f)'
  BY <1>1 DEF InstallsWanted
<1>3. ~done
  <2>1. stack # <<>>
    BY DEF Step, BuildStart, BuildInstalldev, BuildRule, PackageStart,
           PackageCheck, PackageDepends, PackageRule, InstallStart,
           InstallDepends, InstallOpkg, InstallRefused, At
  <2>2. QED  BY <2>1 DEF WalkInv, Idle
<1>4. QED  BY <1>1, <1>2, <1>3 DEF WalkInv, walk

\* Every step of a script but the refusal of opkg leaves such frames: only
\* install calls install, and for what its package needs.
LEMMA StepFrames ==
    ASSUME TypeOK, WalkInv, NEW p \in Pkg, Step(p), ~InstallRefused(p),
           pass \in {"install", "opk"},
           NEW f \in Elems(stack'), f \notin Elems(stack)
    PROVE  InstallsWanted(f)
<1>s. stack \in Seq(Frames) /\ stack # <<>>
  BY DEF TypeOK, Step, BuildStart, BuildInstalldev, BuildRule, PackageStart,
         PackageCheck, PackageDepends, PackageRule, InstallStart,
         InstallDepends, InstallOpkg, InstallRefused, At
<1>h. /\ InstallsWanted(Head(stack))
      /\ Head(stack) \in Frames /\ Todo \in Seq(Pkg)
  BY <1>s, TopElems, TopType DEF WalkInv
<1>d. RunDepends[p] \in Seq(Pkg) /\ BuildDepends[p] \in Seq(Pkg)
  BY RootfsAssumption
<1>l. /\ {"start", "check", "rule", "depends", "opkg"} \subseteq Labels
      /\ {"build", "package", "install"} \subseteq Ops
      /\ <<>> \in Seq(Pkg)
  BY DEF Labels, Ops
<1>m. \A l, todo : /\ Moved(l, todo).op = Head(stack).op
                   /\ Moved(l, todo).pkg = Head(stack).pkg
                   /\ Moved(l, todo).todo = todo
  BY <1>h DEF Moved, Frames
<1>r. ASSUME Return PROVE FALSE
  BY <1>r, <1>s, ReturnElems
<1>g. ASSUME NEW l \in Labels, NEW todo \in Seq(Pkg), Goto(l, todo),
             Head(stack).op = "install" =>
                 Elems(todo) \subseteq Elems(RunDepends[Head(stack).pkg])
      PROVE  InstallsWanted(f)
  <2>1. f = Moved(l, todo)
    BY <1>g, <1>s, GotoElems
  <2>2. QED  BY <2>1, <1>g, <1>h, <1>m DEF InstallsWanted
<1>k. ASSUME NEW op \in Ops, NEW q \in Pkg, NEW l \in Labels,
             NEW todo \in Seq(Pkg), Call(op, q, l, todo),
             op = "install" => q \in Wanted,
             Head(stack).op = "install" =>
                 Elems(todo) \subseteq Elems(RunDepends[Head(stack).pkg])
      PROVE  InstallsWanted(f)
  <2>1. f \in {Frame(op, q), Moved(l, todo)}
    BY <1>k, <1>s, CallElems
  <2>2. CASE f = Frame(op, q)
    BY <2>2, <1>k DEF Frame, InstallsWanted, Elems
  <2>3. CASE f = Moved(l, todo)
    BY <2>3, <1>k, <1>h, <1>m DEF InstallsWanted
  <2>4. QED  BY <2>1, <2>2, <2>3
<1>o. ASSUME NEW op \in Ops, NEW l \in Labels, ForEach(op, l),
             op = "install" => Head(stack).op = "install" /\ Head(stack).pkg = p
      PROVE  InstallsWanted(f)
  <2>1. CASE Todo = <<>>
    <3>1. Goto(l, <<>>) /\ Elems(<<>>) = {}
      BY <1>o, <2>1 DEF ForEach, Elems
    <3>2. QED  BY <3>1, <1>g, <1>l
  <2>2. CASE Todo # <<>>
    <3>1. /\ Head(Todo) \in Pkg /\ Tail(Todo) \in Seq(Pkg)
          /\ Head(Todo) \in Elems(Todo)
          /\ Elems(Tail(Todo)) \subseteq Elems(Todo)
      BY <1>h, <2>2, ListElems
    <3>2. Head(stack).at \in Labels
      BY <1>h DEF Frames
    <3>3. Call(op, Head(Todo), Head(stack).at, Tail(Todo))
      BY <1>o, <2>2 DEF ForEach
    <3>4. Head(stack).op = "install" =>
              Elems(Todo) \subseteq Elems(RunDepends[Head(stack).pkg])
      BY <1>h DEF InstallsWanted, Todo
    <3>5. op = "install" => Head(Todo) \in Wanted
      BY <1>o, <1>h, <3>1, <3>4, WantedClosed DEF InstallsWanted
    <3>6. QED  BY <3>1, <3>2, <3>3, <3>4, <3>5, <1>k
  <2>3. QED  BY <2>1, <2>2
<1>1. CASE BuildStart(p)
  BY <1>1, <1>r, <1>g, <1>d, <1>l DEF BuildStart, At
<1>2. CASE BuildInstalldev(p)
  <2>1. CASE ForEach("build", "rule")
    BY <2>1, <1>o, <1>l
  <2>2. CASE Todo # <<>> /\ Goto("depends", Tail(Todo))
    <3>1. Tail(Todo) \in Seq(Pkg)
      BY <1>h, <2>2, HeadTailProperties
    <3>2. QED  BY <1>2, <2>2, <3>1, <1>g, <1>l DEF BuildInstalldev, At
  <2>3. QED  BY <1>2, <2>1, <2>2 DEF BuildInstalldev
<1>3. CASE BuildRule(p) \/ PackageRule(p) \/ InstallOpkg(p)
  BY <1>3, <1>r DEF BuildRule, PackageRule, InstallOpkg
<1>4. CASE PackageStart(p)
  BY <1>4, <1>k, <1>l DEF PackageStart, At
<1>5. CASE PackageCheck(p)
  BY <1>5, <1>r, <1>g, <1>d, <1>l DEF PackageCheck, At
<1>6. CASE PackageDepends(p)
  BY <1>6, <1>o, <1>l DEF PackageDepends
<1>7. CASE InstallStart(p)
  <2>1. Head(stack).pkg = p
    BY <1>7 DEF InstallStart, At
  <2>2. QED  BY <1>7, <2>1, <1>r, <1>k, <1>d, <1>l DEF InstallStart
<1>8. CASE InstallDepends(p)
  BY <1>8, <1>o, <1>l DEF InstallDepends, At
<1>9. QED  BY <1>1, <1>2, <1>3, <1>4, <1>5, <1>6, <1>7, <1>8 DEF Step

\* Every step of a script keeps the invariant.
LEMMA StepWalk ==
    ASSUME TypeOK, WalkInv, NEW p \in Pkg, Step(p)
    PROVE  WalkInv'
<1>1. CASE InstallRefused(p)
  <2>1. ~done
    BY <1>1 DEF InstallRefused, At, WalkInv, Idle
  <2>2. QED  BY <1>1, <2>1 DEF InstallRefused, WalkInv
<1>2. CASE ~InstallRefused(p)
  <2>1. UNCHANGED walk
    BY <1>2 DEF Step, BuildStart, BuildInstalldev, BuildRule, PackageStart,
                PackageCheck, PackageDepends, PackageRule, InstallStart,
                InstallDepends, InstallOpkg
  <2>2. ASSUME pass \in {"install", "opk"}
        PROVE  installed' \subseteq installed \cup Wanted
    <3>1. CASE InstallOpkg(p)
      <4>1. InstallsWanted(Head(stack)) /\ At("install", "opkg", p)
        BY <2>2, <3>1, TopElems DEF WalkInv, TypeOK, InstallOpkg, At
      <4>2. p \in Wanted
        BY <4>1 DEF InstallsWanted, At
      <4>3. QED  BY <3>1, <4>2 DEF InstallOpkg
    <3>2. CASE ~InstallOpkg(p)
      BY <1>2, <3>2, WithoutType, UnpackageType
         DEF Step, BuildStart, BuildInstalldev, BuildRule, PackageStart,
             PackageCheck, PackageDepends, PackageRule, InstallStart,
             InstallDepends, files
    <3>3. QED  BY <3>1, <3>2
  <2>3. QED  BY <1>2, <2>1, <2>2, StepKeeps, StepFrames
<1>3. QED  BY <1>1, <1>2

\* Every step of rootfs itself keeps the invariant.
LEMMA RootfsWalk ==
    ASSUME TypeOK, WalkInv, RootfsStart \/ RootfsStale \/ RootfsInstall \/ RootfsOpk
    PROVE  WalkInv'
<1>1. Wanted' = Wanted /\ RootfsPackages' = RootfsPackages
  BY WantedStable
     DEF RootfsStart, RootfsStale, RootfsInstall, RootfsOpk, RootfsPackages
<1>2. \A f : InstallsWanted(f) <=> InstallsWanted(f)'
  BY <1>1 DEF InstallsWanted
<1>3. Elems(<<>>) = {} /\ \A f : Elems(<<f>>) = {f}
  BY DEF Elems
<1>4. CASE RootfsStart
  BY <1>4 DEF RootfsStart, WalkInv
<1>5. CASE RootfsStale
  <2>1. CASE Stale = {}
    <3>1. installed \subseteq RootfsPackages
      BY <2>1 DEF Stale
    <3>2. installed' \subseteq Wanted
      BY <1>5, <2>1, <3>1, WantedClosed DEF RootfsStale
    <3>3. ~done
      BY <1>5 DEF RootfsStale, WalkInv, Idle
    <3>4. /\ pass' = "install" /\ rest' = RootfsPackages
          /\ stack' = <<>> /\ done' = done
      BY <1>5, <2>1 DEF RootfsStale
    <3>5. QED  BY <3>2, <3>3, <3>4, <1>1, <1>3 DEF WalkInv
  <2>2. CASE Stale # {}
    BY <1>5, <2>2 DEF RootfsStale, WalkInv, Idle
  <2>3. QED  BY <2>1, <2>2
<1>6. CASE RootfsInstall
  <2>1. /\ installed \subseteq Wanted /\ ~done /\ rest \subseteq RootfsPackages
        /\ UNCHANGED <<installed, done>>
    BY <1>6 DEF RootfsInstall, WalkInv, Idle, files
  <2>2. CASE rest = {}
    BY <1>6, <2>1, <2>2, <1>1, <1>3 DEF RootfsInstall, WalkInv
  <2>3. CASE rest # {}
    <3>1. PICK p \in Pkg : /\ First(p, rest)
                           /\ rest' = rest \ {p}
                           /\ stack' = IF p \in installed THEN <<>>
                                       ELSE <<Frame("install", p)>>
                           /\ UNCHANGED pass
      BY <1>6, <2>3 DEF RootfsInstall
    <3>2. p \in Wanted
      BY <2>1, <3>1, WantedClosed DEF First
    <3>3. InstallsWanted(Frame("install", p))
      BY <3>2, <1>3 DEF InstallsWanted, Frame
    <3>4. \A f \in Elems(stack') : InstallsWanted(f)
      BY <3>1, <3>3, <1>3
    <3>5. QED  BY <2>1, <3>1, <3>4, <1>1, <1>2 DEF WalkInv
  <2>4. QED  BY <2>2, <2>3
<1>7. CASE RootfsOpk
  <2>1. installed' \subseteq Wanted /\ ~done /\ pass = "opk" /\ stack = <<>>
    BY <1>7 DEF RootfsOpk, WalkInv, Idle, files
  <2>2. CASE rest = {}
    BY <1>7, <2>1, <2>2, <1>1 DEF RootfsOpk, WalkInv, Idle
  <2>3. CASE rest # {}
    <3>1. PICK p \in Pkg : stack' = <<Frame("package", p)>>
      BY <1>7, <2>3 DEF RootfsOpk
    <3>2. \A f \in Elems(stack') : InstallsWanted(f)
      BY <3>1, <1>3 DEF InstallsWanted, Frame
    <3>3. pass' = pass /\ done' = done
      BY <1>7, <2>3 DEF RootfsOpk
    <3>4. QED  BY <2>1, <3>2, <3>3, <1>1, <1>2 DEF WalkInv
  <2>4. QED  BY <2>2, <2>3
<1>8. QED  BY <1>4, <1>5, <1>6, <1>7

\* When rootfs ends well, nothing is installed that no configured package
\* needs, whatever was interrupted, built again or removed before and during
\* the run (scripts/rootfs:24-40).
THEOREM NoOthers == Spec => []NothingElse
<1>1. Init => WalkInv
  BY DEF Init, WalkInv, Idle
<1>2. TypeOK /\ WalkInv /\ [Next]_vars => WalkInv'
  <2> SUFFICES ASSUME TypeOK, WalkInv, [Next]_vars PROVE WalkInv'
    OBVIOUS
  <2>1. CASE \E p \in Pkg : Step(p)
    BY <2>1, StepWalk
  <2>2. CASE RootfsStart \/ RootfsStale \/ RootfsInstall \/ RootfsOpk
    BY <2>2, RootfsWalk
  <2>3. CASE \E p \in Pkg, op \in {"package", "install"} : Start(op, p)
    BY <2>3 DEF Start, Idle, WalkInv
  <2>4. CASE \E p \in Pkg : Edit(p)
    BY <2>4 DEF Edit, Idle, WalkInv
  <2>5. CASE Abort
    BY <2>5 DEF Abort, Idle, WalkInv
  <2>6. CASE UNCHANGED vars
    <3>1. Wanted' = Wanted /\ RootfsPackages' = RootfsPackages
      BY <2>6, WantedStable DEF vars, RootfsPackages
    <3>2. \A f : InstallsWanted(f) <=> InstallsWanted(f)'
      BY <3>1 DEF InstallsWanted
    <3>3. QED  BY <2>6, <3>1, <3>2 DEF vars, WalkInv, Idle
  <2>7. QED  BY <2>1, <2>2, <2>3, <2>4, <2>5, <2>6 DEF Next
<1>3. WalkInv => NothingElse
  BY DEF WalkInv, NothingElse, Wanted
<1>4. QED  BY <1>1, <1>2, <1>3, TypeCorrect, PTL DEF Spec

----------------------------------------------------------------------------
\* The order of the running scripts

\* What a package names as a dependency, of either kind.
Depends == [p \in Pkg |-> RunDepends[p] \o BuildDepends[p]]

\* Both kinds are dependencies, and they are packages.
LEMMA DependsElems ==
    ASSUME NEW p \in Pkg
    PROVE  /\ Elems(RunDepends[p]) \subseteq Elems(Depends[p])
           /\ Elems(BuildDepends[p]) \subseteq Elems(Depends[p])
           /\ Elems(Depends[p]) \subseteq Elems(RunDepends[p]) \cup Elems(BuildDepends[p])
           /\ Elems(Depends[p]) \subseteq Pkg
<1> DEFINE r == RunDepends[p]
           b == BuildDepends[p]
<1>1. r \in Seq(Pkg) /\ b \in Seq(Pkg) /\ Depends[p] = r \o b
  BY RootfsAssumption DEF Depends
<1> HIDE DEF r, b
<1>2. /\ Len(r) \in Nat /\ DOMAIN r = 1 .. Len(r)
      /\ Len(b) \in Nat /\ DOMAIN b = 1 .. Len(b)
      /\ DOMAIN (r \o b) = 1 .. (Len(r) + Len(b))
      /\ \A i \in 1 .. (Len(r) + Len(b)) :
             (r \o b)[i] = IF i <= Len(r) THEN r[i] ELSE b[i - Len(r)]
      /\ \A i \in 1 .. Len(r) : r[i] \in Pkg
      /\ \A i \in 1 .. Len(b) : b[i] \in Pkg
  BY <1>1
<1>3. Elems(r) \subseteq Elems(r \o b)
  <2> SUFFICES ASSUME NEW i \in DOMAIN r PROVE r[i] \in Elems(r \o b)
    BY DEF Elems
  <2>1. i \in 1 .. (Len(r) + Len(b)) /\ (r \o b)[i] = r[i]
    BY <1>2
  <2>2. QED  BY <1>2, <2>1 DEF Elems
<1>4. Elems(b) \subseteq Elems(r \o b)
  <2> SUFFICES ASSUME NEW i \in DOMAIN b PROVE b[i] \in Elems(r \o b)
    BY DEF Elems
  <2>1. PICK k \in 1 .. (Len(r) + Len(b)) : k = i + Len(r)
    BY <1>2
  <2>2. ~(k <= Len(r)) /\ k - Len(r) = i
    BY <1>2, <2>1
  <2>3. (r \o b)[k] = b[i]
    BY <1>2, <2>2
  <2>4. QED  BY <1>2, <2>1, <2>3 DEF Elems
<1>5. Elems(r \o b) \subseteq Elems(r) \cup Elems(b)
  <2> SUFFICES ASSUME NEW i \in 1 .. (Len(r) + Len(b))
               PROVE  (r \o b)[i] \in Elems(r) \cup Elems(b)
    BY <1>2 DEF Elems
  <2>1. CASE i <= Len(r)
    <3>1. i \in DOMAIN r /\ (r \o b)[i] = r[i]
      BY <1>2, <2>1
    <3>2. QED  BY <3>1 DEF Elems
  <2>2. CASE ~(i <= Len(r))
    <3>1. i - Len(r) \in DOMAIN b /\ (r \o b)[i] = b[i - Len(r)]
      BY <1>2, <2>2
    <3>2. QED  BY <3>1 DEF Elems
  <2>3. QED  BY <2>1, <2>2
<1>6. Elems(r) \subseteq Pkg /\ Elems(b) \subseteq Pkg
  BY <1>2 DEF Elems
<1>7. QED  BY <1>1, <1>3, <1>4, <1>5, <1>6 DEF r, b

\* No package needs itself: who uses a package is another one than what that
\* package depends on.
LEMMA NeverItself ==
    ASSUME NEW p \in Pkg, NEW q \in Elems(Depends[p]), NEW c \in Users(p, Depends)
    PROVE  c \in Users(q, Depends) /\ c # q
<1>1. c \in Users(q, Depends)
  BY UsersDownward
<1>2. ASSUME c = q PROVE FALSE
  <2>q. q \in Pkg /\ q \in Users(p, Depends)
    BY <1>2 DEF Users
  <2> DEFINE S == {r \in Users(p, Depends) : q \in Users(r, Depends)}
  <2>1. S \in SUBSET Pkg /\ S # {}
    BY <2>q, UsersSelf DEF Users
  <2>2. ASSUME NEW r \in S PROVE Elems(Depends[r]) \cap S # {}
    <3>0. r \in Pkg /\ r \in Users(p, Depends) /\ q \in Users(r, Depends)
      BY <2>1
    <3>1. CASE r = p
      BY <3>1, <2>q, UsersSelf
    <3>2. CASE r # p
      <4>1. PICK d \in Elems(Depends[r]) : d \in Users(p, Depends)
        BY <3>0, <3>2, UsersSplit
      <4>2. q \in Users(d, Depends)
        BY <3>0, <4>1, UsersDownward
      <4>3. QED  BY <4>1, <4>2
    <3>3. QED  BY <3>1, <3>2
  <2> HIDE DEF S
  <2>3. PICK r \in S : (Elems(RunDepends[r]) \cup Elems(BuildDepends[r])) \cap S = {}
    BY <2>1, AcyclicAssumption
  <2>4. r \in Pkg
    BY <2>1, <2>3
  <2>5. QED  BY <2>2, <2>3, <2>4, DependsElems
<1>3. QED  BY <1>1, <1>2

\* Frame c waits for the script of frame f.
Calls(c, f) ==
    \/ c.op = "build" /\ c.at = "depends" /\ f.op = "build"
         /\ f.pkg \in Elems(BuildDepends[c.pkg])
    \/ c.op = "package" /\ c.at = "check" /\ f.op = "build" /\ f.pkg = c.pkg
    \/ c.op = "package" /\ c.at = "depends" /\ f.op = "package"
         /\ f.pkg \in Elems(RunDepends[c.pkg])
    \/ c.op = "install" /\ c.at = "depends" /\ f.op = "package" /\ f.pkg = c.pkg
    \/ c.op = "install" /\ c.at = "depends" /\ f.op = "install"
         /\ f.pkg \in Elems(RunDepends[c.pkg])

\* Every frame waits for the one above it.
Called == \A j \in DOMAIN stack : j # 1 => Calls(stack[j], stack[j - 1])

\* Frame j is in the loop over the dependencies of its package.
Looping(j) == stack[j].at = "depends" /\ stack[j].op = stack[j - 1].op

\* The package of a frame uses those of the frames above, which are others
\* once it is in its loop.  Only install calls install.
Ordered == \A i, j \in DOMAIN stack : i < j =>
    /\ stack[j].pkg \in Users(stack[i].pkg, Depends)
    /\ Looping(j) => stack[j].pkg # stack[i].pkg
    /\ stack[i].op = "install" => stack[j].op = "install"

\* When the script on top goes on.
LEMMA OrderGoto ==
    ASSUME stack \in Seq(Frames), stack # <<>>, Called, Ordered,
           NEW l \in Labels, NEW todo \in Seq(Pkg), Goto(l, todo)
    PROVE  Called' /\ Ordered'
<1>1. /\ DOMAIN stack' = DOMAIN stack
      /\ stack'[1].op = stack[1].op /\ stack'[1].pkg = stack[1].pkg
      /\ \A j \in DOMAIN stack : j # 1 => stack'[j] = stack[j]
  BY GotoShape
<1>t. \A j \in DOMAIN stack : /\ j \in Nat \ {0}
                              /\ j # 1 => j - 1 \in DOMAIN stack
  BY TopShape
<1>2. \A j \in DOMAIN stack : /\ stack'[j].op = stack[j].op
                              /\ stack'[j].pkg = stack[j].pkg
  BY <1>1
<1>3. Called'
  <2> SUFFICES ASSUME NEW j \in DOMAIN stack', j # 1
               PROVE  Calls(stack'[j], stack'[j - 1])
    BY DEF Called, Calls
  <2>1. /\ j \in DOMAIN stack /\ stack'[j] = stack[j]
        /\ stack'[j - 1].op = stack[j - 1].op
        /\ stack'[j - 1].pkg = stack[j - 1].pkg
        /\ Calls(stack[j], stack[j - 1])
    BY <1>1, <1>2, <1>t DEF Called
  <2>2. QED  BY <2>1 DEF Calls
<1>4. Ordered'
  <2> SUFFICES ASSUME NEW i \in DOMAIN stack', NEW j \in DOMAIN stack', i < j
               PROVE  /\ stack'[j].pkg \in Users(stack'[i].pkg, Depends)
                      /\ Looping(j)' => stack'[j].pkg # stack'[i].pkg
                      /\ stack'[i].op = "install" => stack'[j].op = "install"
    BY DEF Ordered, Users
  <2>1. i \in DOMAIN stack /\ j \in DOMAIN stack /\ j # 1
    BY <1>1, <1>t
  <2>2. Looping(j)' => Looping(j)
    BY <2>1, <1>1, <1>2, <1>t DEF Looping
  <2>3. QED  BY <2>1, <2>2, <1>2 DEF Ordered
<1>5. QED  BY <1>3, <1>4

\* When it calls another script, for its own package or one it depends on.
LEMMA OrderCall ==
    ASSUME stack \in Seq(Frames), stack # <<>>, Called, Ordered,
           NEW op \in Ops, NEW q \in Pkg,
           NEW l \in Labels, NEW todo \in Seq(Pkg), Call(op, q, l, todo),
           Calls(stack'[2], stack'[1])
    PROVE  Called' /\ Ordered'
<1> DEFINE p == stack[1].pkg
<1>t. /\ Len(stack) \in Nat \ {0} /\ DOMAIN stack = 1 .. Len(stack)
      /\ p \in Pkg /\ 1 \in DOMAIN stack
  <2>1. /\ Len(stack) \in Nat \ {0} /\ DOMAIN stack = 1 .. Len(stack)
        /\ stack[1] = Head(stack)
    BY TopShape
  <2>2. stack[1].pkg \in Pkg
    BY <2>1, TopType DEF Frames
  <2>3. QED  BY <2>1, <2>2
<1>1. /\ DOMAIN stack' = 1 .. (Len(stack) + 1)
      /\ stack'[1] = Frame(op, q)
      /\ stack'[2].op = stack[1].op /\ stack'[2].pkg = p
      /\ stack'[2].at = l
      /\ \A j \in DOMAIN stack' : j \notin {1, 2} =>
           /\ j - 1 \in DOMAIN stack /\ j - 1 # 1
           /\ stack'[j] = stack[j - 1]
  BY CallShape
<1>c. stack'[1].op = op /\ stack'[1].pkg = q
  BY <1>1 DEF Frame
<1>q. \/ q = p /\ op # stack[1].op
      \/ q \in Elems(Depends[p])
  BY <1>1, <1>c, <1>t, DependsElems DEF Calls
<1>n. op = "install" => stack[1].op = "install"
  BY <1>1, <1>c DEF Calls
<1> HIDE DEF p
<1>2. ASSUME NEW j \in DOMAIN stack', j \notin {1, 2}
      PROVE  /\ j - 1 \in DOMAIN stack /\ j - 1 # 1
             /\ stack'[j] = stack[j - 1]
             /\ stack'[j - 1].op = stack[j - 2].op
             /\ stack'[j - 1].pkg = stack[j - 2].pkg
  <2>1. j - 1 \in DOMAIN stack /\ j - 1 # 1 /\ stack'[j] = stack[j - 1]
    BY <1>1, <1>2
  <2>2. CASE j - 1 = 2
    <3>1. j - 2 = 1
      BY <2>2, <1>1, <1>t
    <3>2. QED  BY <2>1, <2>2, <3>1, <1>1 DEF p
  <2>3. CASE j - 1 # 2
    <3>1. j - 1 \in DOMAIN stack' /\ j - 1 \notin {1, 2} /\ (j - 1) - 1 = j - 2
      BY <2>1, <2>3, <1>1, <1>t
    <3>2. stack'[j - 1] = stack[j - 2]
      BY <3>1, <1>1
    <3>3. QED  BY <2>1, <3>2
  <2>4. QED  BY <2>2, <2>3
<1>3. \A j \in DOMAIN stack' : j \in Nat \ {0} /\ (j - 1) - 1 = j - 2
  BY <1>1, <1>t
<1>4. Called'
  <2> SUFFICES ASSUME NEW j \in DOMAIN stack', j # 1
               PROVE  Calls(stack'[j], stack'[j - 1])
    BY DEF Called, Calls
  <2>1. CASE j = 2
    BY <2>1
  <2>2. CASE j # 2
    <3>1. Calls(stack[j - 1], stack[j - 2])
      BY <1>2, <1>3, <2>2 DEF Called
    <3>2. QED  BY <1>2, <2>2, <3>1 DEF Calls
  <2>3. QED  BY <2>1, <2>2
<1>5. Ordered'
  <2> SUFFICES ASSUME NEW i \in DOMAIN stack', NEW j \in DOMAIN stack', i < j
               PROVE  /\ stack'[j].pkg \in Users(stack'[i].pkg, Depends)
                      /\ Looping(j)' => stack'[j].pkg # stack'[i].pkg
                      /\ stack'[i].op = "install" => stack'[j].op = "install"
    BY DEF Ordered, Users
  <2>1. CASE j = 2
    <3>1. i = 1
      BY <2>1, <1>3
    <3>2. p \in Users(p, Depends)
      BY <1>t, UsersSelf
    <3>3. CASE q = p /\ op # stack[1].op
      <4>1. ~Looping(j)'
        BY <2>1, <3>3, <1>1, <1>c DEF Looping
      <4>2. QED  BY <2>1, <3>1, <3>2, <3>3, <4>1, <1>1, <1>c, <1>n
    <3>4. CASE q \in Elems(Depends[p])
      <4>1. p \in Users(q, Depends) /\ p # q
        BY <3>2, <3>4, <1>t, NeverItself
      <4>2. QED  BY <2>1, <3>1, <4>1, <1>1, <1>c, <1>n
    <3>5. QED  BY <3>3, <3>4, <1>q
  <2>2. CASE j # 2
    <3>j. j \notin {1, 2} /\ 1 < j - 1
      <4>1. i \in Nat \ {0} /\ j \in Nat
        BY <1>3
      <4>2. QED  BY <2>2, <4>1
    <3>c. PICK m \in DOMAIN stack : m = j - 1
      BY <3>j, <1>2
    <3>l. /\ stack'[j] = stack[m] /\ (Looping(j)' => Looping(m))
          /\ 1 < m
      BY <3>c, <3>j, <1>2, <1>3 DEF Looping
    <3>1. CASE i = 1
      <4>1. /\ stack[m].pkg \in Users(p, Depends)
            /\ Looping(m) => stack[m].pkg # p
            /\ stack[1].op = "install" => stack[m].op = "install"
        BY <3>l, <1>t DEF Ordered, p
      <4>2. CASE q = p
        BY <3>1, <3>l, <4>1, <4>2, <1>c, <1>n
      <4>3. CASE q \in Elems(Depends[p])
        <5>1. stack[m].pkg \in Users(q, Depends) /\ stack[m].pkg # q
          BY <4>1, <4>3, <1>t, NeverItself
        <5>2. QED  BY <3>1, <3>l, <4>1, <5>1, <1>c, <1>n
      <4>4. QED  BY <4>2, <4>3, <1>q
    <3>2. CASE i = 2
      <4>1. /\ stack[m].pkg \in Users(p, Depends)
            /\ Looping(m) => stack[m].pkg # p
            /\ stack[1].op = "install" => stack[m].op = "install"
        BY <3>l, <1>t DEF Ordered, p
      <4>2. QED  BY <3>2, <3>l, <4>1, <1>1
    <3>3. CASE i \notin {1, 2}
      <4>1. PICK k \in DOMAIN stack : k = i - 1
        BY <3>3, <1>2
      <4>2. k < m
        BY <4>1, <3>c, <1>3
      <4>3. stack'[i] = stack[k]
        BY <4>1, <3>3, <1>2
      <4>4. QED  BY <4>2, <4>3, <3>l DEF Ordered
    <3>4. QED  BY <3>1, <3>2, <3>3
  <2>3. QED  BY <2>1, <2>2
<1>6. QED  BY <1>4, <1>5

\* When it ends.
LEMMA OrderReturn ==
    ASSUME stack \in Seq(Frames), stack # <<>>, Called, Ordered, Return
    PROVE  Called' /\ Ordered'
<1>1. \A j \in DOMAIN stack' :
          /\ j \in Nat \ {0} /\ j + 1 \in DOMAIN stack
          /\ stack'[j] = stack[j + 1]
  BY ReturnShape
<1>2. DOMAIN stack' = 1 .. Len(stack') /\ Len(stack') \in Nat
  BY TopType, LenProperties DEF Return
<1>3. ASSUME NEW j \in DOMAIN stack', j # 1
      PROVE  /\ j + 1 \in DOMAIN stack /\ j + 1 # 1
             /\ (j + 1) - 1 = j
             /\ stack'[j] = stack[j + 1] /\ stack'[j - 1] = stack[j]
  <2>1. j - 1 \in DOMAIN stack' /\ (j - 1) + 1 = j
    BY <1>1, <1>2, <1>3
  <2>2. stack'[j - 1] = stack[j]
    BY <1>1, <2>1
  <2>3. QED  BY <1>1, <1>3, <2>2
<1>4. Called'
  <2> SUFFICES ASSUME NEW j \in DOMAIN stack', j # 1
               PROVE  Calls(stack'[j], stack'[j - 1])
    BY DEF Called, Calls
  <2>1. Calls(stack[j + 1], stack[j])
    BY <1>3 DEF Called
  <2>2. QED  BY <1>3, <2>1
<1>5. Ordered'
  <2> SUFFICES ASSUME NEW i \in DOMAIN stack', NEW j \in DOMAIN stack', i < j
               PROVE  /\ stack'[j].pkg \in Users(stack'[i].pkg, Depends)
                      /\ Looping(j)' => stack'[j].pkg # stack'[i].pkg
                      /\ stack'[i].op = "install" => stack'[j].op = "install"
    BY DEF Ordered, Users
  <2>1. PICK k \in DOMAIN stack : k = i + 1
    BY <1>1
  <2>2. PICK m \in DOMAIN stack : m = j + 1
    BY <1>1
  <2>3. j # 1 /\ k < m
    BY <2>1, <2>2, <1>1
  <2>4. stack'[i] = stack[k] /\ stack'[j] = stack[m]
    BY <2>1, <2>2, <1>1
  <2>5. Looping(j)' => Looping(m)
    BY <2>2, <2>3, <2>4, <1>3 DEF Looping
  <2>6. QED  BY <2>3, <2>4, <2>5 DEF Ordered
<1>6. QED  BY <1>4, <1>5

----------------------------------------------------------------------------
\* What a script can count on

\* p is built, by its present rule.
Made(p) == p \in built /\ Unpacked(p) /\ <<"build", p>> \notin newer

\* The dependencies that are the loop of a frame.
LoopOf(c) == IF c.op = "build" THEN BuildDepends[c.pkg] ELSE RunDepends[c.pkg]

\* What frame j can count on where it is: build builds what has no stamp,
\* package what is built and has no archive, install what is not installed and
\* has an archive, once the package that it calls has ended.
Fits(j) ==
    LET c == stack[j] IN
    /\ Elems(c.todo) \subseteq Elems(LoopOf(c))
    /\ c.op = "build" /\ c.at # "start" => c.pkg \notin built /\ Unpacked(c.pkg)
    /\ c.op = "package" =>
         /\ c.at = "check" /\ j = 1 => Made(c.pkg)
         /\ c.at \in {"depends", "rule"} => Made(c.pkg) /\ c.pkg \notin archived
    /\ c.op = "install" /\ c.at # "start" =>
         /\ c.pkg \notin installed
         /\ j = 1 \/ stack[j - 1].op = "install" => Ready(c.pkg)

\* Every frame can count on it.
Fit == \A j \in DOMAIN stack : Fits(j)

\* What has an archive is built, and nothing is newer than a file that is not
\* there.
Files ==
    /\ archived \subseteq built
    /\ \A p \in Pkg :
         /\ <<"build", p>> \in newer => p \in built
         /\ \A f \in {"stamp", "install"} : <<f, p>> \in newer => p \in archived
         /\ \A f \in {"control", "rule", "archive"} :
                <<f, p>> \in newer => p \in installed

\* The inductive invariant of the call stack.
InOrder == Called /\ Ordered /\ Fit /\ Files

\* A step leaves the files of c alone; it may remove c from the target.
Spared(c) ==
    /\ c \in built <=> c \in built'
    /\ c \in unpacked => c \in unpacked'
    /\ c \in archived <=> c \in archived'
    /\ c \in installed' => c \in installed
    /\ \A f \in {"build", "stamp", "install"} : <<f, c>> \in newer' => <<f, c>> \in newer

\* A step leaves what the waiting frame j can count on.
Undisturbed(j) ==
    LET c == stack[j] IN
    /\ Looping(j) => Spared(c.pkg)
    /\ c.op = "install" /\ c.pkg \notin installed => c.pkg \notin installed'

\* A step that touches the package on top alone disturbs nobody.
LEMMA TouchesTop ==
    ASSUME stack \in Seq(Frames), stack # <<>>, Called, Ordered,
           \A c \in Pkg : c # stack[1].pkg => Spared(c),
           stack[1].pkg \in installed' \ installed => stack[1].op = "install"
    PROVE  \A j \in DOMAIN stack : j # 1 => Undisturbed(j)
<1> SUFFICES ASSUME NEW j \in DOMAIN stack, j # 1
             PROVE  Undisturbed(j)
  OBVIOUS
<1>1. /\ DOMAIN stack = 1 .. Len(stack) /\ Len(stack) \in Nat
      /\ stack[j] \in Frames
  BY TopShape
<1>2. j \in Nat /\ 1 < j /\ 1 \in DOMAIN stack /\ stack[j].pkg \in Pkg
  BY <1>1 DEF Frames
<1>3. /\ Looping(j) => stack[j].pkg # stack[1].pkg
      /\ stack[1].op = "install" => stack[j].op = "install"
  BY <1>2 DEF Ordered
<1>4. Looping(j) => Spared(stack[j].pkg)
  BY <1>2, <1>3
<1>5. ASSUME stack[j].op = "install", stack[j].pkg \notin installed,
             stack[j].pkg \in installed'
      PROVE  FALSE
  <2>1. stack[j].pkg = stack[1].pkg
    BY <1>2, <1>5 DEF Spared
  <2>2. stack[1].op = "install"
    BY <1>5, <2>1
  <2>3. stack[j - 1].op = "install"
    <3>1. CASE j = 2
      BY <2>2, <3>1
    <3>2. CASE j # 2
      <4>1. PICK m \in DOMAIN stack : m = j - 1
        BY <1>1, <1>2
      <4>2. 1 < m
        BY <1>2, <3>2, <4>1
      <4>3. stack[m].op = "install"
        BY <1>2, <2>2, <4>2 DEF Ordered
      <4>4. QED  BY <4>1, <4>3
    <3>3. QED  BY <3>1, <3>2
  <2>4. stack[j].at = "depends"
    BY <1>5 DEF Called, Calls
  <2>5. Looping(j)
    BY <1>5, <2>3, <2>4 DEF Looping
  <2>6. QED  BY <1>3, <2>1, <2>5
<1>6. QED  BY <1>4, <1>5 DEF Undisturbed

\* A script that waits and is left alone can count on what it could.
LEMMA FitsKept ==
    ASSUME Called, NEW j \in DOMAIN stack, j # 1, Fits(j), Undisturbed(j),
           NEW k \in DOMAIN stack', k # 1,
           stack'[k] = stack[j], stack'[k - 1].op = stack[j - 1].op
    PROVE  Fits(k)'
<1>1. Calls(stack[j], stack[j - 1])
  BY DEF Called
<1>2. CASE stack[j].op = "build"
  <2>1. Looping(j)
    BY <1>1, <1>2 DEF Calls, Looping
  <2>2. QED  BY <1>2, <2>1 DEF Fits, Undisturbed, Spared, Unpacked, LoopOf
<1>3. CASE stack[j].op = "package"
  <2>1. Looping(j) \/ stack[j].at = "check"
    BY <1>1, <1>3 DEF Calls, Looping
  <2>2. QED  BY <1>3, <2>1 DEF Fits, Undisturbed, Spared, Made, Unpacked, LoopOf
<1>4. CASE stack[j].op = "install"
  <2>1. stack[j].at = "depends" /\ stack[j].pkg \notin installed
    BY <1>1, <1>4 DEF Calls, Fits
  <2>2. stack[j - 1].op = "install" => Looping(j) /\ Ready(stack[j].pkg)
    BY <1>4, <2>1 DEF Fits, Looping
  <2>3. QED
    BY <1>4, <2>1, <2>2 DEF Fits, Undisturbed, Spared, Ready, Unpacked, LoopOf
<1>5. QED  BY <1>1, <1>2, <1>3, <1>4 DEF Calls

\* All that is said of the frames, when the script on top goes on,
LEMMA FitGoto ==
    ASSUME stack \in Seq(Frames), stack # <<>>, Called, Ordered, Fit,
           NEW l \in Labels, NEW todo \in Seq(Pkg), Goto(l, todo),
           \A j \in DOMAIN stack : j # 1 => Undisturbed(j),
           Fits(1)'
    PROVE  Called' /\ Ordered' /\ Fit'
<1>1. /\ DOMAIN stack' = DOMAIN stack
      /\ stack'[1].op = stack[1].op /\ stack'[1].pkg = stack[1].pkg
      /\ \A j \in DOMAIN stack : j # 1 => stack'[j] = stack[j]
  BY GotoShape
<1>t. \A j \in DOMAIN stack : j # 1 => j - 1 \in DOMAIN stack
  BY TopShape
<1>2. \A j \in DOMAIN stack : stack'[j].op = stack[j].op
  BY <1>1
<1>3. ASSUME NEW j \in DOMAIN stack' PROVE Fits(j)'
  <2>1. CASE j = 1
    BY <2>1
  <2>2. CASE j # 1
    <3>1. j \in DOMAIN stack /\ stack'[j] = stack[j] /\ Fits(j) /\ Undisturbed(j)
      BY <1>1, <2>2 DEF Fit
    <3>2. stack'[j - 1].op = stack[j - 1].op
      BY <1>2, <1>t, <2>2, <3>1
    <3>3. QED  BY <2>2, <3>1, <3>2, FitsKept
  <2>3. QED  BY <2>1, <2>2
<1>4. QED  BY <1>3, OrderGoto DEF Fit

\* when it calls another,
LEMMA FitCall ==
    ASSUME stack \in Seq(Frames), stack # <<>>, Called, Ordered, Fit,
           NEW op \in Ops, NEW q \in Pkg,
           NEW l \in Labels, NEW todo \in Seq(Pkg), Call(op, q, l, todo),
           \A j \in DOMAIN stack : j # 1 => Undisturbed(j),
           Calls(stack'[2], stack'[1]), Fits(2)'
    PROVE  Called' /\ Ordered' /\ Fit'
<1>t. Len(stack) \in Nat \ {0} /\ DOMAIN stack = 1 .. Len(stack)
  BY TopShape
<1>1. /\ DOMAIN stack' = 1 .. (Len(stack) + 1)
      /\ stack'[1] = Frame(op, q)
      /\ stack'[2].op = stack[1].op
      /\ \A j \in DOMAIN stack' : j \notin {1, 2} =>
           /\ j - 1 \in DOMAIN stack /\ j - 1 # 1
           /\ stack'[j] = stack[j - 1]
  BY CallShape
<1>2. ASSUME NEW j \in DOMAIN stack', j \notin {1, 2}
      PROVE  stack'[j - 1].op = stack[(j - 1) - 1].op
  <2>1. j - 1 \in DOMAIN stack /\ j - 1 # 1
    BY <1>1, <1>2
  <2>2. CASE j - 1 = 2
    <3>1. (j - 1) - 1 = 1
      BY <2>2
    <3>2. QED  BY <2>2, <3>1, <1>1
  <2>3. CASE j - 1 # 2
    <3>1. j - 1 \in DOMAIN stack' /\ j - 1 \notin {1, 2}
      BY <2>1, <2>3, <1>1, <1>t
    <3>2. QED  BY <3>1, <1>1
  <2>4. QED  BY <2>2, <2>3
<1>3. ASSUME NEW j \in DOMAIN stack' PROVE Fits(j)'
  <2>1. CASE j = 1
    <3>1. stack'[1].at = "start" /\ Elems(stack'[1].todo) = {}
      BY <1>1 DEF Frame, Elems
    <3>2. QED  BY <2>1, <3>1 DEF Fits
  <2>2. CASE j = 2
    BY <2>2
  <2>3. CASE j \notin {1, 2}
    <3>1. PICK i \in DOMAIN stack : i = j - 1
      BY <1>1, <2>3
    <3>2. i # 1 /\ stack'[j] = stack[i] /\ Fits(i) /\ Undisturbed(i)
      BY <1>1, <2>3, <3>1 DEF Fit
    <3>3. stack'[j - 1].op = stack[i - 1].op
      BY <1>2, <2>3, <3>1
    <3>4. QED  BY <2>3, <3>2, <3>3, FitsKept
  <2>4. QED  BY <2>1, <2>2, <2>3
<1>4. QED  BY <1>3, OrderCall DEF Fit

\* and when it ends: build has built its package, package has its archive.
LEMMA FitReturn ==
    ASSUME stack \in Seq(Frames), stack # <<>>, Called, Ordered, Fit, Return,
           \A j \in DOMAIN stack : j # 1 => Undisturbed(j),
           NEW p \in Pkg, stack[1].pkg = p,
           stack[1].op = "build" => Made(p)',
           stack[1].op = "package" => Ready(p)'
    PROVE  Called' /\ Ordered' /\ Fit'
<1>1. \A j \in DOMAIN stack' :
          /\ j \in Nat \ {0} /\ j + 1 \in DOMAIN stack
          /\ stack'[j] = stack[j + 1]
  BY ReturnShape
<1>2. DOMAIN stack' = 1 .. Len(stack') /\ Len(stack') \in Nat
  BY TopType, LenProperties DEF Return
<1>3. ASSUME 1 \in DOMAIN stack' PROVE Fits(1)'
  <2>1. 2 \in DOMAIN stack /\ stack'[1] = stack[2]
    BY <1>1, <1>3
  <2>c. \A j \in DOMAIN stack : j = 2 => Calls(stack[j], stack[1])
    <3> SUFFICES ASSUME NEW j \in DOMAIN stack, j = 2
                 PROVE  Calls(stack[j], stack[1])
      OBVIOUS
    <3>1. j # 1 /\ j - 1 = 1
      OBVIOUS
    <3>2. Calls(stack[j], stack[j - 1])
      BY <3>1 DEF Called
    <3>3. QED  BY <3>1, <3>2
  <2>2. Calls(stack[2], stack[1]) /\ Fits(2) /\ Undisturbed(2)
    BY <2>1, <2>c DEF Fit
  <2>3. CASE stack[2].op = stack[1].op
    <3>1. Looping(2) /\ stack[2].at = "depends"
      BY <2>2, <2>3 DEF Calls, Looping
    <3>2. QED
      BY <2>1, <2>2, <2>3, <3>1
         DEF Fits, Undisturbed, Spared, Made, Ready, Unpacked, LoopOf
  <2>4. CASE stack[2].op # stack[1].op
    <3>1. \/ stack[2].op = "package" /\ stack[2].at = "check" /\ stack[1].op = "build"
          \/ stack[2].op = "install" /\ stack[2].at = "depends" /\ stack[1].op = "package"
      BY <2>2, <2>4 DEF Calls
    <3>2. stack[2].pkg = p
      BY <2>2, <2>4 DEF Calls
    <3>3. stack[2].op = "install" => p \notin installed'
      BY <2>2, <3>1, <3>2 DEF Fits, Undisturbed
    <3>4. QED  BY <2>1, <2>2, <3>1, <3>2, <3>3 DEF Fits, LoopOf
  <2>5. QED  BY <2>3, <2>4
<1>4. ASSUME NEW j \in DOMAIN stack' PROVE Fits(j)'
  <2>1. CASE j = 1
    BY <1>3, <1>4, <2>1
  <2>2. CASE j # 1
    <3>1. PICK i \in DOMAIN stack : i = j + 1
      BY <1>1
    <3>2. j - 1 \in DOMAIN stack' /\ (j - 1) + 1 = j /\ i - 1 = j /\ i # 1
      BY <1>1, <1>2, <2>2, <3>1
    <3>3. stack'[j] = stack[i] /\ stack'[j - 1] = stack[i - 1]
      BY <1>1, <3>1, <3>2
    <3>4. Fits(i) /\ Undisturbed(i)
      BY <3>2 DEF Fit
    <3>5. QED  BY <2>2, <3>2, <3>3, <3>4, FitsKept
  <2>3. QED  BY <2>1, <2>2
<1>5. QED  BY <1>4, OrderReturn DEF Fit

\* Nothing that is kept is newer than a file that is not there.
LEMMA KeptFiles ==
    ASSUME NEW n, newer' = Kept(n), archived' \subseteq built'
    PROVE  Files'
<1> SUFFICES ASSUME NEW p \in Pkg
             PROVE  /\ <<"build", p>> \in newer' => p \in built'
                    /\ \A f \in {"stamp", "install"} :
                           <<f, p>> \in newer' => p \in archived'
                    /\ \A f \in {"control", "rule", "archive"} :
                           <<f, p>> \in newer' => p \in installed'
  BY DEF Files
<1>1. \A e \in newer' : /\ e[1] = "build" => e[2] \in built'
                        /\ e[1] \in {"stamp", "install"} => e[2] \in archived'
                        /\ e[1] \in {"control", "rule", "archive"} => e[2] \in installed'
  BY DEF Kept
<1>2. \A f : <<f, p>>[1] = f /\ <<f, p>>[2] = p
  OBVIOUS
<1>3. QED  BY <1>1, <1>2

\* What a build leaves when it starts.
LEMMA BuildStartFiles ==
    ASSUME NEW p \in Pkg, BuildStart(p), Files, installed \subseteq Pkg
    PROVE  /\ \A c \in Pkg : c # p => Spared(c)
           /\ installed' \subseteq installed
           /\ archived' \subseteq built'
           /\ Unpacked(p)'
           /\ p \in built' => Made(p)'
<1> DEFINE unpack == p \in HasSources \ unpacked
           again == ~unpack /\ p \in built /\ <<"build", p>> \in newer
<1>1. /\ unpacked' = IF unpack THEN unpacked \cup {p} ELSE unpacked
      /\ built' = IF unpack \/ again THEN built \ {p} ELSE built
      /\ archived' = IF unpack \/ again THEN archived \ {p} ELSE archived
      /\ newer' = Kept(newer)
  BY DEF BuildStart
<1>2. installed' \subseteq installed
  BY WithoutType, UnpackageType DEF BuildStart
<1>3. newer' \subseteq newer
  BY <1>1, KeptType
<1>4. \A c \in Pkg : c # p => Spared(c)
  BY <1>1, <1>2, <1>3 DEF Spared
<1>5. archived' \subseteq built'
  BY <1>1 DEF Files
<1>6. Unpacked(p)'
  BY <1>1 DEF Unpacked
<1>7. p \in built' => <<"build", p>> \notin newer'
  BY <1>1, <1>3
<1>8. QED  BY <1>2, <1>4, <1>5, <1>6, <1>7 DEF Made

\* Every step of a script keeps the order.
LEMMA OrderStep ==
    ASSUME TypeOK, InOrder, NEW p \in Pkg, Step(p)
    PROVE  InOrder'
<1>i. Called /\ Ordered /\ Fit /\ Files /\ installed \subseteq Pkg
  BY DEF InOrder, TypeOK
<1>s. stack \in Seq(Frames) /\ stack # <<>> /\ Head(stack).pkg = p
  BY DEF TypeOK, Step, BuildStart, BuildInstalldev, BuildRule, PackageStart,
         PackageCheck, PackageDepends, PackageRule, InstallStart,
         InstallDepends, InstallOpkg, InstallRefused, At
<1>1. /\ 1 \in DOMAIN stack /\ stack[1] = Head(stack) /\ stack[1].pkg = p
      /\ Todo = stack[1].todo /\ Todo \in Seq(Pkg) /\ stack[1].at \in Labels
  <2>1. 1 \in DOMAIN stack /\ stack[1] = Head(stack)
    BY <1>s, TopShape
  <2>2. Head(stack).at \in Labels
    BY <1>s, TopType DEF Frames
  <2>3. QED  BY <1>s, <2>1, <2>2, TopType DEF Todo
<1>f. Fits(1)
  BY <1>i, <1>1 DEF Fit
<1>d. /\ BuildDepends[p] \in Seq(Pkg) /\ RunDepends[p] \in Seq(Pkg)
      /\ <<>> \in Seq(Pkg) /\ Elems(<<>>) = {}
  BY RootfsAssumption DEF Elems
<1>l. /\ {"start", "check", "rule", "depends", "opkg"} \subseteq Labels
      /\ {"build", "package", "install"} \subseteq Ops
  BY DEF Labels, Ops
<1>o. ASSUME \A c \in Pkg : c # p => Spared(c),
             p \in installed' \ installed => stack[1].op = "install"
      PROVE  \A j \in DOMAIN stack : j # 1 => Undisturbed(j)
  BY <1>o, <1>i, <1>s, <1>1, TouchesTop
<1>u. ASSUME UNCHANGED files
      PROVE  /\ \A j \in DOMAIN stack : j # 1 => Undisturbed(j)
             /\ Files'
  <2>1. \A c \in Pkg : Spared(c)
    BY <1>u DEF files, Spared
  <2>2. Files'
    BY <1>u, <1>i DEF files, Files
  <2>3. QED  BY <1>u, <1>o, <2>1, <2>2 DEF files
<1>g. ASSUME NEW l \in Labels, NEW todo \in Seq(Pkg), Goto(l, todo)
      PROVE  /\ stack'[1].op = stack[1].op /\ stack'[1].pkg = p
             /\ stack'[1].at = l /\ stack'[1].todo = todo
  BY <1>g, <1>s, <1>1, GotoShape
<1>k. ASSUME NEW op \in Ops, NEW q \in Pkg, NEW l \in Labels,
             NEW todo \in Seq(Pkg), Call(op, q, l, todo)
      PROVE  /\ stack'[1].op = op /\ stack'[1].pkg = q
             /\ stack'[2].op = stack[1].op /\ stack'[2].pkg = p
             /\ stack'[2].at = l /\ stack'[2].todo = todo
  <2>1. stack'[1] = Frame(op, q)
    BY <1>k, <1>s, CallShape
  <2>2. QED  BY <2>1, <1>k, <1>s, <1>1, CallShape DEF Frame
<1>t. ASSUME Todo # <<>>
      PROVE  /\ Head(Todo) \in Pkg /\ Tail(Todo) \in Seq(Pkg)
             /\ Head(Todo) \in Elems(LoopOf(stack[1]))
             /\ Elems(Tail(Todo)) \subseteq Elems(LoopOf(stack[1]))
  <2>1. /\ Head(Todo) \in Pkg /\ Tail(Todo) \in Seq(Pkg)
        /\ Head(Todo) \in Elems(Todo)
        /\ Elems(Tail(Todo)) \subseteq Elems(Todo)
    BY <1>t, <1>1, ListElems
  <2>2. Elems(Todo) \subseteq Elems(LoopOf(stack[1]))
    BY <1>1, <1>f DEF Fits
  <2>3. QED  BY <2>1, <2>2
<1>2. CASE BuildStart(p)
  <2>1. /\ \A c \in Pkg : c # p => Spared(c)
        /\ installed' \subseteq installed
        /\ archived' \subseteq built'
        /\ Unpacked(p)'
        /\ p \in built' => Made(p)'
    BY <1>2, <1>i, BuildStartFiles
  <2>2. \A j \in DOMAIN stack : j # 1 => Undisturbed(j)
    BY <2>1, <1>o
  <2>3. Files'
    BY <1>2, <2>1, KeptFiles DEF BuildStart
  <2>4. stack[1].op = "build"
    BY <1>2, <1>1 DEF BuildStart, At
  <2>5. CASE p \in built'
    <3>1. Return
      BY <1>2, <2>5 DEF BuildStart
    <3>2. Called' /\ Ordered' /\ Fit'
      BY <3>1, <2>1, <2>2, <2>4, <2>5, <1>i, <1>s, <1>1, FitReturn
    <3>3. QED  BY <3>2, <2>3 DEF InOrder
  <2>6. CASE p \notin built'
    <3>1. Goto("depends", BuildDepends[p])
      BY <1>2, <2>6 DEF BuildStart
    <3>2. /\ stack'[1].op = "build" /\ stack'[1].pkg = p
          /\ stack'[1].at = "depends" /\ stack'[1].todo = BuildDepends[p]
      BY <3>1, <2>4, <1>g, <1>d, <1>l
    <3>3. Fits(1)'
      BY <3>2, <2>1, <2>6 DEF Fits, LoopOf
    <3>4. Called' /\ Ordered' /\ Fit'
      BY <3>1, <3>3, <2>2, <1>i, <1>s, <1>d, <1>l, FitGoto
    <3>5. QED  BY <3>4, <2>3 DEF InOrder
  <2>7. QED  BY <2>5, <2>6
<1>3. CASE BuildInstalldev(p)
  <2>1. /\ \A j \in DOMAIN stack : j # 1 => Undisturbed(j)
        /\ Files' /\ built' = built /\ unpacked' = unpacked
    BY <1>3, <1>u DEF BuildInstalldev, files
  <2>2. stack[1].op = "build" /\ stack[1].at = "depends" /\ Head(stack).at = "depends"
    BY <1>3, <1>1 DEF BuildInstalldev, At
  <2>3. p \notin built' /\ Unpacked(p)'
    BY <1>f, <1>1, <2>1, <2>2 DEF Fits, Unpacked
  <2>4. ASSUME NEW l \in Labels, NEW todo \in Seq(Pkg), Goto(l, todo),
               Elems(todo) \subseteq Elems(LoopOf(stack[1]))
        PROVE  Called' /\ Ordered' /\ Fit'
    <3>1. Fits(1)'
      BY <2>2, <2>3, <2>4, <1>1, <1>g DEF Fits, LoopOf
    <3>2. QED  BY <3>1, <2>1, <2>4, <1>i, <1>s, FitGoto
  <2>5. CASE Goto("rule", <<>>)
    BY <2>1, <2>4, <2>5, <1>d, <1>l DEF InOrder
  <2>6. CASE Todo # <<>> /\ Goto("depends", Tail(Todo))
    BY <2>1, <2>4, <2>6, <1>t, <1>l DEF InOrder
  <2>7. CASE Todo # <<>> /\ Call("build", Head(Todo), "depends", Tail(Todo))
    <3>1. /\ Head(Todo) \in Pkg /\ Tail(Todo) \in Seq(Pkg)
          /\ Head(Todo) \in Elems(BuildDepends[p])
          /\ Elems(Tail(Todo)) \subseteq Elems(BuildDepends[p])
      BY <2>2, <2>7, <1>1, <1>t DEF LoopOf
    <3>2. /\ stack'[1].op = "build" /\ stack'[1].pkg = Head(Todo)
          /\ stack'[2].op = "build" /\ stack'[2].pkg = p
          /\ stack'[2].at = "depends" /\ stack'[2].todo = Tail(Todo)
      BY <2>2, <2>7, <3>1, <1>k, <1>l
    <3>3. Calls(stack'[2], stack'[1]) /\ Fits(2)'
      BY <2>3, <3>1, <3>2 DEF Calls, Fits, LoopOf
    <3>4. Called' /\ Ordered' /\ Fit'
      BY <2>1, <2>7, <3>1, <3>3, <1>i, <1>s, <1>l, FitCall
    <3>5. QED  BY <2>1, <3>4 DEF InOrder
  <2>8. QED  BY <1>3, <2>2, <2>5, <2>6, <2>7 DEF BuildInstalldev, ForEach
<1>4. CASE BuildRule(p)
  <2>1. /\ stack[1].op = "build" /\ stack[1].at = "rule" /\ Return
        /\ built' = built \cup {p}
        /\ UNCHANGED <<unpacked, archived, installed>>
        /\ newer' = Kept((newer \ {<<"build", p>>}) \cup {<<"stamp", p>>})
    BY <1>4, <1>1 DEF BuildRule, At
  <2>2. \A e \in newer' : \/ e \in newer /\ e # <<"build", p>>
                        \/ e = <<"stamp", p>>
    BY <2>1, KeptType
  <2>3. \A c \in Pkg : c # p => Spared(c)
    BY <2>1, <2>2 DEF Spared
  <2>4. Made(p)'
    BY <2>1, <2>2, <1>f, <1>1 DEF Made, Fits, Unpacked
  <2>5. Files'
    BY <2>1, <1>i, KeptFiles DEF Files
  <2>6. \A j \in DOMAIN stack : j # 1 => Undisturbed(j)
    BY <2>1, <2>3, <1>o
  <2>7. Called' /\ Ordered' /\ Fit'
    BY <2>1, <2>4, <2>6, <1>i, <1>s, <1>1, FitReturn
  <2>8. QED  BY <2>5, <2>7 DEF InOrder
<1>5. CASE PackageStart(p)
  <2>1. /\ \A j \in DOMAIN stack : j # 1 => Undisturbed(j)
        /\ Files'
    BY <1>5, <1>u DEF PackageStart
  <2>2. stack[1].op = "package" /\ Call("build", p, "check", <<>>)
    BY <1>5, <1>1 DEF PackageStart, At
  <2>3. /\ stack'[1].op = "build" /\ stack'[1].pkg = p
        /\ stack'[2].op = "package" /\ stack'[2].pkg = p
        /\ stack'[2].at = "check" /\ stack'[2].todo = <<>>
    BY <2>2, <1>k, <1>d, <1>l
  <2>4. Calls(stack'[2], stack'[1]) /\ Fits(2)'
    BY <2>3, <1>d DEF Calls, Fits
  <2>5. Called' /\ Ordered' /\ Fit'
    BY <2>1, <2>2, <2>4, <1>i, <1>s, <1>d, <1>l, FitCall
  <2>6. QED  BY <2>1, <2>5 DEF InOrder
<1>6. CASE PackageCheck(p)
  <2>1. /\ stack[1].op = "package" /\ stack[1].at = "check" /\ Made(p)
    BY <1>6, <1>1, <1>f DEF PackageCheck, At, Fits
  <2>2. /\ UNCHANGED <<unpacked, built>> /\ newer' = Kept(newer)
        /\ newer' \subseteq newer /\ installed' \subseteq installed
        /\ archived' \in {archived, archived \ {p}}
        /\ IF p \in archived' THEN Return ELSE Goto("depends", RunDepends[p])
    BY <1>6, KeptType, WithoutType DEF PackageCheck
  <2>3. p \in archived' => {<<"install", p>>, <<"stamp", p>>} \cap newer = {}
    BY <1>6 DEF PackageCheck
  <2>4. \A c \in Pkg : c # p => Spared(c)
    BY <2>2 DEF Spared
  <2>5. \A j \in DOMAIN stack : j # 1 => Undisturbed(j)
    BY <2>2, <2>4, <1>o
  <2>6. Files'
    BY <2>2, <1>i, KeptFiles DEF Files
  <2>7. Made(p)'
    BY <2>1, <2>2 DEF Made, Unpacked
  <2>8. CASE p \in archived'
    <3>1. Ready(p)'
      BY <2>2, <2>3, <2>7, <2>8 DEF Ready, Made
    <3>2. Called' /\ Ordered' /\ Fit'
      BY <2>1, <2>2, <2>5, <2>8, <3>1, <1>i, <1>s, <1>1, FitReturn
    <3>3. QED  BY <2>6, <3>2 DEF InOrder
  <2>9. CASE p \notin archived'
    <3>1. /\ stack'[1].op = "package" /\ stack'[1].pkg = p
          /\ stack'[1].at = "depends" /\ stack'[1].todo = RunDepends[p]
      BY <2>1, <2>2, <2>9, <1>g, <1>d, <1>l
    <3>2. Fits(1)'
      BY <2>7, <2>9, <3>1 DEF Fits, LoopOf
    <3>3. Called' /\ Ordered' /\ Fit'
      BY <2>2, <2>5, <2>9, <3>2, <1>i, <1>s, <1>d, <1>l, FitGoto
    <3>4. QED  BY <2>6, <3>3 DEF InOrder
  <2>10. QED  BY <2>8, <2>9
<1>7. CASE PackageDepends(p)
  <2>1. /\ \A j \in DOMAIN stack : j # 1 => Undisturbed(j)
        /\ Files' /\ UNCHANGED <<built, unpacked, archived, newer>>
    BY <1>7, <1>u DEF PackageDepends, files
  <2>2. /\ stack[1].op = "package" /\ stack[1].at = "depends"
        /\ Head(stack).at = "depends"
    BY <1>7, <1>1 DEF PackageDepends, At
  <2>3. Made(p)' /\ p \notin archived'
    BY <1>f, <1>1, <2>1, <2>2 DEF Fits, Made, Unpacked
  <2>4. CASE Goto("rule", <<>>)
    <3>1. /\ stack'[1].op = "package" /\ stack'[1].pkg = p
          /\ stack'[1].at = "rule" /\ stack'[1].todo = <<>>
      BY <2>2, <2>4, <1>g, <1>d, <1>l
    <3>2. Fits(1)'
      BY <2>3, <3>1, <1>d DEF Fits
    <3>3. Called' /\ Ordered' /\ Fit'
      BY <2>1, <2>4, <3>2, <1>i, <1>s, <1>d, <1>l, FitGoto
    <3>4. QED  BY <2>1, <3>3 DEF InOrder
  <2>5. CASE Todo # <<>> /\ Call("package", Head(Todo), "depends", Tail(Todo))
    <3>1. /\ Head(Todo) \in Pkg /\ Tail(Todo) \in Seq(Pkg)
          /\ Head(Todo) \in Elems(RunDepends[p])
          /\ Elems(Tail(Todo)) \subseteq Elems(RunDepends[p])
      BY <2>2, <2>5, <1>1, <1>t DEF LoopOf
    <3>2. /\ stack'[1].op = "package" /\ stack'[1].pkg = Head(Todo)
          /\ stack'[2].op = "package" /\ stack'[2].pkg = p
          /\ stack'[2].at = "depends" /\ stack'[2].todo = Tail(Todo)
      BY <2>2, <2>5, <3>1, <1>k, <1>l
    <3>3. Calls(stack'[2], stack'[1]) /\ Fits(2)'
      BY <2>3, <3>1, <3>2 DEF Calls, Fits, LoopOf
    <3>4. Called' /\ Ordered' /\ Fit'
      BY <2>1, <2>5, <3>1, <3>3, <1>i, <1>s, <1>l, FitCall
    <3>5. QED  BY <2>1, <3>4 DEF InOrder
  <2>6. QED  BY <1>7, <2>2, <2>4, <2>5 DEF PackageDepends, ForEach
<1>8. CASE PackageRule(p)
  <2>1. /\ stack[1].op = "package" /\ stack[1].at = "rule" /\ Return
        /\ archived' = archived \cup {p}
        /\ UNCHANGED <<unpacked, built, installed>>
        /\ newer' = Kept((newer \ {<<"install", p>>, <<"stamp", p>>})
                             \cup {<<"archive", p>>})
    BY <1>8, <1>1 DEF PackageRule, At
  <2>2. \A e \in newer' :
            \/ e \in newer /\ e \notin {<<"install", p>>, <<"stamp", p>>}
            \/ e = <<"archive", p>>
    BY <2>1, KeptType
  <2>3. \A c \in Pkg : c # p => Spared(c)
    BY <2>1, <2>2 DEF Spared
  <2>4. Made(p)
    BY <2>1, <1>f, <1>1 DEF Fits
  <2>5. Ready(p)'
    BY <2>1, <2>2, <2>4 DEF Ready, Made, Unpacked
  <2>6. Files'
    BY <2>1, <2>4, <1>i, KeptFiles DEF Files, Made
  <2>7. \A j \in DOMAIN stack : j # 1 => Undisturbed(j)
    BY <2>1, <2>3, <1>o
  <2>8. Called' /\ Ordered' /\ Fit'
    BY <2>1, <2>5, <2>7, <1>i, <1>s, <1>1, FitReturn
  <2>9. QED  BY <2>6, <2>8 DEF InOrder
<1>9. CASE InstallStart(p)
  <2>1. /\ stack[1].op = "install" /\ UNCHANGED <<unpacked, built>>
        /\ newer' = Kept(newer)
        /\ newer' \subseteq newer /\ installed' \subseteq installed
        /\ archived' \in {archived, archived \ {p}}
        /\ IF p \in installed' THEN Return
           ELSE Call("package", p, "depends", RunDepends[p])
    BY <1>9, <1>1, KeptType, WithoutType DEF InstallStart, At
  <2>2. \A c \in Pkg : c # p => Spared(c)
    BY <2>1 DEF Spared
  <2>3. \A j \in DOMAIN stack : j # 1 => Undisturbed(j)
    BY <2>1, <2>2, <1>o
  <2>4. Files'
    BY <2>1, <1>i, KeptFiles DEF Files
  <2>5. CASE p \in installed'
    <3>1. Called' /\ Ordered' /\ Fit'
      BY <2>1, <2>3, <2>5, <1>i, <1>s, <1>1, FitReturn
    <3>2. QED  BY <2>4, <3>1 DEF InOrder
  <2>6. CASE p \notin installed'
    <3>1. /\ stack'[1].op = "package" /\ stack'[1].pkg = p
          /\ stack'[2].op = "install" /\ stack'[2].pkg = p
          /\ stack'[2].at = "depends" /\ stack'[2].todo = RunDepends[p]
      BY <2>1, <2>6, <1>k, <1>d, <1>l
    <3>2. Calls(stack'[2], stack'[1]) /\ Fits(2)'
      BY <2>6, <3>1 DEF Calls, Fits, LoopOf
    <3>3. Called' /\ Ordered' /\ Fit'
      BY <2>1, <2>3, <2>6, <3>2, <1>i, <1>s, <1>d, <1>l, FitCall
    <3>4. QED  BY <2>4, <3>3 DEF InOrder
  <2>7. QED  BY <2>5, <2>6
<1>10. CASE InstallDepends(p)
  <2>1. /\ \A j \in DOMAIN stack : j # 1 => Undisturbed(j)
        /\ Files' /\ UNCHANGED <<unpacked, archived, installed, newer>>
    BY <1>10, <1>u DEF InstallDepends, files
  <2>2. /\ stack[1].op = "install" /\ stack[1].at = "depends"
        /\ Head(stack).at = "depends"
    BY <1>10, <1>1 DEF InstallDepends, At
  <2>3. Ready(p)' /\ p \notin installed'
    BY <1>f, <1>1, <2>1, <2>2 DEF Fits, Ready, Unpacked
  <2>4. CASE Goto("opkg", <<>>)
    <3>1. /\ stack'[1].op = "install" /\ stack'[1].pkg = p
          /\ stack'[1].at = "opkg" /\ stack'[1].todo = <<>>
      BY <2>2, <2>4, <1>g, <1>d, <1>l
    <3>2. Fits(1)'
      BY <2>3, <3>1, <1>d DEF Fits
    <3>3. Called' /\ Ordered' /\ Fit'
      BY <2>1, <2>4, <3>2, <1>i, <1>s, <1>d, <1>l, FitGoto
    <3>4. QED  BY <2>1, <3>3 DEF InOrder
  <2>5. CASE Todo # <<>> /\ Call("install", Head(Todo), "depends", Tail(Todo))
    <3>1. /\ Head(Todo) \in Pkg /\ Tail(Todo) \in Seq(Pkg)
          /\ Head(Todo) \in Elems(RunDepends[p])
          /\ Elems(Tail(Todo)) \subseteq Elems(RunDepends[p])
      BY <2>2, <2>5, <1>1, <1>t DEF LoopOf
    <3>2. /\ stack'[1].op = "install" /\ stack'[1].pkg = Head(Todo)
          /\ stack'[2].op = "install" /\ stack'[2].pkg = p
          /\ stack'[2].at = "depends" /\ stack'[2].todo = Tail(Todo)
      BY <2>2, <2>5, <3>1, <1>k, <1>l
    <3>3. Calls(stack'[2], stack'[1]) /\ Fits(2)'
      BY <2>3, <3>1, <3>2 DEF Calls, Fits, LoopOf
    <3>4. Called' /\ Ordered' /\ Fit'
      BY <2>1, <2>5, <3>1, <3>3, <1>i, <1>s, <1>l, FitCall
    <3>5. QED  BY <2>1, <3>4 DEF InOrder
  <2>6. QED  BY <1>10, <2>2, <2>4, <2>5 DEF InstallDepends, ForEach
<1>11. CASE InstallOpkg(p)
  <2>1. /\ stack[1].op = "install" /\ Return
        /\ UNCHANGED <<unpacked, built, archived>>
        /\ newer' \subseteq newer
        /\ installed \subseteq installed' /\ installed' \subseteq installed \cup {p}
    BY <1>11, <1>1 DEF InstallOpkg, At
  <2>2. \A c \in Pkg : c # p => Spared(c)
    BY <2>1 DEF Spared
  <2>3. \A j \in DOMAIN stack : j # 1 => Undisturbed(j)
    BY <2>1, <2>2, <1>o
  <2>4. Files'
    BY <2>1, <1>i DEF Files
  <2>5. Called' /\ Ordered' /\ Fit'
    BY <2>1, <2>3, <1>i, <1>s, <1>1, FitReturn
  <2>6. QED  BY <2>4, <2>5 DEF InOrder
<1>12. CASE InstallRefused(p)
  BY <1>12, <1>i DEF InstallRefused, files, InOrder, Called, Ordered, Fit, Files
<1>13. QED
  BY <1>2, <1>3, <1>4, <1>5, <1>6, <1>7, <1>8, <1>9, <1>10, <1>11, <1>12 DEF Step

\* The scripts that run work on packages in the order of their dependencies,
\* each for the one that waits for it, and find the files as they need them:
\* no script runs on a package for which another one is in its loop, and none
\* changes the files of such a package (scripts/build, package and install).
THEOREM ScriptsInOrder == Spec => []InOrder
<1>1. Init => InOrder
  BY DEF Init, InOrder, Called, Ordered, Fit, Files
<1>2. TypeOK /\ InOrder /\ [Next]_vars => InOrder'
  <2> SUFFICES ASSUME TypeOK, InOrder, [Next]_vars PROVE InOrder'
    OBVIOUS
  <2>i. Called /\ Ordered /\ Fit /\ Files
    BY DEF InOrder
  <2>e. ASSUME stack' = <<>> PROVE Called' /\ Ordered' /\ Fit'
    BY <2>e DEF Called, Ordered, Fit
  <2>f. ASSUME NEW op, NEW p, stack' = <<Frame(op, p)>>
        PROVE  Called' /\ Ordered' /\ Fit'
    <3>1. /\ DOMAIN stack' = {1} /\ stack'[1].at = "start"
          /\ Elems(stack'[1].todo) = {}
      BY <2>f DEF Frame, Elems
    <3>2. Fits(1)'
      BY <3>1 DEF Fits
    <3>3. Called' /\ Fit'
      BY <3>1, <3>2 DEF Called, Fit
    <3>4. Ordered'
      <4>1. \A i, j \in DOMAIN stack' : ~(i < j)
        BY <3>1
      <4>2. QED  BY <4>1 DEF Ordered
    <3>5. QED  BY <3>3, <3>4
  <2>u. ASSUME UNCHANGED files PROVE Files'
    BY <2>u, <2>i DEF files, Files
  <2>1. CASE \E p \in Pkg : Step(p)
    BY <2>1, OrderStep
  <2>2. CASE RootfsStart
    <3>1. stack' = <<>>
      BY <2>2 DEF RootfsStart, Idle
    <3>2. QED  BY <2>2, <2>e, <2>u, <3>1 DEF RootfsStart, InOrder
  <2>3. CASE RootfsStale
    <3>1. stack' = <<>> /\ newer' = Kept(newer) /\ archived' \subseteq built'
      BY <2>3, <2>i DEF RootfsStale, Files
    <3>2. QED  BY <3>1, <2>e, KeptFiles DEF InOrder
  <2>4. CASE RootfsInstall
    <3>1. stack' = <<>> \/ \E p \in Pkg : stack' = <<Frame("install", p)>>
      BY <2>4 DEF RootfsInstall
    <3>2. QED  BY <3>1, <2>4, <2>e, <2>f, <2>u DEF RootfsInstall, InOrder
  <2>5. CASE RootfsOpk
    <3>1. stack' = <<>> \/ \E p \in Pkg : stack' = <<Frame("package", p)>>
      BY <2>5 DEF RootfsOpk
    <3>2. QED  BY <3>1, <2>5, <2>e, <2>f, <2>u DEF RootfsOpk, InOrder
  <2>6. CASE \E p \in Pkg, op \in {"package", "install"} : Start(op, p)
    BY <2>6, <2>f, <2>u DEF Start, InOrder
  <2>7. ASSUME NEW p \in Pkg, Edit(p) PROVE InOrder'
    <3>1. stack' = <<>>
      BY <2>7 DEF Edit, Idle
    <3>2. CASE EditConfig(p)
      BY <3>1, <3>2, <2>e, <2>u DEF EditConfig, InOrder
    <3>3. CASE EditPatch(p)
      <4>1. Files'
        BY <3>3, <2>i DEF EditPatch, Files
      <4>2. QED  BY <3>1, <4>1, <2>e DEF InOrder
    <3>4. CASE EditRev(p) \/ EditBuild(p) \/ EditInstall(p)
      <4>1. archived' \subseteq built' /\ \E n : newer' = Kept(n)
        BY <3>4, <2>i DEF EditRev, EditBuild, EditInstall, Files
      <4>2. QED  BY <3>1, <4>1, <2>e, KeptFiles DEF InOrder
    <3>5. QED  BY <2>7, <3>2, <3>3, <3>4 DEF Edit
  <2>8. CASE Abort
    BY <2>8, <2>e, <2>u DEF Abort, InOrder
  <2>9. CASE UNCHANGED vars
    <3>1. stack' = stack /\ UNCHANGED files
      BY <2>9 DEF vars, files
    <3>2. Files'
      BY <3>1, <2>u
    <3>3. Called'
      BY <3>1, <2>i DEF Called
    <3>4. \A j : Looping(j)' <=> Looping(j)
      BY <3>1 DEF Looping
    <3>5. Ordered'
      BY <3>1, <3>4, <2>i DEF Ordered
    <3>6. Fit'
      BY <3>1, <2>i DEF Fit, Fits, files, Made, Ready, Unpacked
    <3>7. QED  BY <3>2, <3>3, <3>5, <3>6 DEF InOrder
  <2>10. QED
    BY <2>1, <2>2, <2>3, <2>4, <2>5, <2>6, <2>7, <2>8, <2>9 DEF Next
<1>3. QED  BY <1>1, <1>2, TypeCorrect, PTL DEF Spec

----------------------------------------------------------------------------
\* No package is of an earlier version

\* Hypothesis: a subpackage needs its parent at run time, itself or through
\* others, if the revision of the parent is edited.
ParentsNeeded ==
    \A q \in Pkg : <<"rev", Parent[q]>> \in Edits => q \in Users(Parent[q], RunDepends)

\* Nothing that rootfs compares is newer than a control file.
NoneOld == \A p \in Pkg : <<"control", p>> \notin newer

\* The parent of an outdated package is installed with an old control file, and
\* once rootfs has removed what is stale there is none.
OldInv ==
    /\ \A q \in outdated : /\ q \in installed
                           /\ q \in Users(Parent[q], RunDepends)
                           /\ <<"control", Parent[q]>> \in newer
    /\ done => Idle /\ NoneOld
    /\ pass \in {"install", "opk"} => NoneOld

\* With a package everything is there that it uses.
LEMMA UsedThere ==
    ASSUME NEW I, \A r \in I : Elems(RunDepends[r]) \subseteq I,
           NEW p \in Pkg, NEW q \in Users(p, RunDepends), q \in I
    PROVE  p \in I
<1> SUFFICES ASSUME p \notin I PROVE FALSE
  OBVIOUS
<1> DEFINE S == Pkg \ I
<1>1. S \in SUBSET Pkg /\ p \in S
  OBVIOUS
<1>2. \A r \in Pkg : Elems(RunDepends[r]) \cap S # {} => r \in S
  OBVIOUS
<1>3. \A T \in SUBSET Pkg :
          (p \in T /\ \A r \in Pkg : Elems(RunDepends[r]) \cap T # {} => r \in T)
              => q \in T
  BY DEF Users
<1> HIDE DEF S
<1>4. q \in S
  BY <1>1, <1>2, <1>3
<1>5. QED  BY <1>4 DEF S

\* What is newer than the control file of a package that an installed one uses
\* is kept.
LEMMA KeptControl ==
    ASSUME RootfsClosed', NEW n, newer' = Kept(n), NEW p \in Pkg,
           <<"control", p>> \in n, NEW q \in Users(p, RunDepends), q \in installed'
    PROVE  <<"control", p>> \in newer'
<1>1. \A r \in installed' : Elems(RunDepends[r]) \subseteq installed'
  BY DEF RootfsClosed, Usable
<1>2. p \in installed'
  BY <1>1, UsedThere
<1>3. <<"control", p>>[1] = "control" /\ <<"control", p>>[2] = p
  OBVIOUS
<1>4. QED  BY <1>2, <1>3 DEF Kept

\* It leaves an old control file old, as long as a package that needs it stays.
LEMMA StepControl ==
    ASSUME TypeOK, InOrder, RootfsClosed, RootfsClosed',
           NEW p \in Pkg, Step(p), NEW q \in Pkg, <<"control", q>> \in newer,
           NEW r \in Users(q, RunDepends), r \in installed, r \in installed'
    PROVE  <<"control", q>> \in newer'
<1>1. CASE InstallOpkg(p)
  <2>1. p \notin installed
    <3>1. stack # <<>>
      BY <1>1 DEF InstallOpkg, At
    <3>2. Fits(1) /\ stack[1] = Head(stack)
      BY <3>1, TopShape DEF InOrder, Fit, TypeOK
    <3>3. QED  BY <1>1, <3>2 DEF InstallOpkg, At, Fits
  <2>2. \A s \in installed : Elems(RunDepends[s]) \subseteq installed
    BY DEF RootfsClosed, Usable
  <2>3. q # p
    BY <2>1, <2>2, UsedThere
  <2>4. QED  BY <1>1, <2>3 DEF InstallOpkg
<1>2. CASE BuildStart(p) \/ PackageCheck(p) \/ InstallStart(p)
  <2>1. newer' = Kept(newer)
    BY <1>2 DEF BuildStart, PackageCheck, InstallStart
  <2>2. QED  BY <2>1, KeptControl
<1>3. CASE BuildRule(p)
  <2>1. newer' = Kept((newer \ {<<"build", p>>}) \cup {<<"stamp", p>>})
    BY <1>3 DEF BuildRule
  <2>2. <<"control", q>> \in (newer \ {<<"build", p>>}) \cup {<<"stamp", p>>}
    OBVIOUS
  <2>3. QED  BY <2>1, <2>2, KeptControl
<1>4. CASE PackageRule(p)
  <2>1. newer' = Kept((newer \ {<<"install", p>>, <<"stamp", p>>})
                          \cup {<<"archive", p>>})
    BY <1>4 DEF PackageRule
  <2>2. <<"control", q>> \in (newer \ {<<"install", p>>, <<"stamp", p>>})
                                 \cup {<<"archive", p>>}
    OBVIOUS
  <2>3. QED  BY <2>1, <2>2, KeptControl
<1>5. CASE BuildInstalldev(p) \/ PackageStart(p) \/ PackageDepends(p)
               \/ InstallDepends(p) \/ InstallRefused(p)
  BY <1>5 DEF BuildInstalldev, PackageStart, PackageDepends, InstallDepends,
              InstallRefused, files
<1>6. QED  BY <1>1, <1>2, <1>3, <1>4, <1>5 DEF Step

\* Every step of a script leaves the invariant as it is.
LEMMA OldStep ==
    ASSUME TypeOK, InOrder, RootfsClosed, RootfsClosed', OldInv,
           NEW p \in Pkg, Step(p)
    PROVE  OldInv'
<1>1. CASE InstallRefused(p)
  BY <1>1 DEF InstallRefused, At, files, OldInv, Idle
<1>2. CASE ~InstallRefused(p)
  <2>1. UNCHANGED walk /\ stack # <<>>
    BY <1>2 DEF Step, BuildStart, BuildInstalldev, BuildRule, PackageStart,
                PackageCheck, PackageDepends, PackageRule, InstallStart,
                InstallDepends, InstallOpkg, At
  <2>2. ~done
    BY <2>1 DEF OldInv, Idle
  <2>3. outdated \subseteq installed
    BY DEF OldInv
  <2>4. outdated' \subseteq outdated /\ outdated' \subseteq installed'
    BY <1>2, <2>3
       DEF Step, BuildStart, BuildInstalldev, BuildRule, PackageStart,
           PackageCheck, PackageDepends, PackageRule, InstallStart,
           InstallDepends, InstallOpkg, files
  <2>5. ASSUME NEW q \in outdated'
        PROVE  /\ q \in installed' /\ q \in Users(Parent[q], RunDepends)
               /\ <<"control", Parent[q]>> \in newer'
    <3>1. /\ q \in installed' /\ q \in installed
          /\ q \in Users(Parent[q], RunDepends) /\ Parent[q] \in Pkg
          /\ <<"control", Parent[q]>> \in newer
      BY <2>3, <2>4, <2>5, RootfsAssumption DEF OldInv, TypeOK
    <3>2. QED  BY <3>1, StepControl
  <2>6. newer' \subseteq newer \cup {<<"stamp", p>>, <<"archive", p>>}
    BY <1>2, KeptType
       DEF Step, BuildStart, BuildInstalldev, BuildRule, PackageStart,
           PackageCheck, PackageDepends, PackageRule, InstallStart,
           InstallDepends, InstallOpkg, files
  <2>7. NoneOld => NoneOld'
    BY <2>6 DEF NoneOld
  <2>8. QED  BY <2>1, <2>2, <2>5, <2>7 DEF OldInv, walk
<1>3. QED  BY <1>1, <1>2

\* So does an edit: a new revision makes the control file of the parent old.
LEMMA OldEdit ==
    ASSUME ParentsNeeded, TypeOK, RootfsClosed', OldInv, NEW p \in Pkg, Edit(p)
    PROVE  OldInv'
<1>p. \A q \in Pkg : Parent[q] \in Pkg
  BY RootfsAssumption
<1>i. outdated \subseteq Pkg
  BY DEF TypeOK
<1>1. ~done' /\ pass' = "idle"
  BY DEF Edit, Idle
<1>2. SUFFICES ASSUME NEW q \in outdated'
               PROVE  /\ q \in installed' /\ q \in Users(Parent[q], RunDepends)
                      /\ <<"control", Parent[q]>> \in newer'
  BY <1>1 DEF OldInv
<1>3. CASE EditConfig(p) \/ EditPatch(p)
  BY <1>2, <1>3 DEF EditConfig, EditPatch, files, OldInv
<1>4. CASE EditBuild(p)
  <2>1. /\ q \in outdated /\ newer' = Kept(newer \cup ({"build", "control"} \X {p}))
        /\ installed' = installed
    BY <1>2, <1>4 DEF EditBuild
  <2>2. QED  BY <2>1, <1>i, <1>p, KeptControl DEF OldInv
<1>5. CASE EditInstall(p)
  <2>1. /\ q \in outdated
        /\ newer' = Kept(newer \cup ({"install", "control", "rule"} \X {p}))
        /\ installed' = installed
    BY <1>2, <1>5 DEF EditInstall
  <2>2. QED  BY <2>1, <1>i, <1>p, KeptControl DEF OldInv
<1>6. CASE <<"rev", p>> \in Edits /\ EditRev(p)
  <2>1. /\ \/ q \in outdated
           \/ Parent[q] = p /\ q \in installed /\ q \in Pkg
        /\ newer' = Kept(newer \cup {<<"control", p>>})
        /\ installed' = installed
    <3>1. /\ outdated' = outdated \cup (Versioned(p) \cap installed)
          /\ newer' = Kept(newer \cup {<<"control", p>>})
          /\ installed' = installed
      BY <1>6 DEF EditRev
    <3>2. \A r \in Versioned(p) : Parent[r] = p /\ r \in Pkg
      BY DEF Versioned
    <3>3. QED  BY <1>2, <3>1, <3>2
  <2>2. /\ q \in installed /\ q \in Users(Parent[q], RunDepends) /\ Parent[q] \in Pkg
        /\ <<"control", Parent[q]>> \in newer \cup {<<"control", p>>}
    BY <2>1, <1>6, <1>i, <1>p DEF OldInv, ParentsNeeded
  <2>3. QED  BY <2>1, <2>2, KeptControl
<1>7. QED  BY <1>3, <1>4, <1>5, <1>6 DEF Edit

\* The invariant of what rootfs compares holds at any time.
LEMMA OldAlways ==
    ASSUME ParentsNeeded
    PROVE  Spec => []OldInv
<1>1. Init => OldInv
  BY DEF Init, OldInv
<1>2. /\ TypeOK /\ InOrder /\ RootfsClosed /\ RootfsClosed' /\ OldInv
      /\ [Next]_vars
      => OldInv'
  <2> SUFFICES ASSUME TypeOK, InOrder, RootfsClosed, RootfsClosed', OldInv,
                      [Next]_vars
               PROVE  OldInv'
    OBVIOUS
  <2>u. ASSUME UNCHANGED files
        PROVE  /\ \A q \in outdated' : /\ q \in installed'
                                       /\ q \in Users(Parent[q], RunDepends)
                                       /\ <<"control", Parent[q]>> \in newer'
               /\ NoneOld => NoneOld'
    BY <2>u DEF files, OldInv, NoneOld
  <2>1. CASE \E p \in Pkg : Step(p)
    BY <2>1, OldStep
  <2>2. CASE RootfsStart
    BY <2>2, <2>u DEF RootfsStart, OldInv
  <2>3. CASE RootfsStale
    <3>1. /\ newer' = Kept(newer) /\ outdated' = outdated \cap installed'
          /\ ~done' /\ pass' \in {"stale", "install"}
      BY <2>3 DEF RootfsStale, OldInv, Idle
    <3>2. ASSUME pass' # "stale" PROVE NoneOld'
      <4>1. Stale = {}
        BY <2>3, <3>2 DEF RootfsStale
      <4>2. \A p \in Pkg : <<"control", p>> \in newer => p \in installed
        BY DEF InOrder, Files
      <4>3. NoneOld
        BY <4>1, <4>2 DEF Stale, NoneOld
      <4>4. QED  BY <3>1, <4>3, KeptType DEF NoneOld
    <3>3. ASSUME NEW q \in outdated'
          PROVE  /\ q \in installed' /\ q \in Users(Parent[q], RunDepends)
                 /\ <<"control", Parent[q]>> \in newer'
      <4>1. /\ q \in outdated /\ q \in installed' /\ Parent[q] \in Pkg
            /\ q \in Users(Parent[q], RunDepends)
            /\ <<"control", Parent[q]>> \in newer
        BY <3>1, <3>3, RootfsAssumption DEF OldInv, TypeOK
      <4>2. QED  BY <3>1, <4>1, KeptControl
    <3>4. QED  BY <3>1, <3>2, <3>3 DEF OldInv
  <2>4. CASE RootfsInstall
    BY <2>4, <2>u DEF RootfsInstall, OldInv, Idle
  <2>5. CASE RootfsOpk
    <3>1. NoneOld' /\ (done' => Idle')
      BY <2>5, <2>u DEF RootfsOpk, OldInv, Idle
    <3>2. QED  BY <2>5, <2>u, <3>1 DEF RootfsOpk, OldInv
  <2>6. CASE \E p \in Pkg, op \in {"package", "install"} : Start(op, p)
    BY <2>6, <2>u DEF Start, OldInv, Idle
  <2>7. CASE \E p \in Pkg : Edit(p)
    BY <2>7, OldEdit
  <2>8. CASE Abort
    BY <2>8, <2>u DEF Abort, OldInv, Idle
  <2>9. CASE UNCHANGED vars
    <3>1. UNCHANGED files /\ UNCHANGED <<stack, pass, done>>
      BY <2>9 DEF vars, files
    <3>2. QED  BY <3>1, <2>u DEF OldInv, Idle
  <2>10. QED
    BY <2>1, <2>2, <2>3, <2>4, <2>5, <2>6, <2>7, <2>8, <2>9 DEF Next
<1>3. QED
  BY <1>1, <1>2, TypeCorrect, Closed, ScriptsInOrder, PTL DEF Spec

\* A run of rootfs that ends well leaves no package of an earlier version or
\* revision than its meta and its parent's say, if subpackages whose parents are
\* edited need them to run: rootfs compares a control file with the meta of its
\* own package only (scripts/rootfs:35), and what it uninstalls takes along what
\* needs it.
THEOREM NothingOutdated ==
    ASSUME ParentsNeeded
    PROVE  Spec => [](done => installed \cap outdated = {})
<1>1. TypeOK /\ OldInv => (done => installed \cap outdated = {})
  BY RootfsAssumption DEF OldInv, NoneOld, TypeOK
<1>2. QED  BY <1>1, TypeCorrect, OldAlways, PTL

----------------------------------------------------------------------------
\* What is configured is installed

\* Hypothesis: no patch is rewritten in place, for a package that has sources.
NoRewrites == \A p \in HasSources : <<"patch", p>> \notin Edits

\* p, or what it uses, is installed with an old control file.
Doomed(p) == \E q \in Pkg : p \in Users(q, RunDepends) /\ <<"control", q>> \in newer

\* What is installed is up to date, or rootfs will remove it when it runs.
Fresh == \A p \in installed : UpToDate(p) \/ Doomed(p)

\* The packages that are being installed.
Installing == {stack[j].pkg : j \in {k \in DOMAIN stack : stack[k].op = "install"}}

\* The loop of install has what it has been through, or is at it.
Fetched(j) ==
    LET c == stack[j] IN
    c.op = "install" =>
        /\ c.at = "depends" =>
               Elems(RunDepends[c.pkg]) \subseteq installed \cup Elems(c.todo) \cup Installing
        /\ c.at = "opkg" => Elems(RunDepends[c.pkg]) \subseteq installed

Fetch == \A j \in DOMAIN stack : Fetched(j)

\* What the loops of rootfs have been through is installed.
Walked ==
    /\ done => Idle /\ RootfsPackages \subseteq installed
    /\ pass = "stale" => stack = <<>>
    /\ pass = "install" =>
           /\ Fetch
           /\ RootfsPackages \subseteq installed \cup rest \cup Installing
    /\ pass = "opk" => /\ RootfsPackages \subseteq installed
                       /\ Installing = {}

\* Fetch when the script on top goes on,
LEMMA FetchGoto ==
    ASSUME stack \in Seq(Frames), stack # <<>>, Fetch,
           installed \subseteq installed',
           NEW l \in Labels, NEW todo \in Seq(Pkg), Goto(l, todo),
           Installing \subseteq Installing' => Fetched(1)'
    PROVE  Fetch' /\ Installing' = Installing
<1>1. /\ DOMAIN stack' = DOMAIN stack
      /\ stack'[1].op = stack[1].op /\ stack'[1].pkg = stack[1].pkg
      /\ \A j \in DOMAIN stack : j # 1 => stack'[j] = stack[j]
  BY GotoShape
<1>2. \A j \in DOMAIN stack : /\ stack'[j].op = stack[j].op
                              /\ stack'[j].pkg = stack[j].pkg
  BY <1>1
<1>3. Installing' = Installing
  BY <1>1, <1>2 DEF Installing
<1>4. ASSUME NEW j \in DOMAIN stack' PROVE Fetched(j)'
  <2>1. CASE j = 1
    BY <1>3, <2>1
  <2>2. CASE j # 1
    <3>1. stack'[j] = stack[j] /\ Fetched(j)
      BY <1>1, <2>2 DEF Fetch
    <3>2. QED  BY <3>1, <1>3 DEF Fetched
  <2>3. QED  BY <2>1, <2>2
<1>5. QED  BY <1>3, <1>4 DEF Fetch

\* when it calls another,
LEMMA FetchCall ==
    ASSUME stack \in Seq(Frames), stack # <<>>, Fetch,
           installed \subseteq installed',
           NEW op \in Ops, NEW q \in Pkg,
           NEW l \in Labels, NEW todo \in Seq(Pkg), Call(op, q, l, todo),
           (Installing \subseteq Installing' /\ (op = "install" => q \in Installing'))
               => Fetched(2)'
    PROVE  /\ Fetch' /\ Installing \subseteq Installing'
           /\ op # "install" => Installing' = Installing
<1>t. Len(stack) \in Nat \ {0} /\ DOMAIN stack = 1 .. Len(stack)
  BY TopShape
<1>1. /\ DOMAIN stack' = 1 .. (Len(stack) + 1)
      /\ stack'[1] = Frame(op, q)
      /\ stack'[2].op = stack[1].op /\ stack'[2].pkg = stack[1].pkg
      /\ \A j \in DOMAIN stack' : j \notin {1, 2} =>
           /\ j - 1 \in DOMAIN stack /\ j - 1 # 1
           /\ stack'[j] = stack[j - 1]
  BY CallShape
<1>c. stack'[1].op = op /\ stack'[1].pkg = q /\ stack'[1].at = "start"
  BY <1>1 DEF Frame
<1>2. Installing \subseteq Installing'
  <2> SUFFICES ASSUME NEW j \in DOMAIN stack, stack[j].op = "install"
               PROVE  \E k \in DOMAIN stack' : /\ stack'[k].op = "install"
                                               /\ stack'[k].pkg = stack[j].pkg
    BY DEF Installing
  <2>1. PICK k \in DOMAIN stack' : k = j + 1
    BY <1>1, <1>t
  <2>2. CASE j = 1
    <3>1. k = 2
      BY <2>1, <2>2
    <3>2. QED  BY <2>2, <3>1, <1>1
  <2>3. CASE j # 1
    <3>1. k \notin {1, 2} /\ k - 1 = j
      BY <2>1, <2>3, <1>t
    <3>2. QED  BY <3>1, <1>1
  <2>4. QED  BY <2>2, <2>3
<1>3. op = "install" => q \in Installing'
  <2>1. 1 \in DOMAIN stack'
    BY <1>1, <1>t
  <2>2. QED  BY <2>1, <1>c DEF Installing
<1>4. ASSUME op # "install" PROVE Installing' \subseteq Installing
  <2> SUFFICES ASSUME NEW k \in DOMAIN stack', stack'[k].op = "install"
               PROVE  \E j \in DOMAIN stack : /\ stack[j].op = "install"
                                              /\ stack[j].pkg = stack'[k].pkg
    BY DEF Installing
  <2>1. k # 1 /\ 1 \in DOMAIN stack
    BY <1>4, <1>c, <1>t
  <2>2. CASE k = 2
    BY <2>1, <2>2, <1>1
  <2>3. CASE k # 2
    <3>1. PICK j \in DOMAIN stack : stack'[k] = stack[j]
      BY <2>1, <2>3, <1>1
    <3>2. QED  BY <3>1
  <2>4. QED  BY <2>2, <2>3
<1>5. ASSUME NEW j \in DOMAIN stack' PROVE Fetched(j)'
  <2>1. CASE j = 1
    BY <2>1, <1>c DEF Fetched
  <2>2. CASE j = 2
    BY <2>2, <1>2, <1>3
  <2>3. CASE j \notin {1, 2}
    <3>1. PICK i \in DOMAIN stack : stack'[j] = stack[i]
      BY <2>3, <1>1
    <3>2. Fetched(i)
      BY DEF Fetch
    <3>3. QED  BY <3>1, <3>2, <1>2 DEF Fetched
  <2>4. QED  BY <2>1, <2>2, <2>3
<1>6. QED  BY <1>2, <1>4, <1>5 DEF Fetch

\* and when it ends: what was being installed is installed.
LEMMA FetchReturn ==
    ASSUME stack \in Seq(Frames), stack # <<>>, Fetch, Return,
           installed \subseteq installed',
           stack[1].op = "install" => stack[1].pkg \in installed'
    PROVE  /\ Fetch' /\ Installing \subseteq Installing' \cup installed'
           /\ Installing' \subseteq Installing
<1>t. Len(stack) \in Nat \ {0} /\ DOMAIN stack = 1 .. Len(stack)
  BY TopShape
<1>1. \A j \in DOMAIN stack' :
          /\ j \in Nat \ {0} /\ j + 1 \in DOMAIN stack
          /\ stack'[j] = stack[j + 1]
  BY ReturnShape
<1>2. DOMAIN stack' = 1 .. (Len(stack) - 1)
  BY <1>t, TopType, HeadTailProperties, LenProperties DEF Return
<1>3. Installing \subseteq Installing' \cup installed'
  <2> SUFFICES ASSUME NEW j \in DOMAIN stack, stack[j].op = "install",
                      stack[j].pkg \notin installed'
               PROVE  \E k \in DOMAIN stack' : /\ stack'[k].op = "install"
                                               /\ stack'[k].pkg = stack[j].pkg
    BY DEF Installing
  <2>1. j # 1
    OBVIOUS
  <2>2. PICK k \in DOMAIN stack' : k = j - 1
    BY <2>1, <1>t, <1>2
  <2>3. k + 1 = j
    BY <2>2, <1>t
  <2>4. QED  BY <2>3, <1>1
<1>4. Installing' \subseteq Installing
  BY <1>1 DEF Installing
<1>5. ASSUME NEW j \in DOMAIN stack' PROVE Fetched(j)'
  <2>1. PICK i \in DOMAIN stack : stack'[j] = stack[i]
    BY <1>1
  <2>2. Fetched(i)
    BY DEF Fetch
  <2>3. QED  BY <2>1, <2>2, <1>3 DEF Fetched
<1>6. QED  BY <1>3, <1>4, <1>5 DEF Fetch

\* While nothing is old, a script removes nothing from the target.
LEMMA OnlyGrows ==
    ASSUME TypeOK, InOrder, Fresh, NoneOld, NEW p \in Pkg, Step(p)
    PROVE  installed \subseteq installed'
<1>1. p \in installed => UpToDate(p)
  BY DEF Fresh, Doomed, NoneOld
<1>2. p \notin installed => Without({p}) = installed
  BY DEF Without, Remaining
<1>3. CASE BuildStart(p)
  <2>1. p \in installed => /\ p \notin HasSources \ unpacked
                           /\ <<"build", p>> \notin newer
    BY <1>1 DEF UpToDate, Ready, Unpacked
  <2>2. CASE p \in installed
    BY <1>3, <2>1, <2>2 DEF BuildStart
  <2>3. CASE p \notin installed
    BY <1>2, <1>3, <2>3 DEF BuildStart, Unpackage
  <2>4. QED  BY <2>2, <2>3
<1>4. CASE PackageCheck(p)
  <2>1. p \in installed => {<<"install", p>>, <<"stamp", p>>} \cap newer = {}
    BY <1>1 DEF UpToDate, Ready
  <2>2. QED  BY <1>2, <1>4, <2>1 DEF PackageCheck
<1>5. CASE InstallStart(p)
  <2>1. p \in installed => <<"rule", p>> \notin newer /\ <<"archive", p>> \notin newer
    BY <1>1 DEF UpToDate
  <2>2. QED  BY <1>2, <1>5, <2>1 DEF InstallStart
<1>6. CASE InstallOpkg(p)
  BY <1>6 DEF InstallOpkg
<1>7. CASE BuildRule(p) \/ PackageRule(p)
  BY <1>7 DEF BuildRule, PackageRule
<1>8. CASE BuildInstalldev(p) \/ PackageStart(p) \/ PackageDepends(p)
               \/ InstallDepends(p) \/ InstallRefused(p)
  BY <1>8 DEF BuildInstalldev, PackageStart, PackageDepends, InstallDepends,
              InstallRefused, files
<1>9. QED  BY <1>3, <1>4, <1>5, <1>6, <1>7, <1>8 DEF Step

\* A step of a script for p changes nothing for other packages, but for those
\* that it removes from the target with p.
LEMMA StepOthers ==
    ASSUME NEW p \in Pkg, Step(p), NEW c \in Pkg, c # p
    PROVE  /\ c \in archived => c \in archived'
           /\ Unpacked(c) => Unpacked(c)'
           /\ c \in installed' => c \in installed
           /\ \A f : <<f, c>> \in newer' => <<f, c>> \in newer
<1>1. \A e \in newer' : e \in newer \/ e[2] = p
  <2>1. \A f : <<f, p>>[2] = p
    OBVIOUS
  <2>2. CASE BuildRule(p) \/ PackageRule(p)
    <3>1. newer' \subseteq newer \cup {<<"stamp", p>>, <<"archive", p>>}
      BY <2>2, KeptType DEF BuildRule, PackageRule
    <3>2. QED  BY <2>1, <3>1
  <2>3. CASE ~(BuildRule(p) \/ PackageRule(p))
    <3>1. newer' \subseteq newer
      BY <2>3, KeptType
         DEF Step, BuildStart, BuildInstalldev, PackageStart, PackageCheck,
             PackageDepends, InstallStart, InstallDepends, InstallOpkg,
             InstallRefused, files
    <3>2. QED  BY <3>1
  <2>4. QED  BY <2>2, <2>3
<1>2. \A f : <<f, c>>[2] = c
  OBVIOUS
<1>3. \A f : <<f, c>> \in newer' => <<f, c>> \in newer
  BY <1>1, <1>2
<1>4. /\ c \in archived => c \in archived'
      /\ c \in unpacked => c \in unpacked'
      /\ c \in installed' => c \in installed
  BY WithoutType, UnpackageType
     DEF Step, BuildStart, BuildInstalldev, BuildRule, PackageStart,
         PackageCheck, PackageDepends, PackageRule, InstallStart,
         InstallDepends, InstallOpkg, InstallRefused, files
<1>5. QED  BY <1>3, <1>4 DEF Unpacked

\* Every step of a script keeps what is installed up to date, or doomed.
LEMMA FreshStep ==
    ASSUME TypeOK, InOrder, RootfsClosed, RootfsClosed', Fresh,
           NEW p \in Pkg, Step(p)
    PROVE  Fresh'
<1> SUFFICES ASSUME NEW r \in installed', ~Doomed(r)' PROVE UpToDate(r)'
  BY DEF Fresh
<1>r. r \in Pkg
  <2>1. installed' \subseteq installed \cup {p}
    BY WithoutType, UnpackageType
       DEF Step, BuildStart, BuildInstalldev, BuildRule, PackageStart,
           PackageCheck, PackageDepends, PackageRule, InstallStart,
           InstallDepends, InstallOpkg, InstallRefused, files
  <2>2. QED  BY <2>1 DEF TypeOK
<1>1. ASSUME r \in installed PROVE UpToDate(r)
  <2>1. CASE Doomed(r)
    <3>1. PICK q \in Pkg : r \in Users(q, RunDepends) /\ <<"control", q>> \in newer
      BY <2>1 DEF Doomed
    <3>2. <<"control", q>> \in newer'
      BY <1>1, <3>1, StepControl
    <3>3. QED  BY <3>1, <3>2 DEF Doomed, Users
  <2>2. QED  BY <1>1, <2>1 DEF Fresh
<1>2. CASE r # p
  BY <1>1, <1>2, <1>r, StepOthers DEF UpToDate, Ready
<1>3. CASE r = p
  <2>s. stack \in Seq(Frames) /\ stack # <<>>
    BY DEF TypeOK, Step, BuildStart, BuildInstalldev, BuildRule, PackageStart,
           PackageCheck, PackageDepends, PackageRule, InstallStart,
           InstallDepends, InstallOpkg, InstallRefused, At
  <2>f. Fits(1) /\ stack[1] = Head(stack)
    BY <2>s, TopShape DEF InOrder, Fit
  <2>b. archived \subseteq built
    BY DEF InOrder, Files
  <2>1. CASE InstallOpkg(p)
    <3>1. Ready(p)
      BY <2>1, <2>f DEF InstallOpkg, At, Fits
    <3>2. /\ archived' = archived /\ unpacked' = unpacked
          /\ newer' = newer \ {<<"control", p>>, <<"rule", p>>, <<"archive", p>>}
      BY <2>1, <3>1 DEF InstallOpkg, Ready
    <3>3. QED  BY <1>3, <3>1, <3>2 DEF UpToDate, Ready, Unpacked
  <2>i. ASSUME ~InstallOpkg(p) PROVE r \in installed
    BY <2>i, WithoutType, UnpackageType
       DEF Step, BuildStart, BuildInstalldev, BuildRule, PackageStart,
           PackageCheck, PackageDepends, PackageRule, InstallStart,
           InstallDepends, InstallOpkg, InstallRefused, files
  <2>2. CASE BuildRule(p)
    <3>1. p \notin built
      BY <2>2, <2>f DEF BuildRule, At, Fits
    <3>2. r \in installed
      BY <2>2 DEF BuildRule
    <3>3. QED  BY <1>1, <1>3, <2>b, <3>1, <3>2 DEF UpToDate, Ready
  <2>3. CASE PackageRule(p)
    <3>1. p \notin archived
      BY <2>3, <2>f DEF PackageRule, At, Fits
    <3>2. r \in installed
      BY <2>3 DEF PackageRule
    <3>3. QED  BY <1>1, <1>3, <3>1, <3>2 DEF UpToDate, Ready
  <2>k. ASSUME UpToDate(p), newer' \subseteq newer, unpacked' = unpacked,
               p \in archived'
        PROVE  UpToDate(p)'
    BY <2>k DEF UpToDate, Ready, Unpacked
  <2>4. CASE BuildStart(p)
    <3>0. r \in installed
      BY <2>4, WithoutType, UnpackageType DEF BuildStart
    <3>1. UpToDate(p)
      BY <1>1, <1>3, <3>0
    <3>2. p \notin HasSources \ unpacked /\ <<"build", p>> \notin newer
      BY <3>1 DEF UpToDate, Ready, Unpacked
    <3>3. unpacked' = unpacked /\ archived' = archived /\ newer' = Kept(newer)
      BY <2>4, <3>2 DEF BuildStart
    <3>4. QED  BY <1>3, <2>k, <3>1, <3>3, KeptType DEF UpToDate, Ready
  <2>5. CASE PackageCheck(p)
    <3>0. r \in installed
      BY <2>5, WithoutType DEF PackageCheck
    <3>1. UpToDate(p)
      BY <1>1, <1>3, <3>0
    <3>2. {<<"install", p>>, <<"stamp", p>>} \cap newer = {}
      BY <3>1 DEF UpToDate, Ready
    <3>3. unpacked' = unpacked /\ archived' = archived /\ newer' = Kept(newer)
      BY <2>5, <3>2 DEF PackageCheck
    <3>4. QED  BY <1>3, <2>k, <3>1, <3>3, KeptType DEF UpToDate, Ready
  <2>6. CASE InstallStart(p)
    <3>0. r \in installed
      BY <2>6, WithoutType DEF InstallStart
    <3>1. UpToDate(p)
      BY <1>1, <1>3, <3>0
    <3>2. <<"rule", p>> \notin newer
      BY <3>1 DEF UpToDate
    <3>3. unpacked' = unpacked /\ archived' = archived /\ newer' = Kept(newer)
      BY <2>6, <3>2 DEF InstallStart
    <3>4. QED  BY <1>3, <2>k, <3>1, <3>3, KeptType DEF UpToDate, Ready
  <2>7. CASE BuildInstalldev(p) \/ PackageStart(p) \/ PackageDepends(p)
                 \/ InstallDepends(p) \/ InstallRefused(p)
    <3>1. UNCHANGED files
      BY <2>7 DEF BuildInstalldev, PackageStart, PackageDepends,
                  InstallDepends, InstallRefused
    <3>2. UpToDate(p)
      BY <1>1, <1>3, <3>1 DEF files
    <3>3. QED  BY <1>3, <2>k, <3>1, <3>2 DEF files, UpToDate, Ready
  <2>8. QED  BY <2>1, <2>2, <2>3, <2>4, <2>5, <2>6, <2>7 DEF Step
<1>4. QED  BY <1>2, <1>3

\* So does an edit, if the package whose files it outdates has an old control
\* file then.
LEMMA FreshEdit ==
    ASSUME ParentsNeeded, NoRewrites, TypeOK, RootfsClosed', Fresh,
           NEW p \in Pkg, Edit(p)
    PROVE  Fresh'
<1> SUFFICES ASSUME NEW r \in installed', ~Doomed(r)' PROVE UpToDate(r)'
  BY DEF Fresh
<1>i. r \in installed /\ r \in Pkg /\ installed' = installed
  BY DEF Edit, EditConfig, EditRev, EditPatch, EditBuild, EditInstall, files, TypeOK
<1>k. ASSUME NEW n, newer' = Kept(n), NEW q \in Pkg, <<"control", q>> \in n,
             r \in Users(q, RunDepends)
      PROVE  FALSE
  <2>1. <<"control", q>> \in newer'
    BY <1>k, KeptControl
  <2>2. QED  BY <1>k, <2>1 DEF Doomed, Users
<1>u. ASSUME newer \subseteq newer' \/ \E n : newer \subseteq n /\ newer' = Kept(n)
      PROVE  UpToDate(r)
  <2>1. ~Doomed(r)
    BY <1>u, <1>k DEF Doomed, Users
  <2>2. QED  BY <1>i, <2>1 DEF Fresh
<1>1. CASE EditConfig(p)
  <2>1. UNCHANGED files
    BY <1>1 DEF EditConfig
  <2>2. QED  BY <1>u, <2>1 DEF files, UpToDate, Ready, Unpacked
<1>2. CASE <<"patch", p>> \in Edits /\ EditPatch(p)
  <2>1. unpacked' = unpacked \ {p} /\ UNCHANGED <<archived, newer>>
    BY <1>2 DEF EditPatch
  <2>2. p \notin HasSources
    BY <1>2 DEF NoRewrites
  <2>3. QED  BY <1>u, <2>1, <2>2 DEF UpToDate, Ready, Unpacked
<1>3. CASE <<"rev", p>> \in Edits /\ EditRev(p)
  <2>1. /\ unpacked' = unpacked \ Versioned(p)
        /\ archived' = archived \ Versioned(p)
        /\ newer' = Kept(newer \cup {<<"control", p>>})
    BY <1>3 DEF EditRev
  <2>2. r \notin Versioned(p)
    <3>1. ASSUME Parent[r] = p PROVE r \in Users(p, RunDepends)
      BY <1>3, <1>i, <3>1 DEF ParentsNeeded
    <3>2. QED  BY <2>1, <3>1, <1>k DEF Versioned
  <2>3. newer' \subseteq newer \cup {<<"control", p>>}
    BY <2>1, KeptType
  <2>4. UpToDate(r)
    BY <2>1, <1>u
  <2>5. QED  BY <2>1, <2>2, <2>3, <2>4 DEF UpToDate, Ready, Unpacked
<1>4. CASE EditBuild(p) \/ EditInstall(p)
  <2>1. PICK E \in SUBSET {"build", "install", "control", "rule"} :
            "control" \in E /\ newer' = Kept(newer \cup (E \X {p}))
    <3>1. \/ newer' = Kept(newer \cup ({"build", "control"} \X {p}))
          \/ newer' = Kept(newer \cup ({"install", "control", "rule"} \X {p}))
      BY <1>4 DEF EditBuild, EditInstall
    <3>2. QED  BY <3>1
  <2>2. r # p
    <3>1. <<"control", p>> \in newer \cup (E \X {p})
      BY <2>1
    <3>2. QED  BY <2>1, <3>1, <1>k, UsersSelf
  <2>3. \A f : <<f, r>> \in newer' => <<f, r>> \in newer
    <3>1. newer' \subseteq newer \cup (E \X {p})
      BY <2>1, KeptType
    <3>2. QED  BY <2>2, <3>1
  <2>4. UpToDate(r)
    BY <2>1, <1>u
  <2>5. unpacked' = unpacked /\ archived' = archived
    BY <1>4 DEF EditBuild, EditInstall
  <2>6. QED  BY <2>3, <2>4, <2>5 DEF UpToDate, Ready, Unpacked
<1>5. QED  BY <1>1, <1>2, <1>3, <1>4 DEF Edit

\* While nothing is old, a step of a script leaves the loops of install what
\* they have been through, and what was being installed is so or is installed.
LEMMA FetchStep ==
    ASSUME TypeOK, InOrder, Fresh, NoneOld, Fetch,
           NEW p \in Pkg, Step(p), ~InstallRefused(p)
    PROVE  /\ Fetch' /\ Installing \subseteq Installing' \cup installed'
           /\ Installing = {} => Installing' = {}
<1>s. stack \in Seq(Frames) /\ stack # <<>> /\ Head(stack).pkg = p
  BY DEF TypeOK, Step, BuildStart, BuildInstalldev, BuildRule, PackageStart,
         PackageCheck, PackageDepends, PackageRule, InstallStart,
         InstallDepends, InstallOpkg, InstallRefused, At
<1>1. /\ 1 \in DOMAIN stack /\ stack[1] = Head(stack) /\ stack[1].pkg = p
      /\ Todo = stack[1].todo /\ Todo \in Seq(Pkg) /\ stack[1].at \in Labels
  <2>1. 1 \in DOMAIN stack /\ stack[1] = Head(stack)
    BY <1>s, TopShape
  <2>2. Head(stack).at \in Labels
    BY <1>s, TopType DEF Frames
  <2>3. QED  BY <1>s, <2>1, <2>2, TopType DEF Todo
<1>f. Fits(1) /\ Fetched(1) /\ Ordered
  BY <1>1 DEF InOrder, Fit, Fetch
<1>i. installed \subseteq installed'
  BY OnlyGrows
<1>d. /\ BuildDepends[p] \in Seq(Pkg) /\ RunDepends[p] \in Seq(Pkg)
      /\ <<>> \in Seq(Pkg) /\ Elems(<<>>) = {}
  BY RootfsAssumption DEF Elems
<1>l. /\ {"start", "check", "rule", "depends", "opkg"} \subseteq Labels
      /\ {"build", "package", "install"} \subseteq Ops
  BY DEF Labels, Ops
<1>t. Todo # <<>> => Head(Todo) \in Pkg /\ Tail(Todo) \in Seq(Pkg)
  BY <1>1, ListElems
<1>g. ASSUME NEW l \in Labels, NEW todo \in Seq(Pkg), Goto(l, todo),
             stack[1].op # "install"
      PROVE  Fetch' /\ Installing' = Installing
  <2>1. Fetched(1)'
    <3>1. stack'[1].op = stack[1].op
      BY <1>g, <1>s, GotoShape
    <3>2. QED  BY <3>1, <1>g DEF Fetched
  <2>2. QED  BY <2>1, <1>g, <1>s, <1>i, FetchGoto
<1>k. ASSUME NEW op \in Ops, NEW q \in Pkg, NEW l \in Labels,
             NEW todo \in Seq(Pkg), Call(op, q, l, todo),
             op # "install", stack[1].op # "install"
      PROVE  Fetch' /\ Installing' = Installing
  <2>1. Fetched(2)'
    <3>1. stack'[2].op = stack[1].op
      BY <1>k, <1>s, CallShape
    <3>2. QED  BY <3>1, <1>k DEF Fetched
  <2>2. QED  BY <2>1, <1>k, <1>s, <1>i, FetchCall
<1>r. ASSUME Return, stack[1].op = "install" => p \in installed'
      PROVE  /\ Fetch' /\ Installing \subseteq Installing' \cup installed'
             /\ Installing' \subseteq Installing
  BY <1>r, <1>s, <1>1, <1>i, FetchReturn
<1>2. CASE BuildStart(p) \/ PackageCheck(p)
  <2>1. /\ stack[1].op # "install"
        /\ \/ Return
           \/ Goto("depends", BuildDepends[p]) \/ Goto("depends", RunDepends[p])
    BY <1>2, <1>1 DEF BuildStart, PackageCheck, At
  <2>2. QED  BY <2>1, <1>g, <1>r, <1>d, <1>l
<1>3. CASE BuildRule(p) \/ PackageRule(p)
  <2>1. stack[1].op # "install" /\ Return
    BY <1>3, <1>1 DEF BuildRule, PackageRule, At
  <2>2. QED  BY <2>1, <1>r
<1>4. CASE BuildInstalldev(p) \/ PackageStart(p) \/ PackageDepends(p)
  <2>1. /\ stack[1].op # "install"
        /\ \/ Goto("rule", <<>>)
           \/ Todo # <<>> /\ Goto("depends", Tail(Todo))
           \/ Call("build", p, "check", <<>>)
           \/ /\ Todo # <<>>
              /\ \E op \in {"build", "package"} :
                     Call(op, Head(Todo), stack[1].at, Tail(Todo))
    BY <1>4, <1>1 DEF BuildInstalldev, PackageStart, PackageDepends, At, ForEach
  <2>2. CASE Goto("rule", <<>>)
    BY <2>1, <2>2, <1>g, <1>d, <1>l
  <2>3. CASE Todo # <<>> /\ Goto("depends", Tail(Todo))
    BY <2>1, <2>3, <1>g, <1>t, <1>l
  <2>4. CASE Call("build", p, "check", <<>>)
    BY <2>1, <2>4, <1>k, <1>d, <1>l
  <2>5. CASE Todo # <<>> /\ \E op \in {"build", "package"} :
                     Call(op, Head(Todo), stack[1].at, Tail(Todo))
    <3>1. PICK op \in {"build", "package"} :
              Call(op, Head(Todo), stack[1].at, Tail(Todo))
      BY <2>5
    <3>2. Head(Todo) \in Pkg /\ Tail(Todo) \in Seq(Pkg) /\ op \in Ops /\ op # "install"
      BY <2>5, <1>t, <1>l
    <3>3. QED  BY <2>1, <3>1, <3>2, <1>k, <1>1
  <2>6. QED  BY <2>1, <2>2, <2>3, <2>4, <2>5
<1>5. CASE InstallStart(p)
  <2>1. /\ stack[1].op = "install"
        /\ \/ Return /\ p \in installed'
           \/ Call("package", p, "depends", RunDepends[p])
    BY <1>5, <1>1 DEF InstallStart, At
  <2>2. CASE Call("package", p, "depends", RunDepends[p])
    <3>1. /\ stack'[2].pkg = p
          /\ stack'[2].at = "depends" /\ stack'[2].todo = RunDepends[p]
      BY <2>2, <1>s, <1>1, <1>d, <1>l, CallShape
    <3>2. Fetched(2)'
      BY <3>1 DEF Fetched
    <3>3. QED  BY <2>2, <3>2, <1>s, <1>i, <1>d, <1>l, FetchCall
  <2>3. QED  BY <2>1, <2>2, <1>r
<1>6. CASE InstallDepends(p)
  <2>1. stack[1].op = "install" /\ stack[1].at = "depends" /\ installed' = installed
    BY <1>6, <1>1 DEF InstallDepends, At, files
  <2>2. Elems(RunDepends[p]) \subseteq installed \cup Elems(Todo) \cup Installing
    BY <2>1, <1>f, <1>1 DEF Fetched
  <2>3. CASE Todo = <<>>
    <3>1. Goto("opkg", <<>>)
      BY <1>6, <2>3 DEF InstallDepends, ForEach
    <3>2. ASSUME NEW d \in Elems(RunDepends[p]) PROVE d \notin Installing
      <4> SUFFICES ASSUME NEW j \in DOMAIN stack, stack[j].pkg = d PROVE FALSE
        BY DEF Installing
      <4>1. d \in Elems(Depends[p])
        BY DependsElems
      <4>2. stack[j].pkg \in Users(p, Depends)
        <5>1. CASE j = 1
          BY <5>1, <1>1, UsersSelf
        <5>2. CASE j # 1
          <6>1. 1 < j
            BY <5>2, <1>s, TopShape
          <6>2. QED  BY <6>1, <1>1, <1>f DEF Ordered
        <5>3. QED  BY <5>1, <5>2
      <4>3. QED  BY <4>1, <4>2, NeverItself
    <3>3. Elems(RunDepends[p]) \subseteq installed
      BY <2>2, <2>3, <3>2, <1>d
    <3>4. stack'[1].pkg = p /\ stack'[1].at = "opkg"
      BY <3>1, <1>s, <1>1, <1>d, <1>l, GotoShape
    <3>5. Fetched(1)'
      BY <2>1, <3>3, <3>4 DEF Fetched
    <3>6. Fetch' /\ Installing' = Installing
      BY <3>1, <3>5, <1>s, <1>i, <1>d, <1>l, FetchGoto
    <3>7. QED  BY <3>6
  <2>4. CASE Todo # <<>>
    <3>1. Call("install", Head(Todo), "depends", Tail(Todo))
      BY <1>6, <2>1, <2>4, <1>1 DEF InstallDepends, ForEach
    <3>2. /\ Head(Todo) \in Pkg /\ Tail(Todo) \in Seq(Pkg)
          /\ Elems(Todo) \subseteq {Head(Todo)} \cup Elems(Tail(Todo))
      BY <2>4, <1>1, <1>t, ListParts
    <3>3. /\ stack'[2].pkg = p
          /\ stack'[2].at = "depends" /\ stack'[2].todo = Tail(Todo)
      <4>1. /\ stack'[2].pkg = stack[1].pkg
            /\ stack'[2].at = "depends" /\ stack'[2].todo = Tail(Todo)
        <5>1. "install" \in Ops /\ "depends" \in Labels
          BY <1>l
        <5>2. stack \in Seq(Frames) /\ stack # <<>>
          BY <1>s
        <5>3. QED  BY <3>1, <3>2, <5>1, <5>2, CallShape
      <4>2. QED  BY <4>1, <1>1
    <3>4. ASSUME Installing \subseteq Installing', Head(Todo) \in Installing'
          PROVE  Fetched(2)'
      <4>1. Elems(RunDepends[p]) \subseteq installed' \cup Elems(Tail(Todo)) \cup Installing'
        BY <2>1, <2>2, <3>2, <3>4
      <4>2. QED  BY <3>3, <4>1 DEF Fetched
    <3>5. Fetch' /\ Installing \subseteq Installing'
      BY <3>1, <3>2, <3>4, <1>s, <1>i, <1>l, FetchCall
    <3>6. Installing # {}
      BY <1>1, <2>1 DEF Installing
    <3>7. QED  BY <3>5, <3>6
  <2>5. QED  BY <2>3, <2>4
<1>7. CASE InstallOpkg(p)
  <2>1. stack[1].op = "install" /\ stack[1].at = "opkg" /\ Return
    BY <1>7, <1>1 DEF InstallOpkg, At
  <2>2. Ready(p)
    BY <2>1, <1>f, <1>1 DEF Fits
  <2>3. p \in installed'
    BY <1>7, <2>2 DEF InstallOpkg, Ready
  <2>4. QED  BY <2>1, <2>3, <1>r
<1>8. QED  BY <1>2, <1>3, <1>4, <1>5, <1>6, <1>7 DEF Step

\* Every step of a script keeps what rootfs has been through.
LEMMA WalkedStep ==
    ASSUME TypeOK, InOrder, Fresh, OldInv, Walked, NEW p \in Pkg, Step(p)
    PROVE  Walked'
<1>1. stack # <<>>
  BY DEF Step, BuildStart, BuildInstalldev, BuildRule, PackageStart,
         PackageCheck, PackageDepends, PackageRule, InstallStart,
         InstallDepends, InstallOpkg, InstallRefused, At
<1>2. ~done /\ pass # "stale"
  BY <1>1 DEF Walked, Idle
<1>3. CASE InstallRefused(p)
  BY <1>2, <1>3 DEF InstallRefused, Walked
<1>4. CASE ~InstallRefused(p)
  <2>1. UNCHANGED walk
    BY <1>4 DEF Step, BuildStart, BuildInstalldev, BuildRule, PackageStart,
                PackageCheck, PackageDepends, PackageRule, InstallStart,
                InstallDepends, InstallOpkg
  <2>2. RootfsPackages' = RootfsPackages /\ pass' = pass /\ rest' = rest /\ done' = done
    BY <2>1 DEF walk, RootfsPackages
  <2>3. CASE pass = "install"
    <3>1. NoneOld /\ Fetch
      BY <2>3 DEF OldInv, Walked
    <3>2. Fetch' /\ Installing \subseteq Installing' \cup installed'
      BY <3>1, <1>4, FetchStep
    <3>3. installed \subseteq installed'
      BY <3>1, OnlyGrows
    <3>4. RootfsPackages \subseteq installed \cup rest \cup Installing
      BY <2>3 DEF Walked
    <3>5. QED  BY <1>2, <2>2, <2>3, <3>2, <3>3, <3>4 DEF Walked
  <2>4. CASE pass = "opk"
    <3>1. NoneOld /\ Installing = {} /\ RootfsPackages \subseteq installed
      BY <2>4 DEF OldInv, Walked
    <3>2. Fetch
      BY <3>1 DEF Fetch, Fetched, Installing
    <3>3. Installing' = {}
      BY <3>1, <3>2, <1>4, FetchStep
    <3>4. installed \subseteq installed'
      BY <3>1, OnlyGrows
    <3>5. QED  BY <1>2, <2>2, <2>4, <3>1, <3>3, <3>4 DEF Walked
  <2>5. CASE pass = "idle"
    BY <1>2, <2>2, <2>5 DEF Walked
  <2>6. QED  BY <1>2, <2>3, <2>4, <2>5 DEF TypeOK
<1>5. QED  BY <1>3, <1>4

\* What rootfs removes leaves the rest up to date, or doomed.
LEMMA FreshStale ==
    ASSUME TypeOK, RootfsClosed', Fresh, RootfsStale
    PROVE  Fresh'
<1>1. /\ newer' = Kept(newer) /\ installed' \subseteq installed
      /\ UNCHANGED <<archived, unpacked>>
  BY WithoutType DEF RootfsStale
<1>2. newer' \subseteq newer
  BY <1>1, KeptType
<1> SUFFICES ASSUME NEW r \in installed' PROVE UpToDate(r)' \/ Doomed(r)'
  BY DEF Fresh
<1>3. CASE UpToDate(r)
  BY <1>1, <1>2, <1>3 DEF UpToDate, Ready, Unpacked
<1>4. CASE Doomed(r)
  <2>1. PICK q \in Pkg : r \in Users(q, RunDepends) /\ <<"control", q>> \in newer
    BY <1>4 DEF Doomed
  <2>2. <<"control", q>> \in newer'
    BY <1>1, <2>1, KeptControl
  <2>3. QED  BY <2>1, <2>2 DEF Doomed, Users
<1>5. QED  BY <1>1, <1>3, <1>4 DEF Fresh

\* Every step of rootfs keeps what it has been through.
LEMMA WalkedRootfs ==
    ASSUME TypeOK, Walked, RootfsStart \/ RootfsStale \/ RootfsInstall \/ RootfsOpk
    PROVE  Walked'
<1>c. RootfsPackages' = RootfsPackages
  BY DEF RootfsStart, RootfsStale, RootfsInstall, RootfsOpk, RootfsPackages
<1>e. ASSUME stack' = <<>> PROVE Fetch' /\ Installing' = {}
  BY <1>e DEF Fetch, Installing
<1>f. ASSUME NEW op, NEW p, stack' = <<Frame(op, p)>>
      PROVE  /\ Fetch'
             /\ op = "install" => p \in Installing'
             /\ op # "install" => Installing' = {}
  <2>1. /\ DOMAIN stack' = {1} /\ stack'[1].at = "start"
        /\ stack'[1].op = op /\ stack'[1].pkg = p
    BY <1>f DEF Frame
  <2>2. QED  BY <2>1 DEF Fetch, Fetched, Installing
<1>1. CASE RootfsStart
  BY <1>1 DEF RootfsStart, Idle, Walked
<1>2. CASE RootfsStale
  <2>1. stack' = <<>> /\ ~done' /\ pass' \in {"stale", "install"}
    BY <1>2 DEF RootfsStale, Walked, Idle
  <2>2. pass' = "install" => rest' = RootfsPackages
    BY <1>2 DEF RootfsStale
  <2>3. QED  BY <2>1, <2>2, <1>c, <1>e DEF Walked
<1>3. CASE RootfsInstall
  <2>1. /\ ~done' /\ installed' = installed
        /\ RootfsPackages \subseteq installed \cup rest
    BY <1>3, <1>e DEF RootfsInstall, Walked, Idle, files, Installing
  <2>2. CASE rest = {}
    BY <1>3, <2>1, <2>2, <1>c, <1>e DEF RootfsInstall, Walked
  <2>3. CASE rest # {}
    <3>1. PICK p \in Pkg : /\ rest' = rest \ {p} /\ pass' = pass
                           /\ stack' = IF p \in installed THEN <<>>
                                       ELSE <<Frame("install", p)>>
      BY <1>3, <2>3 DEF RootfsInstall
    <3>2. Fetch' /\ (p \notin installed => p \in Installing')
      <4>1. CASE p \in installed
        BY <3>1, <4>1, <1>e
      <4>2. CASE p \notin installed
        <5>1. stack' = <<Frame("install", p)>>
          BY <3>1, <4>2
        <5>2. QED  BY <5>1, <1>f
      <4>3. QED  BY <4>1, <4>2
    <3>3. pass' = "install"
      BY <1>3, <3>1 DEF RootfsInstall
    <3>4. QED  BY <2>1, <3>1, <3>2, <3>3, <1>c DEF Walked
  <2>4. QED  BY <2>2, <2>3
<1>4. CASE RootfsOpk
  <2>1. /\ installed' = installed /\ RootfsPackages \subseteq installed
        /\ stack = <<>> /\ pass = "opk" /\ ~done
    BY <1>4 DEF RootfsOpk, Walked, Idle, files
  <2>2. CASE rest = {}
    BY <1>4, <2>1, <2>2, <1>c DEF RootfsOpk, Walked, Idle
  <2>3. CASE rest # {}
    <3>1. PICK p \in Pkg : stack' = <<Frame("package", p)>> /\ UNCHANGED <<pass, done>>
      BY <1>4, <2>3 DEF RootfsOpk
    <3>2. Installing' = {}
      BY <3>1, <1>f
    <3>3. QED  BY <2>1, <3>1, <3>2, <1>c DEF Walked
  <2>4. QED  BY <2>2, <2>3
<1>5. QED  BY <1>1, <1>2, <1>3, <1>4

\* While no patch is rewritten and edited parents are needed, what is installed
\* is up to date or doomed, and what rootfs has been through is installed.
LEMMA WalkedAlways ==
    ASSUME ParentsNeeded, NoRewrites
    PROVE  Spec => [](Fresh /\ Walked)
<1>1. Init => Fresh /\ Walked
  BY DEF Init, Fresh, Walked
<1>2. /\ TypeOK /\ InOrder /\ RootfsClosed /\ RootfsClosed' /\ OldInv
      /\ Fresh /\ Walked /\ [Next]_vars
      => Fresh' /\ Walked'
  <2> SUFFICES ASSUME TypeOK, InOrder, RootfsClosed, RootfsClosed', OldInv,
                      Fresh, Walked, [Next]_vars
               PROVE  Fresh' /\ Walked'
    OBVIOUS
  <2>u. ASSUME UNCHANGED files PROVE Fresh'
    BY <2>u DEF files, Fresh, UpToDate, Doomed, Ready, Unpacked
  <2>e. ASSUME ~done', pass' = "idle" PROVE Walked'
    BY <2>e DEF Walked
  <2>1. CASE \E p \in Pkg : Step(p)
    BY <2>1, FreshStep, WalkedStep
  <2>2. CASE RootfsStale
    BY <2>2, FreshStale, WalkedRootfs
  <2>3. CASE RootfsStart \/ RootfsInstall \/ RootfsOpk
    BY <2>3, <2>u, WalkedRootfs DEF RootfsStart, RootfsInstall, RootfsOpk
  <2>4. CASE \E p \in Pkg, op \in {"package", "install"} : Start(op, p)
    BY <2>4, <2>u, <2>e DEF Start, Idle
  <2>5. CASE \E p \in Pkg : Edit(p)
    BY <2>5, <2>e, FreshEdit DEF Edit, Idle
  <2>6. CASE Abort
    <3>1. ~done'
      BY <2>6 DEF Abort, Walked
    <3>2. QED  BY <2>6, <3>1, <2>u, <2>e DEF Abort
  <2>7. CASE UNCHANGED vars
    <3>1. UNCHANGED files /\ UNCHANGED <<stack, pass, rest, done, installed>>
      BY <2>7 DEF vars, files
    <3>2. RootfsPackages' = RootfsPackages
      BY <2>7 DEF vars, RootfsPackages
    <3>3. Installing' = Installing
      BY <3>1 DEF Installing
    <3>4. Fetch' <=> Fetch
      BY <3>1, <3>3 DEF Fetch, Fetched
    <3>5. QED  BY <3>1, <3>2, <3>3, <3>4, <2>u DEF Walked, Idle
  <2>8. QED  BY <2>1, <2>2, <2>3, <2>4, <2>5, <2>6, <2>7 DEF Next
<1>3. QED
  BY <1>1, <1>2, TypeCorrect, Closed, ScriptsInOrder, OldAlways, PTL DEF Spec

\* A run of rootfs that ends well leaves every configured package installed.
\* It looks at each package once: what it kept or has installed is not removed
\* by the builds of what it installs later, because these find nothing to
\* remove but what rootfs has removed itself (scripts/rootfs:30-48).
THEOREM ConfiguredInstalled ==
    ASSUME ParentsNeeded, NoRewrites
    PROVE  Spec => []AllInstalled
<1>1. Walked => AllInstalled
  BY DEF Walked, AllInstalled
<1>2. QED  BY <1>1, WalkedAlways, PTL

\* In a run of rootfs opkg always finds what a package needs to run: the loop
\* of install that has been through it knows it installed, and nothing has
\* removed it since (scripts/install:50-58).
THEOREM DependsFound ==
    ASSUME ParentsNeeded, NoRewrites
    PROVE  Spec => []RunDependsInstalled
<1>1. TypeOK /\ Walked => RunDependsInstalled
  <2> SUFFICES ASSUME TypeOK, Walked, NEW p \in Pkg, pass # "idle",
                      At("install", "opkg", p)
               PROVE  Usable(p)
    BY DEF RunDependsInstalled
  <2>1. stack # <<>> /\ 1 \in DOMAIN stack /\ stack[1] = Head(stack)
    BY TopShape DEF At, TypeOK
  <2>2. p \in Installing
    BY <2>1 DEF Installing, At
  <2>3. pass = "install"
    BY <2>1, <2>2 DEF Walked, TypeOK
  <2>4. Fetched(1)
    BY <2>1, <2>3 DEF Walked, Fetch
  <2>5. QED  BY <2>1, <2>4 DEF Fetched, At, Usable
<1>2. QED  BY <1>1, TypeCorrect, WalkedAlways, PTL

\* What a run of rootfs that ends well leaves installed is up to date: of the
\* present version, from the archive that is there, which its present rules have
\* made of its present sources, whatever the edits, the runs by hand and the
\* interruptions before it (scripts/rootfs:35, scripts/install:31-39).
THEOREM TargetCurrent ==
    ASSUME ParentsNeeded, NoRewrites
    PROVE  Spec => []Current
<1>1. TypeOK /\ OldInv /\ Fresh => Current
  <2>1. TypeOK /\ OldInv /\ done => installed \cap outdated = {} /\ NoneOld
    BY RootfsAssumption DEF OldInv, NoneOld, TypeOK
  <2>2. NoneOld /\ Fresh => \A p \in installed : UpToDate(p)
    BY DEF NoneOld, Fresh, Doomed
  <2>3. QED  BY <2>1, <2>2 DEF Current
<1>2. QED  BY <1>1, TypeCorrect, OldAlways, WalkedAlways, PTL
=============================================================================
