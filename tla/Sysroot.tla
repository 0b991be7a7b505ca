------------------------------ MODULE Sysroot ------------------------------
(***************************************************************************)
(* The sysroot: what scripts/build, packagedev and installdev do to EACH   *)
(* OTHER's packages while they resolve dependencies recursively.           *)
(*                                                                         *)
(* To build a package, build installs the devel packages it depends on in  *)
(* the toolchain; to install one, installdev packages it, which builds it, *)
(* which installs what IT depends on, and so on.  All of these runs share  *)
(* one toolchain directory.  A package that is rebuilt on the way is       *)
(* cleaned first, and opkg removes a package together with everything that *)
(* depends on it; with DYNAMIC_SYSROOT every build empties the toolchain.  *)
(* So what a caller installed may be gone when its callee returns.         *)
(*                                                                         *)
(* The state of the running scripts is a call stack, its head the script   *)
(* that is running.  The life of one package's files in detail, unpacking  *)
(* included, is module Package; here a script's calls on its own package   *)
(* are part of its step.  All packages are devel packages.                 *)
(***************************************************************************)
EXTENDS Scripts

CONSTANTS
    BuildDepends,  \* PKG_BUILD_DEPENDS, in the order of meta
    DevDepends,    \* PKG_DEV_DEPENDS; get_meta makes it PKG_BUILD_DEPENDS
                   \* for a package that does not set it
    Conflicts,     \* PKG_DEV_CONFLICTS
    HasSources,    \* the packages that get downloads and unpack unpacks
    Namesakes,     \* the packages whose names begin with a package's name:
                   \* $STAMPS/$1*/... in scripts/clean means them all
    Dynamic,       \* DYNAMIC_SYSROOT=yes
    EditKinds      \* what a developer does between runs in this instance

ASSUME DependsAssumption ==
    /\ BuildDepends \in [Pkg -> Seq(Pkg)]
    /\ DevDepends \in [Pkg -> Seq(Pkg)]
    /\ Conflicts \in [Pkg -> SUBSET Pkg]
    /\ HasSources \subseteq Pkg
    /\ Namesakes \in [Pkg -> SUBSET Pkg]
    /\ \A p \in Pkg : p \in Namesakes[p]
    /\ Dynamic \in BOOLEAN
    /\ EditKinds \subseteq {"clean", "rev", "build", "installdev"}

\* Nothing in the scripts looks for cycles: metas are written without them.
ASSUME AcyclicAssumption ==
    \A S \in SUBSET Pkg : S # {} =>
        \E p \in S : (Elems(BuildDepends[p]) \cup Elems(DevDepends[p])) \cap S = {}

VARIABLES
    unpacked,   \* packages with an unpack stamp of the current version
    built,      \* packages with a build stamp
    archived,   \* packages with a devel archive under its current name
    newer       \* <<f, p>>: a file is modified after the file f of p was

files == <<unpacked, built, archived, installed, newer>>
vars == <<stack, unpacked, built, archived, installed, newer>>

----------------------------------------------------------------------------
\* opkg and the files

\* scripts/uninstalldev: opkg remove --force-removal-of-dependent-packages.
Without(S) == Remaining(S, DevDepends)

\* scripts/unpackagedev does nothing when there is no archive.
Unpackagedev(p) == IF p \in archived THEN Without({p}) ELSE installed

Init ==
    /\ stack = <<>>
    /\ unpacked = {}
    /\ built = {}
    /\ archived = {}
    /\ installed = {}
    /\ newer = {}

----------------------------------------------------------------------------
\* scripts/build

\* unpack cleans a package before it unpacks it, which happens once for every
\* new revision: its archive and control file are removed, and the stamps of
\* all its namesakes, of which some may be waiting for this very script.
\* Otherwise a build rule newer than the stamp removes the stamp and archive.
BuildStart(p) ==
    /\ At("build", "start", p)
    /\ LET unpack == p \in HasSources \ unpacked
           again == ~unpack /\ p \in built /\ <<"build", p>> \in newer
           test == IF Dynamic THEN "wipe" ELSE "installdev"
       IN  /\ unpacked' = IF unpack THEN (unpacked \ Namesakes[p]) \cup {p} ELSE unpacked
           /\ built' = built \ CASE unpack -> Namesakes[p]
                               [] again  -> {p}
                               [] OTHER  -> {}
           /\ archived' = IF unpack \/ again THEN archived \ {p} ELSE archived
           /\ installed' = CASE unpack -> Without({p})
                             [] again  -> Unpackagedev(p)
                             [] OTHER  -> installed
           /\ IF p \in built' THEN Return
              ELSE Goto(test, BuildDepends[p])
           /\ UNCHANGED newer

\* Mutant: the toolchain is not emptied.
BuildNoWipe(p) ==
    /\ At("build", "wipe", p)
    /\ Goto("packagedev", Todo)
    /\ UNCHANGED files

\* DYNAMIC_SYSROOT: the loop over the control files of the toolchain.
BuildWipe(p) ==
    /\ At("build", "wipe", p)
    /\ IF installed = {}
       THEN Goto("packagedev", Todo) /\ UNCHANGED installed
       ELSE /\ \E q \in installed : installed' = Without({q})
            /\ UNCHANGED stack
    /\ UNCHANGED <<unpacked, built, archived, newer>>

\* Mutant: with DYNAMIC_SYSROOT the archives are made one by one, when needed.
BuildNoPackagedev(p) ==
    /\ At("build", "packagedev", p)
    /\ Goto("installdev", BuildDepends[p])
    /\ UNCHANGED files

\* Every archive is made before the first one is installed.
BuildPackagedev(p) ==
    /\ At("build", "packagedev", p)
    /\ IF Todo = <<>> THEN Goto("installdev", BuildDepends[p])
                      ELSE Call("packagedev", Head(Todo), "packagedev", Tail(Todo))
    /\ UNCHANGED files

\* Mutant: the loop does not advance.
BuildInstalldevForever(p) ==
    /\ At("build", "installdev", p)
    /\ IF Todo = <<>> THEN Goto("rule", <<>>)
                      ELSE Call("installdev", Head(Todo), "installdev", Todo)
    /\ UNCHANGED files

BuildInstalldev(p) ==
    /\ At("build", "installdev", p)
    /\ ForEach("installdev", "rule")
    /\ UNCHANGED files

\* The build rule runs against the toolchain as it is now; then the stamp.
BuildRule(p) ==
    /\ At("build", "rule", p)
    /\ built' = built \cup {p}
    /\ newer' = newer \ {<<"build", p>>}
    /\ Return
    /\ UNCHANGED <<unpacked, archived, installed>>

----------------------------------------------------------------------------
\* scripts/packagedev

\* Mutant: packagedev takes a package that is built for a packaged one.
PackagedevBuilt(p) ==
    /\ At("packagedev", "start", p)
    /\ IF p \in built THEN Return ELSE Call("build", p, "rule", <<>>)
    /\ UNCHANGED files

PackagedevStart(p) ==
    /\ At("packagedev", "start", p)
    /\ LET again == p \in archived /\ <<"archive", p>> \in newer
       IN  /\ installed' = IF again THEN Without({p}) ELSE installed
           /\ archived' = IF again THEN archived \ {p} ELSE archived
           /\ IF p \in archived' THEN Return ELSE Call("build", p, "rule", <<>>)
    /\ UNCHANGED <<unpacked, built, newer>>

\* opkg-build; the archive is now newer than an installed control file.
PackagedevRule(p) ==
    /\ At("packagedev", "rule", p)
    /\ archived' = archived \cup {p}
    /\ newer' = (newer \ {<<"archive", p>>})
                    \cup (IF p \in installed THEN {<<"control-archive", p>>} ELSE {})
    /\ Return
    /\ UNCHANGED <<unpacked, built, installed>>

----------------------------------------------------------------------------
\* scripts/installdev

\* The two reasons to remove an installed package: the rule is newer than the
\* control file, and then its archive goes too; the archive is newer.
InstalldevStart(p) ==
    /\ At("installdev", "start", p)
    /\ LET rule == p \in installed /\ <<"control", p>> \in newer
           opk == /\ p \in installed /\ p \in archived /\ ~rule
                  /\ <<"control-archive", p>> \in newer
       IN  /\ installed' = CASE rule  -> Unpackagedev(p)
                             [] opk   -> Without({p})
                             [] OTHER -> installed
           /\ archived' = IF rule THEN archived \ {p} ELSE archived
           /\ IF p \in installed' THEN Return
              ELSE Call("packagedev", p, "conflicts", <<>>)
    /\ UNCHANGED <<unpacked, built, newer>>

\* Mutant: the conflicting packages stay.
InstalldevBesideConflicts(p) ==
    /\ At("installdev", "conflicts", p)
    /\ Goto("depends", DevDepends[p])
    /\ UNCHANGED files

InstalldevConflicts(p) ==
    /\ At("installdev", "conflicts", p)
    /\ installed' = Without(Conflicts[p])
    /\ Goto("depends", DevDepends[p])
    /\ UNCHANGED <<unpacked, built, archived, newer>>

InstalldevDepends(p) ==
    /\ At("installdev", "depends", p)
    /\ ForEach("installdev", "opkg")
    /\ UNCHANGED files

Usable(p) == Elems(DevDepends[p]) \subseteq installed

\* Without an archive there is nothing to install.
InstalldevOpkg(p) ==
    /\ At("installdev", "opkg", p)
    /\ IF p \in archived
       THEN /\ Usable(p)
            /\ installed' = installed \cup {p}
            /\ newer' = newer \ {<<"control", p>>, <<"control-archive", p>>}
       ELSE UNCHANGED <<installed, newer>>
    /\ Return
    /\ UNCHANGED <<unpacked, built, archived>>

\* opkg refuses a package whose dependencies are not installed: installdev
\* fails and, under `set -e', every script up the stack with it.
InstalldevRefused(p) ==
    /\ At("installdev", "opkg", p)
    /\ p \in archived /\ ~Usable(p)
    /\ stack' = <<>>
    /\ UNCHANGED files

----------------------------------------------------------------------------
\* The developer between runs, and runs that stop

\* What is run by hand.
Commands == {"build", "packagedev", "installdev"}

Start(op, p) ==
    /\ stack = <<>>
    /\ stack' = <<Frame(op, p)>>
    /\ UNCHANGED files

\* scripts/clean.
Clean(p) ==
    /\ stack = <<>>
    /\ unpacked' = unpacked \ Namesakes[p]
    /\ built' = built \ Namesakes[p]
    /\ archived' = archived \ {p}
    /\ installed' = Without({p})
    /\ UNCHANGED <<stack, newer>>

\* A new PKG_REV: the archive is looked for under another name and get
\* removes the stamps of a package it downloads.
Bump(p) ==
    /\ stack = <<>>
    /\ unpacked' = unpacked \ {p}
    /\ archived' = archived \ {p}
    /\ UNCHANGED <<stack, built, installed, newer>>

EditBuild(p) ==
    /\ stack = <<>>
    /\ newer' = newer \cup (IF p \in built THEN {<<"build", p>>} ELSE {})
    /\ UNCHANGED <<stack, unpacked, built, archived, installed>>

EditInstalldev(p) ==
    /\ stack = <<>>
    /\ newer' = newer \cup (IF p \in archived THEN {<<"archive", p>>} ELSE {})
                      \cup (IF p \in installed THEN {<<"control", p>>} ELSE {})
    /\ UNCHANGED <<stack, unpacked, built, archived, installed>>

Edit(p) ==
    \/ "clean" \in EditKinds /\ Clean(p)
    \/ "rev" \in EditKinds /\ Bump(p)
    \/ "build" \in EditKinds /\ EditBuild(p)
    \/ "installdev" \in EditKinds /\ EditInstalldev(p)

\* A run is interrupted, or a download or a rule in it fails.
Abort ==
    /\ stack # <<>>
    /\ stack' = <<>>
    /\ UNCHANGED files

Step(p) ==
    \/ BuildStart(p) \/ BuildWipe(p) \/ BuildPackagedev(p)
    \/ BuildInstalldev(p) \/ BuildRule(p)
    \/ PackagedevStart(p) \/ PackagedevRule(p)
    \/ InstalldevStart(p) \/ InstalldevConflicts(p)
    \/ InstalldevDepends(p) \/ InstalldevOpkg(p) \/ InstalldevRefused(p)

Next ==
    \/ \E p \in Pkg : Step(p)
    \/ \E p \in Pkg, op \in Commands : Start(op, p)
    \/ \E p \in Pkg : Edit(p)
    \/ Abort

Spec == Init /\ [][Next]_vars

\* A run that is not interrupted goes on: it is one process, which the
\* operating system schedules.
FairSpec == Spec /\ WF_vars(\E p \in Pkg : Step(p))

----------------------------------------------------------------------------
\* Properties

\* Every variable has its type; only packages with sources are unpacked.
TypeOK ==
    /\ stack \in Seq(Frames)
    /\ unpacked \subseteq HasSources
    /\ built \subseteq Pkg
    /\ archived \subseteq Pkg
    /\ installed \subseteq Pkg
    /\ newer \subseteq {"build", "archive", "control", "control-archive"} \X Pkg

\* A package is never in the toolchain without all it needs to be used,
\* whichever package of it was removed, rebuilt or put in conflict
\* (scripts/uninstalldev:13 and the refusal of opkg in scripts/installdev).
SysrootClosed == \A p \in installed : Elems(DevDepends[p]) \subseteq installed

\* DOCS/package-format.txt:79, PKG_BUILD_DEPENDS "will be packaged and
\* installed to sysroot before the package is built": they are still there
\* when the rule runs (scripts/build:80-86).
DependsAtBuild ==
    \A p \in Pkg : At("build", "rule", p) => Elems(BuildDepends[p]) \subseteq installed

\* DOCS/package-format.txt:84, PKG_DEV_DEPENDS "will be installed to sysroot
\* before the dev package is installed" (scripts/installdev:59-63).
DependsAtInstall ==
    \A p \in Pkg : At("installdev", "opkg", p) /\ p \in archived => Usable(p)

\* Whenever a package is built or installed, what it depends on is in the toolchain,
\* although what follows in the loop may have removed what came before.
DependsInstalled == DependsAtBuild /\ DependsAtInstall

\* The packages that are used with one of the packages in S.
UsedWith(S) == {q \in Pkg : \E p \in S : p \in Users(q, DevDepends)}

\* config/Kconfig.main:226: a dynamic sysroot is rebuilt "from scratch at each
\* package compilation", which "helps to catch wrong depends": a rule can
\* use nothing but what its package depends on.
NothingElseAtBuild ==
    \A p \in Pkg : Dynamic /\ At("build", "rule", p)
        => installed \subseteq UsedWith(Elems(BuildDepends[p]))

\* Packages that declare a conflict are never in the toolchain together, if no
\* package needs both: one is removed before the other's dependencies are
\* installed, and in the runs of these nothing brings it back, whatever they
\* rebuild or remove (scripts/installdev:55-61, which does not look again).
NoConflict == \A p \in installed : Conflicts[p] \cap installed = {}

\* Every run ends: the recursion over the dependencies terminates although
\* each build of one may undo the installation of others.
RunsEnd == (stack # <<>>) ~> (stack = <<>>)
=============================================================================
