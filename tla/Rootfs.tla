------------------------------- MODULE Rootfs -------------------------------
(***************************************************************************)
(* The target: scripts/rootfs, which makes the root file system agree with *)
(* the configuration, and the recursion of install and package over        *)
(* run-time dependencies that it starts.                                   *)
(*                                                                         *)
(* rootfs walks over the packages three times: it uninstalls what is       *)
(* stale, installs what is missing and packages what is wanted as an       *)
(* archive only.  It looks at each package once.  Meanwhile the scripts it *)
(* calls find out by themselves what must be unpacked, built or packaged   *)
(* again, and uninstall that, which takes along everything that needs it.  *)
(*                                                                         *)
(* As in Sysroot, what a script does to its own package is part of its     *)
(* step.  All packages are runtime packages of a section.  Whether build   *)
(* really builds a package it depends on is left open: that is so when the *)
(* devel package is not in the toolchain, which module Sysroot is about.   *)
(***************************************************************************)
EXTENDS Scripts

CONSTANTS
    RunDepends,    \* PKG_RUN_DEPENDS, in the order of meta
    BuildDepends,  \* PKG_BUILD_DEPENDS
    Parent,        \* PKG_PARENT, from which a subpackage has its version and
                   \* revision; a package itself when it has none
    HasSources,    \* the packages that get downloads and unpack unpacks
    Order,         \* the packages in the order of the configuration
    Edits          \* the edits <<kind, package>> made in this instance

ASSUME RootfsAssumption ==
    /\ RunDepends \in [Pkg -> Seq(Pkg)]
    /\ BuildDepends \in [Pkg -> Seq(Pkg)]
    /\ Parent \in [Pkg -> Pkg]
    /\ HasSources \subseteq Pkg
    /\ Order \in Seq(Pkg)
    /\ Elems(Order) = Pkg
    /\ Edits \subseteq {"config", "rev", "patch", "build", "install"} \X Pkg

ASSUME AcyclicAssumption ==
    \A S \in SUBSET Pkg : S # {} =>
        \E p \in S : (Elems(RunDepends[p]) \cup Elems(BuildDepends[p])) \cap S = {}

VARIABLES
    config,    \* [Pkg -> {"y", "m", "n"}], what was chosen in kconfig
    pass,      \* the loop rootfs is in, "idle" when it does not run
    rest,      \* the packages left of that loop
    done,      \* rootfs ended well, and nothing was edited or run since
    unpacked,  \* packages with a current unpack stamp and no newer patch
    built,     \* packages with a build stamp
    archived,  \* packages with an archive under its current name
    newer,     \* <<f, p>>: a file is modified after the file f of p was
    outdated   \* (history) packages installed before their version changed

walk == <<config, pass, rest, done>>
files == <<unpacked, built, archived, installed, newer, outdated>>
vars == <<stack, config, pass, rest, done, unpacked, built, archived, installed,
          newer, outdated>>

----------------------------------------------------------------------------
\* opkg, the files and the configuration

\* scripts/uninstall.
Without(S) == Remaining(S, RunDepends)

\* scripts/unpackage does nothing when there is no archive.
Unpackage(p) == IF p \in archived THEN Without({p}) ELSE installed

\* Of the relation n, what concerns files that exist after the step.
Kept(n) ==
    {e \in n : e[2] \in CASE e[1] = "build" -> built'
                           [] e[1] \in {"stamp", "install"} -> archived'
                           [] OTHER -> installed'}

\* kconfig selects what a chosen package needs to run, except its parent.
Selected(c) ==
    \A p \in Pkg : \A q \in Elems(RunDepends[p]) \ {Parent[p]} :
        /\ c[p] = "y" => c[q] = "y"
        /\ c[p] = "m" => c[q] # "n"

\* ROOTFS_PACKAGES and OPK_PACKAGES, lists in the order of the configuration.
RootfsPackages == {p \in Pkg : config[p] = "y"}
OpkPackages == {p \in Pkg : config[p] = "m"}

\* The first of the packages in S in that order.
First(p, S) ==
    /\ p \in S
    /\ \E i \in DOMAIN Order :
           Order[i] = p /\ \A j \in 1 .. (i - 1) : Order[j] \notin S

Init ==
    /\ stack = <<>>
    /\ config = [p \in Pkg |-> "n"]
    /\ pass = "idle"
    /\ rest = {}
    /\ done = FALSE
    /\ unpacked = {}
    /\ built = {}
    /\ archived = {}
    /\ installed = {}
    /\ newer = {}
    /\ outdated = {}

----------------------------------------------------------------------------
\* scripts/build

\* unpack cleans a package before it unpacks it; a newer rule removes stamp
\* and archive.  Both uninstall the package.
BuildStart(p) ==
    /\ At("build", "start", p)
    /\ LET unpack == p \in HasSources \ unpacked
           again == ~unpack /\ p \in built /\ <<"build", p>> \in newer
       IN  /\ unpacked' = IF unpack THEN unpacked \cup {p} ELSE unpacked
           /\ built' = IF unpack \/ again THEN built \ {p} ELSE built
           /\ archived' = IF unpack \/ again THEN archived \ {p} ELSE archived
           /\ installed' = CASE unpack -> Without({p})
                             [] again  -> Unpackage(p)
                             [] OTHER  -> installed
           /\ IF p \in built' THEN Return ELSE Goto("depends", BuildDepends[p])
    /\ newer' = Kept(newer)
    /\ outdated' = outdated \cap installed'
    /\ UNCHANGED walk

\* installdev of a dependency, which builds it or finds it in the toolchain.
BuildInstalldev(p) ==
    /\ At("build", "depends", p)
    /\ \/ ForEach("build", "rule")
       \/ Todo # <<>> /\ Goto("depends", Tail(Todo))
    /\ UNCHANGED <<walk, files>>

BuildRule(p) ==
    /\ At("build", "rule", p)
    /\ built' = built \cup {p}
    /\ Return
    /\ UNCHANGED <<walk, unpacked, archived, installed, outdated>>
    /\ newer' = Kept((newer \ {<<"build", p>>}) \cup {<<"stamp", p>>})

----------------------------------------------------------------------------
\* scripts/package

PackageStart(p) ==
    /\ At("package", "start", p)
    /\ Call("build", p, "check", <<>>)
    /\ UNCHANGED <<walk, files>>

PackageCheck(p) ==
    /\ At("package", "check", p)
    /\ LET again == p \in archived /\ {<<"install", p>>, <<"stamp", p>>} \cap newer # {}
       IN  /\ installed' = IF again THEN Without({p}) ELSE installed
           /\ archived' = IF again THEN archived \ {p} ELSE archived
           /\ IF p \in archived' THEN Return ELSE Goto("depends", RunDepends[p])
    /\ UNCHANGED <<walk, unpacked, built>>
    /\ newer' = Kept(newer)
    /\ outdated' = outdated \cap installed'

PackageDepends(p) ==
    /\ At("package", "depends", p)
    /\ ForEach("package", "rule")
    /\ UNCHANGED <<walk, files>>

PackageRule(p) ==
    /\ At("package", "rule", p)
    /\ archived' = archived \cup {p}
    /\ Return
    /\ UNCHANGED <<walk, unpacked, built, installed, outdated>>
    /\ newer' = Kept((newer \ {<<"install", p>>, <<"stamp", p>>}) \cup {<<"archive", p>>})

----------------------------------------------------------------------------
\* scripts/install

\* An install rule newer than the control file unpackages, an archive newer
\* than it uninstalls; what is installed after that is left alone.
InstallStart(p) ==
    /\ At("install", "start", p)
    /\ LET rule == p \in installed /\ <<"rule", p>> \in newer /\ p \in archived
           opk == p \in installed /\ <<"archive", p>> \in newer /\ p \in archived
       IN  /\ installed' = IF rule \/ opk THEN Without({p}) ELSE installed
           /\ archived' = IF rule THEN archived \ {p} ELSE archived
           /\ IF p \in installed' THEN Return
              ELSE Call("package", p, "depends", RunDepends[p])
    /\ UNCHANGED <<walk, unpacked, built>>
    /\ newer' = Kept(newer)
    /\ outdated' = outdated \cap installed'

\* Mutant: the run-time dependencies are left to opkg.
InstallNoDepends(p) ==
    /\ At("install", "depends", p)
    /\ Goto("opkg", <<>>)
    /\ UNCHANGED <<walk, files>>

InstallDepends(p) ==
    /\ At("install", "depends", p)
    /\ ForEach("install", "opkg")
    /\ UNCHANGED <<walk, files>>

Usable(p) == Elems(RunDepends[p]) \subseteq installed

InstallOpkg(p) ==
    /\ At("install", "opkg", p)
    /\ IF p \in archived
       THEN /\ Usable(p)
            /\ installed' = installed \cup {p}
            /\ newer' = newer \ {<<"control", p>>, <<"rule", p>>, <<"archive", p>>}
            /\ outdated' = outdated \ {p}
       ELSE UNCHANGED <<installed, newer, outdated>>
    /\ Return
    /\ UNCHANGED <<walk, unpacked, built, archived>>

\* opkg refuses a package whose dependencies are not installed, and install,
\* its callers and rootfs end, under `set -e'.
InstallRefused(p) ==
    /\ At("install", "opkg", p)
    /\ p \in archived /\ ~Usable(p)
    /\ stack' = <<>>
    /\ pass' = "idle"
    /\ UNCHANGED <<config, rest, done, files>>

----------------------------------------------------------------------------
\* scripts/rootfs, which moves while no script it has called runs

Idle == pass = "idle" /\ stack = <<>>

RootfsStart ==
    /\ Idle
    /\ pass' = "stale"
    /\ rest' = {}
    /\ done' = FALSE
    /\ UNCHANGED <<stack, config, files>>

\* Mutants: what was deselected stays; what is out of date stays.
StaleByTimes == {p \in installed : <<"control", p>> \in newer}
StaleByConfig == installed \ RootfsPackages

\* Installed but not in ROOTFS_PACKAGES, or older than meta, the patches
\* directory, unpack, build or install.
Stale == {p \in installed : p \notin RootfsPackages \/ <<"control", p>> \in newer}

RootfsStale ==
    /\ pass = "stale" /\ stack = <<>>
    /\ IF Stale = {}
       THEN pass' = "install" /\ rest' = RootfsPackages /\ UNCHANGED installed
       ELSE /\ \E p \in Stale : installed' = Without({p})
            /\ UNCHANGED <<pass, rest>>
    /\ UNCHANGED <<stack, config, done, unpacked, built, archived>>
    /\ newer' = Kept(newer)
    /\ outdated' = outdated \cap installed'

RootfsInstall ==
    /\ pass = "install" /\ stack = <<>>
    /\ IF rest = {}
       THEN pass' = "opk" /\ rest' = OpkPackages /\ UNCHANGED stack
       ELSE \E p \in Pkg :
            /\ First(p, rest)
            /\ rest' = rest \ {p}
            /\ stack' = IF p \in installed THEN <<>> ELSE <<Frame("install", p)>>
            /\ UNCHANGED pass
    /\ UNCHANGED <<config, done, files>>

RootfsOpk ==
    /\ pass = "opk" /\ stack = <<>>
    /\ IF rest = {}
       THEN pass' = "idle" /\ done' = TRUE /\ UNCHANGED <<stack, rest>>
       ELSE \E p \in Pkg :
            /\ First(p, rest)
            /\ rest' = rest \ {p}
            /\ stack' = <<Frame("package", p)>>
            /\ UNCHANGED <<pass, done>>
    /\ UNCHANGED <<config, files>>

----------------------------------------------------------------------------
\* The developer between runs, and runs that stop

\* A script run by hand, on a package that is configured or not.
Start(op, p) ==
    /\ Idle
    /\ stack' = <<Frame(op, p)>>
    /\ done' = FALSE
    /\ UNCHANGED <<config, pass, rest, files>>

\* One choice in kconfig.
EditConfig(p) ==
    /\ \E v \in {"y", "m", "n"} \ {config[p]} : config' = [config EXCEPT ![p] = v]
    /\ Selected(config')
    /\ UNCHANGED files

\* The packages whose version and revision are in the meta of p.
Versioned(p) == {q \in Pkg : Parent[q] = p}

\* A new version or revision: the archives are looked for under other names,
\* get removes the stamps of what it downloads, and the meta of p is newer
\* than the control file of p.
EditRev(p) ==
    /\ Parent[p] = p
    /\ unpacked' = unpacked \ Versioned(p)
    /\ archived' = archived \ Versioned(p)
    /\ UNCHANGED <<config, built, installed>>
    /\ newer' = Kept(newer \cup {<<"control", p>>})
    /\ outdated' = outdated \cup (Versioned(p) \cap installed)

\* A patch rewritten in place: its directory is not modified.
EditPatch(p) ==
    /\ unpacked' = unpacked \ {p}
    /\ UNCHANGED <<config, built, archived, installed, newer, outdated>>

EditBuild(p) ==
    /\ UNCHANGED <<config, unpacked, built, archived, installed, outdated>>
    /\ newer' = Kept(newer \cup ({"build", "control"} \X {p}))

EditInstall(p) ==
    /\ UNCHANGED <<config, unpacked, built, archived, installed, outdated>>
    /\ newer' = Kept(newer \cup ({"install", "control", "rule"} \X {p}))

Edit(p) ==
    /\ Idle
    /\ \/ <<"config", p>> \in Edits /\ EditConfig(p)
       \/ <<"rev", p>> \in Edits /\ EditRev(p)
       \/ <<"patch", p>> \in Edits /\ EditPatch(p)
       \/ <<"build", p>> \in Edits /\ EditBuild(p)
       \/ <<"install", p>> \in Edits /\ EditInstall(p)
    /\ done' = FALSE
    /\ UNCHANGED <<stack, pass, rest>>

\* A run is interrupted, or a download or a rule in it fails.
Abort ==
    /\ ~Idle
    /\ stack' = <<>>
    /\ pass' = "idle"
    /\ UNCHANGED <<config, rest, done, files>>

Step(p) ==
    \/ BuildStart(p) \/ BuildInstalldev(p) \/ BuildRule(p)
    \/ PackageStart(p) \/ PackageCheck(p) \/ PackageDepends(p) \/ PackageRule(p)
    \/ InstallStart(p) \/ InstallDepends(p) \/ InstallOpkg(p) \/ InstallRefused(p)

Next ==
    \/ \E p \in Pkg : Step(p)
    \/ RootfsStart \/ RootfsStale \/ RootfsInstall \/ RootfsOpk
    \/ \E p \in Pkg, op \in {"package", "install"} : Start(op, p)
    \/ \E p \in Pkg : Edit(p)
    \/ Abort

Spec == Init /\ [][Next]_vars

----------------------------------------------------------------------------
\* Properties

\* Every variable has its type; the configuration is one kconfig allows.
TypeOK ==
    /\ stack \in Seq(Frames)
    /\ config \in [Pkg -> {"y", "m", "n"}]
    /\ pass \in {"idle", "stale", "install", "opk"}
    /\ rest \subseteq Pkg
    /\ done \in BOOLEAN
    /\ unpacked \subseteq Pkg
    /\ built \subseteq Pkg
    /\ archived \subseteq Pkg
    /\ installed \subseteq Pkg
    /\ newer \subseteq {"build", "stamp", "install", "control", "rule", "archive"} \X Pkg
    /\ outdated \subseteq Pkg
    /\ Selected(config)

\* The packages that are needed to run those in S.
Needed(S) == {q \in Pkg : \E p \in S : p \in Users(q, RunDepends)}

\* When rootfs ends well, every package of ROOTFS_PACKAGES is installed: what
\* was installed and skipped (the comment at scripts/rootfs:48) or `kept'
\* (rootfs:30) was not removed again by what was installed after it.
AllInstalled == done => RootfsPackages \subseteq installed

\* ... and nothing is installed that none of them needs: a deselected package
\* is gone, with all that was only installed for it (rootfs:24-40).
NothingElse == done => installed \subseteq Needed(RootfsPackages)

\* The sources of p are unpacked, if there are any.
Unpacked(p) == p \notin HasSources \ unpacked

\* The archive of p is there, made by its present rules from its present sources.
Ready(p) ==
    /\ p \in archived /\ Unpacked(p)
    /\ \A f \in {"build", "stamp", "install"} : <<f, p>> \notin newer

\* If p is installed, it is from that archive, and by the present install rule.
UpToDate(p) == Ready(p) /\ \A f \in {"rule", "archive"} : <<f, p>> \notin newer

\* ... and every installed package is of the version and revision that its meta
\* and its parent's say, and up to date down to its sources, although rootfs
\* compares the control file of a package with its own meta and rules and looks
\* at no archive, stamp or parent (rootfs:35).
Current == done => \A p \in installed : p \notin outdated /\ UpToDate(p)

\* DOCS/package-format.txt:92, PKG_RUN_DEPENDS "will be packaged and installed
\* to the target system before the package is installed": opkg finds them, in
\* a run of rootfs (scripts/install:50-58).
RunDependsInstalled ==
    \A p \in Pkg : pass # "idle" /\ At("install", "opkg", p) /\ p \in archived => Usable(p)

\* At any time, whatever was interrupted, the target holds no package without
\* what it needs to run (scripts/uninstall:13).
RootfsClosed == \A p \in installed : Usable(p)
=============================================================================
