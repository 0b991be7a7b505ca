------------------------------ MODULE Package ------------------------------
(***************************************************************************)
(* The life of ONE package under the OpenBricks scripts: get, unpack,      *)
(* build, package, packagedev, install, installdev, their inverses, clean, *)
(* and the pass scripts/rootfs makes over it.                              *)
(*                                                                         *)
(* The scripts keep no database.  What has been done is recorded by files  *)
(* (stamps, opkg archives, opkg control files) and whether it must be done *)
(* again is decided by `-nt' comparisons of their modification times.  The *)
(* module keeps, for every such file a,                                    *)
(*                                                                         *)
(*   newer[a]  the watched files modified after a was: `f -nt a' is        *)
(*             f \in newer[a].  Only the order of modification times       *)
(*             matters, so no clock is needed and nothing is bounded;      *)
(*   old[a]    (history variable) the inputs that changed after the        *)
(*             content of a was derived from them.                         *)
(*                                                                         *)
(* Correctness is that the first is a good enough proxy for the second,    *)
(* with scripts that can be stopped after any command.                     *)
(*                                                                         *)
(* A script calls another and waits for it: pc[s] is the line script s is  *)
(* at, and s moves only while the scripts it calls are idle.  On a single  *)
(* package no script is ever active twice.  What happens to the package's  *)
(* dependencies is module Sysroot.                                         *)
(***************************************************************************)
EXTENDS Naturals, FiniteSets

CONSTANTS
    Kind,          \* "url": sources are downloaded; "local": only a sources/
                   \* directory; "none": neither (a package of rules only)
    Layout,        \* "section": packages/<section>/<name>; "flat": the
                   \* packages/<name> link that scripts/overlay makes
    HasInstall,    \* there is an install rule: a runtime package
    HasInstalldev, \* there is an installdev rule: a devel package
    NeedUnpack,    \* there is a need_unpack hook
    SaveSpace,     \* SAVE_SPACE=yes
    Stops,         \* "failures": a run stops when one of its commands fails;
                   \* "anywhere": it may also be interrupted at any command
    EditKinds      \* the edits a developer makes in this instance

\* The things a developer can change.  `patchFile' rewrites a patch in place;
\* `patchDir' removes one, which only the directory's time records; `version'
\* and `rev' change PKG_VERSION and PKG_REV, and with them file names.
Inputs == {"version", "rev", "patchFile", "patchDir", "unpackRule",
           "buildRule", "installRule", "installdevRule", "watched"}

ASSUME ParametersAssumption ==
    /\ Kind \in {"url", "local", "none"}
    /\ Layout \in {"section", "flat"}
    /\ {HasInstall, HasInstalldev, NeedUnpack, SaveSpace} \subseteq BOOLEAN
    /\ Stops \in {"failures", "anywhere"}
    /\ EditKinds \subseteq Inputs

VARIABLES
    pc,      \* [Scripts -> Labels]
    run,     \* the script started by the user, "none" between runs
    force,   \* the run was started with --force
    done,    \* the last run, if it ended well and nothing was edited since
    exists,  \* which files exist
    newer,   \* [Artifacts -> SUBSET Files]
    old      \* [Artifacts -> SUBSET Changes]

fs == <<exists, newer, old>>
vars == <<pc, run, force, done, exists, newer, old>>

----------------------------------------------------------------------------
\* Files and scripts

\* opk and devOpk are the archives under the name of the CURRENT version and
\* revision; control and devControl what opkg installs with a package in the
\* rootfs and in the toolchain; tree the build directory, obj what the build
\* rule left there, opkOk and devOk the two flags save_space looks at.
Artifacts == {"getStamp", "tree", "obj", "opkOk", "devOk", "unpackStamp",
              "buildStamp", "opk", "devOpk", "control", "devControl"}

BuildDir == {"tree", "obj", "opkOk", "devOk"}

\* What a change of content is recorded as: an input, the archive itself, or
\* a build that started again and could not delete the devel archive.
Changes == Inputs \cup {"opk", "devOpk", "kept"}

Files == {"meta", "patchFile", "patchDir", "unpackRule", "buildRule",
          "installRule", "installdevRule", "watched",
          "buildStamp", "opk", "devOpk"}

\* The file an edit modifies.
FileOf(i) == IF i \in {"version", "rev"} THEN "meta" ELSE i

\* The files each stamp is compared with.
Watches(a) ==
    CASE a = "unpackStamp" -> {"patchFile"}
      [] a = "buildStamp"  -> {"buildRule", "watched"}
      [] a = "opk"         -> {"installRule", "buildStamp"}
      [] a = "devOpk"      -> {"installdevRule"}
      [] a = "control"     -> {"meta", "patchDir", "unpackRule", "buildRule",
                               "installRule", "opk"}
      [] a = "devControl"  -> {"patchDir", "unpackRule", "buildRule",
                               "installdevRule", "devOpk"}
      [] OTHER             -> {}

\* The inputs each artifact's content depends on.
TreeReads == IF Kind = "none" THEN {} ELSE {"patchFile", "patchDir", "unpackRule"}
ObjReads == TreeReads \cup {"buildRule", "watched"}
Reads(a) ==
    CASE a = "getStamp"   -> {"version", "rev"}
      [] a = "tree"       -> TreeReads
      [] a = "obj"        -> ObjReads
      [] a = "opk"        -> ObjReads \cup {"version", "rev", "installRule"}
      [] a = "devOpk"     -> ObjReads \cup {"version", "rev", "installdevRule", "kept"}
      [] a = "control"    -> ObjReads \cup {"version", "rev", "installRule", "opk"}
      [] a = "devControl" -> ObjReads \cup {"version", "rev", "installdevRule", "kept", "devOpk"}
      [] OTHER            -> {}

Scripts == {"get", "unpack", "build", "package", "packagedev", "install",
            "installdev", "clean", "uninstall", "uninstalldev",
            "unpackage", "unpackagedev", "rootfs"}

Labels == {"idle", "start", "download", "stamp", "rmUnpack", "rmBuild",
           "check", "test", "mkdir", "extract", "unpackagedev", "stamps",
           "unpackage", "uninstalldev", "end", "rm", "rule", "ok", "opk",
           "opkg", "touch", "install"}

\* The scripts that each script calls on the same package.
Calls(s) ==
    CASE s = "unpack"       -> {"get", "clean", "unpackage", "unpackagedev"}
      [] s = "build"        -> {"unpack", "unpackage", "unpackagedev"}
      [] s = "package"      -> {"build", "uninstall"}
      [] s = "packagedev"   -> {"build", "uninstalldev"}
      [] s = "install"      -> {"clean", "unpackage", "uninstall", "package"}
      [] s = "installdev"   -> {"clean", "unpackagedev", "uninstalldev", "packagedev"}
      [] s = "clean"        -> {"uninstall", "unpackage", "uninstalldev", "unpackagedev"}
      [] s = "unpackage"    -> {"uninstall"}
      [] s = "unpackagedev" -> {"uninstalldev"}
      [] s = "rootfs"       -> {"uninstall", "install"}
      [] OTHER              -> {}

----------------------------------------------------------------------------
\* Control

\* Script s is at line l and the script it called, if any, has ended.
At(s, l) == pc[s] = l /\ \A c \in Calls(s) : pc[c] = "idle"

Go(s, l) == /\ pc' = [pc EXCEPT ![s] = l]
            /\ UNCHANGED <<run, force, done>>

Call(s, l, c) == /\ pc' = [pc EXCEPT ![s] = l, ![c] = "start"]
                 /\ UNCHANGED <<run, force, done>>

Return(s) == /\ pc' = [pc EXCEPT ![s] = "idle"]
             /\ run' = IF run = s THEN "none" ELSE run
             /\ force' = (force /\ run # s)
             /\ done' = IF run = s THEN s ELSE done

----------------------------------------------------------------------------
\* The file system

\* Mutant: the files go, what is known of them stays.
RemoveKeepsTimes(S) == exists' = exists \ S /\ UNCHANGED <<newer, old>>

\* Removing files.
Remove(S) ==
    /\ exists' = exists \ S
    /\ newer' = [a \in Artifacts |-> IF a \in S THEN {} ELSE newer[a]]
    /\ old' = [a \in Artifacts |-> IF a \in S THEN {} ELSE old[a]]

\* The times and the histories after file f, which is change i, is modified.
NewerThan(f) ==
    [a \in Artifacts |-> IF a \in exists /\ f \in Watches(a)
                         THEN newer[a] \cup {f} ELSE newer[a]]
OldSince(i) ==
    [a \in Artifacts |-> IF a \in exists /\ i \in Reads(a)
                         THEN old[a] \cup {i} ELSE old[a]]

\* Writing file a, with content that misses the changes in o.
Write(a, o) ==
    /\ exists' = exists \cup {a}
    /\ newer' = [NewerThan(a) EXCEPT ![a] = {}]
    /\ old' = [OldSince(a) EXCEPT ![a] = o]

Init ==
    /\ pc = [s \in Scripts |-> "idle"]
    /\ run = "none"
    /\ force = FALSE
    /\ done = "none"
    /\ exists = {}
    /\ newer = [a \in Artifacts |-> {}]
    /\ old = [a \in Artifacts |-> {}]

----------------------------------------------------------------------------
\* scripts/get: download when the stamp does not name this version

GetStart ==
    /\ At("get", "start")
    /\ IF Kind # "url" \/ ("getStamp" \in exists /\ old["getStamp"] = {})
       THEN Return("get") /\ UNCHANGED fs
       ELSE Remove({"getStamp"}) /\ Go("get", "download")

\* The downloads; when one fails the script aborts (see Abort).
GetDownload == At("get", "download") /\ Go("get", "stamp") /\ UNCHANGED fs

GetStamp ==
    /\ At("get", "stamp")
    /\ Write("getStamp", {})
    /\ Go("get", "rmUnpack")

\* Mutant: the old unpack stamp outlives the new sources.
GetKeepsUnpack ==
    /\ At("get", "rmUnpack")
    /\ Go("get", "rmBuild")
    /\ UNCHANGED fs

GetRmUnpack ==
    /\ At("get", "rmUnpack")
    /\ Remove({"unpackStamp"})
    /\ Go("get", "rmBuild")

GetRmBuild ==
    /\ At("get", "rmBuild")
    /\ Remove({"buildStamp"})
    /\ Return("get")

----------------------------------------------------------------------------
\* scripts/unpack

UnpackStart ==
    /\ At("unpack", "start")
    /\ Call("unpack", "check", "get")
    /\ UNCHANGED fs

\* The need_unpack hook may find that the package must be unpacked again;
\* check_timestamp compares each patch FILE with the stamp.
UnpackCheck ==
    /\ At("unpack", "check")
    /\ IF Kind = "none"
       THEN Return("unpack") /\ UNCHANGED fs
       ELSE /\ \E hook \in {FALSE, NeedUnpack} :
                  IF hook \/ "patchFile" \in newer["unpackStamp"]
                  THEN Remove({"unpackStamp"})
                  ELSE UNCHANGED fs
            /\ Go("unpack", "test")

UnpackTest ==
    /\ At("unpack", "test")
    /\ IF "unpackStamp" \in exists THEN Return("unpack")
                                   ELSE Call("unpack", "mkdir", "clean")
    /\ UNCHANGED fs

\* An empty build directory: none of the inputs has been applied yet.
UnpackMkdir ==
    /\ At("unpack", "mkdir")
    /\ exists' = (exists \ BuildDir) \cup {"tree"}
    /\ newer' = newer
    /\ old' = [a \in Artifacts |-> IF a = "tree" THEN TreeReads
                                   ELSE IF a \in BuildDir THEN {} ELSE old[a]]
    /\ Go("unpack", "extract")

\* extract, move up, copy sources/, apply_series, fixconfigtools, unpack rule.
UnpackExtract ==
    /\ At("unpack", "extract")
    /\ Write("tree", {})
    /\ Go("unpack", "rmBuild")

UnpackRmBuild ==
    /\ At("unpack", "rmBuild")
    /\ Remove({"buildStamp"})
    /\ Call("unpack", "unpackagedev", "unpackage")

UnpackUnpackagedev ==
    /\ At("unpack", "unpackagedev")
    /\ Call("unpack", "stamp", "unpackagedev")
    /\ UNCHANGED fs

UnpackStamp ==
    /\ At("unpack", "stamp")
    /\ Write("unpackStamp", {})
    /\ Return("unpack")

----------------------------------------------------------------------------
\* scripts/clean <package>

CleanStart ==
    /\ At("clean", "start")
    /\ Remove(BuildDir)
    /\ Go("clean", "stamps")

CleanStamps ==
    /\ At("clean", "stamps")
    /\ Remove({"unpackStamp"})
    /\ Go("clean", "rmBuild")

\* Mutant: clean leaves it to unpackage to uninstall.
CleanNoUninstall ==
    /\ At("clean", "rmBuild")
    /\ Remove({"buildStamp"})
    /\ Go("clean", "unpackage")

\* clean uninstalls before it unpackages: unpackage looks for the archive of
\* the current version and does nothing when another version is installed.
CleanRmBuild ==
    /\ At("clean", "rmBuild")
    /\ Remove({"buildStamp"})
    /\ Call("clean", "unpackage", "uninstall")

CleanUnpackage ==
    /\ At("clean", "unpackage")
    /\ Call("clean", "uninstalldev", "unpackage")
    /\ UNCHANGED fs

CleanUninstalldev ==
    /\ At("clean", "uninstalldev")
    /\ Call("clean", "unpackagedev", "uninstalldev")
    /\ UNCHANGED fs

CleanUnpackagedev ==
    /\ At("clean", "unpackagedev")
    /\ Call("clean", "end", "unpackagedev")
    /\ UNCHANGED fs

CleanEnd == At("clean", "end") /\ Return("clean") /\ UNCHANGED fs

----------------------------------------------------------------------------
\* scripts/uninstall, uninstalldev, unpackage, unpackagedev

Uninstall ==
    /\ At("uninstall", "start")
    /\ Remove({"control"})
    /\ Return("uninstall")

Uninstalldev ==
    /\ At("uninstalldev", "start")
    /\ Remove({"devControl"})
    /\ Return("uninstalldev")

\* Mutant: unpackage does not uninstall first.
UnpackageInstalled ==
    /\ At("unpackage", "start")
    /\ IF "opk" \in exists THEN Go("unpackage", "rm") ELSE Return("unpackage")
    /\ UNCHANGED fs

UnpackageStart ==
    /\ At("unpackage", "start")
    /\ IF "opk" \in exists THEN Call("unpackage", "rm", "uninstall")
                           ELSE Return("unpackage")
    /\ UNCHANGED fs

UnpackageRm ==
    /\ At("unpackage", "rm")
    /\ Remove({"opk"})
    /\ Return("unpackage")

UnpackagedevStart ==
    /\ At("unpackagedev", "start")
    /\ IF "devOpk" \in exists THEN Call("unpackagedev", "rm", "uninstalldev")
                              ELSE Return("unpackagedev")
    /\ UNCHANGED fs

UnpackagedevRm ==
    /\ At("unpackagedev", "rm")
    /\ Remove({"devOpk"})
    /\ Return("unpackagedev")

----------------------------------------------------------------------------
\* scripts/build

BuildStart ==
    /\ At("build", "start")
    /\ Call("build", "check", "unpack")
    /\ UNCHANGED fs

\* need_build is looked for in packages/<name> only, never in the section.
HookRebuilds == Layout = "flat" /\ "watched" \in newer["buildStamp"]

BuildCheck ==
    /\ At("build", "check")
    /\ LET ruleNewer == "buildStamp" \in exists /\ ~HookRebuilds
                            /\ "buildRule" \in newer["buildStamp"]
       IN  IF ruleNewer \/ (force /\ run = "build")
           THEN Remove({"buildStamp"}) /\ Call("build", "unpackagedev", "unpackage")
           ELSE /\ Go("build", "test")
                /\ IF HookRebuilds THEN Remove({"buildStamp"}) ELSE UNCHANGED fs

\* Mutant: the devel archive of the old build is kept.
BuildKeepsDev == At("build", "unpackagedev") /\ Go("build", "test") /\ UNCHANGED fs

BuildUnpackagedev ==
    /\ At("build", "unpackagedev")
    /\ Call("build", "test", "unpackagedev")
    /\ UNCHANGED fs

\* When there is no stamp the dependencies are installed in the toolchain.
BuildTest ==
    /\ At("build", "test")
    /\ IF "buildStamp" \in exists THEN Return("build") ELSE Go("build", "rule")
    /\ UNCHANGED fs

\* A rule starts with `cd $PKG_BUILD_DIR' and fails when there is none.
BuildRule ==
    /\ At("build", "rule")
    /\ Kind = "none" \/ "tree" \in exists
    /\ Write("obj", old["tree"])
    /\ Go("build", "stamp")

BuildStamp ==
    /\ At("build", "stamp")
    /\ Write("buildStamp", {})
    /\ Return("build")

----------------------------------------------------------------------------
\* scripts/package and scripts/packagedev

\* touch the flag, then scripts/save_space: the build directory goes once
\* every archive the package can have has been made from it.
FlagAndSaveSpace(flag) ==
    LET e == IF "tree" \in exists THEN exists \cup {flag} ELSE exists
        ready == /\ SaveSpace /\ "tree" \in e
                 /\ HasInstall => "opkOk" \in e
                 /\ HasInstalldev => "devOk" \in e
    IN  /\ exists' = IF ready THEN e \ BuildDir ELSE e
        /\ newer' = newer
        /\ old' = [a \in Artifacts |-> IF ready /\ a \in BuildDir THEN {} ELSE old[a]]

PackageStart ==
    /\ At("package", "start")
    /\ IF SaveSpace /\ "opk" \in exists THEN Return("package")
                                        ELSE Call("package", "check", "build")
    /\ UNCHANGED fs

\* Mutant: package trusts build to delete the archive, as packagedev does.
PackageCheckRuleOnly ==
    /\ At("package", "check")
    /\ IF "installRule" \in newer["opk"]
       THEN Call("package", "rm", "uninstall")
       ELSE Go("package", "test")
    /\ UNCHANGED fs

PackageCheck ==
    /\ At("package", "check")
    /\ IF newer["opk"] \cap {"installRule", "buildStamp"} # {}
       THEN Call("package", "rm", "uninstall")
       ELSE Go("package", "test")
    /\ UNCHANGED fs

PackageRm ==
    /\ At("package", "rm")
    /\ Remove({"opk"})
    /\ Go("package", "test")

\* When the archive must be made the runtime dependencies are packaged.
PackageTest ==
    /\ At("package", "test")
    /\ IF "opk" \in exists \/ ~HasInstall THEN Return("package")
                                          ELSE Go("package", "rule")
    /\ UNCHANGED fs

PackageRule ==
    /\ At("package", "rule")
    /\ "obj" \in exists
    /\ Write("opk", old["obj"])
    /\ Go("package", "ok")

PackageOk ==
    /\ At("package", "ok")
    /\ FlagAndSaveSpace("opkOk")
    /\ Return("package")

\* packagedev compares the archive with the installdev rule only: it trusts
\* build and unpack to remove the archive when they start again.
PackagedevStart ==
    /\ At("packagedev", "start")
    /\ IF "installdevRule" \in newer["devOpk"]
       THEN Call("packagedev", "rm", "uninstalldev")
       ELSE Go("packagedev", "test")
    /\ UNCHANGED fs

PackagedevRm ==
    /\ At("packagedev", "rm")
    /\ Remove({"devOpk"})
    /\ Go("packagedev", "test")

PackagedevTest ==
    /\ At("packagedev", "test")
    /\ IF "devOpk" \in exists \/ ~HasInstalldev
       THEN Return("packagedev")
       ELSE Call("packagedev", "rule", "build")
    /\ UNCHANGED fs

PackagedevRule ==
    /\ At("packagedev", "rule")
    /\ "obj" \in exists
    /\ Write("devOpk", old["obj"])
    /\ Go("packagedev", "ok")

PackagedevOk ==
    /\ At("packagedev", "ok")
    /\ FlagAndSaveSpace("devOk")
    /\ Return("packagedev")

----------------------------------------------------------------------------
\* scripts/install and scripts/installdev

\* Mutant: install does not look at the build rule.
RebuiltByUnpack == IF Layout = "flat" THEN {"unpackRule", "patchDir"} ELSE {}

\* These comparisons name packages/<name>/..., which a package that lives in
\* a section does not have.
RebuiltInputs == IF Layout = "flat" THEN {"unpackRule", "patchDir", "buildRule"}
                                    ELSE {}

InstallStart ==
    /\ At("install", "start")
    /\ IF ~HasInstall THEN Return("install")
       ELSE IF newer["control"] \cap RebuiltInputs # {} THEN Call("install", "opk", "clean")
       ELSE IF "installRule" \in newer["control"] THEN Call("install", "opk", "unpackage")
       ELSE Go("install", "opk")
    /\ UNCHANGED fs

\* Mutant: install does not compare what is installed with the archive.
InstallAnyOpk == At("install", "opk") /\ Go("install", "test") /\ UNCHANGED fs

InstallOpk ==
    /\ At("install", "opk")
    /\ IF "opk" \in newer["control"] /\ "opk" \in exists
       THEN Call("install", "test", "uninstall")
       ELSE Go("install", "test")
    /\ UNCHANGED fs

InstallTest ==
    /\ At("install", "test")
    /\ IF "control" \in exists THEN Return("install")
                               ELSE Call("install", "opkg", "package")
    /\ UNCHANGED fs

\* The runtime dependencies are installed, then opkg installs the archive;
\* the control file gets the modification time of the archive.
InstallOpkg ==
    /\ At("install", "opkg")
    /\ IF "opk" \in exists
       THEN /\ exists' = exists \cup {"control"}
            /\ newer' = [newer EXCEPT !["control"] = newer["opk"] \cap Watches("control")]
            /\ old' = [old EXCEPT !["control"] = old["opk"]]
            /\ Go("install", "touch")
       ELSE Return("install") /\ UNCHANGED fs

InstallTouch ==
    /\ At("install", "touch")
    /\ newer' = [newer EXCEPT !["control"] = {}]
    /\ UNCHANGED <<exists, old>>
    /\ Return("install")

InstalldevStart ==
    /\ At("installdev", "start")
    /\ IF ~HasInstalldev THEN Return("installdev")
       ELSE IF newer["devControl"] \cap RebuiltInputs # {} THEN Call("installdev", "opk", "clean")
       ELSE IF "installdevRule" \in newer["devControl"] THEN Call("installdev", "opk", "unpackagedev")
       ELSE Go("installdev", "opk")
    /\ UNCHANGED fs

InstalldevOpk ==
    /\ At("installdev", "opk")
    /\ IF "devOpk" \in newer["devControl"] /\ "devOpk" \in exists
       THEN Call("installdev", "test", "uninstalldev")
       ELSE Go("installdev", "test")
    /\ UNCHANGED fs

InstalldevTest ==
    /\ At("installdev", "test")
    /\ IF "devControl" \in exists /\ ~(force /\ run = "installdev")
       THEN Return("installdev")
       ELSE Call("installdev", "opkg", "packagedev")
    /\ UNCHANGED fs

InstalldevOpkg ==
    /\ At("installdev", "opkg")
    /\ IF "devOpk" \in exists
       THEN /\ exists' = exists \cup {"devControl"}
            /\ newer' = [newer EXCEPT !["devControl"] =
                            newer["devOpk"] \cap Watches("devControl")]
            /\ old' = [old EXCEPT !["devControl"] = old["devOpk"]]
            /\ Go("installdev", "touch")
       ELSE Return("installdev") /\ UNCHANGED fs

InstalldevTouch ==
    /\ At("installdev", "touch")
    /\ newer' = [newer EXCEPT !["devControl"] = {}]
    /\ UNCHANGED <<exists, old>>
    /\ Return("installdev")

----------------------------------------------------------------------------
\* scripts/rootfs, for a package of ROOTFS_PACKAGES: uninstall it when it is
\* stale, then install it when it is not installed.  The pattern
\* packages/*/<name>/... matches nothing for the flat layout.

\* Mutant: rootfs does not look at meta.
StaleByRules == IF Layout = "flat" THEN {}
                ELSE {"patchDir", "unpackRule", "buildRule", "installRule"}

StaleInputs == IF Layout = "flat" THEN {}
               ELSE {"meta", "patchDir", "unpackRule", "buildRule", "installRule"}

RootfsStart ==
    /\ At("rootfs", "start")
    /\ IF newer["control"] \cap StaleInputs # {}
       THEN Call("rootfs", "install", "uninstall")
       ELSE Go("rootfs", "install")
    /\ UNCHANGED fs

RootfsInstall ==
    /\ At("rootfs", "install")
    /\ IF "control" \in exists THEN Go("rootfs", "end")
                               ELSE Call("rootfs", "end", "install")
    /\ UNCHANGED fs

RootfsEnd == At("rootfs", "end") /\ Return("rootfs") /\ UNCHANGED fs

----------------------------------------------------------------------------
\* The developer, the other packages, and failures

\* What a developer starts by hand or through make.
Commands == {"build", "package", "packagedev", "install", "installdev",
             "clean", "rootfs"}

Start(s) ==
    /\ run = "none"
    /\ pc' = [pc EXCEPT ![s] = "start"]
    /\ run' = s
    /\ force' \in {f \in BOOLEAN : f => s \in {"build", "installdev"}}
    /\ done' = "none"
    /\ UNCHANGED fs

\* The files whose names contain the version (and revision): after a bump
\* none of them exists under the new name.
Renamed(i) ==
    CASE i = "version" -> {"opk", "devOpk"} \cup (IF Kind = "none" THEN {} ELSE BuildDir)
      [] i = "rev"     -> {"opk", "devOpk"}
      [] OTHER         -> {}

\* An edit between two runs.  A bump is to a version never used before.
Edit(i) ==
    /\ run = "none"
    /\ exists' = exists \ Renamed(i)
    /\ newer' = [a \in Artifacts |-> IF a \in Renamed(i) THEN {} ELSE NewerThan(FileOf(i))[a]]
    /\ old' = [a \in Artifacts |-> IF a \in Renamed(i) THEN {} ELSE OldSince(i)[a]]
    /\ done' = "none"
    /\ UNCHANGED <<pc, run, force>>

\* The scripts work on other packages: between two runs on this one, and
\* while they handle its dependencies.
Elsewhere == run = "none" \/ At("build", "rule") \/ At("package", "rule")
                          \/ At("install", "opkg") \/ At("installdev", "opkg")

\* opkg remove --force-removal-of-dependent-packages of a dependency takes
\* this package with it.
DependencyRemoved(a) ==
    /\ Elsewhere
    /\ a \in {"control", "devControl"} \cap exists
    /\ Remove({a})
    /\ UNCHANGED <<pc, run, force, done>>

\* Cleaning a package whose name this one's begins with, as GLib-host's does
\* with GLib: the pattern $STAMPS/$1*/unpack matches the stamps of both.
NamesakeCleaned ==
    /\ Elsewhere
    /\ {"unpackStamp", "buildStamp"} \cap exists # {}
    /\ Remove({"unpackStamp", "buildStamp"})
    /\ UNCHANGED <<pc, run, force, done>>

\* The installed packages that an opkg remove is at work on.
BeingRemoved == {a \in {"control", "devControl"} \cap exists :
                    pc[IF a = "control" THEN "uninstall" ELSE "uninstalldev"] = "start"}

\* Commands that can fail; all scripts run under `set -e'.
MayFail(s) ==
    \/ s = "get" /\ At(s, "download")
    \/ s = "unpack" /\ At(s, "extract")
    \/ s \in {"build", "package", "packagedev"} /\ At(s, "rule")
    \/ s \in {"install", "installdev"} /\ At(s, "opkg")
    \/ s \in {"uninstall", "uninstalldev"} /\ At(s, "start") /\ BeingRemoved # {}

\* build has deleted its stamp and not yet, by unpackagedev, the devel archive.
BuildUnpackages ==
    /\ "devOpk" \in exists
    /\ pc["build"] = "unpackagedev" \/ (pc["build"] = "test" /\ pc["unpackagedev"] # "idle")

\* The whole chain of scripts ends.  opkg may have deleted the control file of
\* the package it removes before it fails or is stopped.
Abort ==
    /\ run # "none"
    /\ Stops = "anywhere" \/ \E s \in Scripts : MayFail(s)
    /\ pc' = [s \in Scripts |-> "idle"]
    /\ run' = "none"
    /\ force' = FALSE
    /\ done' = done
    /\ \E S \in SUBSET BeingRemoved :
          /\ exists' = exists \ S
          /\ newer' = [a \in Artifacts |-> IF a \in S THEN {} ELSE newer[a]]
          /\ old' = [a \in Artifacts |->
                        IF a \in S THEN {}
                        ELSE IF a = "devOpk" /\ BuildUnpackages THEN old[a] \cup {"kept"}
                        ELSE old[a]]

Get == GetStart \/ GetDownload \/ GetStamp \/ GetRmUnpack \/ GetRmBuild
Unpack == \/ UnpackStart \/ UnpackCheck \/ UnpackTest \/ UnpackMkdir
          \/ UnpackExtract \/ UnpackRmBuild \/ UnpackUnpackagedev \/ UnpackStamp
Clean == \/ CleanStart \/ CleanStamps \/ CleanRmBuild \/ CleanUnpackage
         \/ CleanUninstalldev \/ CleanUnpackagedev \/ CleanEnd
Remover == \/ Uninstall \/ Uninstalldev \/ UnpackageStart \/ UnpackageRm
           \/ UnpackagedevStart \/ UnpackagedevRm
Build == \/ BuildStart \/ BuildCheck \/ BuildUnpackagedev \/ BuildTest
         \/ BuildRule \/ BuildStamp
Packager == \/ PackageStart \/ PackageCheck \/ PackageRm \/ PackageTest
            \/ PackageRule \/ PackageOk
            \/ PackagedevStart \/ PackagedevRm \/ PackagedevTest
            \/ PackagedevRule \/ PackagedevOk
Install == \/ InstallStart \/ InstallOpk \/ InstallTest \/ InstallOpkg \/ InstallTouch
           \/ InstalldevStart \/ InstalldevOpk \/ InstalldevTest
           \/ InstalldevOpkg \/ InstalldevTouch
Rootfs == RootfsStart \/ RootfsInstall \/ RootfsEnd

Next ==
    \/ Get \/ Unpack \/ Clean \/ Remover \/ Build \/ Packager \/ Install \/ Rootfs
    \/ \E s \in Commands : Start(s)
    \/ \E i \in EditKinds : Edit(i)
    \/ \E a \in Artifacts : DependencyRemoved(a)
    \/ NamesakeCleaned
    \/ Abort

Spec == Init /\ [][Next]_vars

----------------------------------------------------------------------------
\* Properties

\* Every variable has its type; a file is compared with what its script
\* watches, has missed only changes of what it is made from, and a file that
\* does not exist has neither a time nor a history.
TypeOK ==
    /\ pc \in [Scripts -> Labels]
    /\ run \in Commands \cup {"none"}
    /\ force \in BOOLEAN
    /\ done \in Commands \cup {"none"}
    /\ exists \in SUBSET Artifacts
    /\ newer \in [Artifacts -> SUBSET Files]
    /\ old \in [Artifacts -> SUBSET Changes]
    /\ \A a \in Artifacts : newer[a] \subseteq Watches(a) /\ old[a] \subseteq Reads(a)
    /\ \A a \in Artifacts \ exists : newer[a] = {} /\ old[a] = {}

\* The changes the build scripts notice.  The removal of a patch, the unpack
\* rule and what a need_build hook watches are compared with nothing.
Noticed == {"version", "rev", "patchFile", "buildRule", "installRule"}

\* When `package' ends well the archive contains every change made before it
\* started, whatever runs were interrupted where before (scripts/package,
\* build, unpack and get, none of which knows how the last run ended).
PackageFresh ==
    done = "package" /\ "opk" \in exists /\ ~SaveSpace
        => old["opk"] \cap Noticed = {}

\* When `install' or `installdev' ends well what is installed is the archive
\* that is there, never an archive it has replaced (scripts/install:38).
InstallCurrent ==
    /\ done = "install" /\ {"opk", "control"} \subseteq exists
           => "opk" \notin old["control"]
    /\ done = "installdev" /\ {"devOpk", "devControl"} \subseteq exists
           => "devOpk" \notin old["devControl"]

\* A run deletes an archive only after uninstalling the package: a package
\* whose archive is being replaced is never left installed (scripts/package,
\* packagedev, unpackage, unpackagedev).
UninstallFirst ==
    [][/\ run # "none" /\ "opk" \in exists \ exists' => "control" \notin exists'
       /\ run # "none" /\ "devOpk" \in exists \ exists' => "devControl" \notin exists']_vars

\* A downloaded package is never installed from anything but its archive: a
\* new version is unpacked, and clean has then removed the installed one,
\* whose archive has another name (the comment at scripts/clean:34).
InstalledIsPackaged ==
    Kind = "url" /\ {"opk", "control"} \subseteq exists => "opk" \notin old["control"]

\* Between runs, a devel archive contains everything that the build it stands
\* for contains: packagedev never looks at the build stamp and relies on
\* build and unpack to delete the archive (scripts/packagedev:37), also when a
\* download, a rule or opkg fails on the way.  Two kinds of archive are excepted,
\* and only these stay behind.  One is older than what a need_build hook watches:
\* the hook removes the stamp alone, and without a stamp nothing else is
\* compared (scripts/build:24, 48).  The other could not be deleted when build
\* had removed its stamp, because an opkg remove failed first (scripts/build:48-50,
\* uninstall:13): the next build finds no stamp and does not try again.
DevNotOlderThanBuild ==
    run = "none" /\ {"devOpk", "buildStamp", "obj"} \subseteq exists
                 /\ old["devOpk"] \cap {"watched", "kept"} = {}
        => old["devOpk"] \cap ObjReads \subseteq old["obj"]

\* The same without the second exception, which a failing opkg remove violates.
DevDeletedWithStamp ==
    run = "none" /\ {"devOpk", "buildStamp", "obj"} \subseteq exists
                 /\ "watched" \notin old["devOpk"]
        => old["devOpk"] \cap ObjReads \subseteq old["obj"]

\* Between runs, a package that get and unpack both hold for done has its
\* build directory: otherwise its rules fail until somebody cleans it.
StampedTree ==
    run = "none" /\ ~SaveSpace /\ {"getStamp", "unpackStamp"} \subseteq exists
        => "tree" \in exists \/ old["getStamp"] # {}

\* When `rootfs' ends well the installed package contains every change of
\* version, build rule and install rule (scripts/rootfs:24-53).
RootfsFresh ==
    done = "rootfs" /\ "control" \in exists
        => old["control"] \cap {"version", "rev", "buildRule", "installRule"} = {}

\* For a package of the flat layout `install' itself starts again from the
\* rule that was edited (scripts/install:31-36 and scripts/build:47). Of a new
\* version or revision there is no archive yet, and neither unpackage nor install looks at
\* what is installed then.
InstallFresh ==
    done = "install" /\ "control" \in exists /\ old["control"] \cap {"version", "rev"} = {}
        => old["control"] \cap {"buildRule", "installRule"} = {}

=============================================================================
