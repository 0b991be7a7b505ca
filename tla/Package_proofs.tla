--------------------------- MODULE Package_proofs ---------------------------
(***************************************************************************)
(* Proofs about Package, for every value of its parameters: any kind of    *)
(* package, both layouts, with or without rules and hooks, any edits, and  *)
(* runs that may be interrupted at any command: types, which script calls  *)
(* which, an archive is only deleted once the package is uninstalled, an   *)
(* install that ends well leaves the package of the archive that is there, *)
(* and when `package' ends well the archive contains every change of a     *)
(* noticed kind.  When `rootfs' or `install' ends well what is installed   *)
(* does, where these scripts find the rules.  With runs that stop only     *)
(* where a command fails: the stamps stand for a build directory, and both *)
(* archives for what is installed and what has been built.                 *)
(***************************************************************************)
EXTENDS Package, TLAPS

----------------------------------------------------------------------------
\* Type correctness

\* The two halves of TypeOK: the scripts, and the files.
ControlOK ==
    /\ pc \in [Scripts -> Labels]
    /\ run \in Commands \cup {"none"}
    /\ force \in BOOLEAN
    /\ done \in Commands \cup {"none"}

FilesOK ==
    /\ exists \in SUBSET Artifacts
    /\ newer \in [Artifacts -> SUBSET Files]
    /\ old \in [Artifacts -> SUBSET Changes]
    /\ \A a \in Artifacts : newer[a] \subseteq Watches(a) /\ old[a] \subseteq Reads(a)
    /\ \A a \in Artifacts \ exists : newer[a] = {} /\ old[a] = {}

LEMMA TypeHalves == TypeOK <=> ControlOK /\ FilesOK
BY DEF TypeOK, ControlOK, FilesOK

\* What is watched and what is read are files and changes.
LEMMA WatchesType == \A a \in Artifacts : Watches(a) \subseteq Files
BY DEF Artifacts, Watches, Files

LEMMA ReadsType == \A a \in Artifacts : Reads(a) \subseteq Changes
<1>1. ObjReads \subseteq Inputs
  BY DEF ObjReads, TreeReads, Inputs
<1>2. QED  BY <1>1 DEF Artifacts, Reads, TreeReads, Changes, Inputs

\* The three ways in which a script changes its place.
LEMMA GoType ==
    ASSUME ControlOK, NEW s \in Scripts, NEW l \in Labels, Go(s, l)
    PROVE  ControlOK'
BY DEF ControlOK, Go

LEMMA CallType ==
    ASSUME ControlOK, NEW s \in Scripts, NEW l \in Labels,
           NEW c \in Scripts, Call(s, l, c)
    PROVE  ControlOK'
BY DEF ControlOK, Call, Labels

LEMMA ReturnType ==
    ASSUME ControlOK, NEW s \in Scripts, Return(s)
    PROVE  ControlOK'
BY DEF ControlOK, Return, Labels

\* The ways in which the files change.
LEMMA RemoveType ==
    ASSUME FilesOK, NEW S, Remove(S)
    PROVE  FilesOK'
BY DEF FilesOK, Remove

LEMMA TimesType ==
    ASSUME FilesOK, NEW f, NEW i
    PROVE  /\ NewerThan(f) \in [Artifacts -> SUBSET Files]
           /\ OldSince(i) \in [Artifacts -> SUBSET Changes]
           /\ \A a \in Artifacts : /\ NewerThan(f)[a] \subseteq Watches(a)
                                   /\ OldSince(i)[a] \subseteq Reads(a)
           /\ \A a \in Artifacts \ exists : NewerThan(f)[a] = {} /\ OldSince(i)[a] = {}
BY WatchesType, ReadsType DEF FilesOK, NewerThan, OldSince

LEMMA WriteType ==
    ASSUME FilesOK, NEW a \in Artifacts, NEW o \in SUBSET Reads(a), Write(a, o)
    PROVE  FilesOK'
<1>1. /\ newer' = [NewerThan(a) EXCEPT ![a] = {}]
      /\ old' = [OldSince(a) EXCEPT ![a] = o]
      /\ exists' = exists \cup {a}
  BY DEF Write
<1>2. o \in SUBSET Changes
  BY ReadsType
<1>3. QED  BY <1>1, <1>2, TimesType DEF FilesOK

\* What can be made from what: everything a copy is made from is something
\* the copy depends on, and what the rules use up is watched nowhere.
LEMMA ReadsNest ==
    /\ TreeReads = Reads("tree")
    /\ Reads("tree") \subseteq Reads("obj")
    /\ Reads("obj") \subseteq Reads("opk")
    /\ Reads("obj") \subseteq Reads("devOpk")
    /\ Reads("opk") \subseteq Reads("control")
    /\ Reads("devOpk") \subseteq Reads("devControl")
    /\ \A a \in BuildDir : Watches(a) = {}
BY DEF Reads, ObjReads, BuildDir, Watches

LEMMA SameType ==
    ASSUME FilesOK, UNCHANGED fs
    PROVE  FilesOK'
BY DEF FilesOK, fs

\* scripts/get keeps the types.
LEMMA GetType ==
    ASSUME ControlOK, FilesOK, Get
    PROVE  ControlOK' /\ FilesOK'
<1>1. CASE GetStart
  <2>1. ControlOK'
    BY <1>1, GoType, ReturnType DEF GetStart, Scripts, Labels
  <2>2. FilesOK'
    BY <1>1, RemoveType, SameType DEF GetStart
  <2>3. QED  BY <2>1, <2>2
<1>2. CASE GetDownload
  <2>1. ControlOK'
    BY <1>2, GoType DEF GetDownload, Scripts, Labels
  <2>2. FilesOK'
    BY <1>2, SameType DEF GetDownload
  <2>3. QED  BY <2>1, <2>2
<1>3. CASE GetStamp
  <2>1. ControlOK'
    BY <1>3, GoType DEF GetStamp, Scripts, Labels
  <2>2. FilesOK'
    BY <1>3, WriteType, ReadsNest DEF GetStamp, FilesOK, Artifacts
  <2>3. QED  BY <2>1, <2>2
<1>4. CASE GetRmUnpack
  <2>1. ControlOK'
    BY <1>4, GoType DEF GetRmUnpack, Scripts, Labels
  <2>2. FilesOK'
    BY <1>4, RemoveType DEF GetRmUnpack
  <2>3. QED  BY <2>1, <2>2
<1>5. CASE GetRmBuild
  <2>1. ControlOK'
    BY <1>5, ReturnType DEF GetRmBuild, Scripts, Labels
  <2>2. FilesOK'
    BY <1>5, RemoveType DEF GetRmBuild
  <2>3. QED  BY <2>1, <2>2
<1>6. QED
  BY <1>1, <1>2, <1>3, <1>4, <1>5 DEF Get

\* scripts/unpack keeps the types.
LEMMA UnpackType ==
    ASSUME ControlOK, FilesOK, Unpack
    PROVE  ControlOK' /\ FilesOK'
<1>1. CASE UnpackStart
  <2>1. ControlOK'
    BY <1>1, CallType DEF UnpackStart, Scripts, Labels
  <2>2. FilesOK'
    BY <1>1, SameType DEF UnpackStart
  <2>3. QED  BY <2>1, <2>2
<1>2. CASE UnpackCheck
  <2>1. ControlOK'
    BY <1>2, GoType, ReturnType DEF UnpackCheck, Scripts, Labels
  <2>2. FilesOK'
    BY <1>2, RemoveType, SameType DEF UnpackCheck
  <2>3. QED  BY <2>1, <2>2
<1>3. CASE UnpackTest
  <2>1. ControlOK'
    BY <1>3, CallType, ReturnType DEF UnpackTest, Scripts, Labels
  <2>2. FilesOK'
    BY <1>3, SameType DEF UnpackTest
  <2>3. QED  BY <2>1, <2>2
<1>4. CASE UnpackMkdir
  <2>1. ControlOK'
    BY <1>4, GoType DEF UnpackMkdir, Scripts, Labels
  <2>2. FilesOK'
    BY <1>4, ReadsNest, ReadsType DEF UnpackMkdir, FilesOK, Artifacts, BuildDir
  <2>3. QED  BY <2>1, <2>2
<1>5. CASE UnpackExtract
  <2>1. ControlOK'
    BY <1>5, GoType DEF UnpackExtract, Scripts, Labels
  <2>2. FilesOK'
    BY <1>5, WriteType, ReadsNest DEF UnpackExtract, FilesOK, Artifacts
  <2>3. QED  BY <2>1, <2>2
<1>6. CASE UnpackRmBuild
  <2>1. ControlOK'
    BY <1>6, CallType DEF UnpackRmBuild, Scripts, Labels
  <2>2. FilesOK'
    BY <1>6, RemoveType DEF UnpackRmBuild
  <2>3. QED  BY <2>1, <2>2
<1>7. CASE UnpackUnpackagedev
  <2>1. ControlOK'
    BY <1>7, CallType DEF UnpackUnpackagedev, Scripts, Labels
  <2>2. FilesOK'
    BY <1>7, SameType DEF UnpackUnpackagedev
  <2>3. QED  BY <2>1, <2>2
<1>8. CASE UnpackStamp
  <2>1. ControlOK'
    BY <1>8, ReturnType DEF UnpackStamp, Scripts, Labels
  <2>2. FilesOK'
    BY <1>8, WriteType, ReadsNest DEF UnpackStamp, FilesOK, Artifacts
  <2>3. QED  BY <2>1, <2>2
<1>9. QED
  BY <1>1, <1>2, <1>3, <1>4, <1>5, <1>6, <1>7, <1>8 DEF Unpack

\* scripts/clean keeps the types.
LEMMA CleanType ==
    ASSUME ControlOK, FilesOK, Clean
    PROVE  ControlOK' /\ FilesOK'
<1>1. CASE CleanStart
  <2>1. ControlOK'
    BY <1>1, GoType DEF CleanStart, Scripts, Labels
  <2>2. FilesOK'
    BY <1>1, RemoveType DEF CleanStart
  <2>3. QED  BY <2>1, <2>2
<1>2. CASE CleanStamps
  <2>1. ControlOK'
    BY <1>2, GoType DEF CleanStamps, Scripts, Labels
  <2>2. FilesOK'
    BY <1>2, RemoveType DEF CleanStamps
  <2>3. QED  BY <2>1, <2>2
<1>3. CASE CleanRmBuild
  <2>1. ControlOK'
    BY <1>3, CallType DEF CleanRmBuild, Scripts, Labels
  <2>2. FilesOK'
    BY <1>3, RemoveType DEF CleanRmBuild
  <2>3. QED  BY <2>1, <2>2
<1>4. CASE CleanUnpackage
  <2>1. ControlOK'
    BY <1>4, CallType DEF CleanUnpackage, Scripts, Labels
  <2>2. FilesOK'
    BY <1>4, SameType DEF CleanUnpackage
  <2>3. QED  BY <2>1, <2>2
<1>5. CASE CleanUninstalldev
  <2>1. ControlOK'
    BY <1>5, CallType DEF CleanUninstalldev, Scripts, Labels
  <2>2. FilesOK'
    BY <1>5, SameType DEF CleanUninstalldev
  <2>3. QED  BY <2>1, <2>2
<1>6. CASE CleanUnpackagedev
  <2>1. ControlOK'
    BY <1>6, CallType DEF CleanUnpackagedev, Scripts, Labels
  <2>2. FilesOK'
    BY <1>6, SameType DEF CleanUnpackagedev
  <2>3. QED  BY <2>1, <2>2
<1>7. CASE CleanEnd
  <2>1. ControlOK'
    BY <1>7, ReturnType DEF CleanEnd, Scripts, Labels
  <2>2. FilesOK'
    BY <1>7, SameType DEF CleanEnd
  <2>3. QED  BY <2>1, <2>2
<1>8. QED
  BY <1>1, <1>2, <1>3, <1>4, <1>5, <1>6, <1>7 DEF Clean

\* Each of the four removing scripts keeps the types.
LEMMA RemoverType ==
    ASSUME ControlOK, FilesOK, Remover
    PROVE  ControlOK' /\ FilesOK'
<1>1. CASE Uninstall
  <2>1. ControlOK'
    BY <1>1, ReturnType DEF Uninstall, Scripts, Labels
  <2>2. FilesOK'
    BY <1>1, RemoveType DEF Uninstall
  <2>3. QED  BY <2>1, <2>2
<1>2. CASE Uninstalldev
  <2>1. ControlOK'
    BY <1>2, ReturnType DEF Uninstalldev, Scripts, Labels
  <2>2. FilesOK'
    BY <1>2, RemoveType DEF Uninstalldev
  <2>3. QED  BY <2>1, <2>2
<1>3. CASE UnpackageStart
  <2>1. ControlOK'
    BY <1>3, CallType, ReturnType DEF UnpackageStart, Scripts, Labels
  <2>2. FilesOK'
    BY <1>3, SameType DEF UnpackageStart
  <2>3. QED  BY <2>1, <2>2
<1>4. CASE UnpackageRm
  <2>1. ControlOK'
    BY <1>4, ReturnType DEF UnpackageRm, Scripts, Labels
  <2>2. FilesOK'
    BY <1>4, RemoveType DEF UnpackageRm
  <2>3. QED  BY <2>1, <2>2
<1>5. CASE UnpackagedevStart
  <2>1. ControlOK'
    BY <1>5, CallType, ReturnType DEF UnpackagedevStart, Scripts, Labels
  <2>2. FilesOK'
    BY <1>5, SameType DEF UnpackagedevStart
  <2>3. QED  BY <2>1, <2>2
<1>6. CASE UnpackagedevRm
  <2>1. ControlOK'
    BY <1>6, ReturnType DEF UnpackagedevRm, Scripts, Labels
  <2>2. FilesOK'
    BY <1>6, RemoveType DEF UnpackagedevRm
  <2>3. QED  BY <2>1, <2>2
<1>7. QED
  BY <1>1, <1>2, <1>3, <1>4, <1>5, <1>6 DEF Remover

\* scripts/build keeps the types.
LEMMA BuildType ==
    ASSUME ControlOK, FilesOK, Build
    PROVE  ControlOK' /\ FilesOK'
<1>1. CASE BuildStart
  <2>1. ControlOK'
    BY <1>1, CallType DEF BuildStart, Scripts, Labels
  <2>2. FilesOK'
    BY <1>1, SameType DEF BuildStart
  <2>3. QED  BY <2>1, <2>2
<1>2. CASE BuildCheck
  <2>1. ControlOK'
    BY <1>2, GoType, CallType DEF BuildCheck, Scripts, Labels
  <2>2. FilesOK'
    BY <1>2, RemoveType, SameType DEF BuildCheck
  <2>3. QED  BY <2>1, <2>2
<1>3. CASE BuildUnpackagedev
  <2>1. ControlOK'
    BY <1>3, CallType DEF BuildUnpackagedev, Scripts, Labels
  <2>2. FilesOK'
    BY <1>3, SameType DEF BuildUnpackagedev
  <2>3. QED  BY <2>1, <2>2
<1>4. CASE BuildTest
  <2>1. ControlOK'
    BY <1>4, GoType, ReturnType DEF BuildTest, Scripts, Labels
  <2>2. FilesOK'
    BY <1>4, SameType DEF BuildTest
  <2>3. QED  BY <2>1, <2>2
<1>5. CASE BuildRule
  <2>1. ControlOK'
    BY <1>5, GoType DEF BuildRule, Scripts, Labels
  <2>2. FilesOK'
    BY <1>5, WriteType, ReadsNest DEF BuildRule, FilesOK, Artifacts
  <2>3. QED  BY <2>1, <2>2
<1>6. CASE BuildStamp
  <2>1. ControlOK'
    BY <1>6, ReturnType DEF BuildStamp, Scripts, Labels
  <2>2. FilesOK'
    BY <1>6, WriteType, ReadsNest DEF BuildStamp, FilesOK, Artifacts
  <2>3. QED  BY <2>1, <2>2
<1>7. QED
  BY <1>1, <1>2, <1>3, <1>4, <1>5, <1>6 DEF Build

\* Each of the two packaging scripts keeps the types.
LEMMA PackagerType ==
    ASSUME ControlOK, FilesOK, Packager
    PROVE  ControlOK' /\ FilesOK'
<1>1. CASE PackageStart
  <2>1. ControlOK'
    BY <1>1, CallType, ReturnType DEF PackageStart, Scripts, Labels
  <2>2. FilesOK'
    BY <1>1, SameType DEF PackageStart
  <2>3. QED  BY <2>1, <2>2
<1>2. CASE PackageCheck
  <2>1. ControlOK'
    BY <1>2, GoType, CallType DEF PackageCheck, Scripts, Labels
  <2>2. FilesOK'
    BY <1>2, SameType DEF PackageCheck
  <2>3. QED  BY <2>1, <2>2
<1>3. CASE PackageRm
  <2>1. ControlOK'
    BY <1>3, GoType DEF PackageRm, Scripts, Labels
  <2>2. FilesOK'
    BY <1>3, RemoveType DEF PackageRm
  <2>3. QED  BY <2>1, <2>2
<1>4. CASE PackageTest
  <2>1. ControlOK'
    BY <1>4, GoType, ReturnType DEF PackageTest, Scripts, Labels
  <2>2. FilesOK'
    BY <1>4, SameType DEF PackageTest
  <2>3. QED  BY <2>1, <2>2
<1>5. CASE PackageRule
  <2>1. ControlOK'
    BY <1>5, GoType DEF PackageRule, Scripts, Labels
  <2>2. FilesOK'
    BY <1>5, WriteType, ReadsNest DEF PackageRule, FilesOK, Artifacts
  <2>3. QED  BY <2>1, <2>2
<1>6. CASE PackageOk
  <2>1. ControlOK'
    BY <1>6, ReturnType DEF PackageOk, Scripts, Labels
  <2>2. FilesOK'
    BY <1>6, ReadsNest, ReadsType DEF PackageOk, FilesOK, Artifacts, BuildDir, FlagAndSaveSpace
  <2>3. QED  BY <2>1, <2>2
<1>7. CASE PackagedevStart
  <2>1. ControlOK'
    BY <1>7, GoType, CallType DEF PackagedevStart, Scripts, Labels
  <2>2. FilesOK'
    BY <1>7, SameType DEF PackagedevStart
  <2>3. QED  BY <2>1, <2>2
<1>8. CASE PackagedevRm
  <2>1. ControlOK'
    BY <1>8, GoType DEF PackagedevRm, Scripts, Labels
  <2>2. FilesOK'
    BY <1>8, RemoveType DEF PackagedevRm
  <2>3. QED  BY <2>1, <2>2
<1>9. CASE PackagedevTest
  <2>1. ControlOK'
    BY <1>9, CallType, ReturnType DEF PackagedevTest, Scripts, Labels
  <2>2. FilesOK'
    BY <1>9, SameType DEF PackagedevTest
  <2>3. QED  BY <2>1, <2>2
<1>10. CASE PackagedevRule
  <2>1. ControlOK'
    BY <1>10, GoType DEF PackagedevRule, Scripts, Labels
  <2>2. FilesOK'
    BY <1>10, WriteType, ReadsNest DEF PackagedevRule, FilesOK, Artifacts
  <2>3. QED  BY <2>1, <2>2
<1>11. CASE PackagedevOk
  <2>1. ControlOK'
    BY <1>11, ReturnType DEF PackagedevOk, Scripts, Labels
  <2>2. FilesOK'
    BY <1>11, ReadsNest, ReadsType DEF PackagedevOk, FilesOK, Artifacts, BuildDir, FlagAndSaveSpace
  <2>3. QED  BY <2>1, <2>2
<1>12. QED
  BY <1>1, <1>2, <1>3, <1>4, <1>5, <1>6, <1>7, <1>8, <1>9, <1>10, <1>11 DEF Packager

\* Each of the two installing scripts keeps the types.
LEMMA InstallType ==
    ASSUME ControlOK, FilesOK, Install
    PROVE  ControlOK' /\ FilesOK'
<1>1. CASE InstallStart
  <2>1. ControlOK'
    BY <1>1, GoType, CallType, ReturnType DEF InstallStart, Scripts, Labels
  <2>2. FilesOK'
    BY <1>1, SameType DEF InstallStart
  <2>3. QED  BY <2>1, <2>2
<1>2. CASE InstallOpk
  <2>1. ControlOK'
    BY <1>2, GoType, CallType DEF InstallOpk, Scripts, Labels
  <2>2. FilesOK'
    BY <1>2, SameType DEF InstallOpk
  <2>3. QED  BY <2>1, <2>2
<1>3. CASE InstallTest
  <2>1. ControlOK'
    BY <1>3, CallType, ReturnType DEF InstallTest, Scripts, Labels
  <2>2. FilesOK'
    BY <1>3, SameType DEF InstallTest
  <2>3. QED  BY <2>1, <2>2
<1>4. CASE InstallOpkg
  <2>1. ControlOK'
    BY <1>4, GoType, ReturnType DEF InstallOpkg, Scripts, Labels
  <2>2. CASE "opk" \in exists
    <3>1. /\ exists' = exists \cup {"control"}
          /\ newer' = [newer EXCEPT !["control"] = newer["opk"] \cap Watches("control")]
          /\ old' = [old EXCEPT !["control"] = old["opk"]]
      BY <1>4, <2>2 DEF InstallOpkg
    <3>2. old["opk"] \in SUBSET Changes /\ old["opk"] \subseteq Reads("control")
      BY ReadsNest DEF FilesOK, Artifacts
    <3>3. newer["opk"] \cap Watches("control") \in SUBSET Files
      BY DEF FilesOK, Artifacts
    <3>4. QED  BY <2>1, <3>1, <3>2, <3>3 DEF FilesOK, Artifacts
  <2>3. CASE "opk" \notin exists
    <3>1. UNCHANGED fs
      BY <1>4, <2>3 DEF InstallOpkg
    <3>2. QED  BY <2>1, <3>1, SameType
  <2>4. QED  BY <2>1, <2>2, <2>3
<1>5. CASE InstallTouch
  <2>1. ControlOK'
    BY <1>5, ReturnType DEF InstallTouch, Scripts, Labels
  <2>2. FilesOK'
    BY <1>5 DEF InstallTouch, FilesOK, Artifacts
  <2>3. QED  BY <2>1, <2>2
<1>6. CASE InstalldevStart
  <2>1. ControlOK'
    BY <1>6, GoType, CallType, ReturnType DEF InstalldevStart, Scripts, Labels
  <2>2. FilesOK'
    BY <1>6, SameType DEF InstalldevStart
  <2>3. QED  BY <2>1, <2>2
<1>7. CASE InstalldevOpk
  <2>1. ControlOK'
    BY <1>7, GoType, CallType DEF InstalldevOpk, Scripts, Labels
  <2>2. FilesOK'
    BY <1>7, SameType DEF InstalldevOpk
  <2>3. QED  BY <2>1, <2>2
<1>8. CASE InstalldevTest
  <2>1. ControlOK'
    BY <1>8, CallType, ReturnType DEF InstalldevTest, Scripts, Labels
  <2>2. FilesOK'
    BY <1>8, SameType DEF InstalldevTest
  <2>3. QED  BY <2>1, <2>2
<1>9. CASE InstalldevOpkg
  <2>1. ControlOK'
    BY <1>9, GoType, ReturnType DEF InstalldevOpkg, Scripts, Labels
  <2>2. CASE "devOpk" \in exists
    <3>1. /\ exists' = exists \cup {"devControl"}
          /\ newer' = [newer EXCEPT !["devControl"] = newer["devOpk"] \cap Watches("devControl")]
          /\ old' = [old EXCEPT !["devControl"] = old["devOpk"]]
      BY <1>9, <2>2 DEF InstalldevOpkg
    <3>2. old["devOpk"] \in SUBSET Changes /\ old["devOpk"] \subseteq Reads("devControl")
      BY ReadsNest DEF FilesOK, Artifacts
    <3>3. newer["devOpk"] \cap Watches("devControl") \in SUBSET Files
      BY DEF FilesOK, Artifacts
    <3>4. QED  BY <2>1, <3>1, <3>2, <3>3 DEF FilesOK, Artifacts
  <2>3. CASE "devOpk" \notin exists
    <3>1. UNCHANGED fs
      BY <1>9, <2>3 DEF InstalldevOpkg
    <3>2. QED  BY <2>1, <3>1, SameType
  <2>4. QED  BY <2>1, <2>2, <2>3
<1>10. CASE InstalldevTouch
  <2>1. ControlOK'
    BY <1>10, ReturnType DEF InstalldevTouch, Scripts, Labels
  <2>2. FilesOK'
    BY <1>10 DEF InstalldevTouch, FilesOK, Artifacts
  <2>3. QED  BY <2>1, <2>2
<1>11. QED
  BY <1>1, <1>2, <1>3, <1>4, <1>5, <1>6, <1>7, <1>8, <1>9, <1>10 DEF Install

\* scripts/rootfs keeps the types.
LEMMA RootfsType ==
    ASSUME ControlOK, FilesOK, Rootfs
    PROVE  ControlOK' /\ FilesOK'
<1>1. CASE RootfsStart
  <2>1. ControlOK'
    BY <1>1, GoType, CallType DEF RootfsStart, Scripts, Labels
  <2>2. FilesOK'
    BY <1>1, SameType DEF RootfsStart
  <2>3. QED  BY <2>1, <2>2
<1>2. CASE RootfsInstall
  <2>1. ControlOK'
    BY <1>2, GoType, CallType DEF RootfsInstall, Scripts, Labels
  <2>2. FilesOK'
    BY <1>2, SameType DEF RootfsInstall
  <2>3. QED  BY <2>1, <2>2
<1>3. CASE RootfsEnd
  <2>1. ControlOK'
    BY <1>3, ReturnType DEF RootfsEnd, Scripts, Labels
  <2>2. FilesOK'
    BY <1>3, SameType DEF RootfsEnd
  <2>3. QED  BY <2>1, <2>2
<1>4. QED
  BY <1>1, <1>2, <1>3 DEF Rootfs


\* The actions that are not a step of a script.
Around ==
    \/ \E s \in Commands : Start(s)
    \/ \E i \in EditKinds : Edit(i)
    \/ \E a \in Artifacts : DependencyRemoved(a)
    \/ NamesakeCleaned
    \/ Abort

\* When a run stops files only go, and only a devel archive gets a new mark.
LEMMA AbortEffect ==
    ASSUME FilesOK, Abort
    PROVE  /\ \A s \in Scripts : pc'[s] = "idle"
           /\ run' = "none" /\ force' = FALSE /\ done' = done
           /\ exists' \subseteq exists
           /\ exists \ exists' \subseteq {"control", "devControl"}
           /\ \A a \in Artifacts \ {"control", "devControl"} : newer'[a] = newer[a]
           /\ \A a \in Artifacts \ {"control", "devControl", "devOpk"} : old'[a] = old[a]
           /\ old'["devOpk"] = IF BuildUnpackages THEN old["devOpk"] \cup {"kept"}
                                                  ELSE old["devOpk"]
           /\ \A a \in {"control", "devControl"} :
                 \/ newer'[a] = newer[a] /\ old'[a] = old[a] /\ (a \in exists' <=> a \in exists)
                 \/ newer'[a] = {} /\ old'[a] = {} /\ a \notin exists'
<1>1. PICK S \in SUBSET BeingRemoved :
          /\ exists' = exists \ S
          /\ newer' = [a \in Artifacts |-> IF a \in S THEN {} ELSE newer[a]]
          /\ old' = [a \in Artifacts |->
                        IF a \in S THEN {}
                        ELSE IF a = "devOpk" /\ BuildUnpackages THEN old[a] \cup {"kept"}
                        ELSE old[a]]
  BY DEF Abort
<1>2. S \subseteq {"control", "devControl"}
  BY <1>1 DEF BeingRemoved
<1>3. /\ \A s \in Scripts : pc'[s] = "idle"
      /\ run' = "none" /\ force' = FALSE /\ done' = done
  BY DEF Abort
<1>4. {"control", "devControl", "devOpk"} \subseteq Artifacts /\ "devOpk" \notin S
  BY <1>2 DEF Artifacts
<1>5. \A a \in Artifacts : /\ newer'[a] = IF a \in S THEN {} ELSE newer[a]
                           /\ a \in S => old'[a] = {}
                           /\ a \notin S /\ a # "devOpk" => old'[a] = old[a]
  BY <1>1
<1>6. old'["devOpk"] = IF BuildUnpackages THEN old["devOpk"] \cup {"kept"} ELSE old["devOpk"]
  BY <1>1, <1>4
<1>7. QED  BY <1>1, <1>2, <1>3, <1>4, <1>5, <1>6

\* So do a start, an edit, the removal of a dependency and an abort.
LEMMA AroundType ==
    ASSUME ControlOK, FilesOK, Around
    PROVE  ControlOK' /\ FilesOK'
<1>1. ASSUME NEW s \in Commands, Start(s) PROVE ControlOK' /\ FilesOK'
  <2>1. force' \in BOOLEAN
    BY <1>1 DEF Start
  <2>2. ControlOK'
    BY <1>1, <2>1 DEF Start, ControlOK, Commands, Scripts, Labels
  <2>3. QED  BY <1>1, <2>2, SameType DEF Start
<1>2. ASSUME NEW i \in EditKinds, Edit(i) PROVE ControlOK' /\ FilesOK'
  <2>1. ControlOK'
    BY <1>2 DEF Edit, ControlOK
  <2>2. /\ exists' = exists \ Renamed(i)
        /\ newer' = [a \in Artifacts |-> IF a \in Renamed(i) THEN {}
                                         ELSE NewerThan(FileOf(i))[a]]
        /\ old' = [a \in Artifacts |-> IF a \in Renamed(i) THEN {}
                                       ELSE OldSince(i)[a]]
    BY <1>2 DEF Edit
  <2>3. QED  BY <2>1, <2>2, TimesType DEF FilesOK
<1>3. ASSUME NEW a \in Artifacts, DependencyRemoved(a) PROVE ControlOK' /\ FilesOK'
  BY <1>3, RemoveType DEF DependencyRemoved, ControlOK
<1>4. CASE Abort
  <2>1. ControlOK'
    BY <1>4 DEF Abort, ControlOK, Scripts, Labels
  <2>2. /\ newer' \in [Artifacts -> SUBSET Files] /\ old' \in [Artifacts -> SUBSET Changes]
        /\ exists' \in SUBSET Artifacts
    BY <1>4 DEF Abort, FilesOK, Changes
  <2>3. "kept" \in Reads("devOpk") /\ (BuildUnpackages => "devOpk" \in exists)
    BY DEF Reads, BuildUnpackages
  <2>4. ASSUME NEW a \in Artifacts
        PROVE  /\ newer'[a] \subseteq Watches(a) /\ old'[a] \subseteq Reads(a)
               /\ a \notin exists' => newer'[a] = {} /\ old'[a] = {}
    <3>1. CASE a \in {"control", "devControl"}
      BY <1>4, <3>1, AbortEffect DEF FilesOK
    <3>2. CASE a = "devOpk"
      <4>1. /\ newer'[a] = newer[a]
            /\ old'[a] = IF BuildUnpackages THEN old[a] \cup {"kept"} ELSE old[a]
            /\ a \in exists' <=> a \in exists
        BY <1>4, <3>2, AbortEffect
      <4>2. QED  BY <2>3, <3>2, <4>1 DEF FilesOK
    <3>3. CASE a \notin {"control", "devControl", "devOpk"}
      <4>1. newer'[a] = newer[a] /\ old'[a] = old[a] /\ (a \in exists' <=> a \in exists)
        BY <1>4, <3>3, AbortEffect
      <4>2. QED  BY <4>1 DEF FilesOK
    <3>4. QED  BY <3>1, <3>2, <3>3
  <2>5. QED  BY <2>1, <2>2, <2>4 DEF FilesOK
<1>5. CASE NamesakeCleaned
  BY <1>5, RemoveType DEF NamesakeCleaned, ControlOK
<1>6. QED  BY <1>1, <1>2, <1>3, <1>4, <1>5 DEF Around

\* Every step keeps them.
LEMMA TypeStep ==
    ASSUME TypeOK, [Next]_vars
    PROVE  ControlOK /\ FilesOK /\ TypeOK'
<1>1. ControlOK /\ FilesOK
  BY TypeHalves
<1>2. CASE UNCHANGED vars
  BY <1>1, <1>2 DEF vars, TypeOK
<1>3. CASE Next
  <2>1. ControlOK' /\ FilesOK'
    BY <1>1, <1>3, GetType, UnpackType, CleanType, RemoverType, BuildType,
       PackagerType, InstallType, RootfsType, AroundType DEF Next, Around
  <2>2. QED  BY <1>1, <2>1 DEF TypeOK, ControlOK, FilesOK
<1>4. QED  BY <1>2, <1>3

\* Every variable has its type in every reachable state.
THEOREM TypeCorrect == Spec => []TypeOK
<1>1. Init => TypeOK
  BY DEF Init, TypeOK, Scripts, Labels, Artifacts, Files
<1>2. TypeOK /\ [Next]_vars => TypeOK'
  BY TypeStep
<1>3. QED  BY <1>1, <1>2, PTL DEF Spec

----------------------------------------------------------------------------
\* Who waits for whom

\* A script is active because it was started by hand or because the script
\* that called it is still at the line after the call; and between two runs
\* nothing is active.
Waiting ==
    /\ run = "none" => \A s \in Scripts : pc[s] = "idle"
    /\ pc["rootfs"] # "idle" => run = "rootfs"
    /\ pc["installdev"] # "idle" => run = "installdev"
    /\ pc["install"] # "idle" => run = "install" \/ pc["rootfs"] = "end"
    /\ pc["packagedev"] # "idle" => run = "packagedev" \/ pc["installdev"] = "opkg"
    /\ pc["package"] # "idle" => run = "package" \/ pc["install"] = "opkg"
    /\ pc["build"] # "idle" => \/ run = "build"
                               \/ pc["package"] = "check"
                               \/ pc["packagedev"] = "rule"
    /\ pc["unpack"] # "idle" => pc["build"] = "check"
    /\ pc["get"] # "idle" => pc["unpack"] = "check"
    /\ pc["clean"] # "idle" => \/ run = "clean"
                               \/ pc["unpack"] = "mkdir"
                               \/ pc["install"] = "opk"
                               \/ pc["installdev"] = "opk"
    /\ pc["unpackage"] # "idle" => \/ pc["clean"] = "uninstalldev"
                                   \/ pc["unpack"] = "unpackagedev"
                                   \/ pc["build"] = "unpackagedev"
                                   \/ pc["install"] = "opk"
    /\ pc["unpackagedev"] # "idle" => \/ pc["clean"] = "end"
                                      \/ pc["unpack"] = "stamp"
                                      \/ pc["build"] = "test"
                                      \/ pc["installdev"] = "opk"
    /\ pc["uninstall"] # "idle" => \/ pc["clean"] = "unpackage"
                                   \/ pc["unpackage"] = "rm"
                                   \/ pc["package"] = "rm"
                                   \/ pc["install"] = "test"
                                   \/ pc["rootfs"] = "install"
    /\ pc["uninstalldev"] # "idle" => \/ pc["clean"] = "unpackagedev"
                                      \/ pc["unpackagedev"] = "rm"
                                      \/ pc["packagedev"] = "rm"
                                      \/ pc["installdev"] = "test"
    /\ pc["clean"] # "idle" /\ pc["unpackage"] # "idle" => pc["clean"] = "uninstalldev"
    /\ pc["clean"] # "idle" /\ pc["unpackagedev"] # "idle" => pc["clean"] = "end"

\* A run that is going on has not ended.
NotDone == run # "none" => done = "none"

\* Every step of scripts/get keeps Waiting.
LEMMA GetWaiting ==
    ASSUME ControlOK, Waiting, Get
    PROVE  Waiting'
<1> USE DEF Waiting, ControlOK, Scripts, At, Calls, Go, Call, Return
<1>1. CASE GetStart
  BY <1>1 DEF GetStart
<1>2. CASE GetDownload
  BY <1>2 DEF GetDownload
<1>3. CASE GetStamp
  BY <1>3 DEF GetStamp
<1>4. CASE GetRmUnpack
  BY <1>4 DEF GetRmUnpack
<1>5. CASE GetRmBuild
  BY <1>5 DEF GetRmBuild
<1>6. QED
  BY <1>1, <1>2, <1>3, <1>4, <1>5 DEF Get

\* Every step of scripts/unpack keeps Waiting.
LEMMA UnpackWaiting ==
    ASSUME ControlOK, Waiting, Unpack
    PROVE  Waiting'
<1> USE DEF Waiting, ControlOK, Scripts, At, Calls, Go, Call, Return
<1>1. CASE UnpackStart
  BY <1>1 DEF UnpackStart
<1>2. CASE UnpackCheck
  BY <1>2 DEF UnpackCheck
<1>3. CASE UnpackTest
  BY <1>3 DEF UnpackTest
<1>4. CASE UnpackMkdir
  BY <1>4 DEF UnpackMkdir
<1>5. CASE UnpackExtract
  BY <1>5 DEF UnpackExtract
<1>6. CASE UnpackRmBuild
  BY <1>6 DEF UnpackRmBuild
<1>7. CASE UnpackUnpackagedev
  BY <1>7 DEF UnpackUnpackagedev
<1>8. CASE UnpackStamp
  BY <1>8 DEF UnpackStamp
<1>9. QED
  BY <1>1, <1>2, <1>3, <1>4, <1>5, <1>6, <1>7, <1>8 DEF Unpack

\* Every step of scripts/clean keeps Waiting.
LEMMA CleanWaiting ==
    ASSUME ControlOK, Waiting, Clean
    PROVE  Waiting'
<1> USE DEF Waiting, ControlOK, Scripts, At, Calls, Go, Call, Return
<1>1. CASE CleanStart
  BY <1>1 DEF CleanStart
<1>2. CASE CleanStamps
  BY <1>2 DEF CleanStamps
<1>3. CASE CleanRmBuild
  BY <1>3 DEF CleanRmBuild
<1>4. CASE CleanUnpackage
  BY <1>4 DEF CleanUnpackage
<1>5. CASE CleanUninstalldev
  BY <1>5 DEF CleanUninstalldev
<1>6. CASE CleanUnpackagedev
  BY <1>6 DEF CleanUnpackagedev
<1>7. CASE CleanEnd
  BY <1>7 DEF CleanEnd
<1>8. QED
  BY <1>1, <1>2, <1>3, <1>4, <1>5, <1>6, <1>7 DEF Clean

\* Every step of each removing script keeps Waiting.
LEMMA RemoverWaiting ==
    ASSUME ControlOK, Waiting, Remover
    PROVE  Waiting'
<1> USE DEF Waiting, ControlOK, Scripts, At, Calls, Go, Call, Return
<1>1. CASE Uninstall
  BY <1>1 DEF Uninstall
<1>2. CASE Uninstalldev
  BY <1>2 DEF Uninstalldev
<1>3. CASE UnpackageStart
  BY <1>3 DEF UnpackageStart
<1>4. CASE UnpackageRm
  BY <1>4 DEF UnpackageRm
<1>5. CASE UnpackagedevStart
  BY <1>5 DEF UnpackagedevStart
<1>6. CASE UnpackagedevRm
  BY <1>6 DEF UnpackagedevRm
<1>7. QED
  BY <1>1, <1>2, <1>3, <1>4, <1>5, <1>6 DEF Remover

\* Every step of scripts/build keeps Waiting.
LEMMA BuildWaiting ==
    ASSUME ControlOK, Waiting, Build
    PROVE  Waiting'
<1> USE DEF Waiting, ControlOK, Scripts, At, Calls, Go, Call, Return
<1>1. CASE BuildStart
  BY <1>1 DEF BuildStart
<1>2. CASE BuildCheck
  BY <1>2 DEF BuildCheck
<1>3. CASE BuildUnpackagedev
  BY <1>3 DEF BuildUnpackagedev
<1>4. CASE BuildTest
  BY <1>4 DEF BuildTest
<1>5. CASE BuildRule
  BY <1>5 DEF BuildRule
<1>6. CASE BuildStamp
  BY <1>6 DEF BuildStamp
<1>7. QED
  BY <1>1, <1>2, <1>3, <1>4, <1>5, <1>6 DEF Build

\* Every step of each packaging script keeps Waiting.
LEMMA PackagerWaiting ==
    ASSUME ControlOK, Waiting, Packager
    PROVE  Waiting'
<1> USE DEF Waiting, ControlOK, Scripts, At, Calls, Go, Call, Return
<1>1. CASE PackageStart
  BY <1>1 DEF PackageStart
<1>2. CASE PackageCheck
  BY <1>2 DEF PackageCheck
<1>3. CASE PackageRm
  BY <1>3 DEF PackageRm
<1>4. CASE PackageTest
  BY <1>4 DEF PackageTest
<1>5. CASE PackageRule
  BY <1>5 DEF PackageRule
<1>6. CASE PackageOk
  BY <1>6 DEF PackageOk
<1>7. CASE PackagedevStart
  BY <1>7 DEF PackagedevStart
<1>8. CASE PackagedevRm
  BY <1>8 DEF PackagedevRm
<1>9. CASE PackagedevTest
  BY <1>9 DEF PackagedevTest
<1>10. CASE PackagedevRule
  BY <1>10 DEF PackagedevRule
<1>11. CASE PackagedevOk
  BY <1>11 DEF PackagedevOk
<1>12. QED
  BY <1>1, <1>2, <1>3, <1>4, <1>5, <1>6, <1>7, <1>8, <1>9, <1>10, <1>11 DEF Packager

\* Every step of each installing script keeps Waiting.
LEMMA InstallWaiting ==
    ASSUME ControlOK, Waiting, Install
    PROVE  Waiting'
<1> USE DEF Waiting, ControlOK, Scripts, At, Calls, Go, Call, Return
<1>1. CASE InstallStart
  BY <1>1 DEF InstallStart
<1>2. CASE InstallOpk
  BY <1>2 DEF InstallOpk
<1>3. CASE InstallTest
  BY <1>3 DEF InstallTest
<1>4. CASE InstallOpkg
  BY <1>4 DEF InstallOpkg
<1>5. CASE InstallTouch
  BY <1>5 DEF InstallTouch
<1>6. CASE InstalldevStart
  BY <1>6 DEF InstalldevStart
<1>7. CASE InstalldevOpk
  BY <1>7 DEF InstalldevOpk
<1>8. CASE InstalldevTest
  BY <1>8 DEF InstalldevTest
<1>9. CASE InstalldevOpkg
  BY <1>9 DEF InstalldevOpkg
<1>10. CASE InstalldevTouch
  BY <1>10 DEF InstalldevTouch
<1>11. QED
  BY <1>1, <1>2, <1>3, <1>4, <1>5, <1>6, <1>7, <1>8, <1>9, <1>10 DEF Install

\* Every step of scripts/rootfs keeps Waiting.
LEMMA RootfsWaiting ==
    ASSUME ControlOK, Waiting, Rootfs
    PROVE  Waiting'
<1> USE DEF Waiting, ControlOK, Scripts, At, Calls, Go, Call, Return
<1>1. CASE RootfsStart
  BY <1>1 DEF RootfsStart
<1>2. CASE RootfsInstall
  BY <1>2 DEF RootfsInstall
<1>3. CASE RootfsEnd
  BY <1>3 DEF RootfsEnd
<1>4. QED
  BY <1>1, <1>2, <1>3 DEF Rootfs

\* So do a start, an edit, the removal of a dependency and an abort.
LEMMA AroundWaiting ==
    ASSUME ControlOK, Waiting, Around
    PROVE  Waiting'
<1> USE DEF Waiting, ControlOK, Scripts
<1>1. ASSUME NEW s \in Commands, Start(s) PROVE Waiting'
  BY <1>1 DEF Start, Commands
<1>2. ASSUME NEW i \in EditKinds, Edit(i) PROVE Waiting'
  BY <1>2 DEF Edit
<1>3. ASSUME NEW a \in Artifacts, DependencyRemoved(a) PROVE Waiting'
  BY <1>3 DEF DependencyRemoved
<1>4. CASE Abort
  BY <1>4 DEF Abort
<1>5. CASE NamesakeCleaned
  BY <1>5 DEF NamesakeCleaned
<1>6. QED  BY <1>1, <1>2, <1>3, <1>4, <1>5 DEF Around

\* Every step keeps Waiting.
LEMMA WaitingStep ==
    ASSUME ControlOK, Waiting, [Next]_vars
    PROVE  Waiting'
<1>1. CASE UNCHANGED vars
  BY <1>1 DEF vars, Waiting
<1>2. CASE Next
  BY <1>2, GetWaiting, UnpackWaiting, CleanWaiting, RemoverWaiting, BuildWaiting,
     PackagerWaiting, InstallWaiting, RootfsWaiting, AroundWaiting DEF Next, Around
<1>3. QED  BY <1>1, <1>2

\* In every reachable state the active scripts form one chain of calls.
THEOREM OneChain == Spec => []Waiting
<1>1. Init => Waiting
  BY DEF Init, Waiting, Scripts
<1>2. TypeOK /\ Waiting /\ [Next]_vars => Waiting'
  BY TypeStep, WaitingStep
<1>3. QED  BY <1>1, <1>2, TypeCorrect, PTL DEF Spec

----------------------------------------------------------------------------
\* What writing each file changes

\* No stamp is compared with these, and nothing is made from them by name.
LEMMA QuietWrite ==
    ASSUME FilesOK, NEW a \in {"getStamp", "tree", "obj", "unpackStamp"}, NEW o,
           Write(a, o)
    PROVE  /\ exists' = exists \cup {a}
           /\ newer' = [newer EXCEPT ![a] = {}]
           /\ old' = [old EXCEPT ![a] = o]
<1>1. \A b \in Artifacts : a \notin Watches(b) /\ a \notin Reads(b)
  BY DEF Watches, Reads, ObjReads, TreeReads, Artifacts
<1>2. NewerThan(a) = newer /\ OldSince(a) = old
  BY <1>1 DEF NewerThan, OldSince, FilesOK
<1>3. QED  BY <1>2 DEF Write

\* The archive is compared with the build stamp.
LEMMA BuildStampWrite ==
    ASSUME FilesOK, Write("buildStamp", {})
    PROVE  /\ exists' = exists \cup {"buildStamp"}
           /\ newer' = [newer EXCEPT !["buildStamp"] = {},
                           !["opk"] = IF "opk" \in exists
                                      THEN newer["opk"] \cup {"buildStamp"}
                                      ELSE newer["opk"]]
           /\ old' = [old EXCEPT !["buildStamp"] = {}]
<1>1. \A b \in Artifacts : "buildStamp" \in Watches(b) <=> b = "opk"
  BY DEF Watches, Artifacts
<1>2. \A b \in Artifacts : "buildStamp" \notin Reads(b)
  BY DEF Reads, ObjReads, TreeReads, Artifacts
<1>3. /\ NewerThan("buildStamp") = [newer EXCEPT !["opk"] =
                IF "opk" \in exists THEN newer["opk"] \cup {"buildStamp"} ELSE newer["opk"]]
      /\ OldSince("buildStamp") = old
  BY <1>1, <1>2 DEF NewerThan, OldSince, FilesOK, Artifacts
<1>4. QED  BY <1>3 DEF Write, FilesOK, Artifacts

\* An installed package is compared with its archive and made from it.
ControlOf(a) == IF a = "opk" THEN "control" ELSE "devControl"

LEMMA ArchiveWrite ==
    ASSUME FilesOK, NEW o, NEW a \in {"opk", "devOpk"}, Write(a, o)
    PROVE  LET c == ControlOf(a)
           IN  /\ exists' = exists \cup {a}
               /\ newer' = [newer EXCEPT ![a] = {},
                               ![c] = IF c \in exists THEN newer[c] \cup {a} ELSE newer[c]]
               /\ old' = [old EXCEPT ![a] = o,
                               ![c] = IF c \in exists THEN old[c] \cup {a} ELSE old[c]]
<1> DEFINE c == ControlOf(a)
<1>1. \A b \in Artifacts : a \in Watches(b) <=> b = c
  BY DEF Watches, Artifacts, ControlOf
<1>2. \A b \in Artifacts : a \in Reads(b) <=> b = c
  BY DEF Reads, ObjReads, TreeReads, Artifacts, ControlOf
<1>3. a # c /\ c \in Artifacts
  BY DEF ControlOf, Artifacts
<1> HIDE DEF c
<1>4. /\ NewerThan(a) = [newer EXCEPT ![c] =
                IF c \in exists THEN newer[c] \cup {a} ELSE newer[c]]
      /\ OldSince(a) = [old EXCEPT ![c] =
                IF c \in exists THEN old[c] \cup {a} ELSE old[c]]
  BY <1>1, <1>2, <1>3 DEF NewerThan, OldSince, FilesOK
<1>5. QED  BY <1>3, <1>4 DEF Write, FilesOK, c

LEMMA OpkWrite ==
    ASSUME FilesOK, NEW o, Write("opk", o)
    PROVE  /\ exists' = exists \cup {"opk"}
           /\ newer' = [newer EXCEPT !["opk"] = {},
                           !["control"] = IF "control" \in exists
                               THEN newer["control"] \cup {"opk"} ELSE newer["control"]]
           /\ old' = [old EXCEPT !["opk"] = o,
                           !["control"] = IF "control" \in exists
                               THEN old["control"] \cup {"opk"} ELSE old["control"]]
BY ArchiveWrite DEF ControlOf

LEMMA DevOpkWrite ==
    ASSUME FilesOK, NEW o, Write("devOpk", o)
    PROVE  /\ exists' = exists \cup {"devOpk"}
           /\ newer' = [newer EXCEPT !["devOpk"] = {},
                           !["devControl"] = IF "devControl" \in exists
                               THEN newer["devControl"] \cup {"devOpk"} ELSE newer["devControl"]]
           /\ old' = [old EXCEPT !["devOpk"] = o,
                           !["devControl"] = IF "devControl" \in exists
                               THEN old["devControl"] \cup {"devOpk"} ELSE old["devControl"]]
BY ArchiveWrite DEF ControlOf

\* An edit adds itself to what is newer and to what is missed, file by file.
LEMMA EditEffect ==
    ASSUME FilesOK, NEW i \in EditKinds, Edit(i)
    PROVE  /\ i \in Inputs
           /\ run = "none"
           /\ UNCHANGED <<pc, run, force>>
           /\ done' = "none"
           /\ exists' = exists \ Renamed(i)
           /\ \A a \in Artifacts \ Renamed(i) :
                /\ newer'[a] = IF a \in exists /\ FileOf(i) \in Watches(a)
                               THEN newer[a] \cup {FileOf(i)} ELSE newer[a]
                /\ old'[a] = IF a \in exists /\ i \in Reads(a)
                             THEN old[a] \cup {i} ELSE old[a]
           /\ \A a \in Artifacts \cap Renamed(i) : newer'[a] = {} /\ old'[a] = {}
BY ParametersAssumption DEF Edit, NewerThan, OldSince, FilesOK

----------------------------------------------------------------------------
\* What is installed and what the archive holds

\* A script that is about to remove an archive has uninstalled the package.
Removing ==
    /\ pc["uninstall"] = "idle" /\ (pc["unpackage"] = "rm" \/ pc["package"] = "rm")
           => "control" \notin exists
    /\ pc["uninstalldev"] = "idle" /\ (pc["unpackagedev"] = "rm" \/ pc["packagedev"] = "rm")
           => "devControl" \notin exists

\* Installed content that was replaced by a later archive is older than that
\* archive also in time, and installing repairs it before it can return.
Installing ==
    /\ "opk" \in old["control"] => "opk" \in newer["control"]
    /\ pc["install"] = "touch" => "opk" \notin old["control"]
    /\ pc["install"] = "test" /\ pc["uninstall"] = "idle" /\ {"opk", "control"} \subseteq exists
           => "opk" \notin newer["control"]
    /\ "opk" \in exists \/ pc["package"] = "rule" => HasInstall

Installingdev ==
    /\ "devOpk" \in old["devControl"] => "devOpk" \in newer["devControl"]
    /\ pc["installdev"] = "touch" => "devOpk" \notin old["devControl"]
    /\ pc["installdev"] = "test" /\ pc["uninstalldev"] = "idle"
            /\ {"devOpk", "devControl"} \subseteq exists
           => "devOpk" \notin newer["devControl"]
    /\ "devOpk" \in exists \/ pc["packagedev"] = "rule" => HasInstalldev

\* The inductive invariant.
InstallInv == NotDone /\ Removing /\ Installing /\ Installingdev /\ InstallCurrent

\* An edit as the archives and what is installed from them see it: it is
\* never the replacement of an archive.
LEMMA EditInstalled ==
    ASSUME FilesOK, NEW i \in EditKinds, Edit(i)
    PROVE  /\ exists' \subseteq exists
           /\ \A c \in {"control", "devControl"}, a \in {"opk", "devOpk"} :
                /\ a \in old'[c] <=> a \in old[c]
                /\ a \in newer'[c] <=> a \in newer[c]
<1>1. i \in Inputs /\ {"control", "devControl"} \cap Renamed(i) = {}
  BY EditEffect DEF Renamed, BuildDir, Inputs
<1>2. i \notin {"opk", "devOpk"} /\ FileOf(i) \notin {"opk", "devOpk"}
  BY <1>1 DEF Inputs, FileOf
<1>3. ASSUME NEW c \in {"control", "devControl"}
      PROVE  /\ newer'[c] \in {newer[c], newer[c] \cup {FileOf(i)}}
             /\ old'[c] \in {old[c], old[c] \cup {i}}
  <2>1. c \in Artifacts \ Renamed(i)
    BY <1>1 DEF Artifacts
  <2>2. QED  BY <2>1, EditEffect
<1>4. exists' \subseteq exists
  BY EditEffect
<1>5. QED  BY <1>2, <1>3, <1>4

----------------------------------------------------------------------------
\* Every step of scripts/get keeps InstallInv.
LEMMA GetInstallInv ==
    ASSUME ControlOK, FilesOK, Waiting, InstallInv,
           Get
    PROVE  InstallInv'
<1> USE DEF InstallInv, NotDone, Removing, Installing, Installingdev,
           InstallCurrent, ControlOK, FilesOK, Waiting, Scripts, At, Calls,
           Go, Call, Return, Remove, fs, Artifacts, Watches, Reads, ObjReads,
           TreeReads
<1>1. CASE GetStart
  BY <1>1 DEF GetStart
<1>2. CASE GetDownload
  BY <1>2 DEF GetDownload
<1>3. CASE GetStamp
  <2>1. Write("getStamp", {})
    BY <1>3 DEF GetStamp
  <2>2. QED  BY <1>3, <2>1, QuietWrite DEF GetStamp
<1>4. CASE GetRmUnpack
  BY <1>4 DEF GetRmUnpack
<1>5. CASE GetRmBuild
  BY <1>5 DEF GetRmBuild
<1>6. QED
  BY <1>1, <1>2, <1>3, <1>4, <1>5 DEF Get

\* Every step of scripts/unpack keeps InstallInv.
LEMMA UnpackInstallInv ==
    ASSUME ControlOK, FilesOK, Waiting, InstallInv,
           Unpack
    PROVE  InstallInv'
<1> USE DEF InstallInv, NotDone, Removing, Installing, Installingdev,
           InstallCurrent, ControlOK, FilesOK, Waiting, Scripts, At, Calls,
           Go, Call, Return, Remove, fs, Artifacts, Watches, Reads, ObjReads,
           TreeReads
<1>1. CASE UnpackStart
  BY <1>1 DEF UnpackStart
<1>2. CASE UnpackCheck
  BY <1>2 DEF UnpackCheck
<1>3. CASE UnpackTest
  BY <1>3 DEF UnpackTest
<1>4. CASE UnpackMkdir
  BY <1>4 DEF UnpackMkdir, BuildDir
<1>5. CASE UnpackExtract
  <2>1. Write("tree", {})
    BY <1>5 DEF UnpackExtract
  <2>2. QED  BY <1>5, <2>1, QuietWrite DEF UnpackExtract
<1>6. CASE UnpackRmBuild
  BY <1>6 DEF UnpackRmBuild
<1>7. CASE UnpackUnpackagedev
  BY <1>7 DEF UnpackUnpackagedev
<1>8. CASE UnpackStamp
  <2>1. Write("unpackStamp", {})
    BY <1>8 DEF UnpackStamp
  <2>2. QED  BY <1>8, <2>1, QuietWrite DEF UnpackStamp
<1>9. QED
  BY <1>1, <1>2, <1>3, <1>4, <1>5, <1>6, <1>7, <1>8 DEF Unpack

\* Every step of scripts/clean keeps InstallInv.
LEMMA CleanInstallInv ==
    ASSUME ControlOK, FilesOK, Waiting, InstallInv,
           Clean
    PROVE  InstallInv'
<1> USE DEF InstallInv, NotDone, Removing, Installing, Installingdev,
           InstallCurrent, ControlOK, FilesOK, Waiting, Scripts, At, Calls,
           Go, Call, Return, Remove, fs, Artifacts, Watches, Reads, ObjReads,
           TreeReads
<1>1. CASE CleanStart
  BY <1>1 DEF CleanStart, BuildDir
<1>2. CASE CleanStamps
  BY <1>2 DEF CleanStamps
<1>3. CASE CleanRmBuild
  BY <1>3 DEF CleanRmBuild
<1>4. CASE CleanUnpackage
  BY <1>4 DEF CleanUnpackage
<1>5. CASE CleanUninstalldev
  BY <1>5 DEF CleanUninstalldev
<1>6. CASE CleanUnpackagedev
  BY <1>6 DEF CleanUnpackagedev
<1>7. CASE CleanEnd
  BY <1>7 DEF CleanEnd
<1>8. QED
  BY <1>1, <1>2, <1>3, <1>4, <1>5, <1>6, <1>7 DEF Clean

\* Every step of each removing script keeps InstallInv.
LEMMA RemoverInstallInv ==
    ASSUME ControlOK, FilesOK, Waiting, InstallInv,
           Remover
    PROVE  InstallInv'
<1> USE DEF InstallInv, NotDone, Removing, Installing, Installingdev,
           InstallCurrent, ControlOK, FilesOK, Waiting, Scripts, At, Calls,
           Go, Call, Return, Remove, fs, Artifacts, Watches, Reads, ObjReads,
           TreeReads
<1>1. CASE Uninstall
  BY <1>1 DEF Uninstall
<1>2. CASE Uninstalldev
  BY <1>2 DEF Uninstalldev
<1>3. CASE UnpackageStart
  BY <1>3 DEF UnpackageStart
<1>4. CASE UnpackageRm
  BY <1>4 DEF UnpackageRm
<1>5. CASE UnpackagedevStart
  BY <1>5 DEF UnpackagedevStart
<1>6. CASE UnpackagedevRm
  BY <1>6 DEF UnpackagedevRm
<1>7. QED
  BY <1>1, <1>2, <1>3, <1>4, <1>5, <1>6 DEF Remover

\* Every step of scripts/build keeps InstallInv.
LEMMA BuildInstallInv ==
    ASSUME ControlOK, FilesOK, Waiting, InstallInv,
           Build
    PROVE  InstallInv'
<1> USE DEF InstallInv, NotDone, Removing, Installing, Installingdev,
           InstallCurrent, ControlOK, FilesOK, Waiting, Scripts, At, Calls,
           Go, Call, Return, Remove, fs, Artifacts, Watches, Reads, ObjReads,
           TreeReads
<1>1. CASE BuildStart
  BY <1>1 DEF BuildStart
<1>2. CASE BuildCheck
  BY <1>2 DEF BuildCheck
<1>3. CASE BuildUnpackagedev
  BY <1>3 DEF BuildUnpackagedev
<1>4. CASE BuildTest
  BY <1>4 DEF BuildTest
<1>5. CASE BuildRule
  <2>1. Write("obj", old["tree"])
    BY <1>5 DEF BuildRule
  <2>2. QED  BY <1>5, <2>1, QuietWrite DEF BuildRule
<1>6. CASE BuildStamp
  <2>1. Write("buildStamp", {})
    BY <1>6 DEF BuildStamp
  <2>2. QED  BY <1>6, <2>1, BuildStampWrite DEF BuildStamp
<1>7. QED
  BY <1>1, <1>2, <1>3, <1>4, <1>5, <1>6 DEF Build

\* Every step of each packaging script keeps InstallInv.
LEMMA PackagerInstallInv ==
    ASSUME ControlOK, FilesOK, Waiting, InstallInv,
           Packager
    PROVE  InstallInv'
<1> USE DEF InstallInv, NotDone, Removing, Installing, Installingdev,
           InstallCurrent, ControlOK, FilesOK, Waiting, Scripts, At, Calls,
           Go, Call, Return, Remove, fs, Artifacts, Watches, Reads, ObjReads,
           TreeReads
<1>1. CASE PackageStart
  BY <1>1 DEF PackageStart
<1>2. CASE PackageCheck
  BY <1>2 DEF PackageCheck
<1>3. CASE PackageRm
  BY <1>3 DEF PackageRm
<1>4. CASE PackageTest
  BY <1>4 DEF PackageTest
<1>5. CASE PackageRule
  <2>1. Write("opk", old["obj"])
    BY <1>5 DEF PackageRule
  <2>2. QED  BY <1>5, <2>1, OpkWrite DEF PackageRule
<1>6. CASE PackageOk
  BY <1>6 DEF PackageOk, FlagAndSaveSpace, BuildDir
<1>7. CASE PackagedevStart
  BY <1>7 DEF PackagedevStart
<1>8. CASE PackagedevRm
  BY <1>8 DEF PackagedevRm
<1>9. CASE PackagedevTest
  BY <1>9 DEF PackagedevTest
<1>10. CASE PackagedevRule
  <2>1. Write("devOpk", old["obj"])
    BY <1>10 DEF PackagedevRule
  <2>2. QED  BY <1>10, <2>1, DevOpkWrite DEF PackagedevRule
<1>11. CASE PackagedevOk
  BY <1>11 DEF PackagedevOk, FlagAndSaveSpace, BuildDir
<1>12. QED
  BY <1>1, <1>2, <1>3, <1>4, <1>5, <1>6, <1>7, <1>8, <1>9, <1>10, <1>11 DEF Packager

\* Every step of each installing script keeps InstallInv.
LEMMA InstallInstallInv ==
    ASSUME ControlOK, FilesOK, Waiting, InstallInv,
           Install
    PROVE  InstallInv'
<1> USE DEF InstallInv, NotDone, Removing, Installing, Installingdev,
           InstallCurrent, ControlOK, FilesOK, Waiting, Scripts, At, Calls,
           Go, Call, Return, Remove, fs, Artifacts, Watches, Reads, ObjReads,
           TreeReads
<1>1. CASE InstallStart
  BY <1>1 DEF InstallStart, RebuiltInputs
<1>2. CASE InstallOpk
  BY <1>2 DEF InstallOpk
<1>3. CASE InstallTest
  BY <1>3 DEF InstallTest
<1>4. CASE InstallOpkg
  BY <1>4 DEF InstallOpkg
<1>5. CASE InstallTouch
  BY <1>5 DEF InstallTouch
<1>6. CASE InstalldevStart
  BY <1>6 DEF InstalldevStart, RebuiltInputs
<1>7. CASE InstalldevOpk
  BY <1>7 DEF InstalldevOpk
<1>8. CASE InstalldevTest
  BY <1>8 DEF InstalldevTest
<1>9. CASE InstalldevOpkg
  BY <1>9 DEF InstalldevOpkg
<1>10. CASE InstalldevTouch
  BY <1>10 DEF InstalldevTouch
<1>11. QED
  BY <1>1, <1>2, <1>3, <1>4, <1>5, <1>6, <1>7, <1>8, <1>9, <1>10 DEF Install

\* Every step of scripts/rootfs keeps InstallInv.
LEMMA RootfsInstallInv ==
    ASSUME ControlOK, FilesOK, Waiting, InstallInv,
           Rootfs
    PROVE  InstallInv'
<1> USE DEF InstallInv, NotDone, Removing, Installing, Installingdev,
           InstallCurrent, ControlOK, FilesOK, Waiting, Scripts, At, Calls,
           Go, Call, Return, Remove, fs, Artifacts, Watches, Reads, ObjReads,
           TreeReads
<1>1. CASE RootfsStart
  BY <1>1 DEF RootfsStart
<1>2. CASE RootfsInstall
  BY <1>2 DEF RootfsInstall
<1>3. CASE RootfsEnd
  BY <1>3 DEF RootfsEnd
<1>4. QED
  BY <1>1, <1>2, <1>3 DEF Rootfs

\* So do a start, an edit, the removal of a dependency and an abort.
LEMMA AroundInstallInv ==
    ASSUME ControlOK, FilesOK, Waiting, InstallInv,
           Around
    PROVE  InstallInv'
<1> USE DEF InstallInv, NotDone, Removing, Installing, Installingdev,
           InstallCurrent, ControlOK, FilesOK, Waiting, Scripts, At, Calls,
           Go, Call, Return, Remove, fs, Artifacts, Watches, Reads, ObjReads,
           TreeReads
<1>1. ASSUME NEW s \in Commands, Start(s) PROVE InstallInv'
  BY <1>1 DEF Start, Commands
<1>2. ASSUME NEW i \in EditKinds, Edit(i) PROVE InstallInv'
  <2>1. (\A s \in Scripts : pc'[s] = "idle") /\ run' = "none" /\ done' = "none"
    BY <1>2, EditEffect
  <2>2. NotDone' /\ Removing' /\ InstallCurrent'
    BY <2>1
  <2>3. Installing' /\ Installingdev'
    BY <1>2, <2>1, EditInstalled
  <2>4. QED  BY <2>2, <2>3
<1>3. ASSUME NEW a \in Artifacts, DependencyRemoved(a) PROVE InstallInv'
  BY <1>3 DEF DependencyRemoved, Elsewhere
<1>4. CASE Abort
  BY <1>4, AbortEffect DEF Abort
<1>5. CASE NamesakeCleaned
  BY <1>5 DEF NamesakeCleaned, Elsewhere
<1>6. QED  BY <1>1, <1>2, <1>3, <1>4, <1>5 DEF Around

----------------------------------------------------------------------------
\* Every step keeps InstallInv.
LEMMA InstallInvStep ==
    ASSUME TypeOK, Waiting, InstallInv, [Next]_vars
    PROVE  InstallInv'
<1>1. ControlOK /\ FilesOK
  BY TypeHalves
<1>2. CASE UNCHANGED vars
  BY <1>2 DEF vars, InstallInv, NotDone, Removing, Installing, Installingdev, InstallCurrent
<1>3. CASE Next
  BY <1>1, <1>3, GetInstallInv, UnpackInstallInv, CleanInstallInv, RemoverInstallInv,
     BuildInstallInv, PackagerInstallInv, InstallInstallInv, RootfsInstallInv,
     AroundInstallInv DEF Next, Around
<1>4. QED  BY <1>2, <1>3

\* In every reachable state.
LEMMA InstallInvAlways == Spec => []InstallInv
<1>1. Init => InstallInv
  BY DEF Init, InstallInv, NotDone, Removing, Installing, Installingdev, InstallCurrent, Scripts, Artifacts
<1>2. TypeOK /\ Waiting /\ InstallInv /\ [Next]_vars => InstallInv'
  BY InstallInvStep
<1>3. QED  BY <1>1, <1>2, TypeCorrect, OneChain, PTL DEF Spec

\* When `install' or `installdev' ends well what is installed is the archive
\* that is there (scripts/install:38, scripts/installdev:43).
THEOREM CurrentInstalled == Spec => []InstallCurrent
<1>1. InstallInv => InstallCurrent
  BY DEF InstallInv
<1>2. QED  BY <1>1, InstallInvAlways, PTL

\* A step of a run that deletes an archive finds the package uninstalled: the
\* two lines that delete one come after the call that uninstalls.
LEMMA DeletesUninstalled ==
    ASSUME TypeOK, InstallInv, [Next]_vars
    PROVE  /\ run # "none" /\ "opk" \in exists \ exists' => "control" \notin exists'
           /\ run # "none" /\ "devOpk" \in exists \ exists' => "devControl" \notin exists'
<1> USE DEF InstallInv, Removing, ControlOK, FilesOK, At, Calls, Remove, fs, Scripts,
            Artifacts
<1>1. ControlOK /\ FilesOK
  BY TypeHalves
<1>2. CASE UNCHANGED vars
  BY <1>2 DEF vars
<1>3. CASE Get
  <2>1. CASE GetStart
    BY <1>1, <2>1 DEF GetStart
  <2>2. CASE GetDownload
    BY <1>1, <2>2 DEF GetDownload
  <2>3. CASE GetStamp
    BY <1>1, <2>3 DEF GetStamp, Write
  <2>4. CASE GetRmUnpack
    BY <1>1, <2>4 DEF GetRmUnpack
  <2>5. CASE GetRmBuild
    BY <1>1, <2>5 DEF GetRmBuild
  <2>6. QED  BY <1>3, <2>1, <2>2, <2>3, <2>4, <2>5 DEF Get
<1>4. CASE Unpack
  <2>1. CASE UnpackStart
    BY <1>1, <2>1 DEF UnpackStart
  <2>2. CASE UnpackCheck
    BY <1>1, <2>2 DEF UnpackCheck
  <2>3. CASE UnpackTest
    BY <1>1, <2>3 DEF UnpackTest
  <2>4. CASE UnpackMkdir
    BY <1>1, <2>4 DEF UnpackMkdir, BuildDir
  <2>5. CASE UnpackExtract
    BY <1>1, <2>5 DEF UnpackExtract, Write
  <2>6. CASE UnpackRmBuild
    BY <1>1, <2>6 DEF UnpackRmBuild
  <2>7. CASE UnpackUnpackagedev
    BY <1>1, <2>7 DEF UnpackUnpackagedev
  <2>8. CASE UnpackStamp
    BY <1>1, <2>8 DEF UnpackStamp, Write
  <2>9. QED  BY <1>4, <2>1, <2>2, <2>3, <2>4, <2>5, <2>6, <2>7, <2>8 DEF Unpack
<1>5. CASE Clean
  <2>1. CASE CleanStart
    BY <1>1, <2>1 DEF CleanStart, BuildDir
  <2>2. CASE CleanStamps
    BY <1>1, <2>2 DEF CleanStamps
  <2>3. CASE CleanRmBuild
    BY <1>1, <2>3 DEF CleanRmBuild
  <2>4. CASE CleanUnpackage
    BY <1>1, <2>4 DEF CleanUnpackage
  <2>5. CASE CleanUninstalldev
    BY <1>1, <2>5 DEF CleanUninstalldev
  <2>6. CASE CleanUnpackagedev
    BY <1>1, <2>6 DEF CleanUnpackagedev
  <2>7. CASE CleanEnd
    BY <1>1, <2>7 DEF CleanEnd
  <2>8. QED  BY <1>5, <2>1, <2>2, <2>3, <2>4, <2>5, <2>6, <2>7 DEF Clean
<1>6. CASE Remover
  <2>1. CASE Uninstall
    BY <1>1, <2>1 DEF Uninstall
  <2>2. CASE Uninstalldev
    BY <1>1, <2>2 DEF Uninstalldev
  <2>3. CASE UnpackageStart
    BY <1>1, <2>3 DEF UnpackageStart
  <2>4. CASE UnpackageRm
    BY <1>1, <2>4 DEF UnpackageRm
  <2>5. CASE UnpackagedevStart
    BY <1>1, <2>5 DEF UnpackagedevStart
  <2>6. CASE UnpackagedevRm
    BY <1>1, <2>6 DEF UnpackagedevRm
  <2>7. QED  BY <1>6, <2>1, <2>2, <2>3, <2>4, <2>5, <2>6 DEF Remover
<1>7. CASE Build
  <2>1. CASE BuildStart
    BY <1>1, <2>1 DEF BuildStart
  <2>2. CASE BuildCheck
    BY <1>1, <2>2 DEF BuildCheck
  <2>3. CASE BuildUnpackagedev
    BY <1>1, <2>3 DEF BuildUnpackagedev
  <2>4. CASE BuildTest
    BY <1>1, <2>4 DEF BuildTest
  <2>5. CASE BuildRule
    BY <1>1, <2>5 DEF BuildRule, Write
  <2>6. CASE BuildStamp
    BY <1>1, <2>6 DEF BuildStamp, Write
  <2>7. QED  BY <1>7, <2>1, <2>2, <2>3, <2>4, <2>5, <2>6 DEF Build
<1>8. CASE Packager
  <2>1. CASE PackageStart
    BY <1>1, <2>1 DEF PackageStart
  <2>2. CASE PackageCheck
    BY <1>1, <2>2 DEF PackageCheck
  <2>3. CASE PackageRm
    BY <1>1, <2>3 DEF PackageRm
  <2>4. CASE PackageTest
    BY <1>1, <2>4 DEF PackageTest
  <2>5. CASE PackageRule
    BY <1>1, <2>5 DEF PackageRule, Write
  <2>6. CASE PackageOk
    BY <1>1, <2>6 DEF PackageOk, FlagAndSaveSpace, BuildDir
  <2>7. CASE PackagedevStart
    BY <1>1, <2>7 DEF PackagedevStart
  <2>8. CASE PackagedevRm
    BY <1>1, <2>8 DEF PackagedevRm
  <2>9. CASE PackagedevTest
    BY <1>1, <2>9 DEF PackagedevTest
  <2>10. CASE PackagedevRule
    BY <1>1, <2>10 DEF PackagedevRule, Write
  <2>11. CASE PackagedevOk
    BY <1>1, <2>11 DEF PackagedevOk, FlagAndSaveSpace, BuildDir
  <2>12. QED  BY <1>8, <2>1, <2>2, <2>3, <2>4, <2>5, <2>6, <2>7, <2>8, <2>9, <2>10, <2>11 DEF Packager
<1>9. CASE Install
  <2>1. CASE InstallStart
    BY <1>1, <2>1 DEF InstallStart
  <2>2. CASE InstallOpk
    BY <1>1, <2>2 DEF InstallOpk
  <2>3. CASE InstallTest
    BY <1>1, <2>3 DEF InstallTest
  <2>4. CASE InstallOpkg
    BY <1>1, <2>4 DEF InstallOpkg
  <2>5. CASE InstallTouch
    BY <1>1, <2>5 DEF InstallTouch
  <2>6. CASE InstalldevStart
    BY <1>1, <2>6 DEF InstalldevStart
  <2>7. CASE InstalldevOpk
    BY <1>1, <2>7 DEF InstalldevOpk
  <2>8. CASE InstalldevTest
    BY <1>1, <2>8 DEF InstalldevTest
  <2>9. CASE InstalldevOpkg
    BY <1>1, <2>9 DEF InstalldevOpkg
  <2>10. CASE InstalldevTouch
    BY <1>1, <2>10 DEF InstalldevTouch
  <2>11. QED  BY <1>9, <2>1, <2>2, <2>3, <2>4, <2>5, <2>6, <2>7, <2>8, <2>9, <2>10 DEF Install
<1>10. CASE Rootfs
  <2>1. CASE RootfsStart
    BY <1>1, <2>1 DEF RootfsStart
  <2>2. CASE RootfsInstall
    BY <1>1, <2>2 DEF RootfsInstall
  <2>3. CASE RootfsEnd
    BY <1>1, <2>3 DEF RootfsEnd
  <2>4. QED  BY <1>10, <2>1, <2>2, <2>3 DEF Rootfs
<1>11. CASE Around
  <2>1. CASE Abort
    BY <1>1, <2>1, AbortEffect
  <2>2. QED  BY <1>1, <1>11, <2>1 DEF Around, Start, Edit, DependencyRemoved, NamesakeCleaned, Elsewhere
<1>12. QED  BY <1>2, <1>3, <1>4, <1>5, <1>6, <1>7, <1>8, <1>9, <1>10, <1>11 DEF Next, Around

\* A run deletes an archive only after uninstalling the package
\* (scripts/package:68-74, packagedev:54-60, unpackage:9-12, unpackagedev:8-11).
THEOREM UninstalledFirst == Spec => UninstallFirst
<1>1. TypeOK /\ InstallInv /\ [Next]_vars
        => [/\ run # "none" /\ "opk" \in exists \ exists' => "control" \notin exists'
            /\ run # "none" /\ "devOpk" \in exists \ exists' => "devControl" \notin exists']_vars
  BY DeletesUninstalled
<1>2. QED  BY <1>1, TypeCorrect, InstallInvAlways, PTL DEF Spec, UninstallFirst

----------------------------------------------------------------------------
\* Fresh archives: the invariant follows a change along the chain of comparisons,
\* patch file, unpack stamp, build stamp, archive.

\* The unpack stamp: no stamp while the tree is being made, and no patch the
\* tree misses that the stamp does not show.
Unpacking ==
    /\ pc["unpack"] \in {"mkdir", "extract", "rmBuild", "unpackagedev", "stamp"}
           => "unpackStamp" \notin exists
    /\ pc["unpack"] \in {"rmBuild", "unpackagedev", "stamp"}
           => "patchFile" \notin old["tree"]
    /\ pc["unpack"] \in {"unpackagedev", "stamp"} => "buildStamp" \notin exists
    /\ pc["unpack"] = "test" => "patchFile" \notin newer["unpackStamp"]
    /\ "patchFile" \in old["tree"]
           => "unpackStamp" \notin exists \/ "patchFile" \in newer["unpackStamp"]

\* The unpack stamp is there and no patch is newer.
UnpackValid ==
    Kind = "none" \/ ("unpackStamp" \in exists /\ "patchFile" \notin newer["unpackStamp"])

\* The build stamp: the same of the build rule and, through the unpack stamp,
\* of the patches.
Building ==
    /\ pc["build"] \in {"check", "unpackagedev", "test"} /\ pc["unpack"] = "idle"
           => UnpackValid
    /\ pc["build"] \in {"rule", "stamp"} => "patchFile" \notin old["tree"]
    /\ pc["build"] = "unpackagedev" => "buildStamp" \notin exists
    /\ pc["build"] = "test" => "buildRule" \notin newer["buildStamp"]
    /\ pc["build"] = "stamp" => old["obj"] \cap {"buildRule", "patchFile"} = {}
    /\ "buildRule" \in old["obj"]
           => "buildStamp" \notin exists \/ "buildRule" \in newer["buildStamp"]
    /\ "patchFile" \in old["obj"] => "buildStamp" \notin exists \/ ~UnpackValid

\* The build stamp is there and nothing build compares with it is newer.
BuildValid ==
    /\ UnpackValid
    /\ "buildStamp" \in exists
    /\ "buildRule" \notin newer["buildStamp"]

\* The archive: what it misses shows in its own time or in one of the stamps.
Packaging ==
    /\ pc["package"] \in {"check", "rm", "test", "rule", "ok"} /\ pc["build"] = "idle"
           => /\ old["obj"] \cap {"buildRule", "patchFile"} = {}
              /\ \/ "buildStamp" \in newer["opk"]
                 \/ old["opk"] \cap {"buildRule", "patchFile"} = {}
    /\ pc["package"] = "test" /\ pc["uninstall"] = "idle"
           => newer["opk"] \cap {"installRule", "buildStamp"} = {}
    /\ pc["package"] = "ok" => old["opk"] \cap Noticed = {}
    /\ old["opk"] \cap {"version", "rev"} = {}
    /\ "installRule" \in old["opk"] => "installRule" \in newer["opk"]
    /\ old["opk"] \cap {"buildRule", "patchFile"} # {}
           => ~BuildValid \/ "buildStamp" \in newer["opk"]

\* The inductive invariant.
FreshInv == NotDone /\ Unpacking /\ Building /\ Packaging /\ PackageFresh

----------------------------------------------------------------------------
\* An edit as the stamps, the tree, the objects and the archive see it.
LEMMA EditStamps ==
    ASSUME FilesOK, NEW i \in EditKinds, Edit(i)
    PROVE  /\ newer'["unpackStamp"] = IF i = "patchFile" /\ "unpackStamp" \in exists
                                      THEN newer["unpackStamp"] \cup {i}
                                      ELSE newer["unpackStamp"]
           /\ newer'["buildStamp"] = IF i \in {"buildRule", "watched"} /\ "buildStamp" \in exists
                                     THEN newer["buildStamp"] \cup {i}
                                     ELSE newer["buildStamp"]
           /\ "unpackStamp" \in exists' <=> "unpackStamp" \in exists
           /\ "buildStamp" \in exists' <=> "buildStamp" \in exists
           /\ \A a \in {"tree", "obj"} : old'[a] \subseteq old[a] \cup ({i} \cap Reads(a))
<1>1. /\ i \in Inputs
      /\ Renamed(i) \cap {"unpackStamp", "buildStamp"} = {}
  BY EditEffect DEF Renamed, BuildDir, Inputs
<1>2. FileOf(i) \in Watches("unpackStamp") <=> i = "patchFile"
  BY <1>1 DEF FileOf, Watches, Inputs
<1>3. FileOf(i) \in Watches("buildStamp") <=> i \in {"buildRule", "watched"}
  BY <1>1 DEF FileOf, Watches, Inputs
<1>4. FileOf(i) = i \/ i \in {"version", "rev"}
  BY DEF FileOf
<1>5. \A a \in {"tree", "obj"} : old'[a] \subseteq old[a] \cup ({i} \cap Reads(a))
  BY EditEffect DEF Artifacts
<1>6. QED  BY <1>1, <1>2, <1>3, <1>4, <1>5, EditEffect DEF Artifacts

LEMMA EditArchive ==
    ASSUME FilesOK, NEW i \in EditKinds, Edit(i)
    PROVE  \/ i \in {"version", "rev"} /\ newer'["opk"] = {} /\ old'["opk"] = {}
           \/ /\ i \notin {"version", "rev"}
              /\ newer["opk"] \subseteq newer'["opk"]
              /\ i = "installRule" /\ "opk" \in exists => i \in newer'["opk"]
              /\ old'["opk"] \subseteq old["opk"] \cup ({i} \cap Reads("opk"))
              /\ "opk" \notin exists => old'["opk"] = old["opk"]
<1>1. i \in Inputs
  BY EditEffect
<1>2. CASE i \in {"version", "rev"}
  <2>1. "opk" \in Renamed(i)
    BY <1>2 DEF Renamed
  <2>2. QED  BY <1>2, <2>1, EditEffect DEF Artifacts
<1>3. CASE i \notin {"version", "rev"}
  <2>1. "opk" \notin Renamed(i) /\ FileOf(i) = i
    BY <1>1, <1>3 DEF Renamed, FileOf, Inputs
  <2>2. "installRule" \in Watches("opk")
    BY DEF Watches
  <2>3. QED  BY <1>3, <2>1, <2>2, EditEffect DEF Artifacts
<1>4. QED  BY <1>2, <1>3

\* Between runs no script is active; an edit of a patch or of the build rule
\* makes it newer than the stamp, one of the install rule than the archive.
LEMMA EditUnpacking ==
    ASSUME FilesOK, Waiting, Unpacking, NEW i \in EditKinds, Edit(i)
    PROVE  Unpacking'
<1>1. \A s \in Scripts : pc'[s] = "idle"
  BY EditEffect DEF Waiting
<1>2. "unpackStamp" \notin exists => newer["unpackStamp"] = {}
  BY DEF FilesOK, Artifacts
<1>3. QED  BY <1>1, <1>2, EditStamps DEF Unpacking, Scripts

LEMMA EditBuilding ==
    ASSUME FilesOK, Waiting, Building, NEW i \in EditKinds, Edit(i)
    PROVE  Building'
<1>1. \A s \in Scripts : pc'[s] = "idle"
  BY EditEffect DEF Waiting
<1>2. Kind = "none" => "patchFile" \notin Reads("obj")
  BY DEF Reads, ObjReads, TreeReads
<1>3. QED  BY <1>1, <1>2, EditStamps DEF Building, UnpackValid, Scripts

LEMMA EditPackaging ==
    ASSUME FilesOK, Waiting, Packaging, NEW i \in EditKinds, Edit(i)
    PROVE  Packaging'
<1>1. \A s \in Scripts : pc'[s] = "idle"
  BY EditEffect DEF Waiting
<1>2. Kind = "none" => "patchFile" \notin Reads("opk")
  BY DEF Reads, ObjReads, TreeReads
<1>3. "opk" \notin exists => old["opk"] = {}
  BY DEF FilesOK, Artifacts
<1>4. ASSUME BuildValid'
      PROVE  BuildValid /\ i # "buildRule" /\ (i = "patchFile" => Kind = "none")
  <2>1. UnpackValid /\ (i = "patchFile" => Kind = "none")
    <3>1. /\ "unpackStamp" \in exists' <=> "unpackStamp" \in exists
          /\ newer'["unpackStamp"] = IF i = "patchFile" /\ "unpackStamp" \in exists
                                     THEN newer["unpackStamp"] \cup {i}
                                     ELSE newer["unpackStamp"]
      BY EditStamps
    <3>2. QED  BY <1>4, <3>1 DEF BuildValid, UnpackValid
  <2>2. /\ "buildStamp" \in exists
        /\ "buildRule" \notin newer["buildStamp"] /\ i # "buildRule"
    BY <1>4, EditStamps DEF BuildValid
  <2>3. QED  BY <2>1, <2>2 DEF BuildValid
<1>5. CASE i \in {"version", "rev"}
  BY <1>5, <1>1, EditArchive DEF Packaging, Scripts
<1>6. CASE i \notin {"version", "rev"}
  <2>1. /\ newer["opk"] \subseteq newer'["opk"]
        /\ i = "installRule" /\ "opk" \in exists => i \in newer'["opk"]
        /\ old'["opk"] \subseteq old["opk"] \cup ({i} \cap Reads("opk"))
        /\ "opk" \notin exists => old'["opk"] = old["opk"]
    BY <1>6, EditArchive
  <2>2. /\ old'["opk"] \cap {"version", "rev"} = {}
        /\ "installRule" \in old'["opk"] => "installRule" \in newer'["opk"]
    BY <2>1, <1>3, <1>6 DEF Packaging
  <2>3. old'["opk"] \cap {"buildRule", "patchFile"} # {}
            => ~BuildValid' \/ "buildStamp" \in newer'["opk"]
    BY <2>1, <1>2, <1>3, <1>4 DEF Packaging
  <2>4. QED  BY <1>1, <2>2, <2>3 DEF Packaging, Scripts
<1>7. QED  BY <1>5, <1>6

----------------------------------------------------------------------------
\* Every step of scripts/get keeps FreshInv.
LEMMA GetFreshInv ==
    ASSUME ControlOK, FilesOK, Waiting, FreshInv,
           Get
    PROVE  FreshInv'
<1> USE DEF FreshInv, NotDone, Unpacking, Building, Packaging, UnpackValid,
           BuildValid, Noticed, PackageFresh, ControlOK, FilesOK, Waiting,
           Scripts, At, Calls, Go, Call, Return, Remove, fs, Artifacts,
           Watches, Reads, ObjReads, TreeReads
<1>1. CASE GetStart
  BY <1>1 DEF GetStart
<1>2. CASE GetDownload
  BY <1>2 DEF GetDownload
<1>3. CASE GetStamp
  <2>1. Write("getStamp", {})
    BY <1>3 DEF GetStamp
  <2>2. QED  BY <1>3, <2>1, QuietWrite DEF GetStamp
<1>4. CASE GetRmUnpack
  BY <1>4 DEF GetRmUnpack
<1>5. CASE GetRmBuild
  BY <1>5 DEF GetRmBuild
<1>6. QED
  BY <1>1, <1>2, <1>3, <1>4, <1>5 DEF Get

\* Every step of scripts/unpack keeps FreshInv.
LEMMA UnpackFreshInv ==
    ASSUME ControlOK, FilesOK, Waiting, FreshInv,
           Unpack
    PROVE  FreshInv'
<1> USE DEF FreshInv, NotDone, Unpacking, Building, Packaging, UnpackValid,
           BuildValid, Noticed, PackageFresh, ControlOK, FilesOK, Waiting,
           Scripts, At, Calls, Go, Call, Return, Remove, fs, Artifacts,
           Watches, Reads, ObjReads, TreeReads
<1>1. CASE UnpackStart
  BY <1>1 DEF UnpackStart
<1>2. CASE UnpackCheck
  BY <1>2 DEF UnpackCheck
<1>3. CASE UnpackTest
  BY <1>3 DEF UnpackTest
<1>4. CASE UnpackMkdir
  BY <1>4 DEF UnpackMkdir, BuildDir
<1>5. CASE UnpackExtract
  <2>1. Write("tree", {})
    BY <1>5 DEF UnpackExtract
  <2>2. QED  BY <1>5, <2>1, QuietWrite DEF UnpackExtract
<1>6. CASE UnpackRmBuild
  BY <1>6 DEF UnpackRmBuild
<1>7. CASE UnpackUnpackagedev
  BY <1>7 DEF UnpackUnpackagedev
<1>8. CASE UnpackStamp
  <2>1. Write("unpackStamp", {})
    BY <1>8 DEF UnpackStamp
  <2>2. QED  BY <1>8, <2>1, QuietWrite DEF UnpackStamp
<1>9. QED
  BY <1>1, <1>2, <1>3, <1>4, <1>5, <1>6, <1>7, <1>8 DEF Unpack

\* Every step of scripts/clean keeps FreshInv.
LEMMA CleanFreshInv ==
    ASSUME ControlOK, FilesOK, Waiting, FreshInv,
           Clean
    PROVE  FreshInv'
<1> USE DEF FreshInv, NotDone, Unpacking, Building, Packaging, UnpackValid,
           BuildValid, Noticed, PackageFresh, ControlOK, FilesOK, Waiting,
           Scripts, At, Calls, Go, Call, Return, Remove, fs, Artifacts,
           Watches, Reads, ObjReads, TreeReads
<1>1. CASE CleanStart
  BY <1>1 DEF CleanStart, BuildDir
<1>2. CASE CleanStamps
  BY <1>2 DEF CleanStamps
<1>3. CASE CleanRmBuild
  BY <1>3 DEF CleanRmBuild
<1>4. CASE CleanUnpackage
  BY <1>4 DEF CleanUnpackage
<1>5. CASE CleanUninstalldev
  BY <1>5 DEF CleanUninstalldev
<1>6. CASE CleanUnpackagedev
  BY <1>6 DEF CleanUnpackagedev
<1>7. CASE CleanEnd
  BY <1>7 DEF CleanEnd
<1>8. QED
  BY <1>1, <1>2, <1>3, <1>4, <1>5, <1>6, <1>7 DEF Clean

\* Every step of each removing script keeps FreshInv.
LEMMA RemoverFreshInv ==
    ASSUME ControlOK, FilesOK, Waiting, FreshInv,
           Remover
    PROVE  FreshInv'
<1> USE DEF FreshInv, NotDone, Unpacking, Building, Packaging, UnpackValid,
           BuildValid, Noticed, PackageFresh, ControlOK, FilesOK, Waiting,
           Scripts, At, Calls, Go, Call, Return, Remove, fs, Artifacts,
           Watches, Reads, ObjReads, TreeReads
<1>1. CASE Uninstall
  BY <1>1 DEF Uninstall
<1>2. CASE Uninstalldev
  BY <1>2 DEF Uninstalldev
<1>3. CASE UnpackageStart
  BY <1>3 DEF UnpackageStart
<1>4. CASE UnpackageRm
  BY <1>4 DEF UnpackageRm
<1>5. CASE UnpackagedevStart
  BY <1>5 DEF UnpackagedevStart
<1>6. CASE UnpackagedevRm
  BY <1>6 DEF UnpackagedevRm
<1>7. QED
  BY <1>1, <1>2, <1>3, <1>4, <1>5, <1>6 DEF Remover

\* Every step of scripts/build keeps FreshInv.
LEMMA BuildFreshInv ==
    ASSUME ControlOK, FilesOK, Waiting, FreshInv,
           Build
    PROVE  FreshInv'
<1> USE DEF FreshInv, NotDone, Unpacking, Building, Packaging, UnpackValid,
           BuildValid, Noticed, PackageFresh, ControlOK, FilesOK, Waiting,
           Scripts, At, Calls, Go, Call, Return, Remove, fs, Artifacts,
           Watches, Reads, ObjReads, TreeReads
<1>1. CASE BuildStart
  BY <1>1 DEF BuildStart
<1>2. CASE BuildCheck
  BY <1>2 DEF BuildCheck
<1>3. CASE BuildUnpackagedev
  BY <1>3 DEF BuildUnpackagedev
<1>4. CASE BuildTest
  BY <1>4 DEF BuildTest
<1>5. CASE BuildRule
  <2>1. Write("obj", old["tree"])
    BY <1>5 DEF BuildRule
  <2>2. QED  BY <1>5, <2>1, QuietWrite DEF BuildRule
<1>6. CASE BuildStamp
  <2>1. Write("buildStamp", {})
    BY <1>6 DEF BuildStamp
  <2>2. QED  BY <1>6, <2>1, BuildStampWrite DEF BuildStamp
<1>7. QED
  BY <1>1, <1>2, <1>3, <1>4, <1>5, <1>6 DEF Build

\* Every step of each packaging script keeps FreshInv.
LEMMA PackagerFreshInv ==
    ASSUME ControlOK, FilesOK, Waiting, FreshInv,
           Packager
    PROVE  FreshInv'
<1> USE DEF FreshInv, NotDone, Unpacking, Building, Packaging, UnpackValid,
           BuildValid, Noticed, PackageFresh, ControlOK, FilesOK, Waiting,
           Scripts, At, Calls, Go, Call, Return, Remove, fs, Artifacts,
           Watches, Reads, ObjReads, TreeReads
<1>1. CASE PackageStart
  BY <1>1 DEF PackageStart
<1>2. CASE PackageCheck
  BY <1>2 DEF PackageCheck
<1>3. CASE PackageRm
  BY <1>3 DEF PackageRm
<1>4. CASE PackageTest
  BY <1>4 DEF PackageTest
<1>5. CASE PackageRule
  <2>1. Write("opk", old["obj"])
    BY <1>5 DEF PackageRule
  <2>2. QED  BY <1>5, <2>1, OpkWrite DEF PackageRule
<1>6. CASE PackageOk
  BY <1>6 DEF PackageOk, FlagAndSaveSpace, BuildDir
<1>7. CASE PackagedevStart
  BY <1>7 DEF PackagedevStart
<1>8. CASE PackagedevRm
  BY <1>8 DEF PackagedevRm
<1>9. CASE PackagedevTest
  BY <1>9 DEF PackagedevTest
<1>10. CASE PackagedevRule
  <2>1. Write("devOpk", old["obj"])
    BY <1>10 DEF PackagedevRule
  <2>2. QED  BY <1>10, <2>1, DevOpkWrite DEF PackagedevRule
<1>11. CASE PackagedevOk
  BY <1>11 DEF PackagedevOk, FlagAndSaveSpace, BuildDir
<1>12. QED
  BY <1>1, <1>2, <1>3, <1>4, <1>5, <1>6, <1>7, <1>8, <1>9, <1>10, <1>11 DEF Packager

\* Every step of each installing script keeps FreshInv.
LEMMA InstallFreshInv ==
    ASSUME ControlOK, FilesOK, Waiting, FreshInv,
           Install
    PROVE  FreshInv'
<1> USE DEF FreshInv, NotDone, Unpacking, Building, Packaging, UnpackValid,
           BuildValid, Noticed, PackageFresh, ControlOK, FilesOK, Waiting,
           Scripts, At, Calls, Go, Call, Return, Remove, fs, Artifacts,
           Watches, Reads, ObjReads, TreeReads
<1>1. CASE InstallStart
  BY <1>1 DEF InstallStart, RebuiltInputs
<1>2. CASE InstallOpk
  BY <1>2 DEF InstallOpk
<1>3. CASE InstallTest
  BY <1>3 DEF InstallTest
<1>4. CASE InstallOpkg
  BY <1>4 DEF InstallOpkg
<1>5. CASE InstallTouch
  BY <1>5 DEF InstallTouch
<1>6. CASE InstalldevStart
  BY <1>6 DEF InstalldevStart, RebuiltInputs
<1>7. CASE InstalldevOpk
  BY <1>7 DEF InstalldevOpk
<1>8. CASE InstalldevTest
  BY <1>8 DEF InstalldevTest
<1>9. CASE InstalldevOpkg
  BY <1>9 DEF InstalldevOpkg
<1>10. CASE InstalldevTouch
  BY <1>10 DEF InstalldevTouch
<1>11. QED
  BY <1>1, <1>2, <1>3, <1>4, <1>5, <1>6, <1>7, <1>8, <1>9, <1>10 DEF Install

\* Every step of scripts/rootfs keeps FreshInv.
LEMMA RootfsFreshInv ==
    ASSUME ControlOK, FilesOK, Waiting, FreshInv,
           Rootfs
    PROVE  FreshInv'
<1> USE DEF FreshInv, NotDone, Unpacking, Building, Packaging, UnpackValid,
           BuildValid, Noticed, PackageFresh, ControlOK, FilesOK, Waiting,
           Scripts, At, Calls, Go, Call, Return, Remove, fs, Artifacts,
           Watches, Reads, ObjReads, TreeReads
<1>1. CASE RootfsStart
  BY <1>1 DEF RootfsStart
<1>2. CASE RootfsInstall
  BY <1>2 DEF RootfsInstall
<1>3. CASE RootfsEnd
  BY <1>3 DEF RootfsEnd
<1>4. QED
  BY <1>1, <1>2, <1>3 DEF Rootfs

\* So do a start, an edit, the removal of a dependency and an abort.
LEMMA AroundFreshInv ==
    ASSUME ControlOK, FilesOK, Waiting, FreshInv,
           Around
    PROVE  FreshInv'
<1> USE DEF FreshInv, NotDone, Unpacking, Building, Packaging, UnpackValid,
           BuildValid, Noticed, PackageFresh, ControlOK, FilesOK, Waiting,
           Scripts, At, Calls, Go, Call, Return, Remove, fs, Artifacts,
           Watches, Reads, ObjReads, TreeReads
<1>1. ASSUME NEW s \in Commands, Start(s) PROVE FreshInv'
  BY <1>1 DEF Start, Commands
<1>2. ASSUME NEW i \in EditKinds, Edit(i) PROVE FreshInv'
  <2>1. (\A s \in Scripts : pc'[s] = "idle") /\ done' = "none"
    BY <1>2, EditEffect DEF Waiting
  <2>2. NotDone' /\ PackageFresh'
    BY <2>1 DEF NotDone, PackageFresh
  <2>3. Unpacking'
    BY <1>2, EditUnpacking DEF FreshInv
  <2>4. Building'
    BY <1>2, EditBuilding DEF FreshInv
  <2>5. Packaging'
    BY <1>2, EditPackaging DEF FreshInv
  <2>6. QED  BY <2>2, <2>3, <2>4, <2>5 DEF FreshInv
<1>3. ASSUME NEW a \in Artifacts, DependencyRemoved(a) PROVE FreshInv'
  BY <1>3 DEF DependencyRemoved, Elsewhere
<1>4. CASE Abort
  BY <1>4, AbortEffect DEF Abort
<1>5. CASE NamesakeCleaned
  BY <1>5 DEF NamesakeCleaned, Elsewhere
<1>6. QED  BY <1>1, <1>2, <1>3, <1>4, <1>5 DEF Around

----------------------------------------------------------------------------
\* Every step keeps FreshInv.
LEMMA FreshInvStep ==
    ASSUME TypeOK, Waiting, FreshInv, [Next]_vars
    PROVE  FreshInv'
<1>1. ControlOK /\ FilesOK
  BY TypeHalves
<1>2. CASE UNCHANGED vars
  BY <1>2 DEF vars, FreshInv, NotDone, Unpacking, Building, UnpackValid, Packaging, BuildValid, PackageFresh
<1>3. CASE Next
  BY <1>1, <1>3, GetFreshInv, UnpackFreshInv, CleanFreshInv, RemoverFreshInv,
     BuildFreshInv, PackagerFreshInv, InstallFreshInv, RootfsFreshInv,
     AroundFreshInv DEF Next, Around
<1>4. QED  BY <1>2, <1>3

\* In every reachable state.
LEMMA FreshInvAlways == Spec => []FreshInv
<1>1. Init => FreshInv
  BY DEF Init, FreshInv, NotDone, Unpacking, Building, UnpackValid, Packaging, BuildValid, PackageFresh, Scripts, Artifacts
<1>2. TypeOK /\ Waiting /\ FreshInv /\ [Next]_vars => FreshInv'
  BY FreshInvStep
<1>3. QED  BY <1>1, <1>2, TypeCorrect, OneChain, PTL DEF Spec

\* When `package' ends well the archive contains every change of a noticed
\* kind (scripts/package:65-77, build:24-47, unpack:45-58 and get:44-56).
THEOREM FreshPackage == Spec => []PackageFresh
<1>1. FreshInv => PackageFresh
  BY DEF FreshInv
<1>2. QED  BY <1>1, FreshInvAlways, PTL

----------------------------------------------------------------------------
\* What is installed: a change that its control file does not show has not been
\* missed, and what the scripts compare with it they install again.

\* A change of what is installed that scripts/rootfs or scripts/install should
\* see is newer than the control file.
Shown ==
    /\ old["control"] \cap {"version", "rev"} # {} => "meta" \in newer["control"]
    /\ "buildRule" \in old["control"] => "buildRule" \in newer["control"]
    /\ "installRule" \in old["control"] => "installRule" \in newer["control"]

\* What opkg is about to install is what `package' has just made or found good.
Repacked ==
    /\ pc["package"] = "ok" => "installRule" \notin newer["opk"]
    /\ pc["install"] = "opkg" /\ pc["package"] = "idle" /\ "opk" \in exists
           => old["opk"] \cap Noticed = {} /\ "installRule" \notin newer["opk"]
    /\ pc["install"] = "touch"
           => old["control"] \cap Noticed = {} /\ "installRule" \notin newer["control"]

\* Once rootfs has uninstalled what is stale, nothing that is installed is.
Walked ==
    /\ pc["rootfs"] = "install" /\ pc["uninstall"] = "idle"
           => newer["control"] \cap StaleInputs = {}
    /\ pc["rootfs"] = "end" => newer["control"] \cap StaleInputs = {}
    /\ done = "rootfs" => newer["control"] \cap StaleInputs = {}

\* Once clean has called uninstall the package is not installed.
Cleaned ==
    /\ pc["clean"] = "unpackage" /\ pc["uninstall"] = "idle" => "control" \notin exists
    /\ pc["clean"] \in {"uninstalldev", "unpackagedev", "end"} => "control" \notin exists

\* What is installed is of another version or revision than the current one.
Renumbered == old["control"] \cap {"version", "rev"} # {}

\* What is installed has its archive, unless that has another name.
HasArchive == {"opk", "control"} \cap exists = {"control"} => Renumbered

\* Once install has dealt with the rules that are newer than the control file,
\* what is still installed has been made with them.
RulesSeen == Renumbered \/ old["control"] \cap {"buildRule", "installRule"} = {}

Reinstalled == Layout = "flat" =>
    /\ pc["install"] = "opk" /\ pc["clean"] = "idle" /\ pc["unpackage"] = "idle" => RulesSeen
    /\ pc["install"] \in {"test", "opkg"} => RulesSeen
    /\ done = "install" => RulesSeen

\* The inductive invariant.
StaleInv ==
    /\ Cleaned /\ HasArchive
    /\ ~SaveSpace => Shown /\ Repacked /\ Walked /\ Reinstalled

\* Every step of scripts/get keeps StaleInv.
LEMMA GetStaleInv ==
    ASSUME ControlOK, FilesOK, Waiting, InstallInv, FreshInv, StaleInv,
           Get
    PROVE  StaleInv'
<1> USE DEF StaleInv, Shown, Repacked, Walked, Cleaned, Renumbered, HasArchive,
           Reinstalled, RulesSeen, ControlOK, FilesOK, Waiting, Scripts, At, Calls,
           Go, Call, Return, Remove, fs, Artifacts, Watches, Reads, ObjReads,
           TreeReads
<1>1. CASE GetStart
  BY <1>1 DEF GetStart
<1>2. CASE GetDownload
  BY <1>2 DEF GetDownload
<1>3. CASE GetStamp
  <2>1. Write("getStamp", {})
    BY <1>3 DEF GetStamp
  <2>2. QED  BY <1>3, <2>1, QuietWrite DEF GetStamp
<1>4. CASE GetRmUnpack
  BY <1>4 DEF GetRmUnpack
<1>5. CASE GetRmBuild
  BY <1>5 DEF GetRmBuild
<1>6. QED
  BY <1>1, <1>2, <1>3, <1>4, <1>5 DEF Get

\* Every step of scripts/unpack keeps StaleInv.
LEMMA UnpackStaleInv ==
    ASSUME ControlOK, FilesOK, Waiting, InstallInv, FreshInv, StaleInv,
           Unpack
    PROVE  StaleInv'
<1> USE DEF StaleInv, Shown, Repacked, Walked, Cleaned, Renumbered, HasArchive,
           Reinstalled, RulesSeen, ControlOK, FilesOK, Waiting, Scripts, At, Calls,
           Go, Call, Return, Remove, fs, Artifacts, Watches, Reads, ObjReads,
           TreeReads
<1>1. CASE UnpackStart
  BY <1>1 DEF UnpackStart
<1>2. CASE UnpackCheck
  BY <1>2 DEF UnpackCheck
<1>3. CASE UnpackTest
  BY <1>3 DEF UnpackTest
<1>4. CASE UnpackMkdir
  BY <1>4 DEF UnpackMkdir, BuildDir
<1>5. CASE UnpackExtract
  <2>1. Write("tree", {})
    BY <1>5 DEF UnpackExtract
  <2>2. QED  BY <1>5, <2>1, QuietWrite DEF UnpackExtract
<1>6. CASE UnpackRmBuild
  BY <1>6 DEF UnpackRmBuild
<1>7. CASE UnpackUnpackagedev
  BY <1>7 DEF UnpackUnpackagedev
<1>8. CASE UnpackStamp
  <2>1. Write("unpackStamp", {})
    BY <1>8 DEF UnpackStamp
  <2>2. QED  BY <1>8, <2>1, QuietWrite DEF UnpackStamp
<1>9. QED
  BY <1>1, <1>2, <1>3, <1>4, <1>5, <1>6, <1>7, <1>8 DEF Unpack

\* Every step of scripts/clean keeps StaleInv.
LEMMA CleanStaleInv ==
    ASSUME ControlOK, FilesOK, Waiting, InstallInv, FreshInv, StaleInv,
           Clean
    PROVE  StaleInv'
<1> USE DEF StaleInv, Shown, Repacked, Walked, Cleaned, Renumbered, HasArchive,
           Reinstalled, RulesSeen, ControlOK, FilesOK, Waiting, Scripts, At, Calls,
           Go, Call, Return, Remove, fs, Artifacts, Watches, Reads, ObjReads,
           TreeReads
<1>1. CASE CleanStart
  BY <1>1 DEF CleanStart, BuildDir
<1>2. CASE CleanStamps
  BY <1>2 DEF CleanStamps
<1>3. CASE CleanRmBuild
  BY <1>3 DEF CleanRmBuild
<1>4. CASE CleanUnpackage
  BY <1>4 DEF CleanUnpackage
<1>5. CASE CleanUninstalldev
  BY <1>5 DEF CleanUninstalldev
<1>6. CASE CleanUnpackagedev
  BY <1>6 DEF CleanUnpackagedev
<1>7. CASE CleanEnd
  BY <1>7 DEF CleanEnd
<1>8. QED
  BY <1>1, <1>2, <1>3, <1>4, <1>5, <1>6, <1>7 DEF Clean

\* Every step of each removing script keeps StaleInv.
LEMMA RemoverStaleInv ==
    ASSUME ControlOK, FilesOK, Waiting, InstallInv, FreshInv, StaleInv,
           Remover
    PROVE  StaleInv'
<1> USE DEF StaleInv, Shown, Repacked, Walked, Cleaned, Renumbered, HasArchive,
           Reinstalled, RulesSeen, ControlOK, FilesOK, Waiting, Scripts, At, Calls,
           Go, Call, Return, Remove, fs, Artifacts, Watches, Reads, ObjReads,
           TreeReads
<1>1. CASE Uninstall
  BY <1>1 DEF Uninstall
<1>2. CASE Uninstalldev
  BY <1>2 DEF Uninstalldev
<1>3. CASE UnpackageStart
  BY <1>3 DEF UnpackageStart
<1>4. CASE UnpackageRm
  BY <1>4 DEF UnpackageRm, InstallInv, Removing
<1>5. CASE UnpackagedevStart
  BY <1>5 DEF UnpackagedevStart
<1>6. CASE UnpackagedevRm
  BY <1>6 DEF UnpackagedevRm
<1>7. QED
  BY <1>1, <1>2, <1>3, <1>4, <1>5, <1>6 DEF Remover

\* Every step of scripts/build keeps StaleInv.
LEMMA BuildStaleInv ==
    ASSUME ControlOK, FilesOK, Waiting, InstallInv, FreshInv, StaleInv,
           Build
    PROVE  StaleInv'
<1> USE DEF StaleInv, Shown, Repacked, Walked, Cleaned, Renumbered, HasArchive,
           Reinstalled, RulesSeen, ControlOK, FilesOK, Waiting, Scripts, At, Calls,
           Go, Call, Return, Remove, fs, Artifacts, Watches, Reads, ObjReads,
           TreeReads
<1>1. CASE BuildStart
  BY <1>1 DEF BuildStart
<1>2. CASE BuildCheck
  BY <1>2 DEF BuildCheck, HookRebuilds
<1>3. CASE BuildUnpackagedev
  BY <1>3 DEF BuildUnpackagedev
<1>4. CASE BuildTest
  BY <1>4 DEF BuildTest
<1>5. CASE BuildRule
  <2>1. Write("obj", old["tree"])
    BY <1>5 DEF BuildRule
  <2>2. QED  BY <1>5, <2>1, QuietWrite DEF BuildRule
<1>6. CASE BuildStamp
  <2>1. Write("buildStamp", {})
    BY <1>6 DEF BuildStamp
  <2>2. QED  BY <1>6, <2>1, BuildStampWrite DEF BuildStamp
<1>7. QED
  BY <1>1, <1>2, <1>3, <1>4, <1>5, <1>6 DEF Build

\* Every step of each packaging script keeps StaleInv.
LEMMA PackagerStaleInv ==
    ASSUME ControlOK, FilesOK, Waiting, InstallInv, FreshInv, StaleInv,
           Packager
    PROVE  StaleInv'
<1> USE DEF StaleInv, Shown, Repacked, Walked, Cleaned, Renumbered, HasArchive,
           Reinstalled, RulesSeen, ControlOK, FilesOK, Waiting, Scripts, At, Calls,
           Go, Call, Return, Remove, fs, Artifacts, Watches, Reads, ObjReads,
           TreeReads
<1>1. CASE PackageStart
  BY <1>1 DEF PackageStart
<1>2. CASE PackageCheck
  BY <1>2 DEF PackageCheck
<1>3. CASE PackageRm
  BY <1>3 DEF PackageRm, InstallInv, Removing
<1>4. CASE PackageTest
  BY <1>4 DEF PackageTest, FreshInv, Packaging, Noticed
<1>5. CASE PackageRule
  <2>1. Write("opk", old["obj"])
    BY <1>5 DEF PackageRule
  <2>2. QED  BY <1>5, <2>1, OpkWrite DEF PackageRule, StaleInputs
<1>6. CASE PackageOk
  BY <1>6 DEF PackageOk, FlagAndSaveSpace, BuildDir, FreshInv, Packaging, Noticed
<1>7. CASE PackagedevStart
  BY <1>7 DEF PackagedevStart
<1>8. CASE PackagedevRm
  BY <1>8 DEF PackagedevRm
<1>9. CASE PackagedevTest
  BY <1>9 DEF PackagedevTest
<1>10. CASE PackagedevRule
  <2>1. Write("devOpk", old["obj"])
    BY <1>10 DEF PackagedevRule
  <2>2. QED  BY <1>10, <2>1, DevOpkWrite DEF PackagedevRule
<1>11. CASE PackagedevOk
  BY <1>11 DEF PackagedevOk, FlagAndSaveSpace, BuildDir
<1>12. QED
  BY <1>1, <1>2, <1>3, <1>4, <1>5, <1>6, <1>7, <1>8, <1>9, <1>10, <1>11 DEF Packager

\* Every step of each installing script keeps StaleInv.
LEMMA InstallStaleInv ==
    ASSUME ControlOK, FilesOK, Waiting, InstallInv, FreshInv, StaleInv,
           Install
    PROVE  StaleInv'
<1> USE DEF StaleInv, Shown, Repacked, Walked, Cleaned, Renumbered, HasArchive,
           Reinstalled, RulesSeen, ControlOK, FilesOK, Waiting, Scripts, At, Calls,
           Go, Call, Return, Remove, fs, Artifacts, Watches, Reads, ObjReads,
           TreeReads
<1>1. CASE InstallStart
  BY <1>1 DEF InstallStart, RebuiltInputs, InstallInv, Installing
<1>2. CASE InstallOpk
  BY <1>2 DEF InstallOpk
<1>3. CASE InstallTest
  BY <1>3 DEF InstallTest
<1>4. CASE InstallOpkg
  BY <1>4 DEF InstallOpkg, Noticed, StaleInputs
<1>5. CASE InstallTouch
  BY <1>5 DEF InstallTouch, Noticed
<1>6. CASE InstalldevStart
  BY <1>6 DEF InstalldevStart, RebuiltInputs
<1>7. CASE InstalldevOpk
  BY <1>7 DEF InstalldevOpk
<1>8. CASE InstalldevTest
  BY <1>8 DEF InstalldevTest
<1>9. CASE InstalldevOpkg
  BY <1>9 DEF InstalldevOpkg
<1>10. CASE InstalldevTouch
  BY <1>10 DEF InstalldevTouch
<1>11. QED
  BY <1>1, <1>2, <1>3, <1>4, <1>5, <1>6, <1>7, <1>8, <1>9, <1>10 DEF Install

\* Every step of scripts/rootfs keeps StaleInv.
LEMMA RootfsStaleInv ==
    ASSUME ControlOK, FilesOK, Waiting, InstallInv, FreshInv, StaleInv,
           Rootfs
    PROVE  StaleInv'
<1> USE DEF StaleInv, Shown, Repacked, Walked, Cleaned, Renumbered, HasArchive,
           Reinstalled, RulesSeen, ControlOK, FilesOK, Waiting, Scripts, At, Calls,
           Go, Call, Return, Remove, fs, Artifacts, Watches, Reads, ObjReads,
           TreeReads
<1>1. CASE RootfsStart
  BY <1>1 DEF RootfsStart, StaleInputs
<1>2. CASE RootfsInstall
  BY <1>2 DEF RootfsInstall, StaleInputs
<1>3. CASE RootfsEnd
  BY <1>3 DEF RootfsEnd
<1>4. QED
  BY <1>1, <1>2, <1>3 DEF Rootfs
\* An edit as the control file sees it.
LEMMA EditControl ==
    ASSUME FilesOK, NEW i \in EditKinds, Edit(i)
    PROVE  /\ "control" \in exists' <=> "control" \in exists
           /\ newer["control"] \subseteq newer'["control"]
           /\ old'["control"] \subseteq old["control"] \cup {i}
           /\ i \in {"version", "rev", "buildRule", "installRule"} /\ "control" \in exists
                  => FileOf(i) \in newer'["control"]
           /\ i \in {"version", "rev"} /\ "control" \in exists => i \in old'["control"]
           /\ old["control"] \subseteq old'["control"]
           /\ "control" \notin exists => old["control"] = {} /\ old'["control"] = {}
<1>1. /\ i \in Inputs
      /\ "control" \notin Renamed(i)
  BY EditEffect DEF Renamed, BuildDir, Inputs
<1>2. i \in {"version", "rev", "buildRule", "installRule"} => FileOf(i) \in Watches("control")
  BY DEF FileOf, Watches
<1>3. i \in {"version", "rev"} => i \in Reads("control")
  BY DEF Reads
<1>4. "control" \notin exists => old["control"] = {}
  BY DEF FilesOK, Artifacts
<1>5. QED  BY <1>1, <1>2, <1>3, <1>4, EditEffect DEF Artifacts

\* When a run stops what is installed stays as it is, or goes.
LEMMA AbortStaleInv ==
    ASSUME FilesOK, StaleInv, Abort
    PROVE  StaleInv'
<1>1. /\ \A s \in Scripts : pc'[s] = "idle"
      /\ done' = done
  BY AbortEffect
<1>2. /\ newer'["control"] \in {newer["control"], {}}
      /\ old'["control"] = old["control"] \/ (old'["control"] = {} /\ "control" \notin exists')
      /\ newer'["control"] = {} \/ old'["control"] = old["control"] 
      /\ "control" \in exists' => old'["control"] = old["control"] /\ newer'["control"] = newer["control"]
  BY AbortEffect
<1>3. {"opk", "control"} \cap exists' = {"control"} => {"opk", "control"} \cap exists = {"control"}
  BY AbortEffect
<1>4. HasArchive'
  BY <1>2, <1>3 DEF StaleInv, HasArchive, Renumbered
<1>5. Cleaned'
  BY <1>1 DEF Cleaned, Scripts
<1>6. Shown /\ ~SaveSpace => Shown'
  BY AbortEffect DEF Shown
<1>7. Repacked'
  BY <1>1 DEF Repacked, Scripts
<1>8. Walked => Walked'
  BY <1>1, <1>2 DEF Walked, Scripts
<1>9. Reinstalled => Reinstalled'
  BY <1>1, <1>2 DEF Reinstalled, RulesSeen, Renumbered, Scripts
<1>10. QED  BY <1>4, <1>5, <1>6, <1>7, <1>8, <1>9 DEF StaleInv

\* So do a start, an edit, the removal of a dependency and an abort.
LEMMA AroundStaleInv ==
    ASSUME ControlOK, FilesOK, Waiting, InstallInv, FreshInv, StaleInv,
           Around
    PROVE  StaleInv'
<1> USE DEF StaleInv, Shown, Repacked, Walked, Cleaned, Renumbered, HasArchive,
           Reinstalled, RulesSeen, ControlOK, FilesOK, Waiting, Scripts, At, Calls,
           Go, Call, Return, Remove, fs, Artifacts, Watches, Reads, ObjReads,
           TreeReads
<1>1. ASSUME NEW s \in Commands, Start(s) PROVE StaleInv'
  BY <1>1 DEF Start, Commands
<1>2. ASSUME NEW i \in EditKinds, Edit(i) PROVE StaleInv'
  <2>1. (\A s \in Scripts : pc'[s] = "idle") /\ run' = "none" /\ done' = "none"
    BY <1>2, EditEffect
  <2>2. "control" \notin exists => old["control"] = {} /\ old'["control"] = {}
    BY <1>2, EditControl
  <2>3. ~SaveSpace => Shown'
    BY <1>2, <2>2, EditControl DEF FileOf
  <2>4. "opk" \in exists /\ "opk" \notin exists' => i \in {"version", "rev"}
    BY <1>2, EditEffect DEF Renamed
  <2>5. HasArchive'
    BY <1>2, <2>2, <2>4, EditControl
  <2>6. QED  BY <2>1, <2>3, <2>5
<1>3. ASSUME NEW a \in Artifacts, DependencyRemoved(a) PROVE StaleInv'
  BY <1>3 DEF DependencyRemoved, Elsewhere
<1>4. CASE Abort
  BY <1>4, AbortStaleInv
<1>5. CASE NamesakeCleaned
  BY <1>5 DEF NamesakeCleaned, Elsewhere
<1>6. QED  BY <1>1, <1>2, <1>3, <1>4, <1>5 DEF Around

----------------------------------------------------------------------------
\* Every step keeps StaleInv.
LEMMA StaleInvStep ==
    ASSUME TypeOK, Waiting, InstallInv, FreshInv, StaleInv, [Next]_vars
    PROVE  StaleInv'
<1>1. ControlOK /\ FilesOK
  BY TypeHalves
<1>2. CASE UNCHANGED vars
  BY <1>2 DEF vars, StaleInv, Shown, Repacked, Walked, Cleaned, Renumbered,
              HasArchive, Reinstalled, RulesSeen
<1>3. CASE Next
  BY <1>1, <1>3, GetStaleInv, UnpackStaleInv, CleanStaleInv, RemoverStaleInv,
     BuildStaleInv, PackagerStaleInv, InstallStaleInv, RootfsStaleInv,
     AroundStaleInv DEF Next, Around
<1>4. QED  BY <1>2, <1>3

\* In every reachable state.
LEMMA StaleInvAlways == Spec => []StaleInv
<1>1. Init => StaleInv
  BY DEF Init, StaleInv, Shown, Repacked, Walked, Cleaned, Renumbered, HasArchive,
         Reinstalled, RulesSeen, Scripts, Artifacts
<1>2. TypeOK /\ Waiting /\ InstallInv /\ FreshInv /\ StaleInv /\ [Next]_vars => StaleInv'
  BY StaleInvStep
<1>3. QED
  BY <1>1, <1>2, TypeCorrect, OneChain, InstallInvAlways, FreshInvAlways, PTL DEF Spec

\* When `rootfs' ends well what is installed contains every change of version,
\* revision, build rule and install rule (scripts/rootfs:24-53): for a package
\* in a section, the only ones whose files the pass finds, that keeps its build
\* directory.
THEOREM FreshRootfs ==
    ASSUME Layout = "section", ~SaveSpace
    PROVE  Spec => []RootfsFresh
<1>1. StaleInv => RootfsFresh
  BY DEF StaleInv, Shown, Walked, RootfsFresh, StaleInputs
<1>2. QED  BY <1>1, StaleInvAlways, PTL

\* When `install' ends well what is installed contains every change of the build
\* and the install rule, unless it is of another version or revision
\* (scripts/install:31-36): for a package of the flat layout, the only one whose
\* rules the script finds, that keeps its build directory.
THEOREM FreshInstall ==
    ASSUME Layout = "flat", ~SaveSpace
    PROVE  Spec => []InstallFresh
<1>1. StaleInv => InstallFresh
  BY DEF StaleInv, Reinstalled, RulesSeen, Renumbered, InstallFresh
<1>2. QED  BY <1>1, StaleInvAlways, PTL

----------------------------------------------------------------------------
\* The stamps, the build directory and the archives of runs that stop only where
\* a command fails: what get, unpack, clean and build leave half done when they
\* are interrupted elsewhere is not repaired by anybody.

\* get holds the sources for those of the current version.
Gotten == "getStamp" \in exists /\ old["getStamp"] = {}

\* What get leaves behind while it fetches new sources, and what unpack knows
\* when it calls clean.
Refetched ==
    /\ pc["get"] = "rmBuild" => "unpackStamp" \notin exists
    /\ pc["get"] \in {"rmUnpack", "rmBuild"} => Gotten
    /\ Kind = "url" /\ pc["unpack"] \in {"check", "test"} /\ pc["get"] = "idle" => Gotten
    /\ pc["clean"] = "rmBuild" => "unpackStamp" \notin exists

\* A package of another version or revision is installed only as long as unpack
\* has not begun: get notices the version, and the clean of unpack uninstalls.
Replaced == Kind = "url" =>
    /\ "opk" \notin old["control"]
    /\ Renumbered /\ Gotten /\ "unpackStamp" \in exists => pc["get"] = "rmUnpack"
    /\ pc["unpack"] = "mkdir" /\ pc["clean"] = "idle" => "control" \notin exists
    /\ pc["unpack"] \in {"extract", "rmBuild", "unpackagedev", "stamp"} => "control" \notin exists
    /\ pc["build"] = "check" /\ pc["unpack"] = "idle" => ~Renumbered
    /\ pc["build"] \in {"unpackagedev", "test", "rule", "stamp"} => ~Renumbered
    /\ pc["package"] = "check" /\ pc["build"] = "idle" => ~Renumbered
    /\ pc["package"] \in {"rm", "test"} => ~Renumbered
    /\ pc["package"] = "rule" => "control" \notin exists

\* The tree is missing under both stamps only until get or clean has removed the
\* second one.
Treed == ~SaveSpace =>
    /\ Gotten /\ "unpackStamp" \in exists /\ "tree" \notin exists
           => pc["get"] = "rmUnpack" \/ pc["clean"] = "stamps"
    /\ pc["unpack"] \in {"extract", "rmBuild", "unpackagedev", "stamp"} => "tree" \in exists

\* The devel archives that a build leaves behind: what a need_build hook watches
\* decides nothing about them, and one whose removal failed is not tried again.
Unwatched == old["devOpk"] \cap {"watched", "kept"} # {}

\* The devel archive goes before a build starts again, and it has missed a
\* watched file whenever the build has, but for those left behind.
Rebuilt == Kind # "none" =>
    /\ "buildStamp" \notin exists /\ "devOpk" \in exists /\ "unpackStamp" \in exists
           => \/ Unwatched
              \/ pc["build"] = "unpackagedev"
              \/ pc["build"] = "test" /\ pc["unpackagedev"] # "idle"
    /\ pc["unpack"] = "stamp" /\ pc["unpackagedev"] = "idle" => "devOpk" \notin exists
    /\ pc["build"] = "check" /\ pc["unpack"] = "idle" => "unpackStamp" \in exists
    /\ pc["build"] \in {"unpackagedev", "test"} => "unpackStamp" \in exists
    /\ pc["build"] \in {"rule", "stamp"}
           => "buildStamp" \notin exists /\ ("devOpk" \notin exists \/ Unwatched)
    /\ pc["packagedev"] = "rule" /\ pc["build"] = "idle" => "buildStamp" \in exists
    /\ "watched" \in newer["buildStamp"] /\ "obj" \in exists => "watched" \in old["obj"]
    /\ "watched" \in newer["buildStamp"] /\ "devOpk" \in exists => Unwatched
    /\ {"devOpk", "buildStamp", "obj"} \subseteq exists /\ ~Unwatched
           => old["devOpk"] \cap ObjReads \subseteq old["obj"]

\* The inductive invariant.
StopInv == Refetched /\ Replaced /\ Treed /\ Rebuilt

\* Every step of scripts/get keeps StopInv.
LEMMA GetStopInv ==
    ASSUME Stops = "failures", ControlOK, FilesOK, Waiting, InstallInv,
           FreshInv, StaleInv, StopInv,
           Get
    PROVE  StopInv'
<1> USE DEF StopInv, Refetched, Replaced, Treed, Rebuilt, Gotten, Renumbered,
           Unwatched, ControlOK, FilesOK, Waiting, Scripts, At, Calls,
           Go, Call, Return, Remove, fs, Artifacts, Watches, Reads, ObjReads,
           TreeReads
<1>1. CASE GetStart
  BY <1>1 DEF GetStart
<1>2. CASE GetDownload
  BY <1>2 DEF GetDownload
<1>3. CASE GetStamp
  <2>1. Write("getStamp", {})
    BY <1>3 DEF GetStamp
  <2>2. QED  BY <1>3, <2>1, QuietWrite DEF GetStamp
<1>4. CASE GetRmUnpack
  BY <1>4 DEF GetRmUnpack
<1>5. CASE GetRmBuild
  BY <1>5 DEF GetRmBuild
<1>6. QED
  BY <1>1, <1>2, <1>3, <1>4, <1>5 DEF Get

\* Every step of scripts/unpack keeps StopInv.
LEMMA UnpackStopInv ==
    ASSUME Stops = "failures", ControlOK, FilesOK, Waiting, InstallInv,
           FreshInv, StaleInv, StopInv,
           Unpack
    PROVE  StopInv'
<1> USE DEF StopInv, Refetched, Replaced, Treed, Rebuilt, Gotten, Renumbered,
           Unwatched, ControlOK, FilesOK, Waiting, Scripts, At, Calls,
           Go, Call, Return, Remove, fs, Artifacts, Watches, Reads, ObjReads,
           TreeReads
<1>1. CASE UnpackStart
  BY <1>1 DEF UnpackStart
<1>2. CASE UnpackCheck
  BY <1>2 DEF UnpackCheck
<1>3. CASE UnpackTest
  BY <1>3 DEF UnpackTest
<1>4. CASE UnpackMkdir
  BY <1>4 DEF UnpackMkdir, BuildDir
<1>5. CASE UnpackExtract
  <2>1. Write("tree", {})
    BY <1>5 DEF UnpackExtract
  <2>2. QED  BY <1>5, <2>1, QuietWrite DEF UnpackExtract
<1>6. CASE UnpackRmBuild
  BY <1>6 DEF UnpackRmBuild, FreshInv, Unpacking
<1>7. CASE UnpackUnpackagedev
  BY <1>7 DEF UnpackUnpackagedev
<1>8. CASE UnpackStamp
  <2>1. Write("unpackStamp", {})
    BY <1>8 DEF UnpackStamp
  <2>2. QED  BY <1>8, <2>1, QuietWrite DEF UnpackStamp
<1>9. QED
  BY <1>1, <1>2, <1>3, <1>4, <1>5, <1>6, <1>7, <1>8 DEF Unpack

\* Every step of scripts/clean keeps StopInv.
LEMMA CleanStopInv ==
    ASSUME Stops = "failures", ControlOK, FilesOK, Waiting, InstallInv,
           FreshInv, StaleInv, StopInv,
           Clean
    PROVE  StopInv'
<1> USE DEF StopInv, Refetched, Replaced, Treed, Rebuilt, Gotten, Renumbered,
           Unwatched, ControlOK, FilesOK, Waiting, Scripts, At, Calls,
           Go, Call, Return, Remove, fs, Artifacts, Watches, Reads, ObjReads,
           TreeReads
<1>1. CASE CleanStart
  BY <1>1 DEF CleanStart, BuildDir
<1>2. CASE CleanStamps
  BY <1>2 DEF CleanStamps
<1>3. CASE CleanRmBuild
  BY <1>3 DEF CleanRmBuild
<1>4. CASE CleanUnpackage
  BY <1>4 DEF CleanUnpackage
<1>5. CASE CleanUninstalldev
  BY <1>5 DEF CleanUninstalldev
<1>6. CASE CleanUnpackagedev
  BY <1>6 DEF CleanUnpackagedev
<1>7. CASE CleanEnd
  BY <1>7 DEF CleanEnd, StaleInv, Cleaned
<1>8. QED
  BY <1>1, <1>2, <1>3, <1>4, <1>5, <1>6, <1>7 DEF Clean

\* Every step of each removing script keeps StopInv.
LEMMA RemoverStopInv ==
    ASSUME Stops = "failures", ControlOK, FilesOK, Waiting, InstallInv,
           FreshInv, StaleInv, StopInv,
           Remover
    PROVE  StopInv'
<1> USE DEF StopInv, Refetched, Replaced, Treed, Rebuilt, Gotten, Renumbered,
           Unwatched, ControlOK, FilesOK, Waiting, Scripts, At, Calls,
           Go, Call, Return, Remove, fs, Artifacts, Watches, Reads, ObjReads,
           TreeReads
<1>1. CASE Uninstall
  BY <1>1 DEF Uninstall
<1>2. CASE Uninstalldev
  BY <1>2 DEF Uninstalldev
<1>3. CASE UnpackageStart
  BY <1>3 DEF UnpackageStart
<1>4. CASE UnpackageRm
  BY <1>4 DEF UnpackageRm
<1>5. CASE UnpackagedevStart
  BY <1>5 DEF UnpackagedevStart
<1>6. CASE UnpackagedevRm
  BY <1>6 DEF UnpackagedevRm
<1>7. QED
  BY <1>1, <1>2, <1>3, <1>4, <1>5, <1>6 DEF Remover

\* Every step of scripts/build keeps StopInv.
LEMMA BuildStopInv ==
    ASSUME Stops = "failures", ControlOK, FilesOK, Waiting, InstallInv,
           FreshInv, StaleInv, StopInv,
           Build
    PROVE  StopInv'
<1> USE DEF StopInv, Refetched, Replaced, Treed, Rebuilt, Gotten, Renumbered,
           Unwatched, ControlOK, FilesOK, Waiting, Scripts, At, Calls,
           Go, Call, Return, Remove, fs, Artifacts, Watches, Reads, ObjReads,
           TreeReads
<1>1. CASE BuildStart
  BY <1>1 DEF BuildStart
<1>2. CASE BuildCheck
  BY <1>2 DEF BuildCheck, HookRebuilds
<1>3. CASE BuildUnpackagedev
  BY <1>3 DEF BuildUnpackagedev
<1>4. CASE BuildTest
  BY <1>4 DEF BuildTest
<1>5. CASE BuildRule
  <2>1. Write("obj", old["tree"])
    BY <1>5 DEF BuildRule
  <2>2. QED  BY <1>5, <2>1, QuietWrite DEF BuildRule
<1>6. CASE BuildStamp
  <2>1. Write("buildStamp", {})
    BY <1>6 DEF BuildStamp
  <2>2. QED  BY <1>6, <2>1, BuildStampWrite DEF BuildStamp
<1>7. QED
  BY <1>1, <1>2, <1>3, <1>4, <1>5, <1>6 DEF Build

\* Every step of each packaging script keeps StopInv.
LEMMA PackagerStopInv ==
    ASSUME Stops = "failures", ControlOK, FilesOK, Waiting, InstallInv,
           FreshInv, StaleInv, StopInv,
           Packager
    PROVE  StopInv'
<1> USE DEF StopInv, Refetched, Replaced, Treed, Rebuilt, Gotten, Renumbered,
           Unwatched, ControlOK, FilesOK, Waiting, Scripts, At, Calls,
           Go, Call, Return, Remove, fs, Artifacts, Watches, Reads, ObjReads,
           TreeReads
<1>1. CASE PackageStart
  BY <1>1 DEF PackageStart
<1>2. CASE PackageCheck
  BY <1>2 DEF PackageCheck
<1>3. CASE PackageRm
  BY <1>3 DEF PackageRm
<1>4. CASE PackageTest
  BY <1>4 DEF PackageTest, StaleInv, HasArchive
<1>5. CASE PackageRule
  <2>1. Write("opk", old["obj"])
    BY <1>5 DEF PackageRule
  <2>2. QED  BY <1>5, <2>1, OpkWrite DEF PackageRule, FreshInv, Packaging
<1>6. CASE PackageOk
  BY <1>6 DEF PackageOk, FlagAndSaveSpace, BuildDir
<1>7. CASE PackagedevStart
  BY <1>7 DEF PackagedevStart
<1>8. CASE PackagedevRm
  BY <1>8 DEF PackagedevRm
<1>9. CASE PackagedevTest
  BY <1>9 DEF PackagedevTest
<1>10. CASE PackagedevRule
  <2>1. Write("devOpk", old["obj"])
    BY <1>10 DEF PackagedevRule
  <2>2. QED  BY <1>10, <2>1, DevOpkWrite DEF PackagedevRule
<1>11. CASE PackagedevOk
  BY <1>11 DEF PackagedevOk, FlagAndSaveSpace, BuildDir
<1>12. QED
  BY <1>1, <1>2, <1>3, <1>4, <1>5, <1>6, <1>7, <1>8, <1>9, <1>10, <1>11 DEF Packager

\* Every step of each installing script keeps StopInv.
LEMMA InstallStopInv ==
    ASSUME Stops = "failures", ControlOK, FilesOK, Waiting, InstallInv,
           FreshInv, StaleInv, StopInv,
           Install
    PROVE  StopInv'
<1> USE DEF StopInv, Refetched, Replaced, Treed, Rebuilt, Gotten, Renumbered,
           Unwatched, ControlOK, FilesOK, Waiting, Scripts, At, Calls,
           Go, Call, Return, Remove, fs, Artifacts, Watches, Reads, ObjReads,
           TreeReads
<1>1. CASE InstallStart
  BY <1>1 DEF InstallStart, RebuiltInputs
<1>2. CASE InstallOpk
  BY <1>2 DEF InstallOpk
<1>3. CASE InstallTest
  BY <1>3 DEF InstallTest
<1>4. CASE InstallOpkg
  BY <1>4 DEF InstallOpkg, FreshInv, Packaging
<1>5. CASE InstallTouch
  BY <1>5 DEF InstallTouch
<1>6. CASE InstalldevStart
  BY <1>6 DEF InstalldevStart, RebuiltInputs
<1>7. CASE InstalldevOpk
  BY <1>7 DEF InstalldevOpk
<1>8. CASE InstalldevTest
  BY <1>8 DEF InstalldevTest
<1>9. CASE InstalldevOpkg
  BY <1>9 DEF InstalldevOpkg
<1>10. CASE InstalldevTouch
  BY <1>10 DEF InstalldevTouch
<1>11. QED
  BY <1>1, <1>2, <1>3, <1>4, <1>5, <1>6, <1>7, <1>8, <1>9, <1>10 DEF Install

\* Every step of scripts/rootfs keeps StopInv.
LEMMA RootfsStopInv ==
    ASSUME Stops = "failures", ControlOK, FilesOK, Waiting, InstallInv,
           FreshInv, StaleInv, StopInv,
           Rootfs
    PROVE  StopInv'
<1> USE DEF StopInv, Refetched, Replaced, Treed, Rebuilt, Gotten, Renumbered,
           Unwatched, ControlOK, FilesOK, Waiting, Scripts, At, Calls,
           Go, Call, Return, Remove, fs, Artifacts, Watches, Reads, ObjReads,
           TreeReads
<1>1. CASE RootfsStart
  BY <1>1 DEF RootfsStart, StaleInputs
<1>2. CASE RootfsInstall
  BY <1>2 DEF RootfsInstall
<1>3. CASE RootfsEnd
  BY <1>3 DEF RootfsEnd
<1>4. QED
  BY <1>1, <1>2, <1>3 DEF Rootfs
\* An edit as get, the tree, the objects and the devel archive see it.
LEMMA EditDevel ==
    ASSUME FilesOK, NEW i \in EditKinds, Edit(i)
    PROVE  /\ Gotten' <=> Gotten /\ i \notin {"version", "rev"}
           /\ "tree" \in exists /\ i # "version" => "tree" \in exists'
           /\ "obj" \in exists' => "obj" \in exists /\ old["obj"] \subseteq old'["obj"]
           /\ "devOpk" \in exists'
                  => /\ "devOpk" \in exists
                     /\ i \notin {"version", "rev"}
                     /\ old["devOpk"] \subseteq old'["devOpk"]
                     /\ old'["devOpk"] \subseteq old["devOpk"] \cup ({i} \cap Reads("devOpk"))
                     /\ i = "watched" => i \in old'["devOpk"]
           /\ {"obj", "devOpk"} \subseteq exists'
                  => /\ i \in ObjReads => i \in old'["obj"]
                     /\ old'["devOpk"] \cap ObjReads
                            \subseteq (old["devOpk"] \cap ObjReads) \cup ({i} \cap ObjReads)
           /\ i = "watched" /\ "obj" \in exists' => i \in old'["obj"]
<1>1. /\ i \in Inputs
      /\ {"getStamp", "unpackStamp"} \cap Renamed(i) = {}
      /\ i # "version" => {"tree", "obj"} \cap Renamed(i) = {}
      /\ "devOpk" \in Renamed(i) <=> i \in {"version", "rev"}
  BY EditEffect DEF Renamed, BuildDir, Inputs
<1>2. /\ i \in Reads("getStamp") <=> i \in {"version", "rev"}
      /\ Reads("obj") = ObjReads
      /\ "watched" \in ObjReads /\ "watched" \in Reads("devOpk")
  BY DEF Reads, ObjReads
<1>3. {"getStamp", "tree", "obj", "devOpk"} \subseteq Artifacts
  BY DEF Artifacts
<1>4. Gotten' <=> Gotten /\ i \notin {"version", "rev"}
  BY <1>1, <1>2, <1>3, EditEffect DEF Gotten
<1>5. "obj" \in exists'
          => /\ "obj" \in exists
             /\ old["obj"] \subseteq old'["obj"]
             /\ i \in ObjReads => i \in old'["obj"]
  BY <1>1, <1>2, <1>3, EditEffect
<1>6. QED  BY <1>1, <1>2, <1>3, <1>4, <1>5, EditEffect

\* Between runs an edit of the version makes get fetch again, and the devel
\* archive of the version before has another name.
LEMMA EditStop ==
    ASSUME FilesOK, Waiting, StopInv, NEW i \in EditKinds, Edit(i)
    PROVE  StopInv'
<1>1. (\A s \in Scripts : pc[s] = "idle" /\ pc'[s] = "idle")
  BY EditEffect DEF Waiting
<1>2. Refetched'
  BY <1>1 DEF Refetched, Scripts
<1>3. Replaced'
  <2>1. i \notin {"opk", "devOpk"}
    BY EditEffect DEF Inputs
  <2>2. Renumbered' => Renumbered \/ i \in {"version", "rev"}
    BY EditControl DEF Renumbered
  <2>3. Gotten' => Gotten /\ i \notin {"version", "rev"}
    BY EditDevel
  <2>4. "unpackStamp" \in exists' => "unpackStamp" \in exists
    BY EditStamps
  <2>5. "opk" \in old'["control"] => "opk" \in old["control"]
    BY <2>1, EditControl
  <2>6. QED  BY <1>1, <2>2, <2>3, <2>4, <2>5 DEF StopInv, Replaced, Scripts
<1>4. Treed'
  BY <1>1, EditStamps, EditDevel DEF StopInv, Treed, Scripts
<1>5. Rebuilt'
  <2>1. "devOpk" \in exists' /\ Unwatched => Unwatched'
    BY EditDevel DEF Unwatched
  <2>2. "watched" \in newer'["buildStamp"] => "watched" \in newer["buildStamp"] \/ i = "watched"
    BY EditStamps
  <2>3. i = "watched" /\ "devOpk" \in exists' => Unwatched'
    BY EditDevel DEF Unwatched
  <2>4. ASSUME Kind # "none", {"devOpk", "buildStamp", "obj"} \subseteq exists', ~Unwatched'
        PROVE  old'["devOpk"] \cap ObjReads \subseteq old'["obj"]
    <3>1. {"devOpk", "buildStamp", "obj"} \subseteq exists /\ ~Unwatched
      BY <2>1, <2>4, EditDevel, EditStamps
    <3>2. old["devOpk"] \cap ObjReads \subseteq old["obj"]
      BY <2>4, <3>1 DEF StopInv, Rebuilt
    <3>3. QED  BY <2>4, <3>2, EditDevel
  <2>5. Kind # "none" /\ "watched" \in newer'["buildStamp"] /\ "obj" \in exists'
            => "watched" \in old'["obj"]
    BY <2>2, EditDevel DEF StopInv, Rebuilt
  <2>6. Kind # "none" /\ "watched" \in newer'["buildStamp"] /\ "devOpk" \in exists'
            => Unwatched'
    BY <2>1, <2>2, <2>3, EditDevel DEF StopInv, Rebuilt
  <2>7. Kind # "none" /\ "buildStamp" \notin exists' /\ "devOpk" \in exists'
            /\ "unpackStamp" \in exists' => Unwatched'
    BY <1>1, <2>1, EditDevel, EditStamps DEF StopInv, Rebuilt, Scripts
  <2>8. QED  BY <1>1, <2>4, <2>5, <2>6, <2>7 DEF Rebuilt, Scripts
<1>6. QED  BY <1>2, <1>3, <1>4, <1>5 DEF StopInv

\* A run that stops where a command failed has left neither get nor clean half
\* done, and has marked the devel archive that build could not delete.
LEMMA AbortStopInv ==
    ASSUME Stops = "failures", ControlOK, FilesOK, Waiting, StopInv, Abort
    PROVE  StopInv'
<1>1. \A s \in Scripts : pc'[s] = "idle"
  BY AbortEffect
<1>2. \E s \in Scripts : MayFail(s)
  BY DEF Abort
<1>3. /\ pc["get"] # "rmUnpack" /\ pc["get"] # "rmBuild"
      /\ pc["clean"] # "stamps"
      /\ pc["unpack"] = "stamp" => pc["unpackagedev"] # "idle"
      /\ pc["build"] # "stamp"
  <2>1. PICK s \in Scripts : MayFail(s)
    BY <1>2
  <2>2. CASE s \notin {"uninstall", "uninstalldev"}
    BY <2>1, <2>2 DEF MayFail, At, Calls, Waiting, Scripts
  <2>3. CASE s = "uninstall"
    <3>1. pc["uninstall"] = "start"
      BY <2>1, <2>3 DEF MayFail, At
    <3>2. QED  BY <3>1 DEF Waiting, Scripts
  <2>4. CASE s = "uninstalldev"
    <3>1. pc["uninstalldev"] = "start"
      BY <2>1, <2>4 DEF MayFail, At
    <3>2. QED  BY <3>1 DEF Waiting, Scripts
  <2>5. QED  BY <2>2, <2>3, <2>4
<1>4. /\ newer'["buildStamp"] = newer["buildStamp"]
      /\ \A a \in {"getStamp", "obj"} : old'[a] = old[a]
      /\ \A a \in {"getStamp", "unpackStamp", "buildStamp", "tree", "obj", "opk", "devOpk"} :
            a \in exists' <=> a \in exists
      /\ old'["devOpk"] = IF BuildUnpackages THEN old["devOpk"] \cup {"kept"} ELSE old["devOpk"]
      /\ old'["control"] \in {old["control"], {}}
  BY AbortEffect DEF Artifacts
<1>5. Refetched'
  BY <1>1 DEF Refetched, Scripts
<1>6. Replaced'
  BY <1>1, <1>3, <1>4 DEF StopInv, Replaced, Renumbered, Gotten, Scripts
<1>7. Treed'
  BY <1>1, <1>3, <1>4 DEF StopInv, Treed, Gotten, Scripts
<1>8. Rebuilt'
  <2>1. /\ Unwatched => Unwatched'
        /\ BuildUnpackages => Unwatched'
        /\ ~Unwatched' => old'["devOpk"] = old["devOpk"]
    BY <1>4 DEF Unwatched
  <2>2. QED  BY <1>1, <1>3, <1>4, <2>1 DEF StopInv, Rebuilt, BuildUnpackages, Scripts
<1>9. QED  BY <1>5, <1>6, <1>7, <1>8 DEF StopInv

\* A run that stops where a command failed has left neither get nor clean nor
\* the removal of the archives half done.
LEMMA AroundStopInv ==
    ASSUME Stops = "failures", ControlOK, FilesOK, Waiting, InstallInv,
           FreshInv, StaleInv, StopInv,
           Around
    PROVE  StopInv'
<1> USE DEF StopInv, Refetched, Replaced, Treed, Rebuilt, Gotten, Renumbered,
           Unwatched, ControlOK, FilesOK, Waiting, Scripts, At, Calls,
           Go, Call, Return, Remove, fs, Artifacts, Watches, Reads, ObjReads,
           TreeReads
<1>1. ASSUME NEW s \in Commands, Start(s) PROVE StopInv'
  BY <1>1 DEF Start, Commands
<1>2. ASSUME NEW i \in EditKinds, Edit(i) PROVE StopInv'
  BY <1>2, EditStop
<1>3. ASSUME NEW a \in Artifacts, DependencyRemoved(a) PROVE StopInv'
  BY <1>3 DEF DependencyRemoved, Elsewhere
<1>4. CASE Abort
  BY <1>4, AbortStopInv
<1>5. CASE NamesakeCleaned
  BY <1>5 DEF NamesakeCleaned, Elsewhere
<1>6. QED  BY <1>1, <1>2, <1>3, <1>4, <1>5 DEF Around

----------------------------------------------------------------------------
\* Every step keeps StopInv.
LEMMA StopInvStep ==
    ASSUME Stops = "failures", TypeOK, Waiting, InstallInv, FreshInv, StaleInv,
           StopInv, [Next]_vars
    PROVE  StopInv'
<1>1. ControlOK /\ FilesOK
  BY TypeHalves
<1>2. CASE UNCHANGED vars
  BY <1>2 DEF vars, StopInv, Refetched, Replaced, Treed, Rebuilt, Gotten,
              Renumbered, Unwatched
<1>3. CASE Next
  BY <1>1, <1>3, GetStopInv, UnpackStopInv, CleanStopInv, RemoverStopInv,
     BuildStopInv, PackagerStopInv, InstallStopInv, RootfsStopInv,
     AroundStopInv DEF Next, Around
<1>4. QED  BY <1>2, <1>3

\* In every reachable state of a package whose runs are not interrupted.
LEMMA StopInvAlways ==
    ASSUME Stops = "failures"
    PROVE  Spec => []StopInv
<1>1. Init => StopInv
  BY DEF Init, StopInv, Refetched, Replaced, Treed, Rebuilt, Gotten, Renumbered,
         Unwatched, Scripts, Artifacts
<1>2. TypeOK /\ Waiting /\ InstallInv /\ FreshInv /\ StaleInv /\ StopInv /\ [Next]_vars
          => StopInv'
  BY StopInvStep
<1>3. QED
  BY <1>1, <1>2, TypeCorrect, OneChain, InstallInvAlways, FreshInvAlways,
     StaleInvAlways, PTL DEF Spec

\* A downloaded package is never installed from anything but the archive that is
\* there (scripts/clean:34, get:44-56), when runs stop only where a command
\* failed.
THEOREM InstalledFromArchive ==
    ASSUME Stops = "failures"
    PROVE  Spec => []InstalledIsPackaged
<1>1. StopInv => InstalledIsPackaged
  BY DEF StopInv, Replaced, InstalledIsPackaged
<1>2. QED  BY <1>1, StopInvAlways, PTL

\* Between runs a package that get and unpack both hold for done has its build
\* directory (scripts/get:44-56, clean:16-30), when runs stop only where a
\* command failed.
THEOREM TreeUnderStamps ==
    ASSUME Stops = "failures"
    PROVE  Spec => []StampedTree
<1>1. TypeOK /\ Waiting /\ StopInv => StampedTree
  BY DEF StopInv, Treed, Gotten, Waiting, StampedTree, Scripts
<1>2. QED  BY <1>1, StopInvAlways, TypeCorrect, OneChain, PTL

\* Between runs the devel archive contains what the build it stands for contains
\* (scripts/packagedev:37, build:24-48, unpack:96-104), when runs stop only where
\* a command failed and there is something to unpack; of archives that a failing
\* opkg remove kept, or that miss what a hook watches, nothing is said.
THEOREM DevelOfTheBuild ==
    ASSUME Stops = "failures", Kind # "none"
    PROVE  Spec => []DevNotOlderThanBuild
<1>1. StopInv => DevNotOlderThanBuild
  BY DEF StopInv, Rebuilt, Unwatched, DevNotOlderThanBuild
<1>2. QED  BY <1>1, StopInvAlways, PTL
==============================================================================
