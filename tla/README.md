# OpenBricks in TLA+

OpenBricks is an embedded Linux build framework: about 1500 packages, each a
directory with a `meta` file and shell rules, and some 80 shell scripts that
download, unpack, patch, cross-compile, package and install them into a target
root file system and into a toolchain ("sysroot").  A few programs and drivers are
OpenBricks' own and come with it.  This directory holds TLA+ models of the
framework's core, the scripts that decide WHAT has to be done again, and of five
of these programs; TLC runs that check them on small instances; and TLAPS proofs
of the properties that matter most.

Paths such as `scripts/build:47` are relative to the root of the repository.

## 1. Inventory

### 1.1 The parts and how they interact

*The framework.*  All state is files.  There is no database, no lock and no log: a script looks at
which files exist and which is newer, and calls other scripts, which do the same.
All scripts source `config/options`, which sources `config/path`, whose `set -e`
(config/path:3) makes every failure end the whole chain of calls.

| Part | State it keeps | Operations | Calls |
|---|---|---|---|
| `scripts/get` | `$STAMPS/<p>/get` (PKG_NAME, version and revision as text), `sources/<p>/` | download when the stamp differs; delete the unpack and build stamps | - |
| `scripts/unpack` | `$STAMPS/<p>/unpack`, the build directory | unpack when there is no stamp, a patch is newer, or `need_unpack` removed the stamp | get, clean, unpackage, unpackagedev |
| `scripts/build` | `$STAMPS/<p>/build`, objects in the build directory | build when there is no stamp, the rule is newer, `need_build` removed the stamp, `--force` | unpack, unpackage(dev), uninstalldev of everything and packagedev of the dependencies (dynamic sysroot), installdev of the dependencies |
| `scripts/package` | `binaries/.../<p>_<v>-<r>_<arch>.opk`, flag `.opk_ok` | package when there is no archive or the install rule or build stamp is newer | build, uninstall, package of the run-time dependencies, save_space |
| `scripts/packagedev` | `...-dev_...opk`, flag `opk_dev_ok` | package when there is no archive or the installdev rule is newer | uninstalldev, build, save_space |
| `scripts/install` | opkg's database in the rootfs (`<p>.control`) | clean, unpackage or uninstall what is out of date, install | clean, unpackage, uninstall, package, install of the run-time dependencies, opkg |
| `scripts/installdev` | opkg's database in the toolchain | the same for devel packages, removing conflicting ones | clean, unpackagedev, uninstalldev, packagedev, installdev of the devel dependencies, opkg |
| `scripts/clean` | removes build directory, stamps, archives, installed packages | `clean <p>`, all packages, `--full`, `--sources`, `--quick` | uninstall(dev), unpackage(dev) |
| `uninstall`, `uninstalldev`, `unpackage`, `unpackagedev` | - | remove from rootfs or toolchain with all dependents; remove an archive | uninstall(dev), opkg |
| `scripts/rootfs` | the rootfs | remove stale packages, install missing ones, package the others | build, install, installdev, uninstall, package |
| `scripts/save_space` | - | delete the build directory once the flags are there | - |
| `scripts/get-opk`, `index`, `send-opk` | flags `dl-from-repo-not-ok`, `need-symlink` | fetch finished archives from a repository instead of building | - |
| `scripts/overlay` | links in `packages/`, `config/` | install and remove overlays | - |
| kconfig scripts, `loadcfg`, `savecfg` | `build/config/options` and generated Kconfig files | print configuration text | - |
| image scripts | image files | copy a finished rootfs | - |
| `config/functions`, `config/path` | environment | `get_meta`, `create_stamp`, paths | - |

The scripts interact in two ways.  On ONE package they call each other down a
chain (install, package, build, unpack, get; clean; unpackage, uninstall), and
each communicates with the next run of another only by the files it leaves.
BETWEEN packages they recurse over PKG_BUILD_DEPENDS, PKG_DEV_DEPENDS and
PKG_RUN_DEPENDS, and share one toolchain and one rootfs, from which a nested
script may remove what its caller has just installed.

*The programs.*  Each runs on the target, alone, and talks to something outside
the repository.  The paths are under `packages/`.

| Program | State it keeps | Operations | Talks to |
|---|---|---|---|
| `system/automountd`: the daemon, `hmount`, `humount` | list of volumes; the mount table, `/mnt`, `/var/mnts` | enumerate, add, change, remove a device; mount, unmount; stop | udev, the kernel, systemd, which starts it again |
| `drivers/appleir`: kernel driver of a remote | current key, timer, request | completion handler, timer, probe, open, close, disconnect | USB, timer and input layers |
| `net/brcm-patchram-plus` | position in its sequence of commands, speed of the line, alarm | parse options, send a command, read an answer, send the reset again | a Bluetooth controller on a serial line |
| `multimedia/vdr-skychannels`: `get_channels_sky` | three tables, two counters for each, a filter | read BAT, SDT, NIT; write the list of channels | a demultiplexer |
| `net/chromium/imx`: video decoder of the browser | queue of buffers, framebuffers and their counter, pictures, a counter of loads | Initialize, Decode, AssignPictureBuffers, ReusePictureBuffer, Flush, Reset, Destroy | the browser (client), Freescale's VPU library |

### 1.2 What is hard

* Staleness.  Whether a change reaches the archive is decided by a chain of
  comparisons made by different scripts: patch file, unpack stamp, build stamp,
  archive, control file.  A link that is missing loses the change silently.
* Interruption.  A build is interrupted all the time, by a failing rule or by
  hand, and nothing is rolled back; the next run has only the files to go by.
* Recursion with side effects.  A dependency is rebuilt, removed or replaced
  while its dependents are halfway through a loop over it.
* opkg's cascade: removing a package removes everything that depends on it.
* With `DYNAMIC_SYSROOT`, every build empties the toolchain of all its callers.
* Termination of that recursion.
* The two layouts: the scripts look for rules both in `packages/<section>/<p>`
  and in `packages/<p>` (what an overlay installs), but not all in both.
* automountd: events tell of a past state and wait while something else is
  mounted; some are dropped; the list is forgotten at a restart, the mounts are
  not; names are shared.
* appleir: handler, timer and process run at the same time without a lock.
* brcm-patchram-plus: answers are matched to commands by their order alone,
  while the reset is repeated and both sides change their speed.
* get_channels_sky: sections come in any order and are lost, and what ends a
  table is a count of what came again.
* Video decoder: VPU, wrapper, accelerator and client each keep their own account
  of the same framebuffers and learn of the other's changes late; resets come in
  the middle of everything.

`PROJECT.json` lists these at the line where they bite, under "hazards", with the
properties that would catch them; section 10 lists those that none covers.

### 1.3 What makes each part correct

* unpack, build, package: a run that ends well has taken in every change.
* packagedev: the devel archive is not older than the build it stands for.
* install, rootfs: what is installed is the archive that is there, and contains
  every change these scripts look at.
* uninstall, unpackage, clean: nothing stays installed whose archive is gone.
* build, installdev: dependencies are there when they are used, conflicts are
  not, the toolchain never holds a package without what it needs; with a dynamic
  sysroot it holds nothing else; the recursion ends.  Section 9 says under which
  conditions the first and the last but one are so.
* save_space: deletes only what is no longer needed.
* automountd: the list is that of the devices there are; no two volumes share a
  directory; a device is mounted where it should be.
* appleir: no key stays pressed, nothing is used after it was freed, a closed
  device is quiet.
* brcm-patchram-plus: each answer is read as that of its command, at its speed;
  the program ends.
* get_channels_sky: names and tunings are those of their services; the file is
  complete; the scan ends.
* Video decoder: every buffer comes back, once, and before the reset that takes
  it back is done; pictures are left alone while they are shown; the VPU stays
  loaded.

## 2. Plan

| Order | Module | Content |
|---|---|---|
| 1 | `Package` | one package: all scripts, all files, edits, interruptions |
| 2 | `Package_proofs` | type, call chain, all the safety properties |
| 3 | `Sysroot`, `Sysroot_proofs` | many packages, the toolchain, recursion over devel dependencies; type and all its safety properties |
| 4 | `Scripts`, `Scripts_proofs` | call stacks and opkg's cascade, shared by 3 and 5 |
| 5 | `Rootfs`, `Rootfs_proofs` | many packages, the target, the walk of `scripts/rootfs`, run-time dependencies; type, order of the scripts, all its safety properties |
| 6 | `Appleir`, `Appleir_proofs` | the driver; type and all its safety properties |
| 7 | `Automountd`, `Automountd_proofs` | the daemon and its scripts; type and all its safety properties |
| 8 | `SkyChannels`; `Patchram`, `Patchram_proofs` | the scan; the download of firmware, type and InStep |
| 9 | `VpuLoad`, `VpuWrapper`, `VpuAccelerator`, `BufferExchange` | the video decoder, composed of three parts, and the abstract specification it implements |
| 10 | `VpuAccelerator_proofs` | the refinement, KeepsPromise; type, CountIsRight, ShownIsTheClients |

All of these are done.  What could follow, by what it would add:

* `Subpackage`: a package and its parent with one build directory, the stamps of
  one and the archives of both.
* `Repo`: get-opk, the repository mode of build, the flags all packages share.
* `Overlay`: links and backups of scripts/overlay.
* Proofs about `SkyChannels`, the one module that is only model-checked: what its
  tables hold after a section is a fold over the entries of the section, so that
  they need induction over data (section 8).

`Package` is the detailed model of a package alone; in `Sysroot` and `Rootfs`
what a script does to its own package (unpack, clean, unpackage) is part of one
step, so that the interleaving between packages can be checked.  `Scripts` holds
what these two share: the call stack (`Frame`, `At`, `Goto`, `Call`, `Return`,
`ForEach`) and what opkg removes (`Users`, `Remaining`).  All are written
without RECURSIVE operators so that they can be proved about.

## 3. Module Package

One package, in detail.

**State.**  `exists` is the set of files there are: the three stamps, the
build directory with objects and the two flags of save_space, the two archives
(under their CURRENT names: a new version makes both disappear without removing
a file), and the two control files of opkg.  `newer[a]` is the set of watched
files modified after `a` was; the test `f -nt a` is `f \in newer[a]`.  `old[a]`
is a history variable: the changes that `a`'s CONTENT has missed.  No clock is
needed, because a write of `a` resets `newer[a]` and a write of `f` adds `f`
to `newer[a]` for every `a` that watches `f`; so nothing counts and nothing has
to be bounded.  `pc[s]` is the line script `s` is at.  `run`, `force` and
`done` say which script the user started, with `--force` or not, and which ended
well.

**Actions.**  One per stretch of a script between two points where it calls
another or where an interruption makes a difference: `GetStart`, `GetDownload`,
`GetStamp`, ... , `RootfsEnd`.  A script calls another with `Call`, and moves
again when all the scripts it calls are idle (`At`).  Theorem `OneChain` shows
that this is the same as a call stack.  Each removal in `clean`, `get`, `unpack`
and `build` is a step of its own, so that an interruption can fall between.

**Environment.**  `Edit(i)`: the developer changes a version, a revision, a
patch, the list of patches, a rule or a file a hook watches, between runs.
`Start(s)`: a script is run by hand.  `Abort`: with Stops = "failures" it happens
where a command can fail (a download, extraction, a rule, opkg install, opkg remove),
with "anywhere" at any step.  An opkg remove that ends early may have removed the
package or not (`BeingRemoved`).  When it ends build between the removal of its
stamp and that of the devel archive (`BuildUnpackages`), the archive is marked
"kept" in `old`.  `DependencyRemoved` and `NamesakeCleaned`: what runs on other
packages do to this one, between runs or while a script of this package is in
a loop over its dependencies.

**Parameters.**  Kind of sources, layout, which rules there are, hooks,
SAVE_SPACE, Stops, and which edits happen.

## 4. Module Sysroot

Several devel packages and one toolchain.

**State.**  `stack` is the call stack of build, packagedev and installdev
frames, each with the line it is at and the rest of its loop.  `unpacked`,
`built`, `archived`, `installed` are sets of packages; `newer` is the `-nt`
relation that counts here.

**Actions.**  One per stretch between two calls.  What unpack, clean and
unpackagedev do to the same package is part of the caller's step (that they do
it is what `Package` is about).  `Without` is
`opkg remove --force-removal-of-dependent-packages`: everything that needs the
package goes, by the least set closed under DevDepends (`Users`).  `opkg
install` of a package whose dependencies are missing fails
(`InstalldevRefused`), and by `set -e` every caller with it.
`Namesakes` are the packages whose stamps `$STAMPS/$1*/` in clean matches
(scripts/clean:31-32): cleaning GLib takes the stamps of GLib-host too.

**Assumptions.**  Dependencies are acyclic (`AcyclicAssumption`): nothing in the
scripts looks for cycles, and a cycle makes them call each other for ever.

## 5. Module Rootfs

Several runtime packages, the target and the configuration.

**State.**  `config` is the choice in kconfig, y, m or n for each package, always
one that the `select` lines of `scripts/meta2kconfig` allow (`Selected`).
`pass` and `rest` are the loop of `scripts/rootfs` and the packages left of it;
they are taken in the order of the configuration (`First`).  `stack` is the
call stack of install, package and build frames.  `unpacked`, `built`,
`archived`, `installed` are sets of packages; `newer` has an entry
`<<f, p>>` when something is newer than the file `f` of `p`: the build rule than
the stamp ("build"), the build stamp or the install rule than the archive
("stamp", "install"), what rootfs compares, the install rule or the archive than
the control file ("control", "rule", "archive").  `outdated` is a history
variable: the packages whose version or revision changed since they were
installed.

**Actions.**  One per stretch between two calls, and one per turn of a loop of
rootfs.  What unpack and clean do to the same package is part of `BuildStart`.
`scripts/build` installs the devel packages of its dependencies; that this may
or may not build them again is left open (`BuildInstalldev`), since it depends
on the toolchain, which is the subject of `Sysroot`.  `Without` is the cascade
of opkg again, now over PKG_RUN_DEPENDS.

**Subpackages.**  `Parent` is PKG_PARENT: a subpackage has its version and
revision from the meta of its parent (config/functions:216-222), while rootfs
compares its control file with its own meta only.  And kconfig does not select
the parent a package needs to run (scripts/meta2kconfig:45), so that rootfs may
have to remove and install both in every run.

**Environment.**  `Edit` changes the configuration, a revision, a patch in place, a
build rule or an install rule of the packages the instance names; `Start` runs
`install` or `package` by hand, on any package; `Abort` ends a run anywhere.

**Left out.**  Packages whose names begin with each other's (in `Sysroot`), what
rootfs does before its loops (opkg, base-files) and after them (depmod).

## 6. The programs

### 6.1 Module Appleir

**State.**  `process` is the function the process is in, `urb` and `handler` the
request and the line of its completion handler, `pending` and `tick` the timer
and the line of its function, `current` is `current_key`, `down` what the input
layer has as pressed, `memory` whether the structure is allocated.  `leftover`
(what was pressed when the device was closed) and `raced` are history variables.

**Actions.**  Every access to `current_key`, every report and every wait of a
function is a step of its own, so that handler, timer and process interleave as
on several processors.  The kernel promises what the driver relies on:
`usb_kill_urb` and `del_timer_sync` wait for a function that runs (`KillUrb`,
`DelTimerSync`), and `input_unregister_device` closes a device that is open.

**Raced.**  Handler and timer share `current_key` without a lock.  When the timer
works while the handler is between choosing a key and reporting it, a key can
stay pressed.  The properties about keys say that this is the ONLY way.

### 6.2 Module Automountd

**State.**  `medium` is what is in each device, `queue` the socket, `vlist` the
daemon's list, `mounts` the mount table, `dirs` and `mnts` the directories of
`/mnt` and the lines of `/var/mnts`.  History variables: `lost` (devices with an event
that was dropped), `missed` (devices that changed, or should have been unmounted, while
the daemon did not know their mount) and `torn` (devices of which a script was stopped).

**Actions.**  `Start` (the monitor, then the list of devices), `ScanDevice`,
`TestExit` / `Block` / `Receive` (the loop around select), `Terminate`, `Exit`,
`Crash`; `Plug`, `Change`, `Unplug`.  What add_device and remove_device do, with the
scripts they call and wait for, is one step when the scripts come to their end
(`AddDevice`, `RemoveDevice`, `Hmount`, `Humount`); devices change between any two.
In `StopScript` systemd, which stops the unit with everything that runs in it, ends
the script after any of its commands (`Made`, `Mounted`, `Noted` of hmount, `Unmounted`
and `Removed` of humount, put together in `HmountStopped` and `HumountStopped`), while the
daemon finishes the device before it looks at `udev_exit`.  A crash in the same place is
this step and then `Crash`.

**CD drives.**  `IsVolume` is what the code does: add_device hands a drive to
handle_cdrom when its ID_TYPE is something else than "cd" (automountd.c:598).  `Wanted`
is what a user expects, a disc in a CD drive included; `ListIsCurrent` and
`MountIsRight` leave these drives out, and `CdsAreListed` is about nothing else.

**Environment.**  An event carries what the device had when it was sent; mount
looks at what is in it now.  A socket holds `Buffer` events and drops the rest.
systemd starts the daemon again, with an empty list and the old mounts.

### 6.3 Module SkyChannels

**State.**  The three tables, of each the counter of what came again,
`stepFilter` and the buffer.  `air` is what is broadcast, `next` where each
carousel is: it starts anywhere.

**Actions.**  `Open` (setDemux), `Read`, `Process` (the section in the buffer and
the test whether the table is done), `Save`, `Fail`; `Lose` and `Overflow` are
sections that do not come or are overwritten.  `ReadBat`, `ReadSdt` and `ReadNit`
are what the three functions make of a section, with the service beyond the end
of a descriptor, the extra count of each NIT section and the rows a tuning is
given to.

### 6.4 Module Patchram

**State.**  `args` and `options`; `steps`, what is left to do as a sequence of
commands, changes of speed and the read of two bytes (`Steps`, made from the
options as main does); `wanted` and `got` of read_event; the bytes on their way,
each with the speed it was sent with.

**Actions.**  One per system call: `HciSendCmd`, `ReadSome` (read gives what there
is), `ReadTwo`, `TcSetAttr`, `Expired` (the signal) and so on.  The controller is
`Hear`, `Wake`, `Arrive`.

### 6.5 Modules VpuLoad, VpuWrapper, VpuAccelerator

`VpuAccelerator` is composed of the other two: `VpuLoad` is the counter that all
sessions share, `VpuWrapper` a decoder as a record and its operations as
operators on it, `DecodeFrame` in the order of the code, with what the VPU may
answer (`DecodeBuf`).  Any call of the VPU may fail: the wrapper then returns where
the code does, and what it has not counted by then is not counted
(imxvpucodec_fslwrapper.c:577, 736, 829, 952, 1029).

**State.**  `decoder`, `queue` (input_queue_), `pictures`, `tags` (the picture
each framebuffer is bound to), `tasks` (what was posted to the message loop);
the client's side is `lent`, `held`, `asked`, `wants`.  `lost` is a history
variable.

**Actions.**  One per handler: `Decode`, `AssignPictureBuffers`,
`ReusePictureBuffer`, `Flush` with `Drain` for each turn of its loop, `Reset`,
`InitializeSession`, `DestroySession`; and one per kind of task the client hears
of.  Handlers run under the lock.

**Failed calls.**  `missed` is a history variable of the decoder, the number of frames that a
failed call has kept from the counter: one that VPU_DecGetConsumedFrameInfo does not tell
(829), one that VPU_DecGetOutputFrame does not give (952), those decoded when a flush fails.
`unreturned` is the set of frames that the VPU leaves alone and nobody has to give back,
because fetching (952) or returning them (1029) failed.

**The abstract specification.**  `BufferExchange` is what a decode accelerator
promises about buffers, without queue, decoder or messages: it lends, returns,
and reports a reset done when what was lent before it is back.  The detailed
specification implements it under the mapping that leaves `lent`, `lost` and
`asked` as they are and takes for `due` the ends that are posted before the
message that the reset is done (`Due`).  `KeepsPromise` says that every step maps
to a step of it or to a stutter; that a failed buffer may be kept, and never
told of, is part of the abstract specification because it is what the code does.

## 7. Runs

| Run | Instance | Checks | Shows |
|---|---|---|---|
| `package_interrupted` | downloaded, in a section, both archives, Stops = anywhere, every noticed edit; 3.7 million states | `TypeOK`, `PackageFresh`, `InstallCurrent`, `RootfsFresh`, `UninstallFirst` | A downloaded package with every rule, edited between runs that may be interrupted at any command: what a run that ends well has packaged and installed is up to date. |
| `package_overlay` | downloaded, overlay layout, both hooks, Stops = failures, `OverlayEdits`; 2.0 million states | `InstallFresh`, `InstalledIsPackaged`, `DevNotOlderThanBuild`, `StampedTree` | A downloaded package of an overlay, with both hooks, whose runs stop where a command fails, opkg remove in the middle of its work included: the comparisons in install name files that exist, need_build and need_unpack are found, and the links between archives, builds and stamps that no script checks hold. |
| `sysroot_static` | `Rivals`, four packages of which two conflict, cleaning, new revisions, edited build rules; 800 thousand states | `DependsInstalled`, `SysrootClosed`, `NoConflict` | A shared toolchain in which two packages conflict and one of them brings a dependency that another needs, with cleaned packages, new revisions and edited build rules: every rule runs with its dependencies installed, and the toolchain stays closed under dependencies and free of conflicts although what a run installed is removed again on the way. |
| `sysroot_dynamic` | `Diamond`, four packages, DYNAMIC_SYSROOT, edited installdev rules; 214 thousand states | `NothingElseAtBuild`, `RunsEnd` | A toolchain emptied at every build, from any interrupted state, with edited installdev rules and packages used with what they are built with: only what is needed is there when a package is built, and every run ends. |
| `rootfs_walk` | `RunWith` and `BuiltWith`: two programs and a library, one program a subpackage of the library; configuration, revisions, build and install rules edited; 1.5 million states | `AllInstalled`, `NothingElse`, `Current`, `RunDependsInstalled`, `RootfsClosed` | Configurations and edits of everything rootfs compares, interrupted anywhere: a run of rootfs that ends well has installed exactly what is configured, of the current version and up to date, and opkg always found what a package needs. |
| `appleir` | two keys, interchangeable; 2709 states | `TypeOK`, `NoUseAfterFree`, `QuietWhenClosed`, `HeldHasTimer`, `PressedIsCurrent` | The driver of the remote, every interleaving of the request, the timer and the process that probes, opens, closes and disconnects: nothing is used after it was freed, a closed device is quiet, and no key stays pressed unless timer and handler met. |
| `automount` | two partitions without labels, an optical drive; 1.7 million states | `OwnMountPoint`, `ListIsCurrent`, `MountIsRight` | Devices come, change and go while the daemon scans, mounts, is stopped, crashes and is started again: its list is that of the devices there are, no two volumes share a directory, and a device with a name of its own is mounted where it should be, and so recorded unless its script was stopped. |
| `automount_cd` (violation) | two partitions without labels, a CD drive | `CdsAreListed` | A drive that reads CDs and nothing else: the disc in it never becomes a volume, because the test of ID_TYPE is the wrong way round. |
| `sky` | three broadcasts, every start in the carousels; 18 thousand states | `TypeOK`, `FileComplete`, `NeverWrong`, `ScanEnds` | The channel scan on broadcasts whose sections come from anywhere in the cycle and may be lost: what is written belongs together, is complete when nothing was lost, and the scan ends. |
| `patchram` | seven command lines; 566 thousand states | `TypeOK`, `InStep`, `Returns` | Every combination of options with a controller that is deaf at first, and bytes that come one by one or together: program and controller stay in step, speed included, and the program comes to its end. |
| `vpu` | one session, two framebuffers, two buffers, both codecs; 182 thousand states | `TypeOK`, `CountIsRight`, `ShownIsTheClients`, `KeepsPromise`, `EveryBufferEnds` | A session of the video decoder with both codecs, flushes, resets, any call of the VPU failing and a change of resolution: the counter of free framebuffers promises too much only by the frames it did not hear of, pictures are the client's while it shows them, every buffer ends, and every step is one of BufferExchange. |
| `vpu_load` (violation) | two sessions | `LoadedWhileOpen` | Two sessions of the browser: the first that is destroyed, or whose Initialize fails, unloads the VPU under the other. |

**Bounds.**  In `Package`, `Sysroot` and `Rootfs` the only bounds are the
parameters: which edits a developer makes (`EditKinds`), where runs stop (`Stops`)
and the dependency graph.  Edits, runs and interruptions are unlimited in number
and order.  Three or four packages are enough for the interesting graphs: a shared
dependency reached on two ways (`Diamond`), one that is named both directly and by
another dependency (`Shortcut`, only in the counterexample `sysroot_edited_rule`), a conflict where one of
the two brings what others need (`Rivals`), a dependency that has one of
its own (`Chain`), one that is built with more than it is used with (`BuildTool`), a
package whose name begins with another's (`HostTool`), a program that needs another and a library, of which
it is a subpackage (`RunWith`, `SubOfL`).

`Appleir` has no bound; two keys are enough for one to be forgotten while the other
is current.  `Automountd` has `MaxId` and `MaxMounts`, which only limit what
happens to devices that share a name (scripts are stopped only for the others): two partitions without labels can pile up
numbers and mounts without end, since humount never unmounts a number.  A
volume with number 1, the first that goes wrong, is reached.  `Buffer` is 1 so that
events are dropped.  `SkyChannels` has no bound beyond its broadcasts: sections
are lost and repeated without limit.  `Patchram` has `MaxPending`: the reset is not
sent again while more bytes than an answer has are due, enough for one reset too
many, whose effects are followed to the end.  `VpuAccelerator` has `MaxUpsets`,
one change of the resolution or one frame that a failed call leaves uncounted; failures that
leave none uncounted are unlimited; two framebuffers, of which the VPU keeps back one,
make every test of the queue go both ways.

**Fairness.**  Only the liveness properties need any.

* `RunsEnd`: weak fairness of the step of the script on top of the stack.  A run
  is one chain of processes, each waiting for the next, so the operating system
  schedules the only one that can go on; nothing is assumed of starts, edits or
  interruptions.
* `ScanEnds`: the program goes on when it does not wait (`Proceed`, weak), the
  table it reads is sent (`Sent`, strong, since an overflow may come between),
  and not every section with rows is lost (`ReadRows`, strong).  A carousel is sent
  for ever.
* `Returns`: weak fairness of program, alarm, controller and line, each a process
  or device of its own that nothing holds up.
* `EveryBufferEnds`: the message loop runs its tasks and Flush its loop (weak); the
  client goes on decoding, assigning and reusing pictures (strong, because its calls
  wait for the lock while Flush drains).  Without a client that gives pictures back
  no decoder can go on.

**Deadlock.**  CHECK_DEADLOCK is FALSE in `sky`, `patchram`, `vpu` and `vpu_load`:
programs that end, and a session that is destroyed.

**Antecedents.**  Some properties except what the code does not promise:
`DevNotOlderThanBuild` an archive that missed a change of a file which a need_build
hook watches, since such a hook removes the build stamp alone, and one that was "kept"
because an opkg remove failed before build could delete it; `InstallFresh` a
control file that missed a new version or revision, of which install knows nothing;
`HeldHasTimer` and `PressedIsCurrent` a timer that met the handler; `ListIsCurrent`
and `MountIsRight` devices whose event was dropped and drives of type cd, `MountIsRight`
also those that share a name, what happened to a mounted device while nobody listened
(`missed`) and, for the record in /var/mnts, devices of which a script was stopped (`torn`);
`FileComplete` a section that was lost (and for tunings small sections of the NIT); `InStep` and `Returns` a reset that was
repeated although it had been heard; `ShownIsTheClients`, `EveryBufferEnds` and the
second half of `CountIsRight` a change of the resolution; the last two also frames that a
failed call has kept from the wrapper, and `ShownIsTheClients` those nobody has.  Section 9 says what happens then.

**Violation.**  `vpu_load` and `automount_cd` each show a disagreement between the code
and a comment of the repository; PROJECT.json's findings quote both.

**Counterexamples.**  Seven more configurations are kept to show what happens
where the hypotheses of the theorems about `Package`, `Sysroot` and `Rootfs` fail.  They are not
among the runs of PROJECT.json; in each of them TLC finds one property violated, and
section 9 tells the story.

| Configuration | Module | Instance | Violated |
|---|---|---|---|
| `sysroot_edited_rule.cfg` | `MCSysroot` | `Shortcut`, a static sysroot, edited installdev rules | `DependsAtBuild` |
| `sysroot_indirect.cfg` | `MCSysroot` | `Chain`, a dynamic sysroot, cleaned packages | `DependsAtBuild` |
| `sysroot_leftover.cfg` | `MCSysroot` | built with `BuildTool`, used with `UseAlone`, a dynamic sysroot | `NothingElseAtBuild` |
| `sysroot_rivals.cfg` | `MCSysroot` | `RivalBelow`, as `Rivals` but a dependency of one rival is built with the other, edited installdev rules | `NoConflict` |
| `package_kept.cfg` | `MCPackage` | that of `package_overlay` | `DevDeletedWithStamp` |
| `rootfs_parent.cfg` | `MCRootfs` | `RunC`, four packages, a subpackage that runs without its parent, whose revision is edited | `AllInstalled` |
| `rootfs_patch.cfg` | `MCRootfs` | `RunL`, three packages, a patch that is rewritten in place | `AllInstalled` |

Three configurations repeat passing properties on instances for which there was no room
among the runs: `sysroot_edits` (`SysrootClosed` and `NoConflict` with edited installdev
rules and packages without sources, 2.3 million states), `sysroot_dynamic_plain`
(`DependsInstalled` in a dynamic sysroot where nothing is edited, 6 thousand states) and
`vpu_upsets` (the safety properties of `vpu` with `MaxUpsets` = 2, 1.8 million states).

**Mutants.**  Every property has a mutant: a changed definition, marked `Mutant`
in the module and placed before the one it replaces, under which TLC finds the
property violated.

## 8. Proofs

The provers check, for every value of the constants (`TypeOK` of `Sysroot`, `Rootfs`
and `Automountd` is in no run, since it is proved):

| Theorem | Says |
|---|---|
| `Package_proofs!TypeCorrect` | `Spec => []TypeOK` |
| `Package_proofs!OneChain` | `Spec => []Waiting`: the active scripts are one chain of calls from the one run by hand |
| `Package_proofs!UninstalledFirst` | `Spec => UninstallFirst` |
| `Package_proofs!CurrentInstalled` | `Spec => []InstallCurrent` |
| `Package_proofs!FreshPackage` | `Spec => []PackageFresh` |
| `Package_proofs!FreshRootfs` | `Spec => []RootfsFresh`, for `Layout = "section"` and `~SaveSpace` |
| `Package_proofs!FreshInstall` | `Spec => []InstallFresh`, for `Layout = "flat"` and `~SaveSpace` |
| `Package_proofs!InstalledFromArchive` | `Spec => []InstalledIsPackaged`, for `Stops = "failures"` |
| `Package_proofs!TreeUnderStamps` | `Spec => []StampedTree`, for `Stops = "failures"` |
| `Package_proofs!DevelOfTheBuild` | `Spec => []DevNotOlderThanBuild`, for `Stops = "failures"` and `Kind # "none"` |
| `Sysroot_proofs!TypeCorrect` | `Spec => []TypeOK` |
| `Sysroot_proofs!Closed` | `Spec => []SysrootClosed` |
| `Sysroot_proofs!AlwaysInOrder` | `Spec => [](Ordered /\ Loops)`: scripts work for those that wait for them |
| `Sysroot_proofs!NeverTogether` | `Spec => []NoConflict`, for `Compatible` and `Mutual` conflicts |
| `Sysroot_proofs!DependsAreThere` | `Spec => []DependsInstalled`, for `~Dynamic`, `Compatible` and `Undisturbed` |
| `Sysroot_proofs!DependsAreThereDynamic` | `Spec => []DependsInstalled`, for `Dynamic`, `Compatible` and `Plain` |
| `Sysroot_proofs!NothingElseIsThere` | `Spec => []NothingElseAtBuild`, for `UsedAsBuilt` |
| `Rootfs_proofs!TypeCorrect` | `Spec => []TypeOK` |
| `Rootfs_proofs!Closed` | `Spec => []RootfsClosed` |
| `Rootfs_proofs!NoOthers` | `Spec => []NothingElse` |
| `Rootfs_proofs!ScriptsInOrder` | `Spec => []InOrder`: scripts work for those that wait for them, and leave the files of a package alone whose loop is running |
| `Rootfs_proofs!NothingOutdated` | `Spec => [](done => installed \cap outdated = {})`, for `ParentsNeeded` |
| `Rootfs_proofs!ConfiguredInstalled` | `Spec => []AllInstalled`, for `ParentsNeeded` and `NoRewrites` |
| `Rootfs_proofs!DependsFound` | `Spec => []RunDependsInstalled`, for `ParentsNeeded` and `NoRewrites` |
| `Rootfs_proofs!TargetCurrent` | `Spec => []Current`, for `ParentsNeeded` and `NoRewrites` |
| `Appleir_proofs!TypeCorrect` | `Spec => []TypeOK` |
| `Appleir_proofs!NoUseAfterFreeHolds` | `Spec => []NoUseAfterFree` |
| `Appleir_proofs!QuietWhenClosedHolds` | `Spec => []QuietWhenClosed` |
| `Appleir_proofs!HeldHasTimerHolds` | `Spec => []HeldHasTimer` |
| `Appleir_proofs!PressedIsCurrentHolds` | `Spec => []PressedIsCurrent` |
| `Automountd_proofs!TypeCorrect` | `Spec => []TypeOK` |
| `Automountd_proofs!OwnMountPointHolds` | `Spec => []OwnMountPoint` |
| `Automountd_proofs!ListAlwaysCurrent` | `Spec => []ListIsCurrent` |
| `Automountd_proofs!MountsAlwaysRight` | `Spec => []MountIsRight` |
| `Patchram_proofs!TypesAlways` | `Spec => []TypeOK` |
| `Patchram_proofs!AlwaysInStep` | `Spec => []InStep` |
| `VpuAccelerator_proofs!AccountAlways` | `Spec => []IInv`: each lent buffer is queued, about to be told of, or lost |
| `VpuAccelerator_proofs!Implements` | `Spec => KeepsPromise`: the accelerator implements `BufferExchange` |
| `VpuAccelerator_proofs!PicturesAlways` | `Spec => []VInv`: frames, counters, pictures and messages fit together |
| `VpuAccelerator_proofs!TypesAlways` | `Spec => []TypeOK` |
| `VpuAccelerator_proofs!CountAlways` | `Spec => []CountIsRight` |
| `VpuAccelerator_proofs!ShownAlways` | `Spec => []ShownIsTheClients` |

They rest on `ParametersAssumption`, `DependsAssumption`, `RootfsAssumption`,
`KeysAssumption`, `AutomountdAssumption`, `PatchramAssumption` and
`FramebuffersAssumption` (the parameters have their types, no key has the code 0, the
last record of a firmware file and no other starts the firmware, the framebuffers are
numbered and finitely many, at least one of them must be free).  The two
on DependsInstalled, and ScriptsInOrder, ConfiguredInstalled, DependsFound and
TargetCurrent, need `AcyclicAssumption` too.  Where a theorem
has hypotheses of its own, the table says so, and the argument below why.

*Type.*  `TypeOK` is split in `ControlOK` and `FilesOK`; one lemma per helper
(`GoType`, `CallType`, `RemoveType`, `WriteType`) and one per group of actions.
The clause that `old[a]` only has inputs of `a` needs `Reads` to be monotone
along the chain tree, objects, archive, control (`ReadsNest`).

*OneChain.*  `Waiting` says of every script which scripts may be waiting for it
and at which line they wait.  Every later invariant needs it: that `package` is at
the line after its call of `build` says nothing unless `build` cannot be started
by anybody else meanwhile.

*InstallCurrent, UninstallFirst.*  `InstallInv` adds that a script about to
remove an archive has already uninstalled (`Removing`) and that installed
content that misses an archive shows it in its time (`Installing`): without
it the test `$PACKAGE -nt $STAMP` in install would say nothing of content.

*PackageFresh.*  `FreshInv` follows a change down the chain: a tree that misses a
patch has no unpack stamp or one older than the patch; objects that miss a
change have no build stamp, or one that is older, or an unpack stamp that is
not valid; an archive that misses one has a build stamp newer than itself, or
shows the change in its own time, or some stamp above it is not valid.  This is
the argument why interruptions are harmless: every script removes its stamp
before it touches what the stamp stands for.

*RootfsFresh, InstallFresh.*  `StaleInv` says that a change which rootfs or install
must see and the installed package missed is newer than its control file (`Shown`), that
what opkg is about to install is what package has just made or found good
(`Repacked`), and what rootfs and install know once they have uninstalled what is
stale (`Walked`, `Reinstalled`).  `FreshInv` is needed for the archive.  With
SAVE_SPACE package returns without comparing anything, so that nothing is promised;
rootfs looks for the rules of packages in a section and install for those of the
flat layout, and neither finds the others'.

*InstalledIsPackaged, StampedTree, DevNotOlderThanBuild.*  `StopInv` follows what get,
clean and build do between two removals: a new version is noticed by get and
uninstalled by the clean that unpack calls before anything of it is built
(`Replaced`); both stamps stand without a build directory only until get or clean
has removed the second one (`Treed`); the devel archive goes before a build starts
again (`Rebuilt`), unless an opkg remove fails on the way to its removal: then
nothing looks at the archive again, and it carries the mark "kept" until somebody
deletes it.  Runs that are interrupted between these removals leave what
nobody repairs, hence `Stops = "failures"`; a package without sources has no unpack
stamp, and a namesake that is cleaned takes away the build stamp alone.

*SysrootClosed, RootfsClosed.*  Of `Users`, a least closed set, only two
consequences are needed: it is closed upward (`UsersUpward`), so what opkg leaves
is closed (`RemainingClosed`), and the same lemma serves the toolchain and the
target.  The other steps install a package whose dependencies are there, or
nothing.

*AlwaysInOrder.*  `Needs(p)` is the least closed set over both kinds of dependencies,
`Below(p)` the same without p.  `Ordered` says of any two frames of the call stack that
the upper one works on something in `Needs` of the lower one, and on something in
`Below` if it is an installdev.  With acyclic dependencies an installdev therefore
never works on a package that a script below it works on (`NotBelow`).  This is the
only thing the other proofs know of the frames between two scripts.

*NoConflict.*  An installdev removes its conflicts before it installs its
dependencies.  `Cleared` says that they stay away until opkg runs: what is
installed meanwhile is needed by its package, and `Compatible` says that no package
needs two that conflict.  In the repository only json and jsoncpp, and libev and
libevent, conflict, each declares it of the other, and no meta, with all its optional
dependencies, leads to both of either pair, so that both hypotheses hold there.
Where a dependency of one rival needs the other, the property fails although the
conflicts were removed first (`sysroot_rivals`).  Without `Mutual` a package would come in
beside one that conflicts with it.

*DependsInstalled.*  `Fits(j)` says what the frame j can count on while it waits: what its
loop has gone through is installed, but for the package that the installdev above it
works on; a package that is to be packaged has no archive; one that is to be installed has one.
`FitsKept` says what a step must leave for that (`Kept`), and the proof of each action is that
it leaves it for all frames below (`WaitStep`).  In a static sysroot the danger is a
package that is cleaned, or whose archive is removed, in the middle of somebody's
loop, because opkg takes its users along.  But a build that a loop waits for is of a package
that is not installed, and stays so until opkg installs it: what is installed has its
archive, or is cleaned when its build starts (`Rebuildable`), and no rule is newer than
an archive or a control file (`Untouched`).  An edited installdev rule breaks the
second, a new revision of a package without sources the first.  `Undisturbed` excludes exactly these two; `sysroot_edited_rule` shows what
happens with the first.

In a dynamic sysroot the danger is a build: it empties the toolchain all loops below it
install into.  `Quiet` says that none runs above a loop that installs, and it follows from
`Archives`: once all direct dependencies have archives, so have theirs, because
what has been built found them and nothing takes them away.  That needs `Plain`: nothing
is edited or cleaned by hand, no package shares the stamps of another, and
packages are built with what they are used with.  `sysroot_indirect` shows what cleaning does, and
sharing stamps would do the same; where build dependencies leave out devel dependencies
the archives of the latter are not made first (no meta of the repository does so).
Interruptions are allowed in both theorems.

*NothingElseAtBuild.*  After the toolchain has been emptied, whatever is installed before
the rule runs is in `Below` of the package (`OnlyNeeded`): it is installed by an
installdev, and `Ordered` places that.  `UsedAsBuilt` makes what is needed the same as
what is used (`NeedersUse`); `sysroot_leftover` shows what happens otherwise.

*NothingElse.*  `WalkInv` says that once rootfs has removed what is stale, only
wanted packages are installed and every `install` on the call stack works on a
wanted package, with the rest of its loop among what that package needs.  It
is needed because a later step may install what an earlier one removed.  What a
step leaves on the stack is in `Scripts_proofs` (`GotoElems`, `CallElems`,
`ReturnElems`); that only install calls install is in `StepFrames`.

*ScriptsInOrder.*  What `build`, `package` or `install` has found out about its own
package before its loop must survive the scripts the loop calls, which unpack, clean,
build, package, uninstall and install others.
`Called` says which frame may be above which, and
where that one waits; from it `Ordered` follows, that each frame works on something
the frames below it use, and on another package once these are in their loops: with
acyclic dependencies nothing uses what uses it (`NeverItself`).  So a frame only
touches its own package (`TouchesTop`), and `Fit`, what each frame counts on, is
left alone below it (`FitsKept`): what is built has no stamp, what is packaged is built
and has no archive, what is installed has an archive that is up to date and is not in
the target.  `Files` is what makes the tests of the scripts mean something: what has an
archive has a stamp, and nothing is newer than a file that is not there.

*Current.*  rootfs compares control files with the metas and rules of their own packages
and sees neither stamps, archives nor parents.  That this is enough
is `Fresh`: whatever is installed is up to date down to its sources (`UpToDate`), or it
uses something whose control file is old (`Doomed`), which rootfs will uninstall, and
opkg takes its users along (`FreshStale`).  An edit that makes a package stale makes
its control file old too (`FreshEdit`), except for two.  A patch
rewritten in place is noticed by nothing before the package is built again: hence
`NoRewrites`.  A revision of the parent gives the archive of a subpackage another name, but
makes only the control file of the parent old; the subpackage is doomed if it uses its
parent: hence `ParentsNeeded`, and `OldInv` follows that through the run.  The second suffices
for `NothingOutdated`, where only versions matter.

*AllInstalled, RunDependsInstalled.*  After the removals nothing is doomed any more, hence what is
installed is up to date, and a script that comes to such a package finds nothing to do: no
unpack, build, package or install removes anything (`OnlyGrows`).  From then on the
target only grows, and so does what the loops have gone through: `Walked` for those of
rootfs and `Fetch` for those of install, where the packages that are being installed
are counted too (`Installing`), since install calls itself and ticks a package off
before it is in.  In the second loop of rootfs install is never called, and again nothing
is removed.

TLC finds both properties violated where either hypothesis is dropped (`rootfs_patch`,
`rootfs_parent`).

*Appleir.*  `IInv` is `TypeOK`, `Phases` and, until handler and timer met,
`Together`.  `Phases` says where each of the three can be while the process is at
each line: once the request has been killed in closing there is no handler, once
the timer has been deleted too there is none of them; while nobody has the device
open all is quiet.  Disconnecting kills in the other order, and is safe only
because `Phases` says that by then there is nothing left to kill.
`Together` relates what is pressed to the current key, and the timer to both, at
every line of the handler and of the timer's function.

*Automountd.*  `Distinct(vlist)` says of any two volumes that neither device nor
mount point is the same.  Adding a volume keeps it because its number is above
that of every other of its name (`UniqueIdAbove`), which needs that a finite set of
numbers that is not empty has a greatest (`Greatest`): TLA+'s CHOOSE would
otherwise be any value.  It follows from the theorem that the strict subset
ordering of a finite set is well-founded.  Removing a volume shifts the ones behind
it, and a change does both in one step.

*ListIsCurrent, MountIsRight.*  `Follows` says what the events that wait tell of each
device none was dropped of: the last one is what the device holds now (`LastTells`), an
addition comes right after a removal, or finds the device neither listed nor left to
scan (`AdditionFollows`), and where none waits and the scan is past the list has the
device under its present name, or not at all (`ListFollows`).  Without the second a
volume would be listed twice; without the first the list would be right only for a
moment.  `MountsFollow` needs `ListFollows` and names no other device has (`Alone`), because
humount is called with a name: such a device is mounted at most once and the daemon
knows where (`Tidy`), where its volume is once it is listed, and nowhere else while the
daemon does not run or has yet to come to it.  A crash keeps what is mounted, so that
the part about the daemon that does not run carries the proof over restarts.
A script that is stopped leaves a mount without a line or a line without a mount, so that what
the invariant says of `/var/mnts` is said of devices outside `torn` only; what it says of
the mount survives, since the daemon lists the volume all the same, and a humount that is
stopped before its umount puts the device into `missed`.
`SameFor` is what a step for one device leaves of all the others.

*InStep.*  First, what the program does is a sequence that the options determine, and
the proof needs which step follows which (`Paired`): a change of speed only after
the command that makes the controller change its own, and always after it; the two bytes
only after the first command of a download; no change of speed before the download ends
where use_baudrate_for_download is not given.  It is built part by part
(`ClosedConcat`, `PatchramPart`, `BaudratePart`, `StepsPaired`) and holds of what is
left after each step (`PairedTail`).  Then `Together` says what is on the line at every
moment: between two commands nothing but the two bytes, and the controller's speed is
the one the program will have next (`Between`); while an answer is read, either the
command is still on its way or was not heard (`Waiting`), or exactly the bytes still to
be read are coming, the third of all says how many, and the controller has the
speed it has after that command (`Answered`).

*KeepsPromise.*  Every step of the accelerator must be a step of `BufferExchange`
under the mapping of `due`, and for that the invariant is an account of buffers
(`Accounts`): those lent and not lost are exactly those in the queue and those
whose end is posted, no buffer is in both, and none is in either twice.  Without
it a buffer could end twice, or end after it was lost.  `Awaited` adds that at
most one message tells of something done, and only while the client waits: without
it the message of a flush could pass for that of a reset.  What the VPU answers
matters only in what is posted (`InputForms`): the end of the buffer first and
at most one other message, or nothing.  `Posting`, `PostingDone` and `HeardDue` say
what posting and hearing do to the ends, the ids they name and what is due;
`QueueStep` says that one call moves at most one buffer from the queue.  The types
of the decoder are not needed: the promise holds whatever the counter of free
framebuffers says.

*CountIsRight, ShownIsTheClients.*  What the wrapper counts is never what the VPU
does at that moment: between the answer of the library and the last counter it is
one or two frames behind.  `Tally(d, p, q)` therefore says how far off the counters
are, with p frames the VPU has taken and q it shows that have not been counted yet,
and one lemma per operation (`Recalculated`, `Decremented`, `Fetched`, `Displayed`,
`Taken`, `Put`) moves p and q; the lemmas `Counts...` follow the code from answer to
return, where both are 0.  Frames in use that belong to an earlier resolution are never
given back, and frames that a failed call has kept from the wrapper are never counted:
`Leaked` is the room the inequalities need for both, and 0 until one of them happens.
What the client has to give back is `Owed`, the frames shown without those that nobody
has; failed calls need no argument of their own about pictures, because none is posted.  That the counter never goes below what it can pay for needs the
test of the queue, hence the assumption that at least one framebuffer must be free.
After a reset the counter may be wrong, but the next buffer calculates it from
the frames in use, which the reset leaves right.  `Yours` relates the frames owed to
the pictures held and to the messages on their way: the ids of one set of pictures
differ, so that every picture is one frame, and the framebuffer that
ReusePictureBuffer finds by its id is the one that is shown.  `Wanted` bounds how
often the client has been asked for pictures; with it a second set of pictures, whose
ids would overwrite those of the frames shown, cannot come before the resolution changes.

Out of the provers' reach, and left to TLC: `RunsEnd`, `ScanEnds`, `Returns` and
`EveryBufferEnds` (liveness under fairness), and the safety properties of
`SkyChannels`, `TypeOK`, `NeverWrong` and `FileComplete`.  The program reads a section
as a whole: its descriptors are folded into the tables, and the tuning of one depends on
how many rows the ones before it added.  What such a fold computes for every section is
induction over data; `FileComplete` moreover depends on which sections are sent (`Dense`).
No other proof is by induction on data: loops are followed one turn at a time.

## 9. What the checks show

* `PackageFresh`, `InstallCurrent` and `UninstallFirst` hold with interruptions
  anywhere.  The order of the removals in clean, get, unpack and build matters.
* `DevNotOlderThanBuild` and `StampedTree` hold when runs stop only where a
  command fails, with one exception (`package_kept`): let the build rule be edited, with the
  package installed and both archives there.  build removes its stamp (build:48),
  unpackage uninstalls the package first (build:49), and opkg remove fails
  (uninstall:13).  unpackagedev (build:50) is never reached.  The next build finds no stamp,
  skips this part and builds; packagedev, which compares its archive with its own rule
  only (packagedev:37), keeps the archive of the old build.  Interrupted between scripts/build:48 and 50, build leaves an
  archive of the old build that nobody will look at again; between scripts/get:240
  and 242, the old build directory counts as the new one.  Nothing in the
  repository promises more.  A package without sources is another exception:
  build's stamp can be removed by cleaning a namesake while its devel archive
  stays, so `DevNotOlderThanBuild` is checked and proved for packages with sources.
* In a static sysroot dependencies are installed when a rule runs, as long as no
  installdev rule was edited, nor the revision of a package without sources.
  Otherwise (`sysroot_edited_rule`) they need not be: let x be built with a and b, and
  a with b, and let the rule of b be edited.  In build x, installdev of a finds it
  installed; installdev of b calls unpackagedev (installdev:40), for which opkg
  removes a along with b, and installs b again.  x's rule runs without a, while
  DOCS/package-format.txt:79 says that build dependencies "will be packaged and installed
  to sysroot before the package is built".
* In a dynamic sysroot dependencies are there, provided nothing was cleaned or edited in
  between.  "We create all the dev packages before installing them because, when using
  dynamic sysroot, a package build could clear the toolchain" (build:72-74), but these
  are the packages of the direct dependencies only.  Let x be built with v and u, and u
  with a (`sysroot_indirect`).  After `clean a`, build x finds the archives of v and u,
  installs v, and then u, which has a built; that empties the toolchain, and x's rule
  runs without v.  The loop of installdev undoes itself in the same way, and there
  opkg refuses the package.
* In a dynamic sysroot nothing else is there, whatever was edited or cleaned, where
  packages are used with what they are built with.  Where they are not (GLib,
  gdk-pixbuf, the compilers) there may be more (`sysroot_leftover`): build empties the toolchain
  before it has the archives made, and what the build of a dependency needed stays
  in it for x's rule.  So "rebuild the sysroot from scratch at each package
  compilation", which "helps to catch wrong depends" (config/Kconfig.main:226-227),
  does not catch a package that uses gettext and declares only GLib.
* Every run in a dynamic sysroot that is not interrupted ends.
* rootfs ends with exactly the configured packages and what they need, up to
  date down to their sources, after any history of edits that it compares itself and of
  interruptions (`rootfs_walk`).
* A patch rewritten in place is not among them (`rootfs_patch`).  Let l be installed and one of its
  patches be rewritten.  rootfs finds nothing to remove and passes l; when it comes to
  package c, which is built with l, installdev of l builds l again, and unpack
  cleans it, which uninstalls it (unpack:64-68, clean:37).  rootfs ends well without l.
* Nor is a revision of a parent that its subpackage does not need to run
  (`rootfs_parent`), like pgsql of libpq or samba of libsmbclient.  Such a parent is
  added to what the subpackage is built with only (config/functions:208-214).  Let the
  programs a and b run the subpackage c, a and c be installed, the parent be revised
  and b be configured.  rootfs, which compares c with its own meta, removes nothing and
  passes a.  package of b makes a new archive of c, and install of b finds it newer
  than the control file and uninstalls c, for which opkg removes a (install:38).
  c comes back, a does not, and rootfs ends well; the next run installs a.  If some package needs both a and c to run, its install
  loop can undo itself in the same way, and then opkg refuses the package.
* The removal of a patch, and the unpack rule, are compared with nothing by
  unpack (unpack:64); rootfs, which does look at the rule (rootfs:24, 35),
  uninstalls such a package and installs the old archive again.
* The flags of save_space outlive the archives they stand for: with SAVE_SPACE
  the build directory can be deleted although an archive is missing
  (save_space:63).  No run sets SAVE_SPACE; the proofs of UninstallFirst and
  InstallCurrent cover it.
* appleir: with handler and timer on two processors a key can stay pressed until
  the next one, because `current_key` is tested, used and cleared in three steps.
  Everything else holds in every interleaving.  A key that was pressed when the
  device was closed is released only by the next key or by unplugging.
* automountd: the list is right whenever the daemon waits, and a device with names
  of its own is mounted where it should be, through crashes, restarts and scripts that
  are stopped.  A drive of type "cd" is the exception (finding `automount_cd`): the
  comment says "only care about CDs" (automountd.c:597), the test below it is
  true of every other type, and the disc in such a drive is neither listed nor mounted.
  When the service is stopped between a mount and its line in /var/mnts (hmount:16) the
  mount stays without one: the next daemon tries to mount the device again, which fails
  where it is mounted already, and `&&` skips the line.  Devices
  that share a name are not: humount is called with the name without its number
  (automountd.c:641), so that the removal of the second of two unmounts the first.
  An event that finds the socket full leaves the list wrong until the next one.
* get_channels_sky: names and tunings never belong to another service, whatever is
  lost.  That the file is complete needs NIT sections with at least four services of
  their own: each section counts as a repetition, and a quarter of repetitions ends
  the scan.
* brcm-patchram-plus: program and controller stay in step through downloads,
  restarts and changes of speed, unless a reset is repeated that the controller had
  heard and only not answered yet, or the two bytes of an old controller come one by
  one; from then on each answer is read as that of the next command, and the speed
  is changed too early.
* Video decoder: as long as no call of the VPU fails, every buffer ends, and the counter of
  free framebuffers, which never promises more than is free, is right except between a reset
  and the next buffer, after the VPU flushed itself, and after a change of resolution.  When
  VPU_DecGetConsumedFrameInfo fails the wrapper returns before it counts the frame
  (imxvpucodec_fslwrapper.c:829-835, 871), and when VPU_DecGetOutputFrame or
  VPU_DecOutFrameDisplayed fails (952, 1029) nobody has the frame and the VPU never gets
  it back; the counter then promises too much by the frames it missed, and no more.  That change leaves pictures of the old resolution
  in output_picture_buffers_ and frames in use that no longer exist; with VP8 the
  decode that reports it writes to user data that has just been freed.  A buffer
  whose decoding fails never ends, and what is queued behind it waits for the next
  call.  Flush decodes one queued buffer before it drains.
* The counter of loads never exceeds one: the first session of several that is
  destroyed, or whose Initialize fails after its load (imxvpu_video_decode_accelerator.cc:
  139-150, the case of the trace), unloads the VPU under the others (finding `vpu_load`).

## 10. Not modelled

* What the files contain.  Extraction, patching, compiling and packing are steps
  that succeed or fail.
* Two files with the same modification time: successive writes are assumed to
  have different times, except for the control file, which opkg gives the time of
  the archive (`InstallTouch`).
* Two builds at the same time in one tree: the scripts do not support it.
* Whole-tree `clean`, `get` for all packages, debug archives, use flags.
* get-opk and overlays: one process alone with a server, and one pass of links and
  copies; their hazards are listed.  Kconfig generation, images, flashing, CI,
  reports and the packages themselves: text generation, straight-line copying or
  third-party code, without state of their own to check.
* automountd: loop and ram devices, which it skips, the links in `/root/mnt`, how
  names and commands are put together.
* get_channels_sky: character sets, rounding, the format of a line, tables that are
  full, a first read that overflows an empty buffer.
* brcm-patchram-plus: the parameters of commands, the part for Android, failing reads
  and writes, what is served after `--enable_hci`.
* Video decoder: memory that cannot be had except for the framebuffers, and what is
  then leaked; the size of frames (imxvpu_video_decode_accelerator.cc:661-706), the
  copy to textures, which buffer's user data is associated with which frame, memory
  that imx_vpu_dec_register_framebuffers cannot get once the VPU has the framebuffers,
  what an unloaded VPU does.  The
  library and the client are external: modelled by what the code relies on.
* Hazards that no property covers: the loop of get_binary in get-opk that nothing
  leaves (get-opk:34); the flag dl-from-repo-not-ok, which all packages share
  (build:18); a subpackage without a build rule, whose stamp outlives the build of
  its parent (build:24); cleaning, in rootfs, of a namesake the loop has passed
  (clean:31); two trees that share /tmp/openbricks (config/path:66); files with
  equal times (install:60); a signal between the test of udev_exit and select
  (automountd.c:761); full tables (get_channels_sky.c:827); a controller that hears
  a command and never answers (brcm_patchram_plus.c:579).
* The other code under packages/ is third-party, generated (the tables of elfutils'
  libcpu) or an interface without behaviour (amdxvba.h).
