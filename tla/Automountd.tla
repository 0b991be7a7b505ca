----------------------------- MODULE Automountd -----------------------------
(***************************************************************************)
(* packages/system/automountd: a daemon that mounts block devices when     *)
(* udev reports them, and the scripts hmount and humount it calls.         *)
(*                                                                         *)
(* The daemon opens its event socket, then enumerates the devices there    *)
(* are, then follows the events.  Its list of volumes decides what a later *)
(* event does; the mount table, /mnt and /var/mnts outlive it.  systemd    *)
(* starts it again when it ends (unit/automountd.service).                 *)
(*                                                                         *)
(* An event carries the properties the device had when it was sent, and    *)
(* waits while the daemon mounts something else; the enumeration reads the *)
(* properties of the moment.  The socket holds Buffer events and drops     *)
(* what comes when it is full.                                             *)
(*                                                                         *)
(* Left out: loop and ram devices, which scan and events both skip, and    *)
(* the links in /root/mnt, which are made once per name and never removed. *)
(***************************************************************************)
EXTENDS Naturals, Sequences, FiniteSets

CONSTANTS
    Devices,
    Kind,      \* "partition" or "dm"; "cd" and "optical" drives; "disk"
    Media,     \* what a device can hold
    Blank,     \* no file system, no disc
    Absent,    \* the device is not there
    Label,     \* the name the daemon makes for a medium
    Disc,      \* the type of a medium in an optical drive
    Foreign,   \* media that mount cannot mount
    Fits,      \* what each device can hold in this instance
    Buffer,    \* events that fit in the socket
    MaxId,     \* bound: no device that shares names comes while a volume has
               \* this number
    MaxMounts  \* bound: nor while more than this many mounts are of devices that
               \* share names; the daemon does not stop while there are any

Contents == Media \cup {Blank, Absent}

ASSUME AutomountdAssumption ==
    /\ Kind \in [Devices -> {"partition", "dm", "cd", "optical", "disk"}]
    /\ Blank # Absent /\ Media \cap {Blank, Absent} = {}
    /\ Disc \in [Media -> {"CD", "VCD", "SVCD", "CDDA", "DVD", "BLURAY"}]
    /\ DOMAIN Label = Media
    /\ Foreign \subseteq Media
    /\ Fits \in [Devices -> SUBSET (Media \cup {Blank})]
    /\ Buffer \in Nat \ {0} /\ MaxId \in Nat /\ MaxMounts \in Nat

VARIABLES
    medium,    \* [Devices -> Contents]
    queue,     \* events in the socket: [action, dev, medium]
    pc,        \* the daemon: "down", "scan", "test", "select", "blocked"
    exit,      \* udev_exit
    todo,      \* the devices of the enumeration that are left
    vlist,     \* the volumes: [dev, name, id, type]
    mounts,    \* the mount table: [dev, mp], the last on a mount point on top
    dirs,      \* the directories in /mnt
    mnts,      \* the lines of /var/mnts: [dev, mp]
    lost,      \* (history) devices with an event dropped since the daemon started
    missed,    \* (history) devices with names of their own that changed when the
               \* daemon did not know their mount
    torn       \* (history) devices of which a script was stopped, until nothing is
               \* mounted or recorded of them

daemon == <<pc, exit, todo, vlist>>
files == <<mounts, dirs, mnts>>
vars == <<medium, queue, daemon, files, lost, missed, torn>>

Init ==
    /\ medium \in [Devices -> {Absent}]
    /\ queue = <<>> /\ pc = "down" /\ exit = FALSE /\ todo = {} /\ vlist = <<>>
    /\ mounts = <<>> /\ dirs = {} /\ mnts = {} /\ lost = {} /\ missed = {} /\ torn = {}

----------------------------------------------------------------------------
\* The list of volumes and the mount table

Elems(s) == {s[i] : i \in DOMAIN s}
Listed(d) == \E v \in Elems(vlist) : v.dev = d
Last(S) == CHOOSE i \in S : \A j \in S : j <= i
Without(s, n) == [i \in 1 .. (Len(s) - 1) |-> IF i < n THEN s[i] ELSE s[i + 1]]

\* No other device can have the name of anything d can hold.
Alone(d) ==
    \A e \in Devices \ {d} : \A m \in Fits[d] \cap Media, n \in Fits[e] \cap Media :
        Label[m] # Label[n]

\* The devices with names of their own that are mounted.
Known == {d \in Devices : Alone(d) /\ \E e \in Elems(mounts) : e.dev = d}

\* The mounts of the others.
Shared == {i \in DOMAIN mounts : ~Alone(mounts[i].dev)}

\* What add_device and remove_device change, and the mounts on a mount point.
World == [vlist |-> vlist, mounts |-> mounts, dirs |-> dirs, mnts |-> mnts]
On(w, mp) == {i \in DOMAIN w.mounts : w.mounts[i].mp = mp}

\* handle_partition, handle_dm_disk, handle_cdrom: whether a device becomes a
\* volume.  add_device calls handle_cdrom when ID_TYPE is something else than cd
\* (automountd.c:598, see CdsAreListed), and of those an optical drive alone has
\* ID_CDROM_MEDIA.
IsVolume(d, m) ==
    /\ Kind[d] \in {"partition", "dm", "optical"}
    /\ m \in Media

TypeOf(d, m) == IF Kind[d] = "optical" THEN Disc[m] ELSE "HDD"

Same(l, name) == {v \in l : v.name = name}

\* volume_set_unique_name: a number above that of every volume of the same name;
\* number 0 is not shown.
UniqueIdCounted(l, name) ==   \* Mutant: how many there are.
    Cardinality(Same(l, name))

UniqueId(l, name) ==
    LET ids == {v.id : v \in Same(l, name)} IN
    IF ids = {} THEN 0 ELSE 1 + (CHOOSE n \in ids : \A k \in ids : k <= n)

MountPoint(v) == <<v.name, v.id>>

\* The name humount is called with: v->name, without the number.
UnmountPoint(v) == <<v.name, 0>>

Mountable == {"HDD", "CD", "VCD", "SVCD"}

\* mount: what is in the device now counts, and nothing is mounted over itself.
MountWorks(w, d, m, mp) ==
    LET over == On(w, mp) # {} /\ w.mounts[Last(On(w, mp))].dev = d
    IN {ok \in BOOLEAN : IF ok THEN medium[d] \in Media \ Foreign /\ ~over
                               ELSE medium[d] # m \/ m \in Foreign \/ over}

Entry(v) == [dev |-> v.dev, mp |-> MountPoint(v)]

\* mkdir, mount and the line in /var/mnts.
Made(w, v) == [w EXCEPT !.dirs = @ \cup {MountPoint(v)}]
Mounted(w, v) == [Made(w, v) EXCEPT !.mounts = Append(@, Entry(v))]
Noted(w, v) == [Mounted(w, v) EXCEPT !.mnts = @ \cup {Entry(v)}]

\* hmount: the directory stays when the mount fails.
Hmount(w, v, m) ==
    IF v.type \notin Mountable THEN {w}
    ELSE {IF ok THEN Noted(w, v) ELSE Made(w, v) : ok \in MountWorks(w, v.dev, m, MountPoint(v))}

\* hmount stopped before any of its commands, or between the mount and the line.
HmountStopped(w, v, m) ==
    IF v.type \notin Mountable THEN {}
    ELSE {w, Made(w, v)} \cup
         {Mounted(w, v) : ok \in MountWorks(w, v.dev, m, MountPoint(v)) \cap {TRUE}}

\* umount -l takes the top of the mount point; rmdir works on an empty directory.
Unmounted(w, mp) ==
    IF On(w, mp) = {} THEN w ELSE [w EXCEPT !.mounts = Without(@, Last(On(w, mp)))]
Empty(w, mp) == mp \in w.dirs /\ \A e \in Elems(w.mounts) : e.mp # mp
Removed(w, mp) == IF Empty(w, mp) THEN [w EXCEPT !.dirs = @ \ {mp}] ELSE w

\* humount: the line is only removed when rmdir worked.
Humount(w, v) ==
    IF v.type \notin Mountable THEN w
    ELSE LET mp == UnmountPoint(v)
             u == Unmounted(w, mp)
         IN [Removed(u, mp) EXCEPT !.mnts = IF Empty(u, mp) THEN {e \in @ : e.dev # v.dev} ELSE @]

\* humount stopped after umount or after rmdir.
HumountStopped(w, v) ==
    IF v.type \notin Mountable THEN {}
    ELSE LET u == Unmounted(w, UnmountPoint(v)) IN {u, Removed(u, UnmountPoint(v))}

\* add_device: the volume is listed whether or not it could be mounted.
IsNew(w, d, m) == IsVolume(d, m) /\ \A v \in Elems(w.vlist) : v.dev # d
NewVolume(w, d, m) ==
    [dev |-> d, name |-> Label[m], type |-> TypeOf(d, m),
     id |-> UniqueId(Elems(w.vlist), Label[m])]
Enlisted(w, v) == [w EXCEPT !.vlist = Append(@, v)]

AddDevice(w, d, m) ==
    LET v == NewVolume(w, d, m)
    IN IF IsNew(w, d, m) THEN Hmount(Enlisted(w, v), v, m) ELSE {w}

AddStopped(w, d, m) ==
    LET v == NewVolume(w, d, m)
    IN IF IsNew(w, d, m) THEN HmountStopped(Enlisted(w, v), v, m) ELSE {}

\* remove_device: humount is run for the first volume of the device, and that is
\* taken out of the list.
Mine(w, d) == {i \in DOMAIN w.vlist : w.vlist[i].dev = d}
First(w, d) == CHOOSE i \in Mine(w, d) : \A j \in Mine(w, d) : i <= j
Unlisted(w, d) ==
    IF Mine(w, d) = {} THEN w ELSE [w EXCEPT !.vlist = Without(@, First(w, d))]

RemoveDevice(w, d) ==
    IF Mine(w, d) = {} THEN w ELSE Unlisted(Humount(w, w.vlist[First(w, d)]), d)

RemoveStopped(w, d) ==
    IF Mine(w, d) = {} THEN {}
    ELSE {Unlisted(x, d) : x \in HumountStopped(w, w.vlist[First(w, d)])}

Becoming(w) ==
    /\ vlist' = w.vlist /\ mounts' = w.mounts
    /\ dirs' = w.dirs /\ mnts' = w.mnts

\* handle_device, for an event or for a device of the enumeration.
HandleDevice(action, d, m) ==
    /\ \E w \in CASE action = "add" -> AddDevice(World, d, m)
                  [] action = "change" -> AddDevice(RemoveDevice(World, d), d, m)
                  [] action = "remove" -> {RemoveDevice(World, d)} : Becoming(w)
    /\ torn' = {e \in torn : \E r \in Elems(mounts') \cup mnts' : r.dev = e}

\* The same when systemd stops the script it waits for, which belongs to the unit
\* like the daemon; of a change it may stop either or both.  A script that does not
\* come to its umount leaves a mount that the daemon does not know any more.
StopDevice(action, d, m) ==
    LET add(w) == IF action = "change" THEN AddDevice(w, d, m) \cup AddStopped(w, d, m) ELSE {w}
        cut == CASE action = "add" -> AddStopped(World, d, m)
                 [] action = "change" -> AddStopped(RemoveDevice(World, d), d, m)
                 [] action = "remove" -> {}
    IN /\ torn' = torn \cup {d}
       /\ \/ /\ \E w \in cut : Becoming(w)
             /\ UNCHANGED missed
          \/ /\ action # "add"
             /\ \E x \in RemoveStopped(World, d) : \E w \in add(x) : Becoming(w)
             /\ UNCHANGED missed
          \/ /\ action # "add"
             /\ \E v \in Elems(vlist) : v.dev = d /\ v.type \in Mountable
             /\ \E w \in add(Unlisted(World, d)) : Becoming(w)
             /\ missed' = missed \cup ({d} \cap Known)

----------------------------------------------------------------------------
\* The daemon

\* The monitor receives; the names of the devices that are there are read.
Start ==
    /\ pc = "down" /\ pc' = "scan"
    /\ todo' = {d \in Devices : medium[d] # Absent}
    /\ lost' = {}
    /\ UNCHANGED <<medium, queue, exit, vlist, files, missed, torn>>

\* A device that has gone meanwhile is skipped.
ScanDevice ==
    /\ pc = "scan"
    /\ \E d \in todo :
        /\ todo' = todo \ {d}
        /\ IF medium[d] = Absent THEN UNCHANGED <<vlist, files, torn>>
                                 ELSE HandleDevice("add", d, medium[d])
    /\ UNCHANGED <<medium, queue, pc, exit, lost, missed>>

ScanEnds ==
    /\ pc = "scan" /\ todo = {} /\ pc' = "test"
    /\ UNCHANGED <<medium, queue, exit, todo, vlist, files, lost, missed, torn>>

\* while (!udev_exit); a signal that comes from here to select is not noticed
\* before the next event.
TestExit ==
    /\ pc = "test" /\ ~exit /\ pc' = "select"
    /\ UNCHANGED <<medium, queue, exit, todo, vlist, files, lost, missed, torn>>

Block ==
    /\ pc = "select" /\ queue = <<>> /\ pc' = "blocked"
    /\ UNCHANGED <<medium, queue, exit, todo, vlist, files, lost, missed, torn>>

Receive ==
    /\ pc \in {"select", "blocked"} /\ queue # <<>>
    /\ pc' = "test"
    /\ queue' = Tail(queue)
    /\ HandleDevice(Head(queue).action, Head(queue).dev, Head(queue).medium)
    /\ UNCHANGED <<medium, exit, todo, lost, missed>>

\* SIGTERM while a script runs: the script ends where it is, the daemon notices the
\* signal after it has handled the device.  (A crash that takes the script too is
\* this and then Crash.)  Bounds: not for a device that shares names, nor while
\* one is mounted.
StopScript ==
    /\ Shared = {} /\ exit' = TRUE
    /\ \/ /\ pc = "scan"
          /\ \E d \in todo :
                /\ medium[d] # Absent /\ Alone(d) /\ todo' = todo \ {d}
                /\ StopDevice("add", d, medium[d])
          /\ UNCHANGED <<queue, pc>>
       \/ /\ pc \in {"select", "blocked"} /\ queue # <<>>
          /\ Alone(Head(queue).dev)
          /\ pc' = "test" /\ queue' = Tail(queue)
          /\ StopDevice(Head(queue).action, Head(queue).dev, Head(queue).medium)
          /\ UNCHANGED todo
    /\ UNCHANGED <<medium, lost>>

\* What the process had is gone; nothing is unmounted.  The events in the socket
\* are lost, which matters to what they would have unmounted.
Gone ==
    /\ Shared = {}
    /\ pc' = "down" /\ exit' = FALSE /\ todo' = {} /\ vlist' = <<>> /\ queue' = <<>>
    /\ missed' = missed \cup ({e.dev : e \in Elems(queue)} \cap Known)
    /\ UNCHANGED <<medium, files, lost, torn>>

Exit == pc = "test" /\ exit /\ Gone

Crash == pc # "down" /\ Gone

\* SIGTERM: select returns only if it was waiting.
Terminate ==
    /\ pc # "down" /\ exit' = TRUE
    /\ pc' = IF pc = "blocked" THEN "test" ELSE pc
    /\ UNCHANGED <<medium, queue, todo, vlist, files, lost, missed, torn>>

----------------------------------------------------------------------------
\* The devices.  udev sends an event to the daemon's socket if there is one and
\* it has room.
SendAfterScan(action, d, m) ==   \* Mutant: the monitor receives after the scan.
    LET room == pc \notin {"down", "scan"} /\ Len(queue) < Buffer
        full == pc \notin {"down", "scan"} /\ ~room
        unlisted == d \in Known /\ (pc = "down" \/ d \in todo)
    IN /\ queue' = IF room THEN Append(queue, [action |-> action, dev |-> d, medium |-> m])
                            ELSE queue
       /\ lost' = IF full THEN lost \cup {d} ELSE lost
       /\ missed' = IF (full /\ Alone(d)) \/ unlisted THEN missed \cup {d} ELSE missed

Send(action, d, m) ==
    LET room == pc # "down" /\ Len(queue) < Buffer
        full == pc # "down" /\ ~room
        unlisted == d \in Known /\ (pc = "down" \/ d \in todo)
    IN /\ queue' = IF room THEN Append(queue, [action |-> action, dev |-> d, medium |-> m])
                            ELSE queue
       /\ lost' = IF full THEN lost \cup {d} ELSE lost
       /\ missed' = IF (full /\ Alone(d)) \/ unlisted THEN missed \cup {d} ELSE missed

Becomes(action, d, m) ==
    /\ medium' = [medium EXCEPT ![d] = m]
    /\ Send(action, d, m)
    /\ UNCHANGED <<daemon, files, torn>>

Plug(d, m) ==
    /\ medium[d] = Absent /\ m \in Fits[d]
    /\ Alone(d) \/ (Cardinality(Shared) <= MaxMounts /\ \A v \in Elems(vlist) : v.id < MaxId)
    /\ Becomes("add", d, m)

\* Another disc, a new file system, or only something written.
Change(d, m) ==
    /\ medium[d] # Absent /\ m \in Fits[d]
    /\ Alone(d) \/ (Cardinality(Shared) <= MaxMounts /\ \A v \in Elems(vlist) : v.id < MaxId)
    /\ Becomes("change", d, m)

Unplug(d) == medium[d] # Absent /\ Becomes("remove", d, Absent)

Next ==
    \/ Start \/ ScanDevice \/ ScanEnds \/ TestExit \/ Block \/ Receive
    \/ StopScript \/ Exit \/ Crash \/ Terminate
    \/ \E d \in Devices, m \in Contents : Plug(d, m) \/ Change(d, m)
    \/ \E d \in Devices : Unplug(d)

Spec == Init /\ [][Next]_vars

----------------------------------------------------------------------------
\* Every variable has its type, and only a running daemon has volumes, events or
\* devices to scan.
TypeOK ==
    /\ medium \in [Devices -> Contents]
    /\ \A e \in Elems(queue) :
          e.action \in {"add", "change", "remove"} /\ e.dev \in Devices /\ e.medium \in Contents
    /\ Len(queue) <= Buffer
    /\ pc \in {"down", "scan", "test", "select", "blocked"} /\ exit \in BOOLEAN
    /\ todo \subseteq Devices /\ lost \subseteq Devices /\ missed \subseteq Devices
    /\ torn \subseteq Devices
    /\ \A v \in Elems(vlist) : v.dev \in Devices /\ v.id \in Nat
    /\ \A e \in Elems(mounts) \cup mnts : e.dev \in Devices
    /\ todo # {} => pc = "scan"
    /\ pc = "down" => vlist = <<>> /\ queue = <<>> /\ ~exit

AtRest == pc = "blocked" /\ queue = <<>>

\* No two volumes of the list would be mounted on the same directory, in whatever
\* order volumes of the same name came and went, and no device is listed twice,
\* although one that comes during the scan is reported twice.
OwnMountPoint ==
    \A i, j \in DOMAIN vlist :
        i # j => /\ MountPoint(vlist[i]) # MountPoint(vlist[j])
                 /\ vlist[i].dev # vlist[j].dev

\* What a user expects to find in the list: a file system on a partition or on a dm
\* device, a medium in a drive.
Wanted(d) == Kind[d] # "disk" /\ medium[d] \in Media

\* Whenever the daemon waits for the next event its list is that of the devices
\* there are, with the names of what is in them: nothing is forgotten between
\* enumerating and following, after a restart, or because events tell of a past
\* state.  Only an event the socket had no room for leaves it wrong, and CD drives
\* are left to CdsAreListed.
ListIsCurrent ==
    AtRest => \A d \in Devices \ lost :
        Kind[d] # "cd" =>
            {v.name : v \in {u \in Elems(vlist) : u.dev = d}} =
                IF Wanted(d) THEN {Label[medium[d]]} ELSE {}

\* automountd.c:597, "only care about CDs": of the drives, those that read CDs are
\* handled, so that a disc in one is in the list.  The next line says the opposite.
CdsAreListed ==
    AtRest => \A d \in Devices \ lost : Kind[d] = "cd" /\ Wanted(d) => Listed(d)

\* Where a device should be mounted.
Right(d) ==
    IF Wanted(d) /\ TypeOf(d, medium[d]) \in Mountable /\ medium[d] \notin Foreign
    THEN {<<Label[medium[d]], 0>>} ELSE {}

\* Whenever the daemon waits, a device whose names no other has is mounted where
\* it should be, once, also after crashes and restarts, unless something happened to
\* it while nobody listened or a script stopped before it could unmount.  /var/mnts,
\* which the shutdown scripts unmount by, says so too, unless a script of the device
\* was stopped: between its mount and its line (hmount:16), or its umount and its sed.
MountIsRight ==
    AtRest => \A d \in {e \in Devices \ missed : Alone(e) /\ Kind[e] # "cd"} :
        LET mine == {i \in DOMAIN mounts : mounts[i].dev = d}
        IN /\ {mounts[i].mp : i \in mine} = Right(d)
           /\ Cardinality(mine) <= 1
           /\ d \notin torn => {e.mp : e \in {f \in mnts : f.dev = d}} = Right(d)

=============================================================================
