------------------------- MODULE Automountd_proofs -------------------------
(***************************************************************************)
(* Proofs about automountd, for any devices, media and names: the types,   *)
(* that no two volumes of the list have the same directory, that the list  *)
(* is right whenever the daemon waits, and that a device with names of its *)
(* own is mounted where it should be.                                      *)
(*                                                                         *)
(* The second needs that volume_set_unique_name finds the greatest number  *)
(* of a name, whatever numbers are left of it: the list is finite, so      *)
(* there is one (Greatest).  The last two need what the events that wait   *)
(* say of each device (Follows).                                           *)
(***************************************************************************)
EXTENDS Automountd, FiniteSetTheorems, SequenceTheorems, TLAPS

Names == {Label[m] : m \in Media}
Points == Names \X Nat
Mounts == [dev : Devices, mp : Points]
Volumes == [dev : Devices, name : Names, id : Nat,
            type : {TypeOf(d, m) : d \in Devices, m \in Media}]
Actions == {"add", "change", "remove"}
Events == [action : Actions, dev : Devices, medium : Contents]

\* What add_device and remove_device work on.
Worlds == [vlist : Seq(Volumes), mounts : Seq(Mounts), dirs : SUBSET Points,
           mnts : SUBSET Mounts]

\* OwnMountPoint of a list.
Distinct(l) ==
    \A i, j \in DOMAIN l : i # j => <<l[i].name, l[i].id>> # <<l[j].name, l[j].id>>
                                    /\ l[i].dev # l[j].dev

Types ==
    /\ medium \in [Devices -> Contents]
    /\ queue \in Seq(Events) /\ Len(queue) <= Buffer
    /\ pc \in {"down", "scan", "test", "select", "blocked"} /\ exit \in BOOLEAN
    /\ todo \in SUBSET Devices /\ lost \in SUBSET Devices /\ missed \in SUBSET Devices
    /\ torn \in SUBSET Devices
    /\ vlist \in Seq(Volumes) /\ mounts \in Seq(Mounts)
    /\ dirs \in SUBSET Points /\ mnts \in SUBSET Mounts
    /\ todo # {} => pc = "scan"
    /\ pc = "down" => vlist = <<>> /\ queue = <<>> /\ ~exit

IInv == Types /\ Distinct(vlist)

----------------------------------------------------------------------------
\* Numbers and sequences

\* A finite set of numbers that is not empty has a greatest one.
LEMMA Greatest ==
    ASSUME NEW S \in SUBSET Nat, S # {}, IsFiniteSet(S)
    PROVE  \E n \in S : \A k \in S : k <= n
<1> DEFINE From(n) == {k \in S : k >= n}
           T == {From(n) : n \in S}
<1>1. T \subseteq FiniteSubsetsOf(Nat)
  <2> SUFFICES ASSUME NEW n \in S PROVE From(n) \in FiniteSubsetsOf(Nat)
    OBVIOUS
  <2>1. From(n) \in SUBSET S
    OBVIOUS
  <2>2. IsFiniteSet(From(n))
    BY <2>1, FS_Subset
  <2> QED
    BY <2>1, <2>2 DEF FiniteSubsetsOf
<1>2. IsWellFoundedOn(StrictSubsetOrdering(Nat), FiniteSubsetsOf(Nat))
  BY FS_StrictSubsetOrderingWellFounded
<1>3. T # {}
  OBVIOUS
<1> HIDE DEF T
<1>4. PICK A \in T : \A B \in T : <<B, A>> \notin StrictSubsetOrdering(Nat)
  BY <1>1, <1>2, <1>3, WFMin
<1>5. PICK n \in S : A = From(n)
  BY DEF T
<1>6. \A k \in S : k <= n
  <2> SUFFICES ASSUME NEW k \in S, k > n PROVE FALSE
    OBVIOUS
  <2>1. From(k) \subseteq From(n) /\ From(k) # From(n)
    <3>1. n \in From(n) /\ n \notin From(k)
      OBVIOUS
    <3>2. ASSUME NEW x \in From(k) PROVE x \in From(n)
      <4>1. x \in Nat /\ k \in Nat /\ n \in Nat /\ x >= k
        OBVIOUS
      <4> QED
        BY <4>1
    <3> QED
      BY <3>1, <3>2
  <2>2. From(k) \in SUBSET Nat /\ From(n) \in SUBSET Nat
    OBVIOUS
  <2>3. <<From(k), From(n)>> \in StrictSubsetOrdering(Nat)
    BY <2>1, <2>2 DEF StrictSubsetOrdering
  <2> QED
    BY <2>3, <1>4, <1>5 DEF T
<1> QED
  BY <1>6

\* What is left of a sequence is part of it, in the same order.
LEMMA WithoutProperties ==
    ASSUME NEW T, NEW s \in Seq(T), NEW n \in DOMAIN s
    PROVE  /\ Without(s, n) \in Seq(T)
           /\ DOMAIN Without(s, n) = 1 .. (Len(s) - 1)
           /\ \A i \in 1 .. (Len(s) - 1) :
                 Without(s, n)[i] = s[IF i < n THEN i ELSE i + 1]
<1>1. Len(s) \in Nat /\ DOMAIN s = 1 .. Len(s) /\ \A i \in 1 .. Len(s) : s[i] \in T
  OBVIOUS
<1>2. Len(s) - 1 \in Nat
  BY <1>1
<1>3. Without(s, n) \in [1 .. (Len(s) - 1) -> T]
  BY <1>1 DEF Without
<1>4. Without(s, n) \in Seq(T)
  BY <1>2, <1>3, SeqDef
<1> QED
  BY <1>3, <1>4 DEF Without

\* The mount on top of a mount point is one of them.
LEMMA LastProperties ==
    ASSUME NEW w \in Worlds, NEW mp, On(w, mp) # {}
    PROVE  Last(On(w, mp)) \in DOMAIN w.mounts
<1>1. On(w, mp) \in SUBSET Nat /\ On(w, mp) \subseteq 1 .. Len(w.mounts) /\ Len(w.mounts) \in Nat
      /\ DOMAIN w.mounts = 1 .. Len(w.mounts)
  BY DEF On, Worlds
<1>2. IsFiniteSet(On(w, mp))
  <2>1. \A i \in On(w, mp) : i <= Len(w.mounts)
    BY <1>1
  <2> HIDE DEF On
  <2> QED
    BY <1>1, <2>1, FS_BoundedSetOfNaturals
<1>3. PICK i \in On(w, mp) : \A j \in On(w, mp) : j <= i
  BY <1>1, <1>2, Greatest
<1>4. Last(On(w, mp)) \in On(w, mp)
  BY <1>3 DEF Last
<1> QED
  BY <1>1, <1>4

----------------------------------------------------------------------------
\* The list of volumes

\* volume_set_unique_name: the number it gives is above all numbers of that name.
LEMMA UniqueIdAbove ==
    ASSUME NEW l \in Seq(Volumes), NEW name
    PROVE  /\ UniqueId(Elems(l), name) \in Nat
           /\ \A v \in Same(Elems(l), name) : v.id < UniqueId(Elems(l), name)
<1> DEFINE D == {i \in DOMAIN l : l[i].name = name}
           ids == {v.id : v \in Same(Elems(l), name)}
           f == [i \in D |-> l[i].id]
<1>1. DOMAIN l = 1 .. Len(l) /\ Len(l) \in Nat /\ \A i \in DOMAIN l : l[i] \in Volumes
  OBVIOUS
<1>2. ids \in SUBSET Nat
  BY <1>1 DEF Same, Elems, Volumes
<1>3. D \in SUBSET (1 .. Len(l)) /\ IsFiniteSet(1 .. Len(l))
  BY <1>1, FS_Interval
<1>4. IsFiniteSet(D)
  BY <1>3, FS_Subset
<1>5. f \in Surjection(D, ids)
  BY DEF Surjection, Same, Elems
<1> HIDE DEF f, D
<1>6. IsFiniteSet(ids)
  BY <1>4, <1>5, FS_Surjection
<1>7. CASE ids = {}
  BY <1>7 DEF UniqueId
<1>8. CASE ids # {}
  <2> HIDE DEF ids
  <2>1. PICK n \in ids : \A k \in ids : k <= n
    BY <1>2, <1>6, <1>8, Greatest
  <2> DEFINE m == CHOOSE i \in ids : \A k \in ids : k <= i
  <2>2. m \in ids /\ \A k \in ids : k <= m
    BY <2>1
  <2>3. UniqueId(Elems(l), name) = 1 + m
    BY <1>8 DEF UniqueId, ids
  <2> HIDE DEF m
  <2>4. m \in Nat /\ \A k \in ids : k \in Nat /\ k < 1 + m
    BY <1>2, <2>2
  <2> QED
    BY <2>3, <2>4 DEF ids
<1> QED
  BY <1>7, <1>8

\* A volume put at the end with a device and a directory of its own.
LEMMA DistinctAppend ==
    ASSUME NEW l \in Seq(Volumes), Distinct(l), NEW v \in Volumes,
           \A u \in Elems(l) : u.dev # v.dev,
           \A u \in Same(Elems(l), v.name) : u.id < v.id
    PROVE  Distinct(Append(l, v))
<1> DEFINE k == Append(l, v)
<1>1. /\ Len(l) \in Nat /\ DOMAIN l = 1 .. Len(l) /\ DOMAIN k = 1 .. (Len(l) + 1)
      /\ \A i \in 1 .. Len(l) : k[i] = l[i] /\ l[i] \in Volumes
      /\ k[Len(l) + 1] = v
  OBVIOUS
<1>2. \A i \in 1 .. Len(l) : l[i] \in Elems(l)
  BY <1>1 DEF Elems
<1>3. ASSUME NEW i \in 1 .. Len(l)
      PROVE  <<l[i].name, l[i].id>> # <<v.name, v.id>> /\ l[i].dev # v.dev
  <2>1. l[i].id \in Nat /\ v.id \in Nat
    BY <1>1 DEF Volumes
  <2>2. l[i].name = v.name => l[i].id < v.id
    BY <1>2, <1>3 DEF Same
  <2>3. l[i].name = v.name => l[i].id # v.id
    BY <2>1, <2>2
  <2> QED
    BY <1>2, <2>3
<1> HIDE DEF k
<1> QED
  BY <1>1, <1>3 DEF Distinct, k

\* And a list from which one volume is taken.
LEMMA DistinctWithout ==
    ASSUME NEW l \in Seq(Volumes), Distinct(l), NEW n \in DOMAIN l
    PROVE  Distinct(Without(l, n))
<1>1. DOMAIN l = 1 .. Len(l) /\ Len(l) \in Nat /\ n \in Nat
  OBVIOUS
<1> DEFINE at(i) == IF i < n THEN i ELSE i + 1
<1>2. \A i, j \in 1 .. (Len(l) - 1) : at(i) \in DOMAIN l /\ (i # j => at(i) # at(j))
  BY <1>1
<1>3. \A i \in 1 .. (Len(l) - 1) : Without(l, n)[i] = l[at(i)]
  BY WithoutProperties
<1>4. DOMAIN Without(l, n) = 1 .. (Len(l) - 1)
  BY WithoutProperties
<1> DEFINE k == Without(l, n)
<1> HIDE DEF at
<1>5. ASSUME NEW i \in 1 .. (Len(l) - 1), NEW j \in 1 .. (Len(l) - 1), i # j
      PROVE  <<k[i].name, k[i].id>> # <<k[j].name, k[j].id>> /\ k[i].dev # k[j].dev
  <2>1. at(i) \in DOMAIN l /\ at(j) \in DOMAIN l /\ at(i) # at(j)
    BY <1>2, <1>5
  <2>2. k[i] = l[at(i)] /\ k[j] = l[at(j)]
    BY <1>3
  <2> HIDE DEF k
  <2> QED
    BY <2>1, <2>2 DEF Distinct
<1> QED
  BY <1>4, <1>5 DEF Distinct

----------------------------------------------------------------------------
\* add_device and remove_device

\* What each command of hmount does.
LEMMA MountSteps ==
    ASSUME NEW w \in Worlds, NEW v \in Volumes
    PROVE  /\ Entry(v) \in Mounts
           /\ /\ Made(w, v) \in Worlds /\ Made(w, v).vlist = w.vlist
              /\ Made(w, v).mounts = w.mounts /\ Made(w, v).mnts = w.mnts
              /\ Made(w, v).dirs = w.dirs \cup {MountPoint(v)}
           /\ /\ Mounted(w, v) \in Worlds /\ Mounted(w, v).vlist = w.vlist
              /\ Mounted(w, v).mounts = Append(w.mounts, Entry(v))
              /\ Mounted(w, v).mnts = w.mnts
              /\ Mounted(w, v).dirs = w.dirs \cup {MountPoint(v)}
           /\ /\ Noted(w, v) \in Worlds /\ Noted(w, v).vlist = w.vlist
              /\ Noted(w, v).mounts = Append(w.mounts, Entry(v))
              /\ Noted(w, v).mnts = w.mnts \cup {Entry(v)}
              /\ Noted(w, v).dirs = w.dirs \cup {MountPoint(v)}
<1>1. Entry(v) \in Mounts /\ MountPoint(v) \in Points
  BY DEF Volumes, Mounts, Points, MountPoint, Entry
<1> DEFINE a == Made(w, v)
           b == Mounted(w, v)
<1>2. /\ a \in Worlds /\ a.vlist = w.vlist /\ a.mounts = w.mounts /\ a.mnts = w.mnts
      /\ a.dirs = w.dirs \cup {MountPoint(v)}
  BY <1>1 DEF Worlds, Made
<1>3. b = [a EXCEPT !.mounts = Append(@, Entry(v))]
  BY DEF Mounted
<1> HIDE DEF a
<1>4. Append(a.mounts, Entry(v)) \in Seq(Mounts)
  BY <1>1, <1>2, AppendProperties DEF Worlds
<1> HIDE DEF b
<1>5. /\ b \in Worlds /\ b.vlist = a.vlist /\ b.mounts = Append(a.mounts, Entry(v))
      /\ b.mnts = a.mnts /\ b.dirs = a.dirs
  BY <1>2, <1>3, <1>4 DEF Worlds
<1>6. Noted(w, v) = [b EXCEPT !.mnts = @ \cup {Entry(v)}]
  BY DEF Noted, b
<1>7. b.mnts \cup {Entry(v)} \in SUBSET Mounts
  BY <1>1, <1>5 DEF Worlds
<1>8. /\ Noted(w, v) \in Worlds /\ Noted(w, v).vlist = b.vlist
      /\ Noted(w, v).mounts = b.mounts /\ Noted(w, v).dirs = b.dirs
      /\ Noted(w, v).mnts = b.mnts \cup {Entry(v)}
  BY <1>5, <1>6, <1>7 DEF Worlds
<1> QED
  BY <1>1, <1>2, <1>5, <1>8 DEF a, b

\* hmount does not touch the list.
LEMMA HmountType ==
    ASSUME NEW w \in Worlds, NEW v \in Volumes, NEW m, NEW x \in Hmount(w, v, m)
    PROVE  x \in Worlds /\ x.vlist = w.vlist
<1>1. x = w \/ x = Made(w, v) \/ x = Noted(w, v)
  BY DEF Hmount
<1> QED
  BY <1>1, MountSteps

\* What each command of humount does.
LEMMA UnmountSteps ==
    ASSUME NEW w \in Worlds, NEW mp
    PROVE  /\ Unmounted(w, mp) \in Worlds
           /\ Unmounted(w, mp).vlist = w.vlist
           /\ Unmounted(w, mp).mounts =
                 IF On(w, mp) = {} THEN w.mounts ELSE Without(w.mounts, Last(On(w, mp)))
           /\ Unmounted(w, mp).dirs = w.dirs /\ Unmounted(w, mp).mnts = w.mnts
           /\ Removed(w, mp) \in Worlds
           /\ Removed(w, mp).vlist = w.vlist /\ Removed(w, mp).mounts = w.mounts
           /\ Removed(w, mp).dirs = IF Empty(w, mp) THEN w.dirs \ {mp} ELSE w.dirs
           /\ Removed(w, mp).mnts = w.mnts
<1>1. On(w, mp) # {} => Without(w.mounts, Last(On(w, mp))) \in Seq(Mounts)
  <2>1. w.mounts \in Seq(Mounts)
    BY DEF Worlds
  <2> QED
    BY <2>1, LastProperties, WithoutProperties
<1>2. w.dirs \ {mp} \in SUBSET Points
  BY DEF Worlds
<1>3. CASE On(w, mp) = {}
  BY <1>2, <1>3 DEF Unmounted, Removed, Worlds
<1>4. CASE On(w, mp) # {}
  <2> DEFINE left == Without(w.mounts, Last(On(w, mp)))
  <2>1. left \in Seq(Mounts) /\ Unmounted(w, mp) = [w EXCEPT !.mounts = left]
    BY <1>1, <1>4 DEF Unmounted
  <2> HIDE DEF left
  <2>2. /\ Unmounted(w, mp) \in Worlds /\ Unmounted(w, mp).vlist = w.vlist
        /\ Unmounted(w, mp).mounts = left
        /\ Unmounted(w, mp).dirs = w.dirs /\ Unmounted(w, mp).mnts = w.mnts
    BY <2>1 DEF Worlds
  <2> QED
    BY <1>2, <1>4, <2>2 DEF Removed, Worlds, left
<1> QED
  BY <1>3, <1>4

\* And what they do together.
LEMMA HumountSteps ==
    ASSUME NEW w \in Worlds, NEW v \in Volumes, v.type \in Mountable
    PROVE  LET x == Humount(w, v)
               u == Unmounted(w, UnmountPoint(v))
               y == Removed(u, UnmountPoint(v))
           IN  /\ x \in Worlds /\ x.vlist = w.vlist
               /\ x.mounts = u.mounts /\ x.dirs = y.dirs
               /\ x.mnts = IF Empty(u, UnmountPoint(v))
                           THEN {e \in w.mnts : e.dev # v.dev} ELSE w.mnts
<1> DEFINE mp == UnmountPoint(v)
           u == Unmounted(w, mp)
           y == Removed(u, mp)
           left == IF Empty(u, mp) THEN {e \in y.mnts : e.dev # v.dev} ELSE y.mnts
<1> HIDE DEF mp
<1>1. u \in Worlds /\ u.vlist = w.vlist /\ u.mnts = w.mnts
  BY UnmountSteps
<1> HIDE DEF u
<1>2. y \in Worlds /\ y.vlist = u.vlist /\ y.mounts = u.mounts /\ y.mnts = u.mnts
  BY <1>1, UnmountSteps
<1>3. Humount(w, v) = [y EXCEPT !.mnts = left]
  BY DEF Humount, mp, u
<1> HIDE DEF y
<1>4. left \in SUBSET Mounts
  BY <1>2 DEF Worlds
<1>5. left = IF Empty(u, mp) THEN {e \in w.mnts : e.dev # v.dev} ELSE w.mnts
  BY <1>1, <1>2
<1> HIDE DEF left
<1>6. /\ Humount(w, v) \in Worlds /\ Humount(w, v).vlist = y.vlist
      /\ Humount(w, v).mounts = y.mounts /\ Humount(w, v).dirs = y.dirs
      /\ Humount(w, v).mnts = left
  BY <1>2, <1>3, <1>4 DEF Worlds
<1> QED
  BY <1>1, <1>2, <1>5, <1>6 DEF y, u, mp

\* Humount does not touch the list either.
LEMMA HumountType ==
    ASSUME NEW w \in Worlds, NEW v \in Volumes
    PROVE  Humount(w, v) \in Worlds /\ Humount(w, v).vlist = w.vlist
<1>1. CASE v.type \notin Mountable
  BY <1>1 DEF Humount
<1>2. CASE v.type \in Mountable
  BY <1>2, HumountSteps
<1> QED
  BY <1>1, <1>2

\* The volume of a device that is new has a directory of its own.
LEMMA EnlistedType ==
    ASSUME NEW w \in Worlds, Distinct(w.vlist), NEW d \in Devices, NEW m, IsNew(w, d, m)
    PROVE  LET v == NewVolume(w, d, m) IN
           /\ v \in Volumes /\ m \in Media
           /\ Enlisted(w, v) \in Worlds /\ Enlisted(w, v).vlist = Append(w.vlist, v)
           /\ Enlisted(w, v).mounts = w.mounts /\ Enlisted(w, v).dirs = w.dirs
           /\ Enlisted(w, v).mnts = w.mnts
           /\ Distinct(Append(w.vlist, v))
<1> DEFINE v == NewVolume(w, d, m)
<1>1. w.vlist \in Seq(Volumes) /\ m \in Media /\ \A u \in Elems(w.vlist) : u.dev # d
  BY DEF Worlds, IsVolume, IsNew
<1>2. v.dev = d /\ v.name = Label[m] /\ v.id = UniqueId(Elems(w.vlist), Label[m])
  BY DEF NewVolume
<1>3. v \in Volumes
  BY <1>1, UniqueIdAbove DEF Volumes, Names, NewVolume
<1> HIDE DEF v
<1>4. Distinct(Append(w.vlist, v))
  <2>1. \A u \in Same(Elems(w.vlist), v.name) : u.id < v.id
    BY <1>1, <1>2, UniqueIdAbove
  <2> QED
    BY <1>1, <1>2, <1>3, <2>1, DistinctAppend
<1>5. Append(w.vlist, v) \in Seq(Volumes)
  BY <1>1, <1>3, AppendProperties
<1>6. /\ Enlisted(w, v) \in Worlds /\ Enlisted(w, v).vlist = Append(w.vlist, v)
      /\ Enlisted(w, v).mounts = w.mounts /\ Enlisted(w, v).dirs = w.dirs
      /\ Enlisted(w, v).mnts = w.mnts
  BY <1>5 DEF Worlds, Enlisted
<1> QED
  BY <1>1, <1>3, <1>4, <1>6 DEF v

\* Whatever add_device does, no two volumes get the same directory.
LEMMA AddDeviceDistinct ==
    ASSUME NEW w \in Worlds, Distinct(w.vlist), NEW d \in Devices, NEW m,
           NEW x \in AddDevice(w, d, m)
    PROVE  x \in Worlds /\ Distinct(x.vlist)
<1>1. CASE ~IsNew(w, d, m)
  BY <1>1 DEF AddDevice
<1>2. CASE IsNew(w, d, m)
  <2> DEFINE v == NewVolume(w, d, m)
             y == Enlisted(w, v)
  <2>1. x \in Hmount(y, v, m)
    BY <1>2 DEF AddDevice
  <2>2. v \in Volumes /\ y \in Worlds /\ Distinct(y.vlist)
    BY <1>2, EnlistedType
  <2> HIDE DEF v, y
  <2>3. x \in Worlds /\ x.vlist = y.vlist
    BY <2>1, <2>2, HmountType
  <2> QED
    BY <2>2, <2>3
<1> QED
  BY <1>1, <1>2

\* A device has at most one volume, which is the one that leaves the list.
LEMMA UnlistedType ==
    ASSUME NEW w \in Worlds, Distinct(w.vlist), NEW d
    PROVE  LET x == Unlisted(w, d) IN
           /\ x \in Worlds /\ Distinct(x.vlist)
           /\ x.mounts = w.mounts /\ x.dirs = w.dirs /\ x.mnts = w.mnts
           /\ Mine(w, d) = {} => x = w
           /\ Mine(w, d) # {} => /\ x.vlist = Without(w.vlist, First(w, d))
                                 /\ First(w, d) \in DOMAIN w.vlist
                                 /\ w.vlist[First(w, d)] \in Volumes
                                 /\ Mine(w, d) = {First(w, d)}
<1> DEFINE c == First(w, d)
<1>1. CASE Mine(w, d) = {}
  BY <1>1 DEF Unlisted
<1>2. CASE Mine(w, d) # {}
  <2>1. w.vlist \in Seq(Volumes)
    BY DEF Worlds
  <2>2. PICK n \in Mine(w, d) : \A j \in Mine(w, d) : j = n
    BY <1>2 DEF Distinct, Mine
  <2>3. n \in Nat
    BY <2>1 DEF Mine
  <2>4. c = n
    <3>1. n \in Mine(w, d) /\ \A j \in Mine(w, d) : n <= j
      BY <2>2, <2>3
    <3>2. c \in Mine(w, d)
      BY <3>1 DEF First
    <3> QED
      BY <2>2, <3>2
  <2>5. c \in DOMAIN w.vlist /\ w.vlist[c] \in Volumes
    BY <2>1, <2>2, <2>4 DEF Mine
  <2>6. Unlisted(w, d) = [w EXCEPT !.vlist = Without(@, c)]
    BY <1>2 DEF Unlisted
  <2> HIDE DEF c
  <2>7. Without(w.vlist, c) \in Seq(Volumes) /\ Distinct(Without(w.vlist, c))
    BY <2>1, <2>5, WithoutProperties, DistinctWithout
  <2>8. /\ Unlisted(w, d) \in Worlds /\ Unlisted(w, d).vlist = Without(w.vlist, c)
        /\ Unlisted(w, d).mounts = w.mounts /\ Unlisted(w, d).dirs = w.dirs
        /\ Unlisted(w, d).mnts = w.mnts
    BY <2>6, <2>7 DEF Worlds
  <2> QED
    BY <1>2, <2>2, <2>4, <2>5, <2>7, <2>8 DEF c
<1> QED
  BY <1>1, <1>2

\* The same volume before and after humount.
LEMMA SameFirst ==
    ASSUME NEW w, NEW x, NEW d, x.vlist = w.vlist
    PROVE  Mine(x, d) = Mine(w, d) /\ First(x, d) = First(w, d)
BY DEF Mine, First

\* Nor does remove_device put two volumes on one directory.
LEMMA RemoveDeviceDistinct ==
    ASSUME NEW w \in Worlds, Distinct(w.vlist), NEW d
    PROVE  RemoveDevice(w, d) \in Worlds /\ Distinct(RemoveDevice(w, d).vlist)
<1>1. CASE Mine(w, d) = {}
  BY <1>1 DEF RemoveDevice
<1>2. CASE Mine(w, d) # {}
  <2> DEFINE h == Humount(w, w.vlist[First(w, d)])
  <2>1. h \in Worlds /\ h.vlist = w.vlist
    BY <1>2, UnlistedType, HumountType
  <2>2. RemoveDevice(w, d) = Unlisted(h, d)
    BY <1>2 DEF RemoveDevice
  <2> HIDE DEF h
  <2> QED
    BY <2>1, <2>2, UnlistedType
<1> QED
  BY <1>1, <1>2

\* The same of a script that is stopped.
LEMMA AddStoppedDistinct ==
    ASSUME NEW w \in Worlds, Distinct(w.vlist), NEW d \in Devices, NEW m,
           NEW x \in AddStopped(w, d, m)
    PROVE  x \in Worlds /\ Distinct(x.vlist)
<1> DEFINE v == NewVolume(w, d, m)
           y == Enlisted(w, v)
<1>1. IsNew(w, d, m) /\ x \in HmountStopped(y, v, m)
  BY DEF AddStopped
<1>2. x = y \/ x = Made(y, v) \/ x = Mounted(y, v)
  BY <1>1 DEF HmountStopped
<1>3. y \in Worlds /\ v \in Volumes /\ Distinct(y.vlist)
  BY <1>1, EnlistedType
<1> HIDE DEF y, v
<1> QED
  BY <1>2, <1>3, MountSteps

LEMMA RemoveStoppedDistinct ==
    ASSUME NEW w \in Worlds, Distinct(w.vlist), NEW d, NEW x \in RemoveStopped(w, d)
    PROVE  x \in Worlds /\ Distinct(x.vlist)
<1> DEFINE v == w.vlist[First(w, d)]
           mp == UnmountPoint(v)
           u == Unmounted(w, mp)
<1>1. PICK h \in HumountStopped(w, v) : x = Unlisted(h, d)
  BY DEF RemoveStopped
<1>2. h = u \/ h = Removed(u, mp)
  BY <1>1 DEF HumountStopped
<1> HIDE DEF mp
<1>3. u \in Worlds /\ u.vlist = w.vlist
  BY UnmountSteps
<1> HIDE DEF u
<1>4. Removed(u, mp) \in Worlds /\ Removed(u, mp).vlist = u.vlist
  BY <1>3, UnmountSteps
<1>5. h \in Worlds /\ h.vlist = w.vlist
  BY <1>2, <1>3, <1>4
<1> QED
  BY <1>1, <1>5, UnlistedType

\* handle_device, for whatever event or device.
LEMMA HandleDeviceStep ==
    ASSUME IInv, NEW action \in Actions, NEW d \in Devices, NEW m,
           HandleDevice(action, d, m)
    PROVE  /\ vlist' \in Seq(Volumes) /\ mounts' \in Seq(Mounts)
           /\ dirs' \in SUBSET Points /\ mnts' \in SUBSET Mounts
           /\ Distinct(vlist') /\ torn' \in SUBSET Devices
<1>1. World \in Worlds /\ Distinct(World.vlist)
  BY DEF IInv, Types, World, Worlds
<1> DEFINE Good(w) == w \in Worlds /\ Distinct(w.vlist)
<1>2. \E w : Good(w) /\ Becoming(w)
  <2>1. CASE action = "add"
    <3>1. PICK w \in AddDevice(World, d, m) : Becoming(w)
      BY <2>1 DEF HandleDevice
    <3>2. Good(w)
      BY <1>1, AddDeviceDistinct
    <3> QED
      BY <3>1, <3>2
  <2>2. CASE action = "change"
    <3>1. PICK w \in AddDevice(RemoveDevice(World, d), d, m) : Becoming(w)
      BY <2>2 DEF HandleDevice
    <3>2. Good(RemoveDevice(World, d))
      BY <1>1, RemoveDeviceDistinct
    <3>3. Good(w)
      BY <3>2, AddDeviceDistinct
    <3> QED
      BY <3>1, <3>3
  <2>3. CASE action = "remove"
    <3>1. Becoming(RemoveDevice(World, d))
      BY <2>3 DEF HandleDevice
    <3>2. Good(RemoveDevice(World, d))
      BY <1>1, RemoveDeviceDistinct
    <3> QED
      BY <3>1, <3>2
  <2> QED
    BY <2>1, <2>2, <2>3 DEF Actions
<1>3. torn' \in SUBSET Devices
  BY DEF HandleDevice, IInv, Types
<1> QED
  BY <1>2, <1>3 DEF Worlds, Becoming

\* What a stopped device comes to: what is left of its change may be done or stopped.
Rest(action, w, d, m) ==
    IF action = "change" THEN AddDevice(w, d, m) \cup AddStopped(w, d, m) ELSE {w}

\* The ways a script can be stopped.
LEMMA StopForms ==
    ASSUME NEW action \in Actions, NEW d, NEW m, StopDevice(action, d, m)
    PROVE  /\ torn' = torn \cup {d}
           /\ \/ /\ action = "add" /\ missed' = missed
                 /\ \E w \in AddStopped(World, d, m) : Becoming(w)
              \/ /\ action = "change" /\ missed' = missed
                 /\ \E w \in AddStopped(RemoveDevice(World, d), d, m) : Becoming(w)
              \/ /\ action \in {"change", "remove"} /\ missed' = missed
                 /\ \E x \in RemoveStopped(World, d) : \E w \in Rest(action, x, d, m) : Becoming(w)
              \/ /\ action \in {"change", "remove"} /\ missed' = missed \cup ({d} \cap Known)
                 /\ \E w \in Rest(action, Unlisted(World, d), d, m) : Becoming(w)
BY DEF StopDevice, Rest, Actions

\* A stopped script leaves the types as they are.
LEMMA StopDeviceStep ==
    ASSUME IInv, NEW action \in Actions, NEW d \in Devices, NEW m,
           StopDevice(action, d, m)
    PROVE  /\ vlist' \in Seq(Volumes) /\ mounts' \in Seq(Mounts)
           /\ dirs' \in SUBSET Points /\ mnts' \in SUBSET Mounts
           /\ Distinct(vlist') /\ torn' \in SUBSET Devices /\ missed' \in SUBSET Devices
<1>1. World \in Worlds /\ Distinct(World.vlist)
  BY DEF IInv, Types, World, Worlds
<1> DEFINE Good(w) == w \in Worlds /\ Distinct(w.vlist)
<1>2. ASSUME NEW x, Good(x), NEW w \in Rest(action, x, d, m) PROVE Good(w)
  BY <1>2, AddDeviceDistinct, AddStoppedDistinct DEF Rest
<1>3. \E w : Good(w) /\ Becoming(w)
  <2>1. CASE \E w \in AddStopped(World, d, m) : Becoming(w)
    BY <1>1, <2>1, AddStoppedDistinct
  <2>2. CASE \E w \in AddStopped(RemoveDevice(World, d), d, m) : Becoming(w)
    <3>1. Good(RemoveDevice(World, d))
      BY <1>1, RemoveDeviceDistinct
    <3> QED
      BY <2>2, <3>1, AddStoppedDistinct
  <2>3. CASE \E x \in RemoveStopped(World, d) : \E w \in Rest(action, x, d, m) : Becoming(w)
    <3>1. PICK x \in RemoveStopped(World, d) : \E w \in Rest(action, x, d, m) : Becoming(w)
      BY <2>3
    <3>2. Good(x)
      BY <1>1, RemoveStoppedDistinct
    <3> QED
      BY <1>2, <3>1, <3>2
  <2>4. CASE \E w \in Rest(action, Unlisted(World, d), d, m) : Becoming(w)
    <3>1. Good(Unlisted(World, d))
      BY <1>1, UnlistedType
    <3> QED
      BY <1>2, <2>4, <3>1
  <2> QED
    BY <2>1, <2>2, <2>3, <2>4, StopForms
<1>4. torn' \in SUBSET Devices /\ missed' \in SUBSET Devices
  BY StopForms DEF IInv, Types
<1> QED
  BY <1>3, <1>4 DEF Worlds, Becoming

----------------------------------------------------------------------------
\* The invariant

\* Nothing is in the list and in the socket of a daemon that has not run.
LEMMA NothingType ==
    /\ <<>> \in Seq(Events) /\ Len(<<>>) <= Buffer
    /\ <<>> \in Seq(Volumes) /\ Distinct(<<>>)
    /\ <<>> \in Seq(Mounts)
<1>1. Distinct(<<>>)
  BY DOMAIN <<>> = {} DEF Distinct
<1>2. Len(<<>>) <= Buffer
  BY AutomountdAssumption
<1> QED
  BY <1>1, <1>2

\* At first there is no device, and the daemon has not run.
LEMMA InitIInv == Init => IInv
<1> SUFFICES ASSUME Init PROVE IInv
  OBVIOUS
<1>1. medium \in [Devices -> Contents]
  BY DEF Init, Contents
<1> QED
  BY <1>1, NothingType DEF Init, IInv, Types

\* An event is put into the socket only if there is a daemon, and room.
LEMMA SendType ==
    ASSUME IInv, NEW action \in Actions, NEW d \in Devices, NEW m \in Contents,
           Becomes(action, d, m)
    PROVE  IInv'
<1> DEFINE e == [action |-> action, dev |-> d, medium |-> m]
<1>1. e \in Events
  BY DEF Events
<1>2. queue \in Seq(Events) /\ Len(queue) \in Nat /\ Buffer \in Nat
  BY AutomountdAssumption DEF IInv, Types
<1>3. \/ queue' = queue
      \/ pc # "down" /\ Len(queue) < Buffer /\ queue' = Append(queue, e)
  BY DEF Becomes, Send
<1> HIDE DEF e
<1>4. queue' \in Seq(Events) /\ Len(queue') <= Buffer /\ (pc = "down" => queue' = queue)
  BY <1>1, <1>2, <1>3, AppendProperties DEF IInv, Types
<1>5. lost' \in SUBSET Devices /\ missed' \in SUBSET Devices
  BY DEF Becomes, Send, IInv, Types
<1>6. medium' \in [Devices -> Contents]
  BY DEF Becomes, IInv, Types
<1> QED
  BY <1>4, <1>5, <1>6 DEF Becomes, IInv, Types, daemon, files

\* What a daemon that ends leaves behind.
LEMMA GoneType ==
    ASSUME IInv, Gone
    PROVE  IInv'
<1>1. missed' \in SUBSET Devices
  BY DEF Gone, Known, IInv, Types
<1> QED
  BY <1>1, NothingType DEF Gone, IInv, Types, files

\* Every step of the daemon or of a device keeps the invariant.
LEMMA NextIInv == IInv /\ [Next]_vars => IInv'
<1> SUFFICES ASSUME IInv, [Next]_vars PROVE IInv'
  OBVIOUS
<1> USE DEF Types, daemon, files
<1>1. CASE Start
  BY <1>1 DEF Start, IInv
<1>2. CASE ScanDevice
  <2>1. PICK d \in todo : /\ todo' = todo \ {d}
                          /\ IF medium[d] = Absent THEN UNCHANGED <<vlist, files, torn>>
                                                   ELSE HandleDevice("add", d, medium[d])
    BY <1>2 DEF ScanDevice
  <2>2. d \in Devices /\ "add" \in Actions
    BY DEF IInv, Actions
  <2>3. /\ vlist' \in Seq(Volumes) /\ mounts' \in Seq(Mounts)
        /\ dirs' \in SUBSET Points /\ mnts' \in SUBSET Mounts
        /\ Distinct(vlist') /\ torn' \in SUBSET Devices
    <3>1. CASE medium[d] = Absent
      BY <2>1, <3>1 DEF IInv
    <3>2. CASE medium[d] # Absent
      BY <2>1, <2>2, <3>2, HandleDeviceStep
    <3> QED
      BY <3>1, <3>2
  <2> QED
    BY <1>2, <2>1, <2>3 DEF ScanDevice, IInv
<1>3. CASE ScanEnds
  BY <1>3 DEF ScanEnds, IInv
<1>4. CASE TestExit
  BY <1>4 DEF TestExit, IInv
<1>5. CASE Block
  BY <1>5 DEF Block, IInv
<1>6. CASE Receive
  <2>1. queue \in Seq(Events) /\ queue # <<>> /\ Len(queue) \in Nat
    BY <1>6 DEF Receive, IInv
  <2>2. Head(queue) \in Events
    BY <2>1, HeadTailProperties
  <2>3. Tail(queue) \in Seq(Events) /\ Len(Tail(queue)) = Len(queue) - 1
    BY <2>1, HeadTailProperties
  <2>4. Head(queue).action \in Actions /\ Head(queue).dev \in Devices
    BY <2>2 DEF Events
  <2>5. HandleDevice(Head(queue).action, Head(queue).dev, Head(queue).medium)
    BY <1>6 DEF Receive
  <2>6. /\ vlist' \in Seq(Volumes) /\ mounts' \in Seq(Mounts)
        /\ dirs' \in SUBSET Points /\ mnts' \in SUBSET Mounts
        /\ Distinct(vlist') /\ torn' \in SUBSET Devices
    BY <2>4, <2>5, HandleDeviceStep
  <2>7. Len(queue') <= Buffer
    BY <1>6, <2>1, <2>3, AutomountdAssumption DEF Receive, IInv
  <2> QED
    BY <1>6, <2>3, <2>6, <2>7 DEF Receive, IInv
<1>7. CASE Exit
  BY <1>7, GoneType DEF Exit
<1>8. CASE Crash
  BY <1>8, GoneType DEF Crash
<1>9. CASE Terminate
  BY <1>9 DEF Terminate, IInv
<1>10. CASE \E d \in Devices, m \in Contents : Plug(d, m) \/ Change(d, m)
  BY <1>10, SendType DEF Plug, Change, Actions
<1>11. CASE \E d \in Devices : Unplug(d)
  BY <1>11, SendType DEF Unplug, Actions, Contents
<1>12. CASE UNCHANGED vars
  BY <1>12 DEF vars, IInv, Distinct
<1>13. CASE StopScript
  <2>1. CASE pc = "scan"
    <3>1. PICK d \in todo : /\ todo' = todo \ {d} /\ StopDevice("add", d, medium[d])
                            /\ UNCHANGED <<queue, pc>>
      BY <1>13, <2>1 DEF StopScript
    <3>2. d \in Devices /\ "add" \in Actions
      BY DEF IInv, Actions
    <3>3. /\ vlist' \in Seq(Volumes) /\ mounts' \in Seq(Mounts)
          /\ dirs' \in SUBSET Points /\ mnts' \in SUBSET Mounts
          /\ Distinct(vlist') /\ torn' \in SUBSET Devices /\ missed' \in SUBSET Devices
      BY <3>1, <3>2, StopDeviceStep
    <3> QED
      BY <1>13, <2>1, <3>1, <3>3 DEF StopScript, IInv
  <2>2. CASE pc \in {"select", "blocked"}
    <3> DEFINE h == Head(queue)
    <3>1. /\ queue \in Seq(Events) /\ queue # <<>> /\ Len(queue) \in Nat
          /\ pc' = "test" /\ queue' = Tail(queue) /\ StopDevice(h.action, h.dev, h.medium)
          /\ UNCHANGED todo
      BY <1>13, <2>2 DEF StopScript, IInv
    <3>2. h.action \in Actions /\ h.dev \in Devices
      <4>1. h \in Events
        BY <3>1, HeadTailProperties
      <4> HIDE DEF h
      <4> QED
        BY <4>1 DEF Events
    <3>3. Tail(queue) \in Seq(Events) /\ Len(Tail(queue)) = Len(queue) - 1
      BY <3>1, HeadTailProperties
    <3>4. Len(queue') <= Buffer
      BY <3>1, <3>3, AutomountdAssumption DEF IInv
    <3>5. /\ vlist' \in Seq(Volumes) /\ mounts' \in Seq(Mounts)
          /\ dirs' \in SUBSET Points /\ mnts' \in SUBSET Mounts
          /\ Distinct(vlist') /\ torn' \in SUBSET Devices /\ missed' \in SUBSET Devices
      BY <3>1, <3>2, StopDeviceStep
    <3> HIDE DEF h
    <3> QED
      BY <1>13, <2>2, <3>1, <3>3, <3>4, <3>5 DEF StopScript, IInv
  <2> QED
    BY <1>13, <2>1, <2>2 DEF StopScript
<1> QED
  BY <1>1, <1>2, <1>3, <1>4, <1>5, <1>6, <1>7, <1>8, <1>9, <1>10, <1>11, <1>12, <1>13
  DEF Next

\* The inductive invariant holds whatever devices come, go and change, whenever the
\* daemon is stopped or killed.
LEMMA Inductive == Spec => []IInv
BY InitIInv, NextIInv, PTL DEF Spec

\* The variables of the daemon and of its files keep their types, and a daemon that
\* does not run has neither volumes nor events.
THEOREM TypeCorrect == Spec => []TypeOK
<1>1. IInv => TypeOK
  <2> SUFFICES ASSUME IInv PROVE TypeOK
    OBVIOUS
  <2>1. \A e \in Elems(queue) : e \in Events
    BY DEF IInv, Types, Elems
  <2>2. \A v \in Elems(vlist) : v \in Volumes
    BY DEF IInv, Types, Elems
  <2>3. \A e \in Elems(mounts) \cup mnts : e \in Mounts
    BY DEF IInv, Types, Elems
  <2> QED
    BY <2>1, <2>2, <2>3 DEF TypeOK, IInv, Types, Events, Actions, Volumes, Mounts
<1> QED
  BY Inductive, <1>1, PTL

\* No two volumes have the same directory and none is listed twice: the number that
\* volume_set_unique_name appends is above those of all volumes of that name.
THEOREM OwnMountPointHolds == Spec => []OwnMountPoint
<1>1. IInv => OwnMountPoint
  BY DEF IInv, Distinct, OwnMountPoint, MountPoint
<1> QED
  BY Inductive, <1>1, PTL

----------------------------------------------------------------------------
\* What the list and the mounts say about a device

\* The names of what a device can hold.
NamesOf(d) == {Label[m] : m \in Fits[d] \cap Media}

\* Of a world, what concerns a device.
Entries(w, d) == {v \in Elems(w.vlist) : v.dev = d}
MountedAt(w, d) == {e.mp : e \in {f \in Elems(w.mounts) : f.dev = d}}
Recorded(w, d) == {e.mp : e \in {f \in w.mnts : f.dev = d}}
MountPoints(w, d) == {UnmountPoint(v) : v \in {u \in Entries(w, d) : u.type \in Mountable}}

OnceIn(l, d) == \A i, j \in DOMAIN l : l[i].dev = d /\ l[j].dev = d => i = j

\* Names are of what a device can hold, and what is mounted has its directory.
Sane(w) ==
    /\ \A v \in Elems(w.vlist) : v.name \in NamesOf(v.dev) /\ (Alone(v.dev) => v.id = 0)
    /\ \A e \in Elems(w.mounts) : e.mp[1] \in NamesOf(e.dev) /\ e.mp \in w.dirs

\* Nothing that concerns a device with names of its own changes, nor what the list
\* says of any.
SameFor(w, x, d) ==
    /\ Entries(x, d) = Entries(w, d)
    /\ Alone(d) => /\ MountedAt(x, d) = MountedAt(w, d)
                   /\ Recorded(x, d) = Recorded(w, d)
                   /\ OnceIn(w.mounts, d) => OnceIn(x.mounts, d)

\* A device with names of its own is mounted at most once, and recorded where it is,
\* unless it is in T.
Tidy(w, d, T) == /\ OnceIn(w.mounts, d)
                 /\ d \notin T => Recorded(w, d) = MountedAt(w, d)

\* The elements that are left.
LEMMA ElemsWithout ==
    ASSUME NEW T, NEW s \in Seq(T), NEW n \in DOMAIN s
    PROVE  Elems(Without(s, n)) = {s[i] : i \in DOMAIN s \ {n}}
<1> DEFINE k == Without(s, n)
<1>1. Len(s) \in Nat /\ DOMAIN s = 1 .. Len(s) /\ n \in 1 .. Len(s)
  OBVIOUS
<1>2. /\ DOMAIN k = 1 .. (Len(s) - 1)
      /\ \A i \in 1 .. (Len(s) - 1) : k[i] = s[IF i < n THEN i ELSE i + 1]
  BY WithoutProperties
<1> HIDE DEF k
<1>3. ASSUME NEW i \in DOMAIN k PROVE \E j \in DOMAIN s \ {n} : k[i] = s[j]
  <2>1. CASE i < n
    BY <1>1, <1>2, <2>1
  <2>2. CASE ~(i < n)
    <3>1. k[i] = s[i + 1] /\ i + 1 \in DOMAIN s \ {n}
      BY <1>1, <1>2, <2>2
    <3> QED
      BY <3>1
  <2> QED
    BY <2>1, <2>2
<1>4. ASSUME NEW j \in DOMAIN s \ {n} PROVE \E i \in DOMAIN k : k[i] = s[j]
  <2>1. CASE j < n
    BY <1>1, <1>2, <2>1
  <2>2. CASE ~(j < n)
    <3>1. j - 1 \in DOMAIN k /\ ~(j - 1 < n) /\ (j - 1) + 1 = j
      BY <1>1, <1>2, <2>2
    <3>2. k[j - 1] = s[j]
      BY <1>2, <3>1
    <3> QED
      BY <3>1, <3>2
  <2> QED
    BY <2>1, <2>2
<1>5. Elems(k) \subseteq {s[i] : i \in DOMAIN s \ {n}}
  BY <1>3 DEF Elems
<1>6. {s[i] : i \in DOMAIN s \ {n}} \subseteq Elems(k)
  BY <1>4 DEF Elems
<1> QED
  BY <1>5, <1>6 DEF k

\* The elements with one more.
LEMMA ElemsAppend ==
    ASSUME NEW T, NEW s \in Seq(T), NEW x \in T
    PROVE  Elems(Append(s, x)) = Elems(s) \cup {x}
<1> DEFINE k == Append(s, x)
<1>1. /\ Len(s) \in Nat /\ DOMAIN s = 1 .. Len(s) /\ DOMAIN k = 1 .. (Len(s) + 1)
      /\ \A i \in 1 .. Len(s) : k[i] = s[i]
      /\ k[Len(s) + 1] = x
  OBVIOUS
<1> HIDE DEF k
<1>2. \A i \in DOMAIN k : i \in DOMAIN s \/ i = Len(s) + 1
  BY <1>1
<1>3. DOMAIN s \subseteq DOMAIN k /\ Len(s) + 1 \in DOMAIN k
  BY <1>1
<1>4. Elems(k) \subseteq Elems(s) \cup {x}
  BY <1>1, <1>2 DEF Elems
<1>5. Elems(s) \cup {x} \subseteq Elems(k)
  BY <1>1, <1>3 DEF Elems
<1> QED
  BY <1>4, <1>5 DEF k

\* A device that is mounted once is not mounted more often with less mounted.
LEMMA OnceWithout ==
    ASSUME NEW T, NEW l \in Seq(T), NEW d, OnceIn(l, d), NEW n \in DOMAIN l
    PROVE  OnceIn(Without(l, n), d)
<1>1. DOMAIN l = 1 .. Len(l) /\ Len(l) \in Nat /\ n \in Nat
  OBVIOUS
<1> DEFINE at(i) == IF i < n THEN i ELSE i + 1
           k == Without(l, n)
<1>2. \A i, j \in 1 .. (Len(l) - 1) : at(i) \in DOMAIN l /\ (at(i) = at(j) => i = j)
  BY <1>1
<1>3. \A i \in 1 .. (Len(l) - 1) : k[i] = l[at(i)]
  BY WithoutProperties
<1>4. DOMAIN k = 1 .. (Len(l) - 1)
  BY WithoutProperties
<1> HIDE DEF at, k
<1> SUFFICES ASSUME NEW i \in DOMAIN k, NEW j \in DOMAIN k, k[i].dev = d, k[j].dev = d
             PROVE  i = j
  BY DEF OnceIn, k
<1> QED
  BY <1>2, <1>3, <1>4 DEF OnceIn

\* One that is not mounted, with a mount more.
LEMMA OnceAppend ==
    ASSUME NEW T, NEW l \in Seq(T), NEW d, NEW x \in T,
           x.dev = d => \A e \in Elems(l) : e.dev # d, OnceIn(l, d)
    PROVE  OnceIn(Append(l, x), d)
<1> DEFINE k == Append(l, x)
<1>1. /\ Len(l) \in Nat /\ DOMAIN l = 1 .. Len(l) /\ DOMAIN k = 1 .. (Len(l) + 1)
      /\ \A i \in 1 .. Len(l) : k[i] = l[i]
      /\ k[Len(l) + 1] = x
  OBVIOUS
<1> HIDE DEF k
<1>2. \A i \in DOMAIN k : i \in DOMAIN l \/ i = Len(l) + 1
  BY <1>1
<1>3. \A i \in DOMAIN l : l[i] \in Elems(l)
  BY DEF Elems
<1> SUFFICES ASSUME NEW i \in DOMAIN k, NEW j \in DOMAIN k, k[i].dev = d, k[j].dev = d
             PROVE  i = j
  BY DEF OnceIn, k
<1> QED
  BY <1>1, <1>2, <1>3 DEF OnceIn

\* The mounts and records of w that are of d, element by element.
LEMMA Where ==
    ASSUME NEW w, NEW d, NEW mp
    PROVE  /\ mp \in MountedAt(w, d) <=> \E i \in DOMAIN w.mounts :
                                            w.mounts[i].dev = d /\ w.mounts[i].mp = mp
           /\ mp \in Recorded(w, d) <=> \E e \in w.mnts : e.dev = d /\ e.mp = mp
BY DEF MountedAt, Recorded, Elems

\* A name that a device with names of its own can have is of no other device.
LEMMA OwnName ==
    ASSUME NEW d \in Devices, NEW e \in Devices, Alone(d) \/ Alone(e),
           NEW n \in NamesOf(d), n \in NamesOf(e)
    PROVE  d = e
BY DEF Alone, NamesOf

\* What is mounted on a name is the device with that name.
LEMMA OnOwn ==
    ASSUME NEW w \in Worlds, Sane(w), NEW d \in Devices, Alone(d), NEW mp,
           mp[1] \in NamesOf(d)
    PROVE  \A i \in On(w, mp) : i \in DOMAIN w.mounts /\ w.mounts[i].dev = d
<1> SUFFICES ASSUME NEW i \in On(w, mp)
             PROVE  i \in DOMAIN w.mounts /\ w.mounts[i].dev = d
  OBVIOUS
<1>1. i \in DOMAIN w.mounts /\ w.mounts[i].mp = mp
  BY DEF On
<1>2. w.mounts[i] \in Elems(w.mounts) /\ w.mounts[i] \in Mounts
  BY <1>1 DEF Elems, Worlds
<1>3. w.mounts[i].dev \in Devices /\ mp[1] \in NamesOf(w.mounts[i].dev)
  BY <1>1, <1>2 DEF Sane, Mounts
<1> QED
  BY <1>1, <1>3, OwnName

\* What hmount does to the mounts and the records.
LEMMA HmountEffect ==
    ASSUME NEW w \in Worlds, NEW v \in Volumes, NEW m, NEW x \in Hmount(w, v, m)
    PROVE  /\ x \in Worlds /\ x.vlist = w.vlist /\ w.dirs \subseteq x.dirs
           /\ \/ /\ x.mounts = w.mounts /\ x.mnts = w.mnts
                 /\ \/ v.type \notin Mountable \/ medium[v.dev] # m \/ m \in Foreign
                    \/ /\ On(w, MountPoint(v)) # {}
                       /\ w.mounts[Last(On(w, MountPoint(v)))].dev = v.dev
              \/ /\ v.type \in Mountable /\ medium[v.dev] \in Media \ Foreign
                 /\ x.mounts = Append(w.mounts, Entry(v))
                 /\ x.mnts = w.mnts \cup {Entry(v)}
                 /\ MountPoint(v) \in x.dirs
                 /\ \/ On(w, MountPoint(v)) = {}
                    \/ w.mounts[Last(On(w, MountPoint(v)))].dev # v.dev
<1> DEFINE mp == MountPoint(v)
           over == On(w, mp) # {} /\ w.mounts[Last(On(w, mp))].dev = v.dev
<1>1. CASE v.type \notin Mountable
  BY <1>1 DEF Hmount
<1>2. CASE v.type \in Mountable
  <2>1. PICK ok \in MountWorks(w, v.dev, m, mp) : x = IF ok THEN Noted(w, v) ELSE Made(w, v)
    BY <1>2 DEF Hmount
  <2>2. CASE ok
    <3>1. medium[v.dev] \in Media \ Foreign /\ ~over
      BY <2>1, <2>2 DEF MountWorks
    <3>2. x = Noted(w, v)
      BY <2>1, <2>2
    <3> QED
      BY <1>2, <3>1, <3>2, MountSteps
  <2>3. CASE ~ok
    <3>1. medium[v.dev] # m \/ m \in Foreign \/ over
      BY <2>1, <2>3 DEF MountWorks
    <3>2. x = Made(w, v)
      BY <2>1, <2>3
    <3> QED
      BY <3>1, <3>2, MountSteps
  <2> QED
    BY <2>2, <2>3
<1> QED
  BY <1>1, <1>2

\* What humount does to them.
LEMMA HumountEffect ==
    ASSUME NEW w \in Worlds, NEW v \in Volumes
    PROVE  LET x == Humount(w, v)
               mp == UnmountPoint(v)
           IN  /\ x \in Worlds /\ x.vlist = w.vlist
               /\ \/ v.type \notin Mountable /\ x = w
                  \/ /\ v.type \in Mountable
                     /\ \/ On(w, mp) = {} /\ x.mounts = w.mounts
                        \/ /\ On(w, mp) # {} /\ Last(On(w, mp)) \in On(w, mp)
                           /\ x.mounts = Without(w.mounts, Last(On(w, mp)))
                     /\ \/ /\ x.dirs = w.dirs \ {mp} /\ \A e \in Elems(x.mounts) : e.mp # mp
                           /\ x.mnts = {e \in w.mnts : e.dev # v.dev}
                        \/ /\ x.dirs = w.dirs /\ x.mnts = w.mnts
                           /\ mp \notin w.dirs \/ \E e \in Elems(x.mounts) : e.mp = mp
<1> DEFINE x == Humount(w, v)
           mp == UnmountPoint(v)
           u == Unmounted(w, mp)
           y == Removed(u, mp)
<1>1. x \in Worlds /\ x.vlist = w.vlist
  BY HumountType
<1>2. CASE v.type \notin Mountable
  BY <1>1, <1>2 DEF Humount
<1>3. CASE v.type \in Mountable
  <2>1. /\ x.mounts = u.mounts /\ x.dirs = y.dirs
        /\ x.mnts = IF Empty(u, mp) THEN {e \in w.mnts : e.dev # v.dev} ELSE w.mnts
    BY <1>3, HumountSteps
  <2> HIDE DEF x, mp
  <2>2. /\ u \in Worlds /\ u.dirs = w.dirs
        /\ u.mounts = IF On(w, mp) = {} THEN w.mounts ELSE Without(w.mounts, Last(On(w, mp)))
    BY UnmountSteps
  <2> HIDE DEF u
  <2>3. y.dirs = IF Empty(u, mp) THEN u.dirs \ {mp} ELSE u.dirs
    BY <2>2, UnmountSteps
  <2>4. On(w, mp) # {} => Last(On(w, mp)) \in On(w, mp)
    <3> SUFFICES ASSUME On(w, mp) # {} PROVE Last(On(w, mp)) \in On(w, mp)
      OBVIOUS
    <3>1. On(w, mp) \in SUBSET Nat /\ On(w, mp) \subseteq 1 .. Len(w.mounts) /\ Len(w.mounts) \in Nat
      BY DEF On, Worlds
    <3>2. IsFiniteSet(On(w, mp))
      <4>1. \A i \in On(w, mp) : i <= Len(w.mounts)
        BY <3>1
      <4> QED
        BY <3>1, <4>1, FS_BoundedSetOfNaturals
    <3>3. PICK i \in On(w, mp) : \A j \in On(w, mp) : j <= i
      BY <3>1, <3>2, Greatest
    <3> QED
      BY <3>3 DEF Last
  <2> HIDE DEF y
  <2>5. CASE Empty(u, mp)
    BY <1>1, <1>3, <2>1, <2>2, <2>3, <2>4, <2>5 DEF Empty, x, mp
  <2>6. CASE ~Empty(u, mp)
    BY <1>1, <1>3, <2>1, <2>2, <2>3, <2>4, <2>6 DEF Empty, x, mp
  <2> QED
    BY <2>5, <2>6
<1> QED
  BY <1>2, <1>3

\* humount leaves alone what is of another device.
LEMMA HumountOthers ==
    ASSUME NEW w \in Worlds, Sane(w), NEW v \in Volumes, v.name \in NamesOf(v.dev),
           NEW d \in Devices, d # v.dev, Alone(d)
    PROVE  LET x == Humount(w, v) IN
           /\ MountedAt(x, d) = MountedAt(w, d)
           /\ Recorded(x, d) = Recorded(w, d)
           /\ OnceIn(w.mounts, d) => OnceIn(x.mounts, d)
<1> DEFINE x == Humount(w, v)
           mp == UnmountPoint(v)
           n == Last(On(w, mp))
<1>1. v.dev \in Devices /\ mp[1] = v.name
  BY DEF Volumes, UnmountPoint
<1>2. w.mounts \in Seq(Mounts)
  BY DEF Worlds
<1>3. \/ x.mounts = w.mounts
      \/ n \in On(w, mp) /\ x.mounts = Without(w.mounts, n)
  BY HumountEffect
<1>4. \/ x.mnts = w.mnts \/ x.mnts = {e \in w.mnts : e.dev # v.dev}
  BY HumountEffect
<1> HIDE DEF x, n
<1>5. Recorded(x, d) = Recorded(w, d)
  <2>1. CASE x.mnts = w.mnts
    BY <2>1 DEF Recorded
  <2>2. CASE x.mnts = {e \in w.mnts : e.dev # v.dev}
    <3>1. {e \in x.mnts : e.dev = d} = {e \in w.mnts : e.dev = d}
      BY <2>2
    <3> QED
      BY <3>1 DEF Recorded
  <2> QED
    BY <1>4, <2>1, <2>2
<1>6. CASE x.mounts = w.mounts
  BY <1>5, <1>6 DEF MountedAt, x
<1>7. CASE n \in On(w, mp) /\ x.mounts = Without(w.mounts, n)
  <2>1. n \in DOMAIN w.mounts /\ w.mounts[n].mp = mp
    BY <1>7 DEF On
  <2>2. w.mounts[n].dev # d
    <3> SUFFICES ASSUME w.mounts[n].dev = d PROVE FALSE
      OBVIOUS
    <3>1. w.mounts[n] \in Elems(w.mounts)
      BY <2>1 DEF Elems
    <3>2. v.name \in NamesOf(d)
      BY <1>1, <2>1, <3>1 DEF Sane
    <3> QED
      BY <1>1, <3>2, OwnName
  <2>3. Elems(x.mounts) = {w.mounts[i] : i \in DOMAIN w.mounts \ {n}}
    BY <1>2, <1>7, <2>1, ElemsWithout
  <2>4. {f \in Elems(x.mounts) : f.dev = d} = {f \in Elems(w.mounts) : f.dev = d}
    BY <2>2, <2>3 DEF Elems
  <2>5. MountedAt(x, d) = MountedAt(w, d)
    BY <2>4 DEF MountedAt
  <2>6. OnceIn(w.mounts, d) => OnceIn(x.mounts, d)
    BY <1>2, <1>7, <2>1, OnceWithout
  <2> QED
    BY <1>5, <2>5, <2>6 DEF x
<1> QED
  BY <1>3, <1>6, <1>7

\* humount unmounts a device with names of its own from where the volume was.
LEMMA HumountOwn ==
    ASSUME NEW w \in Worlds, Sane(w), NEW v \in Volumes, v.name \in NamesOf(v.dev),
           Alone(v.dev), NEW T, Tidy(w, v.dev, T),
           MountedAt(w, v.dev) \subseteq IF v.type \in Mountable THEN {UnmountPoint(v)} ELSE {}
    PROVE  LET x == Humount(w, v) IN
           Tidy(x, v.dev, T) /\ MountedAt(x, v.dev) = {}
<1> DEFINE x == Humount(w, v)
           d == v.dev
           mp == UnmountPoint(v)
           n == Last(On(w, mp))
<1>1. d \in Devices /\ mp[1] = v.name
  BY DEF Volumes, UnmountPoint
<1>2. w.mounts \in Seq(Mounts) /\ x \in Worlds
  BY HumountEffect DEF Worlds
<1>3. CASE v.type \notin Mountable
  BY <1>3, HumountEffect
<1>4. CASE v.type \in Mountable
  <2>1. \/ On(w, mp) = {} /\ x.mounts = w.mounts
        \/ n \in On(w, mp) /\ x.mounts = Without(w.mounts, n)
    BY <1>4, HumountEffect
  <2>2. \/ /\ x.dirs = w.dirs \ {mp} /\ \A e \in Elems(x.mounts) : e.mp # mp
           /\ x.mnts = {e \in w.mnts : e.dev # v.dev}
        \/ /\ x.dirs = w.dirs /\ x.mnts = w.mnts
           /\ mp \notin w.dirs \/ \E e \in Elems(x.mounts) : e.mp = mp
    BY <1>4, HumountEffect
  <2> HIDE DEF x, n
  <2>3. \A i \in On(w, mp) : i \in DOMAIN w.mounts /\ w.mounts[i].dev = d
    BY <1>1, OnOwn
  <2>4. \A i \in DOMAIN w.mounts : w.mounts[i].dev = d => i \in On(w, mp)
    <3> SUFFICES ASSUME NEW i \in DOMAIN w.mounts, w.mounts[i].dev = d PROVE i \in On(w, mp)
      OBVIOUS
    <3>1. w.mounts[i].mp \in MountedAt(w, d)
      BY Where
    <3> QED
      BY <1>4, <3>1 DEF On
  <2>5. On(w, mp) = {} => \A e \in Elems(x.mounts) : e.dev # d
    BY <2>1, <2>4 DEF Elems
  <2>6. n \in On(w, mp) => \A e \in Elems(x.mounts) : e.dev # d
    <3> SUFFICES ASSUME n \in On(w, mp) PROVE \A e \in Elems(x.mounts) : e.dev # d
      OBVIOUS
    <3>1. x.mounts = Without(w.mounts, n) /\ n \in DOMAIN w.mounts /\ w.mounts[n].dev = d
      BY <2>1, <2>3
    <3>2. Elems(x.mounts) = {w.mounts[i] : i \in DOMAIN w.mounts \ {n}}
      BY <1>2, <3>1, ElemsWithout
    <3> QED
      BY <3>1, <3>2 DEF Tidy, OnceIn
  <2>7. \A e \in Elems(x.mounts) : e.dev # d
    BY <2>1, <2>5, <2>6
  <2>8. MountedAt(x, d) = {}
    BY <2>7 DEF MountedAt
  <2>9. OnceIn(x.mounts, d)
    BY <2>7 DEF OnceIn, Elems
  <2>10. d \notin T => Recorded(x, d) = {}
    <3> SUFFICES ASSUME d \notin T PROVE Recorded(x, d) = {}
      OBVIOUS
    <3>1. CASE x.mnts = {e \in w.mnts : e.dev # v.dev}
      BY <3>1 DEF Recorded
    <3>2. CASE x.mnts = w.mnts /\ mp \notin w.dirs
      <4>1. \A i \in DOMAIN w.mounts : w.mounts[i].dev # d
        <5> SUFFICES ASSUME NEW i \in DOMAIN w.mounts, w.mounts[i].dev = d PROVE FALSE
          OBVIOUS
        <5>1. w.mounts[i].mp = mp
          BY <2>4 DEF On
        <5> QED
          BY <3>2, <5>1 DEF Sane, Elems
      <4>2. MountedAt(w, d) = {}
        BY <4>1 DEF MountedAt, Elems
      <4> QED
        BY <3>2, <4>2 DEF Tidy, Recorded
    <3>3. CASE \E e \in Elems(x.mounts) : e.mp = mp
      <4>1. PICK e \in Elems(x.mounts) : e.mp = mp
        BY <3>3
      <4>2. e \in Elems(w.mounts)
        <5>1. CASE On(w, mp) = {} /\ x.mounts = w.mounts
          BY <4>1, <5>1
        <5>2. CASE n \in On(w, mp) /\ x.mounts = Without(w.mounts, n)
          <6>1. Elems(x.mounts) = {w.mounts[i] : i \in DOMAIN w.mounts \ {n}}
            BY <1>2, <2>3, <5>2, ElemsWithout
          <6> QED
            BY <4>1, <6>1 DEF Elems
        <5> QED
          BY <2>1, <5>1, <5>2
      <4>3. PICK i \in DOMAIN w.mounts : e = w.mounts[i]
        BY <4>2 DEF Elems
      <4>4. i \in On(w, mp)
        BY <4>1, <4>3 DEF On
      <4> QED
        BY <2>3, <2>7, <4>1, <4>3, <4>4
    <3> QED
      BY <2>2, <3>1, <3>2, <3>3
  <2> QED
    BY <2>8, <2>9, <2>10 DEF Tidy, x
<1> QED
  BY <1>3, <1>4

\* humount keeps names and directories.
LEMMA HumountSane ==
    ASSUME NEW w \in Worlds, Sane(w), NEW v \in Volumes
    PROVE  Sane(Humount(w, v))
<1> DEFINE x == Humount(w, v)
           mp == UnmountPoint(v)
           n == Last(On(w, mp))
<1>1. x.vlist = w.vlist
  BY HumountEffect
<1>2. w.mounts \in Seq(Mounts)
  BY DEF Worlds
<1>3. CASE x = w
  BY <1>3
<1>4. CASE v.type \in Mountable
  <2>1. \/ x.mounts = w.mounts
        \/ n \in On(w, mp) /\ x.mounts = Without(w.mounts, n)
    BY <1>4, HumountEffect
  <2>2. \/ x.dirs = w.dirs \ {mp} /\ \A e \in Elems(x.mounts) : e.mp # mp
        \/ x.dirs = w.dirs
    BY <1>4, HumountEffect
  <2> HIDE DEF x, n
  <2>3. Elems(x.mounts) \subseteq Elems(w.mounts)
    <3>1. CASE n \in On(w, mp) /\ x.mounts = Without(w.mounts, n)
      <4>1. n \in DOMAIN w.mounts
        BY <3>1 DEF On
      <4>2. Elems(x.mounts) = {w.mounts[i] : i \in DOMAIN w.mounts \ {n}}
        BY <1>2, <3>1, <4>1, ElemsWithout
      <4> QED
        BY <4>2 DEF Elems
    <3> QED
      BY <2>1, <3>1
  <2>4. \A e \in Elems(x.mounts) : e.mp[1] \in NamesOf(e.dev) /\ e.mp \in x.dirs
    BY <2>2, <2>3 DEF Sane
  <2> QED
    BY <1>1, <2>4 DEF Sane, x
<1> QED
  BY <1>3, <1>4, HumountEffect

\* Nothing about a device changes when neither list nor mounts nor records do.
LEMMA SameTrans ==
    ASSUME NEW w, NEW x, NEW y, NEW d, SameFor(w, x, d), SameFor(x, y, d)
    PROVE  SameFor(w, y, d)
BY DEF SameFor

\* A device that leaves the list: nothing else changes.
LEMMA UnlistedEffect ==
    ASSUME NEW w \in Worlds, Distinct(w.vlist), Sane(w), NEW d \in Devices
    PROVE  LET x == Unlisted(w, d) IN
           /\ Sane(x) /\ Entries(x, d) = {}
           /\ \A e \in Devices \ {d} : Entries(x, e) = Entries(w, e)
           /\ x.mounts = w.mounts /\ x.mnts = w.mnts
           /\ \A e : MountedAt(x, e) = MountedAt(w, e) /\ Recorded(x, e) = Recorded(w, e)
<1> DEFINE x == Unlisted(w, d)
           c == First(w, d)
<1>1. w.vlist \in Seq(Volumes)
  BY DEF Worlds
<1>2. x.mounts = w.mounts /\ x.mnts = w.mnts /\ x.dirs = w.dirs
  BY UnlistedType
<1>3. \A e : MountedAt(x, e) = MountedAt(w, e) /\ Recorded(x, e) = Recorded(w, e)
  BY <1>2 DEF MountedAt, Recorded
<1>4. CASE Mine(w, d) = {}
  <2>1. x = w
    BY <1>4, UnlistedType
  <2>2. Entries(w, d) = {}
    BY <1>4 DEF Entries, Elems, Mine
  <2> QED
    BY <2>1, <2>2
<1>5. CASE Mine(w, d) # {}
  <2>1. /\ x.vlist = Without(w.vlist, c) /\ c \in DOMAIN w.vlist /\ Mine(w, d) = {c}
    BY <1>5, UnlistedType
  <2> HIDE DEF x, c
  <2>2. w.vlist[c].dev = d /\ \A i \in DOMAIN w.vlist : w.vlist[i].dev = d => i = c
    BY <2>1 DEF Mine
  <2>3. Elems(x.vlist) = {w.vlist[i] : i \in DOMAIN w.vlist \ {c}}
    BY <1>1, <2>1, ElemsWithout
  <2>4. Entries(x, d) = {} /\ \A e \in Devices \ {d} : Entries(x, e) = Entries(w, e)
    BY <2>2, <2>3 DEF Entries, Elems
  <2>5. \A v \in Elems(x.vlist) : v \in Elems(w.vlist)
    BY <2>3 DEF Elems
  <2>6. Sane(x)
    BY <1>2, <2>5 DEF Sane
  <2> QED
    BY <1>2, <1>3, <2>4, <2>6 DEF x
<1> QED
  BY <1>4, <1>5

\* The volume of a device, if it has one.
LEMMA FirstEntry ==
    ASSUME NEW w \in Worlds, Distinct(w.vlist), Sane(w), NEW d \in Devices, Mine(w, d) # {}
    PROVE  LET v == w.vlist[First(w, d)] IN
           /\ v \in Volumes /\ v.dev = d /\ v.name \in NamesOf(d)
           /\ MountPoints(w, d) \subseteq IF v.type \in Mountable THEN {UnmountPoint(v)} ELSE {}
<1> DEFINE v == w.vlist[First(w, d)]
<1>1. /\ First(w, d) \in DOMAIN w.vlist /\ v \in Volumes /\ Mine(w, d) = {First(w, d)}
  BY UnlistedType
<1>2. v.dev = d /\ \A i \in DOMAIN w.vlist : w.vlist[i].dev = d => i = First(w, d)
  BY <1>1 DEF Mine
<1>3. v \in Elems(w.vlist)
  BY <1>1 DEF Elems
<1>4. Entries(w, d) \subseteq {v}
  BY <1>2 DEF Entries, Elems
<1>5. MountPoints(w, d) \subseteq IF v.type \in Mountable THEN {UnmountPoint(v)} ELSE {}
  BY <1>4 DEF MountPoints
<1>6. v.name \in NamesOf(d)
  BY <1>2, <1>3 DEF Sane
<1> QED
  BY <1>1, <1>2, <1>5, <1>6

\* remove_device: the device is not in the list, and not mounted where it was.
LEMMA RemoveEffect ==
    ASSUME NEW w \in Worlds, Distinct(w.vlist), Sane(w), NEW d \in Devices, NEW T
    PROVE  LET x == RemoveDevice(w, d) IN
           /\ Sane(x) /\ Entries(x, d) = {}
           /\ \A e \in Devices \ {d} : SameFor(w, x, e)
           /\ Alone(d) /\ Tidy(w, d, T) /\ MountedAt(w, d) \subseteq MountPoints(w, d)
                => Tidy(x, d, T) /\ MountedAt(x, d) = {}
<1> DEFINE x == RemoveDevice(w, d)
           v == w.vlist[First(w, d)]
           h == Humount(w, v)
<1>1. CASE Mine(w, d) = {}
  <2>1. x = w
    BY <1>1 DEF RemoveDevice
  <2>2. Entries(w, d) = {}
    BY <1>1 DEF Entries, Elems, Mine
  <2>3. MountPoints(w, d) = {}
    BY <2>2 DEF MountPoints
  <2> HIDE DEF x
  <2> QED
    BY <2>1, <2>2, <2>3 DEF SameFor, x
<1>2. CASE Mine(w, d) # {}
  <2>1. x = Unlisted(h, d)
    BY <1>2 DEF RemoveDevice
  <2>2. /\ v \in Volumes /\ v.dev = d /\ v.name \in NamesOf(d)
        /\ MountPoints(w, d) \subseteq IF v.type \in Mountable THEN {UnmountPoint(v)} ELSE {}
    BY <1>2, FirstEntry
  <2> HIDE DEF v, x
  <2>3. h \in Worlds /\ h.vlist = w.vlist /\ Sane(h)
    BY <2>2, HumountType, HumountSane
  <2>4. \A e \in Devices \ {d} : Alone(e) =>
           /\ MountedAt(h, e) = MountedAt(w, e) /\ Recorded(h, e) = Recorded(w, e)
           /\ OnceIn(w.mounts, e) => OnceIn(h.mounts, e)
    BY <2>2, HumountOthers
  <2>5. Alone(d) /\ Tidy(w, d, T) /\ MountedAt(w, d) \subseteq MountPoints(w, d)
           => Tidy(h, d, T) /\ MountedAt(h, d) = {}
    <3> SUFFICES ASSUME Alone(d), Tidy(w, d, T), MountedAt(w, d) \subseteq MountPoints(w, d)
                 PROVE  Tidy(h, d, T) /\ MountedAt(h, d) = {}
      OBVIOUS
    <3> HIDE DEF h
    <3> QED
      BY <2>2, HumountOwn DEF h
  <2> HIDE DEF h
  <2>6. /\ Sane(x) /\ Entries(x, d) = {} /\ x.mounts = h.mounts
        /\ \A e \in Devices \ {d} : Entries(x, e) = Entries(h, e)
        /\ \A e : MountedAt(x, e) = MountedAt(h, e) /\ Recorded(x, e) = Recorded(h, e)
    BY <2>1, <2>3, UnlistedEffect
  <2>7. \A e : Entries(h, e) = Entries(w, e)
    BY <2>3 DEF Entries
  <2>8. \A e \in Devices \ {d} : SameFor(w, x, e)
    BY <2>4, <2>6, <2>7 DEF SameFor
  <2>9. Tidy(h, d, T) /\ MountedAt(h, d) = {} => Tidy(x, d, T) /\ MountedAt(x, d) = {}
    BY <2>6 DEF Tidy
  <2> QED
    BY <2>5, <2>6, <2>8, <2>9 DEF x
<1> QED
  BY <1>1, <1>2

\* A volume with names of its own gets number 0.
LEMMA UniqueIdZero ==
    ASSUME NEW w \in Worlds, Sane(w), NEW d \in Devices, Alone(d), Entries(w, d) = {},
           NEW n \in NamesOf(d)
    PROVE  UniqueId(Elems(w.vlist), n) = 0
<1>1. Same(Elems(w.vlist), n) = {}
  <2> SUFFICES ASSUME NEW v \in Elems(w.vlist), v.name = n PROVE FALSE
    BY DEF Same
  <2>1. v \in Volumes
    BY DEF Elems, Worlds
  <2>2. v.dev \in Devices /\ v.dev # d /\ n \in NamesOf(v.dev)
    BY <2>1 DEF Volumes, Entries, Sane
  <2> QED
    BY <2>2, OwnName
<1> QED
  BY <1>1 DEF UniqueId

\* Where a device should be mounted when m is in it.
PointFor(d, m) ==
    IF IsVolume(d, m) /\ TypeOf(d, m) \in Mountable /\ m \notin Foreign
    THEN {<<Label[m], 0>>} ELSE {}

\* The names the list should have for it.
NameFor(d, m) == IF IsVolume(d, m) THEN {Label[m]} ELSE {}

\* add_device: a device that was not in the list is there if it is a volume; if it has
\* names of its own it is mounted where it should be, unless the event tells of
\* something that is not in it any more.
LEMMA AddEffect ==
    ASSUME NEW w \in Worlds, Distinct(w.vlist), Sane(w), NEW d \in Devices,
           NEW m \in Fits[d] \cup {Absent}, NEW x \in AddDevice(w, d, m), NEW T
    PROVE  /\ Sane(x)
           /\ \A e \in Devices \ {d} : SameFor(w, x, e)
           /\ Entries(w, d) = {} => {v.name : v \in Entries(x, d)} = NameFor(d, m)
           /\ /\ Alone(d) /\ Tidy(w, d, T) /\ Entries(w, d) = {}
              /\ MountedAt(w, d) \subseteq IF m = medium[d] THEN PointFor(d, m) ELSE {}
              => /\ Tidy(x, d, T)
                 /\ MountedAt(x, d) \subseteq MountPoints(x, d)
                 /\ m = medium[d] => MountedAt(x, d) = PointFor(d, m)
<1>1. IsNew(w, d, m) <=> IsVolume(d, m) /\ Entries(w, d) = {}
  BY DEF Entries, IsNew
<1>2. CASE Entries(w, d) # {}
  <2>1. x = w
    BY <1>1, <1>2 DEF AddDevice
  <2> QED
    BY <1>2, <2>1 DEF SameFor
<1>3. CASE Entries(w, d) = {} /\ ~IsVolume(d, m)
  <2>1. x = w
    BY <1>1, <1>3 DEF AddDevice
  <2> QED
    BY <1>3, <2>1 DEF SameFor, NameFor, PointFor
<1>4. CASE Entries(w, d) = {} /\ IsVolume(d, m)
  <2> DEFINE v == NewVolume(w, d, m)
             y == Enlisted(w, v)
             mp == MountPoint(v)
             entry == Entry(v)
  <2>1. w.vlist \in Seq(Volumes) /\ m \in Media /\ w.mounts \in Seq(Mounts)
    BY <1>4 DEF Worlds, IsVolume
  <2>2. v \in Volumes
    BY <1>1, <1>4, EnlistedType
  <2>3. x \in Hmount(y, v, m)
    BY <1>1, <1>4 DEF AddDevice
  <2>4. v.dev = d /\ v.name = Label[m] /\ v.type = TypeOf(d, m)
        /\ v.id = UniqueId(Elems(w.vlist), Label[m])
    BY DEF NewVolume
  <2>5. Label[m] \in NamesOf(d)
    BY <2>1, AutomountdAssumption DEF NamesOf
  <2>6. mp = <<Label[m], v.id>> /\ UnmountPoint(v) = <<Label[m], 0>>
    BY <2>4 DEF MountPoint, UnmountPoint
  <2>7. Alone(d) => v.id = 0
    BY <1>4, <2>4, <2>5, UniqueIdZero
  <2>9. /\ y \in Worlds /\ y.vlist = Append(w.vlist, v) /\ y.mounts = w.mounts
        /\ y.mnts = w.mnts /\ y.dirs = w.dirs
    BY <1>1, <1>4, EnlistedType
  <2> HIDE DEF v
  <2>8. entry \in Mounts
    BY <2>2, MountSteps
  <2>10. On(y, mp) = On(w, mp)
    BY <2>9 DEF On
  <2> HIDE DEF y
  <2> DEFINE over == On(w, mp) # {} /\ w.mounts[Last(On(w, mp))].dev = d
  <2>11. /\ x \in Worlds /\ x.vlist = Append(w.vlist, v) /\ w.dirs \subseteq x.dirs
         /\ \/ /\ x.mounts = w.mounts /\ x.mnts = w.mnts
               /\ v.type \notin Mountable \/ medium[d] # m \/ m \in Foreign \/ over
            \/ /\ v.type \in Mountable /\ medium[d] \in Media \ Foreign
               /\ x.mounts = Append(w.mounts, entry) /\ x.mnts = w.mnts \cup {entry}
               /\ mp \in x.dirs /\ ~over
    BY <2>2, <2>3, <2>4, <2>9, <2>10, HmountEffect
  <2> HIDE DEF entry, over, mp
  <2>12. entry.dev = d /\ entry.mp = mp
    BY <2>4 DEF entry, Entry, mp
  <2>13. Elems(x.vlist) = Elems(w.vlist) \cup {v}
    BY <2>1, <2>2, <2>11, ElemsAppend
  <2>14. Elems(x.mounts) = Elems(w.mounts) \/ Elems(x.mounts) = Elems(w.mounts) \cup {entry}
    <3>1. Elems(Append(w.mounts, entry)) = Elems(w.mounts) \cup {entry}
      BY <2>1, <2>8, ElemsAppend
    <3>2. x.mounts = w.mounts \/ x.mounts = Append(w.mounts, entry)
      BY <2>11
    <3> QED
      BY <3>1, <3>2
  <2>15. Entries(x, d) = {v}
    BY <1>4, <2>4, <2>13 DEF Entries
  <2>16. {u.name : u \in Entries(x, d)} = NameFor(d, m)
    BY <1>4, <2>4, <2>15 DEF NameFor
  <2>17. Sane(x)
    <3>1. \A u \in Elems(x.vlist) : u.name \in NamesOf(u.dev) /\ (Alone(u.dev) => u.id = 0)
      BY <2>4, <2>5, <2>7, <2>13 DEF Sane
    <3>2. \A e \in Elems(x.mounts) : e.mp[1] \in NamesOf(e.dev) /\ e.mp \in x.dirs
      <4>1. mp[1] = Label[m]
        BY <2>6
      <4>2. CASE x.mounts = w.mounts
        BY <2>11, <4>2 DEF Sane
      <4>3. CASE x.mounts = Append(w.mounts, entry) /\ mp \in x.dirs
        <5>1. Elems(x.mounts) = Elems(w.mounts) \cup {entry}
          BY <2>1, <2>8, <4>3, ElemsAppend
        <5> QED
          BY <2>5, <2>11, <2>12, <4>1, <4>3, <5>1 DEF Sane
      <4> QED
        BY <2>11, <4>2, <4>3
    <3> QED
      BY <3>1, <3>2 DEF Sane
  <2>18. \A e \in Devices \ {d} : SameFor(w, x, e)
    <3> SUFFICES ASSUME NEW e \in Devices \ {d} PROVE SameFor(w, x, e)
      OBVIOUS
    <3>1. Entries(x, e) = Entries(w, e)
      BY <2>4, <2>13 DEF Entries
    <3>2. {f \in Elems(x.mounts) : f.dev = e} = {f \in Elems(w.mounts) : f.dev = e}
      BY <2>12, <2>14
    <3>3. {f \in x.mnts : f.dev = e} = {f \in w.mnts : f.dev = e}
      BY <2>11, <2>12
    <3>4. OnceIn(w.mounts, e) => OnceIn(x.mounts, e)
      <4>1. OnceIn(w.mounts, e) => OnceIn(Append(w.mounts, entry), e)
        BY <2>1, <2>8, <2>12, OnceAppend
      <4>2. x.mounts = w.mounts \/ x.mounts = Append(w.mounts, entry)
        BY <2>11
      <4> QED
        BY <4>1, <4>2
    <3> QED
      BY <3>1, <3>2, <3>3, <3>4 DEF SameFor, MountedAt, Recorded
  <2>19. ASSUME Alone(d), Tidy(w, d, T),
                MountedAt(w, d) \subseteq IF m = medium[d] THEN PointFor(d, m) ELSE {}
         PROVE  /\ Tidy(x, d, T)
                /\ MountedAt(x, d) \subseteq MountPoints(x, d)
                /\ m = medium[d] => MountedAt(x, d) = PointFor(d, m)
    <3>1. mp = <<Label[m], 0>> /\ mp[1] \in NamesOf(d)
      BY <2>5, <2>6, <2>7, <2>19
    <3>2. \A i \in On(w, mp) : i \in DOMAIN w.mounts /\ w.mounts[i].dev = d /\ w.mounts[i].mp = mp
      BY <2>19, <3>1, OnOwn DEF On
    <3>3. over <=> mp \in MountedAt(w, d)
      <4>1. ASSUME On(w, mp) # {}
            PROVE  mp \in MountedAt(w, d) /\ w.mounts[Last(On(w, mp))].dev = d
        <5>1. On(w, mp) \in SUBSET Nat /\ On(w, mp) \subseteq 1 .. Len(w.mounts)
              /\ Len(w.mounts) \in Nat
          BY DEF On, Worlds
        <5>2. IsFiniteSet(On(w, mp))
          <6>1. \A i \in On(w, mp) : i <= Len(w.mounts)
            BY <5>1
          <6> QED
            BY <5>1, <6>1, FS_BoundedSetOfNaturals
        <5>3. PICK i \in On(w, mp) : \A j \in On(w, mp) : j <= i
          BY <4>1, <5>1, <5>2, Greatest
        <5>4. Last(On(w, mp)) \in On(w, mp)
          BY <5>3 DEF Last
        <5> QED
          BY <3>2, <5>4, Where
      <4>2. ASSUME mp \in MountedAt(w, d) PROVE On(w, mp) # {}
        BY <4>2, Where DEF On
      <4> QED
        BY <4>1, <4>2 DEF over
    <3>4. MountPoints(x, d) = IF v.type \in Mountable THEN {mp} ELSE {}
      BY <2>6, <2>15, <3>1 DEF MountPoints
    <3>5. PointFor(d, m) = IF v.type \in Mountable /\ m \notin Foreign THEN {mp} ELSE {}
      BY <1>4, <2>4, <3>1 DEF PointFor
    <3>6. MountedAt(w, d) \subseteq {mp}
      BY <2>19, <3>5
    <3>7. CASE /\ x.mounts = w.mounts /\ x.mnts = w.mnts
               /\ v.type \notin Mountable \/ medium[d] # m \/ m \in Foreign \/ over
      <4>1. MountedAt(x, d) = MountedAt(w, d) /\ Tidy(x, d, T)
        BY <2>19, <3>7 DEF MountedAt, Tidy, Recorded
      <4>2. MountedAt(x, d) \subseteq MountPoints(x, d)
        BY <2>19, <3>4, <3>5, <4>1
      <4>3. ASSUME m = medium[d] PROVE MountedAt(x, d) = PointFor(d, m)
        <5>1. CASE PointFor(d, m) = {}
          BY <2>19, <4>1, <5>1
        <5>2. CASE PointFor(d, m) # {}
          <6>1. over
            BY <3>5, <3>7, <4>3, <5>2
          <6> QED
            BY <2>19, <3>3, <3>5, <4>1, <5>2, <6>1
        <5> QED
          BY <5>1, <5>2
      <4> QED
        BY <4>1, <4>2, <4>3
    <3>8. CASE /\ v.type \in Mountable /\ medium[d] \in Media \ Foreign
               /\ x.mounts = Append(w.mounts, entry) /\ x.mnts = w.mnts \cup {entry}
               /\ ~over
      <4>1. MountedAt(w, d) = {}
        BY <3>3, <3>6, <3>8
      <4>2. \A e \in Elems(w.mounts) : e.dev # d
        BY <4>1 DEF MountedAt
      <4>3. OnceIn(x.mounts, d)
        BY <2>1, <2>8, <2>19, <3>8, <4>2, OnceAppend DEF Tidy
      <4>4. Elems(x.mounts) = Elems(w.mounts) \cup {entry}
        BY <2>1, <2>8, <3>8, ElemsAppend
      <4>5. MountedAt(x, d) = {mp}
        BY <2>12, <4>2, <4>4 DEF MountedAt
      <4>6. d \notin T => Recorded(w, d) = {}
        BY <2>19, <4>1 DEF Tidy
      <4>7. d \notin T => Recorded(x, d) = {mp}
        BY <2>12, <3>8, <4>6 DEF Recorded
      <4>8. m = medium[d] => PointFor(d, m) = {mp}
        BY <3>5, <3>8
      <4> QED
        BY <3>4, <3>8, <4>3, <4>5, <4>7, <4>8 DEF Tidy
    <3> QED
      BY <2>11, <3>7, <3>8
  <2> QED
    BY <1>4, <2>16, <2>17, <2>18, <2>19
<1> QED
  BY <1>2, <1>3, <1>4

\* handle_device, seen by the device it handles and by the others.
LEMMA HandleEffect ==
    ASSUME IInv, Sane(World), NEW action \in Actions, NEW d \in Devices,
           NEW m \in Fits[d] \cup {Absent}, action = "remove" <=> m = Absent,
           HandleDevice(action, d, m), NEW T
    PROVE  /\ Sane(World')
           /\ \A e \in Devices \ {d} : SameFor(World, World', e)
           /\ (action = "add" => Entries(World, d) = {})
                => {v.name : v \in Entries(World', d)} = NameFor(d, m)
           /\ /\ Alone(d) /\ Tidy(World, d, T)
              /\ IF action = "add"
                 THEN /\ Entries(World, d) = {}
                      /\ MountedAt(World, d) \subseteq
                            IF m = medium[d] THEN PointFor(d, m) ELSE {}
                 ELSE MountedAt(World, d) \subseteq MountPoints(World, d)
              => /\ Tidy(World', d, T)
                 /\ MountedAt(World', d) \subseteq MountPoints(World', d)
                 /\ m = medium[d] => MountedAt(World', d) = PointFor(d, m)
<1>1. World \in Worlds /\ Distinct(World.vlist)
  BY DEF IInv, Types, World, Worlds
<1>2. ASSUME NEW w \in Worlds, Becoming(w)
      PROVE  World' = w
  BY <1>2 DEF World, Worlds, Becoming
<1>3. CASE action = "add"
  <2>1. PICK w \in AddDevice(World, d, m) : Becoming(w)
    BY <1>3 DEF HandleDevice
  <2>2. w \in Worlds
    BY <1>1, AddDeviceDistinct
  <2>3. World' = w
    BY <1>2, <2>1, <2>2
  <2> QED
    BY <1>1, <1>3, <2>3, AddEffect
<1>4. CASE action \in {"change", "remove"}
  <2> DEFINE r == RemoveDevice(World, d)
  <2>1. r \in Worlds /\ Distinct(r.vlist)
    BY <1>1, RemoveDeviceDistinct
  <2>2. /\ Sane(r) /\ Entries(r, d) = {}
        /\ \A e \in Devices \ {d} : SameFor(World, r, e)
        /\ Alone(d) /\ Tidy(World, d, T) /\ MountedAt(World, d) \subseteq MountPoints(World, d)
             => Tidy(r, d, T) /\ MountedAt(r, d) = {}
    BY <1>1, RemoveEffect
  <2>3. PICK w \in AddDevice(r, d, m) : Becoming(w)
    <3>1. CASE action = "change"
      BY <3>1 DEF HandleDevice
    <3>2. CASE action = "remove"
      <4>1. ~IsVolume(d, m)
        BY <3>2, AutomountdAssumption DEF IsVolume
      <4>2. r \in AddDevice(r, d, m)
        BY <4>1 DEF AddDevice, IsNew
      <4>3. Becoming(r)
        BY <3>2 DEF HandleDevice
      <4> QED
        BY <4>2, <4>3
    <3> QED
      BY <1>4, <3>1, <3>2
  <2> HIDE DEF r
  <2>4. w \in Worlds
    BY <2>1, AddDeviceDistinct
  <2>5. World' = w
    BY <1>2, <2>3, <2>4
  <2>6. /\ Sane(w)
        /\ \A e \in Devices \ {d} : SameFor(r, w, e)
        /\ Entries(r, d) = {} => {v.name : v \in Entries(w, d)} = NameFor(d, m)
        /\ /\ Alone(d) /\ Tidy(r, d, T) /\ Entries(r, d) = {}
           /\ MountedAt(r, d) \subseteq IF m = medium[d] THEN PointFor(d, m) ELSE {}
           => /\ Tidy(w, d, T)
              /\ MountedAt(w, d) \subseteq MountPoints(w, d)
              /\ m = medium[d] => MountedAt(w, d) = PointFor(d, m)
    BY <2>1, <2>2, <2>3, AddEffect
  <2>7. \A e \in Devices \ {d} : SameFor(World, w, e)
    BY <2>2, <2>6, SameTrans
  <2>8. action # "add"
    BY <1>4
  <2> QED
    BY <2>2, <2>5, <2>6, <2>7, <2>8
<1> QED
  BY <1>3, <1>4 DEF Actions

\* add_device whose script is stopped: its volume is listed, its mount is done or not,
\* its line is not written.
LEMMA AddStoppedForm ==
    ASSUME NEW w \in Worlds, Distinct(w.vlist), NEW d \in Devices, NEW m,
           NEW x \in AddStopped(w, d, m)
    PROVE  \E y \in AddDevice(w, d, m) :
              /\ x.vlist = y.vlist /\ x.mnts = w.mnts /\ w.dirs \subseteq x.dirs
              /\ \/ x.mounts = w.mounts
                 \/ x.mounts = y.mounts /\ x.dirs = y.dirs
<1> DEFINE v == NewVolume(w, d, m)
           e == Enlisted(w, v)
           works == MountWorks(e, v.dev, m, MountPoint(v))
<1>1. IsNew(w, d, m) /\ x \in HmountStopped(e, v, m)
  BY DEF AddStopped
<1>2. /\ v \in Volumes /\ e \in Worlds /\ m \in Media
      /\ e.mounts = w.mounts /\ e.dirs = w.dirs /\ e.mnts = w.mnts
  BY <1>1, EnlistedType
<1>3. AddDevice(w, d, m) = Hmount(e, v, m) /\ v.dev = d
  BY <1>1 DEF AddDevice, NewVolume
<1>4. v.type \in Mountable /\ (x \in {e, Made(e, v)} \/ (x = Mounted(e, v) /\ TRUE \in works))
  BY <1>1 DEF HmountStopped
<1>5. Hmount(e, v, m) = {IF ok THEN Noted(e, v) ELSE Made(e, v) : ok \in works}
  BY <1>4 DEF Hmount
<1>6. works # {} /\ works \subseteq BOOLEAN
  <2> DEFINE over == On(e, MountPoint(v)) # {}
                     /\ e.mounts[Last(On(e, MountPoint(v)))].dev = v.dev
  <2>1. works = {ok \in BOOLEAN : IF ok THEN medium[v.dev] \in Media \ Foreign /\ ~over
                                  ELSE medium[v.dev] # m \/ m \in Foreign \/ over}
    BY DEF MountWorks
  <2> HIDE DEF over, works
  <2>2. CASE medium[v.dev] \in Media \ Foreign /\ ~over
    <3>1. TRUE \in works
      BY <2>1, <2>2
    <3> QED
      BY <2>1, <3>1
  <2>3. CASE ~(medium[v.dev] \in Media \ Foreign /\ ~over)
    <3>1. medium[v.dev] # m \/ m \in Foreign \/ over
      BY <1>2, <2>3
    <3>2. FALSE \in works
      BY <2>1, <3>1
    <3> QED
      BY <2>1, <3>2
  <2> QED
    BY <2>2, <2>3
<1> HIDE DEF v, e, works
<1>7. CASE x = Mounted(e, v) /\ TRUE \in works
  <2>1. Noted(e, v) \in AddDevice(w, d, m)
    BY <1>3, <1>5, <1>7
  <2> QED
    BY <1>2, <1>7, <2>1, MountSteps
<1>8. CASE x \in {e, Made(e, v)}
  <2>1. PICK y \in AddDevice(w, d, m) : y \in {Noted(e, v), Made(e, v)}
    BY <1>3, <1>5, <1>6
  <2>2. y.vlist = e.vlist
    BY <1>2, <2>1, MountSteps
  <2>3. /\ x.vlist = e.vlist /\ x.mnts = e.mnts /\ x.mounts = e.mounts
        /\ e.dirs \subseteq x.dirs
    BY <1>2, <1>8, MountSteps
  <2> QED
    BY <1>2, <2>2, <2>3
<1> QED
  BY <1>4, <1>7, <1>8

\* What it leaves, for the device and for the others.
LEMMA AddStoppedEffect ==
    ASSUME NEW w \in Worlds, Distinct(w.vlist), Sane(w), NEW d \in Devices,
           NEW m \in Fits[d] \cup {Absent}, NEW x \in AddStopped(w, d, m)
    PROVE  /\ Sane(x)
           /\ \A e \in Devices \ {d} : SameFor(w, x, e)
           /\ Entries(w, d) = {} => {v.name : v \in Entries(x, d)} = NameFor(d, m)
           /\ /\ Alone(d) /\ Tidy(w, d, {d}) /\ Entries(w, d) = {}
              /\ MountedAt(w, d) \subseteq IF m = medium[d] THEN PointFor(d, m) ELSE {}
              => /\ Tidy(x, d, {d})
                 /\ MountedAt(x, d) \subseteq MountPoints(x, d)
                 /\ m = medium[d] => MountedAt(x, d) \subseteq PointFor(d, m)
<1>1. PICK y \in AddDevice(w, d, m) :
              /\ x.vlist = y.vlist /\ x.mnts = w.mnts /\ w.dirs \subseteq x.dirs
              /\ \/ x.mounts = w.mounts
                 \/ x.mounts = y.mounts /\ x.dirs = y.dirs
  BY AddStoppedForm
<1>2. /\ Sane(y)
      /\ \A e \in Devices \ {d} : SameFor(w, y, e)
      /\ Entries(w, d) = {} => {v.name : v \in Entries(y, d)} = NameFor(d, m)
      /\ /\ Alone(d) /\ Tidy(w, d, {d}) /\ Entries(w, d) = {}
         /\ MountedAt(w, d) \subseteq IF m = medium[d] THEN PointFor(d, m) ELSE {}
         => /\ Tidy(y, d, {d})
            /\ MountedAt(y, d) \subseteq MountPoints(y, d)
            /\ m = medium[d] => MountedAt(y, d) = PointFor(d, m)
  BY AddEffect
<1>3. \A e : /\ Entries(x, e) = Entries(y, e) /\ MountPoints(x, e) = MountPoints(y, e)
             /\ Recorded(x, e) = Recorded(w, e)
  BY <1>1 DEF Entries, MountPoints, Recorded
<1>4. CASE x.mounts = w.mounts
  <2>1. \A e : MountedAt(x, e) = MountedAt(w, e)
    BY <1>4 DEF MountedAt
  <2>2. Sane(x)
    BY <1>1, <1>2, <1>4 DEF Sane
  <2>3. \A e \in Devices \ {d} : SameFor(w, x, e)
    BY <1>2, <1>3, <1>4, <2>1 DEF SameFor
  <2>4. Tidy(w, d, {d}) => Tidy(x, d, {d})
    BY <1>4 DEF Tidy
  <2> QED
    BY <1>2, <1>3, <2>1, <2>2, <2>3, <2>4
<1>5. CASE x.mounts = y.mounts /\ x.dirs = y.dirs
  <2>1. \A e : MountedAt(x, e) = MountedAt(y, e)
    BY <1>5 DEF MountedAt
  <2>2. Sane(x)
    BY <1>1, <1>2, <1>5 DEF Sane
  <2>3. \A e \in Devices \ {d} : SameFor(w, x, e)
    BY <1>2, <1>3, <1>5, <2>1 DEF SameFor
  <2>4. Tidy(y, d, {d}) => Tidy(x, d, {d})
    BY <1>5 DEF Tidy
  <2> QED
    BY <1>2, <1>3, <2>1, <2>2, <2>3, <2>4
<1> QED
  BY <1>1, <1>4, <1>5

\* remove_device whose script is stopped after its umount: it differs from the whole
\* in directory and line.
LEMMA RemoveStoppedForm ==
    ASSUME NEW w \in Worlds, Distinct(w.vlist), NEW d \in Devices,
           NEW x \in RemoveStopped(w, d)
    PROVE  LET y == RemoveDevice(w, d) IN
           /\ x.vlist = y.vlist /\ x.mounts = y.mounts
           /\ x.mnts = w.mnts /\ y.dirs \subseteq x.dirs
<1> DEFINE v == w.vlist[First(w, d)]
           mp == UnmountPoint(v)
           u == Unmounted(w, mp)
           r == Removed(u, mp)
           k == Humount(w, v)
           y == RemoveDevice(w, d)
<1>1. PICK h \in HumountStopped(w, v) : x = Unlisted(h, d) /\ Mine(w, d) # {}
  BY DEF RemoveStopped
<1>2. v.type \in Mountable /\ h \in {u, r} /\ y = Unlisted(k, d)
  BY <1>1 DEF HumountStopped, RemoveDevice
<1>3. k = [r EXCEPT !.mnts = IF Empty(u, mp) THEN {e \in @ : e.dev # v.dev} ELSE @]
  BY <1>2 DEF Humount
<1>4. v \in Volumes
  BY <1>1, UnlistedType
<1>5. k \in Worlds /\ k.vlist = w.vlist
  BY <1>4, HumountType
<1> HIDE DEF mp, v, y
<1>6. /\ u \in Worlds /\ u.vlist = w.vlist /\ u.mnts = w.mnts
  BY UnmountSteps
<1> HIDE DEF u
<1>7. /\ r \in Worlds /\ r.vlist = w.vlist /\ r.mounts = u.mounts /\ r.dirs \subseteq u.dirs
      /\ r.mnts = w.mnts
  BY <1>6, UnmountSteps
<1> HIDE DEF r
<1>8. k.mounts = r.mounts /\ k.dirs = r.dirs
  BY <1>3, <1>7 DEF Worlds
<1> HIDE DEF k
<1>9. /\ h \in Worlds /\ h.vlist = k.vlist /\ h.mounts = k.mounts /\ h.mnts = w.mnts
      /\ k.dirs \subseteq h.dirs
  BY <1>2, <1>5, <1>6, <1>7, <1>8
<1>10. /\ x.mounts = h.mounts /\ x.dirs = h.dirs /\ x.mnts = h.mnts
       /\ y.mounts = k.mounts /\ y.dirs = k.dirs
  BY <1>1, <1>2, <1>5, <1>9, UnlistedType
<1>11. x.vlist = y.vlist
  <2>1. Mine(h, d) = Mine(k, d) /\ First(h, d) = First(k, d)
    BY <1>9, SameFirst
  <2>2. /\ Mine(h, d) = {} => x.vlist = h.vlist
        /\ Mine(h, d) # {} => x.vlist = Without(h.vlist, First(h, d))
    BY <1>1, <1>5, <1>9, UnlistedType
  <2>3. /\ Mine(k, d) = {} => y.vlist = k.vlist
        /\ Mine(k, d) # {} => y.vlist = Without(k.vlist, First(k, d))
    BY <1>2, <1>5, UnlistedType
  <2> QED
    BY <1>9, <2>1, <2>2, <2>3
<1> QED
  BY <1>9, <1>10, <1>11 DEF y

LEMMA RemoveStoppedEffect ==
    ASSUME NEW w \in Worlds, Distinct(w.vlist), Sane(w), NEW d \in Devices,
           NEW x \in RemoveStopped(w, d)
    PROVE  /\ Sane(x) /\ Entries(x, d) = {}
           /\ \A e \in Devices \ {d} : SameFor(w, x, e)
           /\ Alone(d) /\ Tidy(w, d, {d}) /\ MountedAt(w, d) \subseteq MountPoints(w, d)
                => Tidy(x, d, {d}) /\ MountedAt(x, d) = {}
<1> DEFINE y == RemoveDevice(w, d)
<1>1. /\ x.vlist = y.vlist /\ x.mounts = y.mounts
      /\ x.mnts = w.mnts /\ y.dirs \subseteq x.dirs
  BY RemoveStoppedForm
<1>2. /\ Sane(y) /\ Entries(y, d) = {}
      /\ \A e \in Devices \ {d} : SameFor(w, y, e)
      /\ Alone(d) /\ Tidy(w, d, {d}) /\ MountedAt(w, d) \subseteq MountPoints(w, d)
           => Tidy(y, d, {d}) /\ MountedAt(y, d) = {}
  BY RemoveEffect
<1> HIDE DEF y
<1>3. \A e : /\ Entries(x, e) = Entries(y, e) /\ MountedAt(x, e) = MountedAt(y, e)
             /\ Recorded(x, e) = Recorded(w, e)
  BY <1>1 DEF Entries, MountedAt, Recorded
<1>4. Sane(x)
  BY <1>1, <1>2 DEF Sane
<1>5. \A e \in Devices \ {d} : SameFor(w, x, e)
  BY <1>1, <1>2, <1>3 DEF SameFor
<1>6. Tidy(y, d, {d}) => Tidy(x, d, {d})
  BY <1>1 DEF Tidy
<1> QED
  BY <1>2, <1>3, <1>4, <1>5, <1>6

\* What is done or stopped after a device was taken out of the list.
LEMMA RestEffect ==
    ASSUME NEW w \in Worlds, Distinct(w.vlist), Sane(w), NEW d \in Devices,
           NEW m \in Fits[d] \cup {Absent}, NEW action \in {"change", "remove"},
           action = "remove" <=> m = Absent, Entries(w, d) = {},
           NEW x \in Rest(action, w, d, m)
    PROVE  /\ x \in Worlds /\ Sane(x)
           /\ \A e \in Devices \ {d} : SameFor(w, x, e)
           /\ {v.name : v \in Entries(x, d)} = NameFor(d, m)
           /\ Alone(d) /\ Tidy(w, d, {d}) /\ MountedAt(w, d) = {}
              => /\ Tidy(x, d, {d})
                 /\ MountedAt(x, d) \subseteq MountPoints(x, d)
                 /\ m = medium[d] => MountedAt(x, d) \subseteq PointFor(d, m)
<1>1. CASE action = "change"
  <2>1. CASE x \in AddDevice(w, d, m)
    BY <2>1, AddDeviceDistinct, AddEffect
  <2>2. CASE x \in AddStopped(w, d, m)
    BY <2>2, AddStoppedDistinct, AddStoppedEffect
  <2> QED
    BY <1>1, <2>1, <2>2 DEF Rest
<1>2. CASE action = "remove"
  <2>1. x = w /\ m = Absent
    BY <1>2 DEF Rest
  <2>2. NameFor(d, m) = {} /\ {v.name : v \in Entries(x, d)} = {}
    BY <2>1, AutomountdAssumption DEF NameFor, IsVolume
  <2> QED
    BY <2>1, <2>2 DEF SameFor
<1> QED
  BY <1>1, <1>2

\* handle_device whose script is stopped, seen by the device and by the others: where
\* it is mounted is where it should be, but its line may be missing or wrong.
LEMMA StopEffect ==
    ASSUME IInv, Sane(World), NEW action \in Actions, NEW d \in Devices, Alone(d),
           NEW m \in Fits[d] \cup {Absent}, action = "remove" <=> m = Absent,
           StopDevice(action, d, m)
    PROVE  /\ Sane(World')
           /\ \A e \in Devices \ {d} : SameFor(World, World', e)
           /\ (action = "add" => Entries(World, d) = {})
                => {v.name : v \in Entries(World', d)} = NameFor(d, m)
           /\ /\ Tidy(World, d, {d}) /\ d \notin missed'
              /\ IF action = "add"
                 THEN /\ Entries(World, d) = {}
                      /\ MountedAt(World, d) \subseteq
                            IF m = medium[d] THEN PointFor(d, m) ELSE {}
                 ELSE MountedAt(World, d) \subseteq MountPoints(World, d)
              => /\ Tidy(World', d, {d})
                 /\ MountedAt(World', d) \subseteq MountPoints(World', d)
                 /\ m = medium[d] => MountedAt(World', d) \subseteq PointFor(d, m)
           /\ torn' = torn \cup {d} /\ missed \subseteq missed' /\ missed' \subseteq missed \cup {d}
<1>1. World \in Worlds /\ Distinct(World.vlist)
  BY DEF IInv, Types, World, Worlds
<1>2. ASSUME NEW w \in Worlds, Becoming(w)
      PROVE  World' = w
  BY <1>2 DEF World, Worlds, Becoming
<1>3. torn' = torn \cup {d} /\ missed \subseteq missed' /\ missed' \subseteq missed \cup {d}
  BY StopForms
\* What is left to do from a world r without the device.
<1>4. ASSUME NEW r \in Worlds, Distinct(r.vlist), Sane(r), Entries(r, d) = {},
             \A e \in Devices \ {d} : SameFor(World, r, e),
             action \in {"change", "remove"},
             /\ Tidy(World, d, {d}) /\ d \notin missed'
             /\ MountedAt(World, d) \subseteq MountPoints(World, d)
             => Tidy(r, d, {d}) /\ MountedAt(r, d) = {},
             NEW w \in Rest(action, r, d, m), Becoming(w)
      PROVE  /\ Sane(World')
             /\ \A e \in Devices \ {d} : SameFor(World, World', e)
             /\ {v.name : v \in Entries(World', d)} = NameFor(d, m)
             /\ /\ Tidy(World, d, {d}) /\ d \notin missed'
                /\ MountedAt(World, d) \subseteq MountPoints(World, d)
                => /\ Tidy(World', d, {d})
                   /\ MountedAt(World', d) \subseteq MountPoints(World', d)
                   /\ m = medium[d] => MountedAt(World', d) \subseteq PointFor(d, m)
  <2>1. /\ w \in Worlds /\ Sane(w)
        /\ \A e \in Devices \ {d} : SameFor(r, w, e)
        /\ {v.name : v \in Entries(w, d)} = NameFor(d, m)
        /\ Tidy(r, d, {d}) /\ MountedAt(r, d) = {}
           => /\ Tidy(w, d, {d})
              /\ MountedAt(w, d) \subseteq MountPoints(w, d)
              /\ m = medium[d] => MountedAt(w, d) \subseteq PointFor(d, m)
    BY <1>4, RestEffect
  <2>2. World' = w
    BY <1>2, <1>4, <2>1
  <2>3. \A e \in Devices \ {d} : SameFor(World, w, e)
    BY <1>4, <2>1, SameTrans
  <2> QED
    BY <1>4, <2>1, <2>2, <2>3
<1> DEFINE r == RemoveDevice(World, d)
<1>5. /\ r \in Worlds /\ Distinct(r.vlist) /\ Sane(r) /\ Entries(r, d) = {}
      /\ \A e \in Devices \ {d} : SameFor(World, r, e)
      /\ Tidy(World, d, {d}) /\ MountedAt(World, d) \subseteq MountPoints(World, d)
           => Tidy(r, d, {d}) /\ MountedAt(r, d) = {}
  BY <1>1, RemoveDeviceDistinct, RemoveEffect
<1> HIDE DEF r
<1>6. CASE action = "add" /\ \E w \in AddStopped(World, d, m) : Becoming(w)
  <2>1. PICK w \in AddStopped(World, d, m) : Becoming(w)
    BY <1>6
  <2>2. World' = w
    BY <1>1, <1>2, <2>1, AddStoppedDistinct
  <2> QED
    BY <1>1, <1>3, <1>6, <2>2, AddStoppedEffect
<1>7. CASE action = "change" /\ \E w \in AddStopped(r, d, m) : Becoming(w)
  <2>1. PICK w \in AddStopped(r, d, m) : Becoming(w)
    BY <1>7
  <2>2. w \in Rest(action, r, d, m)
    BY <1>7 DEF Rest
  <2> QED
    BY <1>3, <1>4, <1>5, <1>7, <2>1, <2>2
<1>8. CASE /\ action \in {"change", "remove"}
           /\ \E x \in RemoveStopped(World, d) : \E w \in Rest(action, x, d, m) : Becoming(w)
  <2>1. PICK x \in RemoveStopped(World, d) : \E w \in Rest(action, x, d, m) : Becoming(w)
    BY <1>8
  <2>2. x \in Worlds /\ Distinct(x.vlist)
    BY <1>1, RemoveStoppedDistinct
  <2>3. /\ Sane(x) /\ Entries(x, d) = {}
        /\ \A e \in Devices \ {d} : SameFor(World, x, e)
        /\ Tidy(World, d, {d}) /\ MountedAt(World, d) \subseteq MountPoints(World, d)
             => Tidy(x, d, {d}) /\ MountedAt(x, d) = {}
    BY <1>1, RemoveStoppedEffect
  <2>4. action # "add"
    BY <1>8
  <2> QED
    BY <1>3, <1>4, <1>8, <2>1, <2>2, <2>3, <2>4
\* humount did not come to its umount: the device is missed if it was mounted.
<1>9. CASE /\ action \in {"change", "remove"} /\ missed' = missed \cup ({d} \cap Known)
           /\ \E w \in Rest(action, Unlisted(World, d), d, m) : Becoming(w)
  <2> DEFINE u == Unlisted(World, d)
  <2>1. /\ u \in Worlds /\ Distinct(u.vlist) /\ Sane(u) /\ Entries(u, d) = {}
        /\ u.mounts = World.mounts /\ u.mnts = World.mnts
        /\ \A e \in Devices \ {d} : Entries(u, e) = Entries(World, e)
        /\ \A e : MountedAt(u, e) = MountedAt(World, e) /\ Recorded(u, e) = Recorded(World, e)
    BY <1>1, UnlistedType, UnlistedEffect
  <2> HIDE DEF u
  <2>2. \A e \in Devices \ {d} : SameFor(World, u, e)
    BY <2>1 DEF SameFor
  <2>3. d \notin missed' => MountedAt(World, d) = {}
    <3>1. d \notin missed' => d \notin Known
      BY <1>9
    <3>2. World.mounts = mounts
      BY DEF World
    <3> QED
      BY <3>1, <3>2 DEF Known, MountedAt
  <2>4. Tidy(World, d, {d}) /\ d \notin missed' => Tidy(u, d, {d}) /\ MountedAt(u, d) = {}
    BY <2>1, <2>3 DEF Tidy
  <2>5. PICK w \in Rest(action, u, d, m) : Becoming(w)
    BY <1>9 DEF u
  <2>6. action # "add"
    BY <1>9
  <2> QED
    BY <1>3, <1>4, <1>9, <2>1, <2>2, <2>4, <2>5, <2>6
<1>10. \/ action = "add" /\ \E w \in AddStopped(World, d, m) : Becoming(w)
       \/ action = "change" /\ \E w \in AddStopped(r, d, m) : Becoming(w)
       \/ /\ action \in {"change", "remove"}
          /\ \E x \in RemoveStopped(World, d) : \E w \in Rest(action, x, d, m) : Becoming(w)
       \/ /\ action \in {"change", "remove"} /\ missed' = missed \cup ({d} \cap Known)
          /\ \E w \in Rest(action, Unlisted(World, d), d, m) : Becoming(w)
  BY StopForms DEF r
<1> QED
  BY <1>6, <1>7, <1>8, <1>9, <1>10

\* A device is no longer torn when nothing of it is mounted or recorded.
LEMMA NotTorn ==
    ASSUME NEW e, Tidy(World', e, torn),
           torn' = {f \in torn : \E r \in Elems(mounts') \cup mnts' : r.dev = f}
    PROVE  Tidy(World', e, torn')
<1>1. CASE e \in torn /\ e \notin torn'
  <2>1. \A r \in Elems(mounts') \cup mnts' : r.dev # e
    BY <1>1
  <2>2. World'.mounts = mounts' /\ World'.mnts = mnts'
    BY DEF World
  <2>3. Recorded(World', e) = {} /\ MountedAt(World', e) = {}
    BY <2>1, <2>2 DEF Recorded, MountedAt
  <2> QED
    BY <2>3 DEF Tidy
<1> QED
  BY <1>1 DEF Tidy

----------------------------------------------------------------------------
\* The list follows the devices

\* No event of the device waits.
Quiet(d) == \A i \in DOMAIN queue : queue[i].dev # d

\* The devices hold what fits, and so do the events.
EventsFollow ==
    /\ \A d \in Devices : medium[d] \in Fits[d] \cup {Absent}
    /\ \A i \in DOMAIN queue : /\ queue[i].medium \in Fits[queue[i].dev] \cup {Absent}
                               /\ queue[i].action = "remove" <=> queue[i].medium = Absent

\* Between two events of a device it is as the first left it: the last event says what
\* it holds now, an addition follows a removal or finds it out of the list, and the
\* list is right where no event waits and the scan is past.
LastTells(d) ==
    \A i \in DOMAIN queue :
        queue[i].dev = d /\ (\A k \in DOMAIN queue : k > i => queue[k].dev # d)
            => queue[i].medium = medium[d]
AdditionFollows(d) ==
    \A i \in DOMAIN queue :
        queue[i].dev = d /\ queue[i].action = "add" =>
            \/ \E j \in DOMAIN queue :
                  /\ j < i /\ queue[j].dev = d /\ queue[j].action = "remove"
                  /\ \A k \in DOMAIN queue : j < k /\ k < i => queue[k].dev # d
            \/ /\ \A j \in DOMAIN queue : j < i => queue[j].dev # d
               /\ d \notin todo /\ Entries(World, d) = {}
ListFollows(d) ==
    /\ d \in todo => Entries(World, d) = {}
    /\ d \in todo /\ Quiet(d) => medium[d] # Absent
    /\ Quiet(d) /\ d \notin todo =>
          {v.name : v \in Entries(World, d)} = NameFor(d, medium[d])
    /\ LastTells(d)
    /\ AdditionFollows(d)

\* A daemon that has noticed its end, or will before it waits again.
Ending == exit /\ pc \in {"scan", "test"}

\* The mounts of a device with names of its own, whether the daemon has yet to come to
\* it, has listed it, or does not run.  A stopped script may leave it unmounted, but then
\* the daemon ends.
MountsFollow(d) ==
    /\ Tidy(World, d, torn)
    /\ pc = "down" => MountedAt(World, d) \subseteq PointFor(d, medium[d])
    /\ d \in todo => \/ MountedAt(World, d) = {}
                     \/ Quiet(d) /\ MountedAt(World, d) \subseteq PointFor(d, medium[d])
    /\ pc # "down" /\ d \notin todo => MountedAt(World, d) \subseteq MountPoints(World, d)
    /\ pc # "down" /\ d \notin todo /\ Quiet(d) =>
          /\ MountedAt(World, d) \subseteq PointFor(d, medium[d])
          /\ ~Ending => MountedAt(World, d) = PointFor(d, medium[d])

Follows ==
    /\ Sane(World)
    /\ EventsFollow
    /\ \A d \in lost : Alone(d) => d \in missed
    /\ pc # "down" => \A d \in Devices \ lost : ListFollows(d)
    /\ \A d \in Devices \ missed : Alone(d) => MountsFollow(d)

\* A step that neither device, event nor file is part of.
LEMMA StillFollows ==
    ASSUME Follows, UNCHANGED <<medium, queue, todo, vlist, files, lost, missed, torn>>,
           pc = "down" <=> pc' = "down", Ending => Ending'
    PROVE  Follows'
<1>1. World' = World
  BY DEF World, files
<1>2. Sane(World)'
  BY <1>1 DEF Follows, Sane
<1>3. EventsFollow'
  BY DEF Follows, EventsFollow
<1>4. ASSUME NEW d \in Devices PROVE ListFollows(d) => ListFollows(d)'
  <2>1. Quiet(d)' <=> Quiet(d)
    BY DEF Quiet
  <2>2. LastTells(d)' <=> LastTells(d)
    BY DEF LastTells
  <2>3. AdditionFollows(d)' <=> AdditionFollows(d)
    BY <1>1 DEF AdditionFollows
  <2> QED
    BY <1>1, <2>1, <2>2, <2>3 DEF ListFollows
<1>5. ASSUME NEW d \in Devices PROVE MountsFollow(d) => MountsFollow(d)'
  <2>1. Quiet(d)' <=> Quiet(d)
    BY DEF Quiet
  <2> QED
    BY <1>1, <2>1 DEF MountsFollow
<1> QED
  BY <1>2, <1>3, <1>4, <1>5 DEF Follows

\* A device that a step is not about.
LEMMA OtherFollows ==
    ASSUME NEW d \in Devices, SameFor(World, World', d), medium'[d] = medium[d],
           d \in todo' <=> d \in todo, pc' = "down" <=> pc = "down",
           Quiet(d)' <=> Quiet(d), Ending => Ending',
           Tidy(World', d, torn) => Tidy(World', d, torn')
    PROVE  /\ /\ ListFollows(d)
              /\ LastTells(d) => LastTells(d)'
              /\ AdditionFollows(d) => AdditionFollows(d)'
              => ListFollows(d)'
           /\ Alone(d) /\ MountsFollow(d) => MountsFollow(d)'
<1>1. Entries(World', d) = Entries(World, d)
  BY DEF SameFor
<1>2. MountPoints(World', d) = MountPoints(World, d)
  BY <1>1 DEF MountPoints
<1>3. Alone(d) /\ Tidy(World, d, torn) =>
         Tidy(World', d, torn') /\ MountedAt(World', d) = MountedAt(World, d)
  BY DEF SameFor, Tidy
<1>4. ASSUME ListFollows(d), LastTells(d) => LastTells(d)',
             AdditionFollows(d) => AdditionFollows(d)'
      PROVE  ListFollows(d)'
  BY <1>1, <1>4 DEF ListFollows
<1>5. ASSUME Alone(d), MountsFollow(d) PROVE MountsFollow(d)'
  BY <1>2, <1>3, <1>5 DEF MountsFollow
<1> QED
  BY <1>4, <1>5

\* The same, where no file changes either.
LEMMA SameWorld ==
    ASSUME NEW d, World' = World
    PROVE  SameFor(World, World', d)
BY DEF SameFor

\* And where the events stay.
LEMMA SameEvents ==
    ASSUME NEW d, UNCHANGED queue, medium'[d] = medium[d], d \in todo' <=> d \in todo,
           Entries(World', d) = Entries(World, d)
    PROVE  /\ Quiet(d)' <=> Quiet(d)
           /\ LastTells(d) => LastTells(d)'
           /\ AdditionFollows(d) => AdditionFollows(d)'
<1>1. Quiet(d)' <=> Quiet(d)
  BY DEF Quiet
<1>2. LastTells(d) => LastTells(d)'
  BY DEF LastTells
<1>3. AdditionFollows(d) => AdditionFollows(d)'
  BY DEF AdditionFollows
<1> QED
  BY <1>1, <1>2, <1>3

\* A device that is absent has neither name nor mount.
LEMMA NothingAbsent ==
    ASSUME NEW d
    PROVE  NameFor(d, Absent) = {} /\ PointFor(d, Absent) = {}
BY AutomountdAssumption DEF NameFor, PointFor, IsVolume

\* No volume, no mount point.
LEMMA NoEntries ==
    ASSUME NEW w, NEW d
    PROVE  /\ Entries(w, d) = {} => MountPoints(w, d) = {}
           /\ {v.name : v \in Entries(w, d)} = {} => Entries(w, d) = {}
           /\ w.vlist = <<>> => Entries(w, d) = {}
<1>1. Entries(w, d) = {} => MountPoints(w, d) = {}
  BY DEF MountPoints
<1>2. {v.name : v \in Entries(w, d)} = {} => Entries(w, d) = {}
  OBVIOUS
<1>3. w.vlist = <<>> => Entries(w, d) = {}
  BY DEF Entries, Elems
<1> QED
  BY <1>1, <1>2, <1>3

\* At first nothing is there.
LEMMA InitFollows == Init => Follows
<1> SUFFICES ASSUME Init PROVE Follows
  OBVIOUS
<1>1. /\ World.vlist = <<>> /\ World.mounts = <<>> /\ World.mnts = {}
      /\ queue = <<>> /\ pc = "down" /\ todo = {} /\ lost = {}
      /\ \A d \in Devices : medium[d] = Absent
  BY DEF Init, World
<1>2. Sane(World)
  BY <1>1 DEF Sane, Elems
<1>3. EventsFollow
  BY <1>1 DEF EventsFollow
<1>4. ASSUME NEW d \in Devices PROVE MountsFollow(d)
  <2>1. OnceIn(World.mounts, d)
    BY <1>1 DEF OnceIn
  <2>2. MountedAt(World, d) = {} /\ Recorded(World, d) = {}
    BY <1>1 DEF MountedAt, Recorded, Elems
  <2> QED
    BY <1>1, <2>1, <2>2 DEF MountsFollow, Tidy
<1> QED
  BY <1>1, <1>2, <1>3, <1>4 DEF Follows

\* A daemon that starts has an empty list, and yet to come to each device there is.
LEMMA StartFollows == IInv /\ Follows /\ Start => Follows'
<1> SUFFICES ASSUME IInv, Follows, Start PROVE Follows'
  OBVIOUS
<1>1. /\ pc = "down" /\ pc' = "scan" /\ lost' = {} /\ medium' = medium /\ missed' = missed
      /\ torn' = torn
      /\ todo' = {d \in Devices : medium[d] # Absent}
      /\ queue = <<>> /\ queue' = <<>> /\ World' = World /\ World.vlist = <<>>
  BY DEF Start, IInv, Types, World, files
<1>2. Sane(World')
  BY <1>1 DEF Follows
<1>3. EventsFollow'
  BY <1>1 DEF Follows, EventsFollow
<1>4. ASSUME NEW d \in Devices PROVE ListFollows(d)'
  <2>1. Entries(World', d) = {}
    BY <1>1, NoEntries
  <2>2. LastTells(d)' /\ AdditionFollows(d)'
    BY <1>1 DEF LastTells, AdditionFollows
  <2>3. d \notin todo' => medium'[d] = Absent
    BY <1>1
  <2>4. d \in todo' => medium'[d] # Absent
    BY <1>1
  <2>5. {v.name : v \in Entries(World', d)} = {}
    BY <2>1
  <2> QED
    BY <2>1, <2>2, <2>3, <2>4, <2>5, NothingAbsent DEF ListFollows
<1>5. ASSUME NEW d \in Devices, MountsFollow(d) PROVE MountsFollow(d)'
  <2>1. Tidy(World', d, torn') /\ MountedAt(World', d) \subseteq PointFor(d, medium'[d])
    BY <1>1, <1>5 DEF MountsFollow
  <2>2. Quiet(d)'
    BY <1>1 DEF Quiet
  <2>3. d \notin todo' => PointFor(d, medium'[d]) = {}
    BY <1>1, NothingAbsent
  <2> QED
    BY <1>1, <2>1, <2>2, <2>3 DEF MountsFollow
<1> QED
  BY <1>1, <1>2, <1>3, <1>4, <1>5 DEF Follows

\* A device of the scan is listed as it is, and mounted unless it is already.
LEMMA ScanFollows == IInv /\ Follows /\ ScanDevice => Follows'
<1> SUFFICES ASSUME IInv, Follows, ScanDevice PROVE Follows'
  OBVIOUS
<1>1. /\ pc = "scan" /\ pc' = "scan" /\ lost' = lost /\ medium' = medium /\ missed' = missed
      /\ queue' = queue /\ exit' = exit
  BY DEF ScanDevice
<1>2. PICK d \in todo :
        /\ todo' = todo \ {d}
        /\ IF medium[d] = Absent THEN UNCHANGED <<vlist, files, torn>>
                                 ELSE HandleDevice("add", d, medium[d])
  BY DEF ScanDevice
<1>3. d \in Devices /\ medium[d] \in Fits[d] \cup {Absent}
  BY DEF IInv, Types, Follows, EventsFollow
<1>4. /\ Sane(World')
      /\ \A e \in Devices \ {d} : SameFor(World, World', e)
      /\ d \notin lost /\ Quiet(d) =>
            {v.name : v \in Entries(World', d)} = NameFor(d, medium[d])
      /\ Alone(d) /\ d \notin missed =>
            /\ Tidy(World', d, torn) /\ MountedAt(World', d) \subseteq MountPoints(World', d)
            /\ Quiet(d) => MountedAt(World', d) = PointFor(d, medium[d])
  <2>1. CASE medium[d] = Absent
    <3>1. World' = World
      BY <1>2, <2>1 DEF World, files
    <3>2. d \notin lost => ~Quiet(d)
      BY <1>1, <1>2, <1>3, <2>1 DEF Follows, ListFollows
    <3>3. Alone(d) /\ d \notin missed => ~Quiet(d) /\ MountedAt(World, d) = {} /\ Tidy(World, d, torn)
      BY <1>2, <1>3, <3>2 DEF Follows, MountsFollow
    <3> QED
      BY <3>1, <3>2, <3>3, SameWorld DEF Follows
  <2>2. CASE medium[d] # Absent
    <3>1. HandleDevice("add", d, medium[d]) /\ "add" \in Actions
      BY <1>2, <2>2 DEF Actions
    <3>2. d \notin lost => Entries(World, d) = {}
      BY <1>1, <1>2, <1>3 DEF Follows, ListFollows
    <3>3. Alone(d) /\ d \notin missed =>
            /\ Entries(World, d) = {} /\ Tidy(World, d, torn)
            /\ MountedAt(World, d) \subseteq PointFor(d, medium[d])
      BY <1>2, <1>3, <3>2 DEF Follows, MountsFollow
    <3> QED
      BY <1>3, <2>2, <3>1, <3>2, <3>3, HandleEffect DEF Follows
  <2> QED
    BY <2>1, <2>2
<1>5. EventsFollow'
  BY <1>1 DEF Follows, EventsFollow
<1>6. Quiet(d)' <=> Quiet(d)
  BY <1>1 DEF Quiet
<1>7. ASSUME d \notin lost PROVE ListFollows(d)'
  <2>1. ListFollows(d)
    BY <1>1, <1>3, <1>7 DEF Follows
  <2>2. LastTells(d)'
    BY <1>1, <2>1 DEF ListFollows, LastTells
  <2>3. AdditionFollows(d)'
    BY <1>1, <1>2, <2>1 DEF ListFollows, AdditionFollows
  <2> QED
    BY <1>1, <1>2, <1>4, <1>6, <1>7, <2>2, <2>3 DEF ListFollows
<1>0. ASSUME NEW e, Tidy(World', e, torn) PROVE Tidy(World', e, torn')
  <2>1. \/ torn' = torn
        \/ torn' = {f \in torn : \E r \in Elems(mounts') \cup mnts' : r.dev = f}
    BY <1>2 DEF HandleDevice
  <2> QED
    BY <1>0, <2>1, NotTorn
<1>8. ASSUME Alone(d), d \notin missed PROVE MountsFollow(d)'
  BY <1>0, <1>1, <1>2, <1>4, <1>6, <1>8 DEF MountsFollow
<1>9. ASSUME NEW e \in Devices \ {d}
      PROVE  /\ ListFollows(e) => ListFollows(e)'
             /\ Alone(e) /\ MountsFollow(e) => MountsFollow(e)'
  <2>1. SameFor(World, World', e) /\ Entries(World', e) = Entries(World, e)
    BY <1>4 DEF SameFor
  <2>2. e \in todo' <=> e \in todo
    BY <1>2
  <2>3. /\ Quiet(e)' <=> Quiet(e)
        /\ LastTells(e) => LastTells(e)'
        /\ AdditionFollows(e) => AdditionFollows(e)'
    BY <1>1, <2>1, <2>2, SameEvents
  <2>4. Ending => Ending'
    BY <1>1 DEF Ending
  <2> QED
    BY <1>0, <1>1, <2>1, <2>2, <2>3, <2>4, OtherFollows
<1>10. \A e \in Devices \ lost : ListFollows(e)'
  BY <1>1, <1>7, <1>9 DEF Follows
<1>11. \A e \in Devices \ missed : Alone(e) => MountsFollow(e)'
  BY <1>8, <1>9 DEF Follows
<1>12. \A e \in lost : Alone(e) => e \in missed
  BY DEF Follows
<1> QED
  BY <1>1, <1>4, <1>5, <1>10, <1>11, <1>12 DEF Follows

\* A daemon that ends leaves mounted what it had mounted rightly.
LEMMA GoneFollows == IInv /\ Follows /\ pc # "down" /\ Gone => Follows'
<1> SUFFICES ASSUME IInv, Follows, pc # "down", Gone PROVE Follows'
  OBVIOUS
<1>1. /\ pc' = "down" /\ lost' = lost /\ medium' = medium /\ queue' = <<>> /\ todo' = {}
      /\ missed' = missed \cup ({e.dev : e \in Elems(queue)} \cap Known)
      /\ World'.vlist = <<>> /\ World'.mounts = World.mounts /\ World'.mnts = World.mnts
      /\ World'.dirs = World.dirs /\ World.mounts = mounts /\ torn' = torn
  BY DEF Gone, World, files
<1>2. Sane(World')
  BY <1>1 DEF Sane, Follows, Elems
<1>3. EventsFollow'
  BY <1>1 DEF Follows, EventsFollow
<1>4. ASSUME NEW d \in Devices \ missed', Alone(d) PROVE MountsFollow(d)'
  <2>1. MountsFollow(d)
    BY <1>1, <1>4 DEF Follows
  <2>2. Tidy(World', d, torn') /\ MountedAt(World', d) = MountedAt(World, d)
    BY <1>1, <2>1 DEF MountsFollow, Tidy, MountedAt, Recorded
  <2>3. MountedAt(World, d) \subseteq PointFor(d, medium[d])
    <3>1. CASE MountedAt(World, d) = {}
      BY <3>1
    <3>2. CASE MountedAt(World, d) # {}
      <4>1. d \in Known
        BY <1>1, <1>4, <3>2 DEF Known, MountedAt
      <4>2. Quiet(d)
        BY <1>1, <1>4, <4>1 DEF Quiet, Elems
      <4> QED
        BY <2>1, <3>2, <4>2 DEF MountsFollow
    <3> QED
      BY <3>1, <3>2
  <2> QED
    BY <1>1, <2>2, <2>3 DEF MountsFollow
<1>5. \A d \in lost : Alone(d) => d \in missed'
  BY <1>1 DEF Follows
<1> QED
  BY <1>1, <1>2, <1>3, <1>4, <1>5 DEF Follows

\* The events that are left when the first is taken.
LEMMA TailEvents ==
    ASSUME queue \in Seq(Events), queue # <<>>, queue' = Tail(queue)
    PROVE  /\ \A i \in DOMAIN queue' : i + 1 \in DOMAIN queue /\ queue'[i] = queue[i + 1]
           /\ \A i \in DOMAIN queue : i = 1 \/ (i - 1 \in DOMAIN queue' /\ queue'[i - 1] = queue[i])
           /\ 1 \in DOMAIN queue /\ queue[1] = Head(queue)
           /\ DOMAIN queue \subseteq Nat /\ DOMAIN queue' \subseteq Nat
           /\ \A i \in DOMAIN queue : i >= 1
<1>1. /\ Len(queue) \in Nat /\ Len(queue) >= 1 /\ DOMAIN queue = 1 .. Len(queue)
      /\ DOMAIN queue' = 1 .. (Len(queue) - 1)
      /\ \A i \in 1 .. (Len(queue) - 1) : queue'[i] = queue[i + 1]
      /\ Head(queue) = queue[1]
  OBVIOUS
<1>2. \A i \in DOMAIN queue' : i + 1 \in DOMAIN queue /\ queue'[i] = queue[i + 1]
  BY <1>1
<1>3. ASSUME NEW i \in DOMAIN queue, i # 1
      PROVE  i - 1 \in DOMAIN queue' /\ queue'[i - 1] = queue[i]
  <2>1. i - 1 \in 1 .. (Len(queue) - 1) /\ (i - 1) + 1 = i
    BY <1>1, <1>3
  <2> QED
    BY <1>1, <2>1
<1> QED
  BY <1>1, <1>2, <1>3

\* What they say of a device that the first is not about.
LEMMA TailFollows ==
    ASSUME queue \in Seq(Events), queue # <<>>, queue' = Tail(queue), UNCHANGED <<medium, todo>>,
           NEW d
    PROVE  /\ LastTells(d) => LastTells(d)'
           /\ Quiet(d)' /\ Head(queue).dev = d /\ LastTells(d)
                => Head(queue).medium = medium[d]
           /\ Head(queue).dev # d => (Quiet(d)' <=> Quiet(d))
           /\ Head(queue).dev # d /\ Entries(World', d) = Entries(World, d)
                => (AdditionFollows(d) => AdditionFollows(d)')
           /\ /\ Head(queue).dev = d /\ d \notin todo /\ AdditionFollows(d)
              /\ Head(queue).action = "remove" => Entries(World', d) = {}
              => AdditionFollows(d)'
           /\ Head(queue).dev = d /\ Head(queue).action = "add" /\ AdditionFollows(d)
                => Entries(World, d) = {}
<1> DEFINE s == queue
           t == queue'
<1>1. /\ \A i \in DOMAIN t : i + 1 \in DOMAIN s /\ t[i] = s[i + 1]
      /\ \A i \in DOMAIN s : i = 1 \/ (i - 1 \in DOMAIN t /\ t[i - 1] = s[i])
      /\ 1 \in DOMAIN s /\ s[1] = Head(s)
      /\ DOMAIN s \subseteq Nat /\ DOMAIN t \subseteq Nat
      /\ \A i \in DOMAIN s : i >= 1
  BY TailEvents
<1>2. ASSUME LastTells(d) PROVE LastTells(d)'
  <2> SUFFICES ASSUME NEW i \in DOMAIN t, t[i].dev = d,
                      \A k \in DOMAIN t : k > i => t[k].dev # d
               PROVE  t[i].medium = medium[d]
    BY DEF LastTells
  <2>1. \A k \in DOMAIN s : k > i + 1 => s[k].dev # d
    <3> SUFFICES ASSUME NEW k \in DOMAIN s, k > i + 1 PROVE s[k].dev # d
      OBVIOUS
    <3>1. i \in Nat /\ k \in Nat /\ k # 1 /\ k - 1 > i
      BY <1>1
    <3>2. k - 1 \in DOMAIN t /\ t[k - 1] = s[k]
      BY <1>1, <3>1
    <3> QED
      BY <3>1, <3>2
  <2>2. i + 1 \in DOMAIN s /\ t[i] = s[i + 1]
    BY <1>1
  <2> QED
    BY <1>2, <2>1, <2>2 DEF LastTells
<1>3. ASSUME Quiet(d)', Head(queue).dev = d, LastTells(d)
      PROVE  Head(queue).medium = medium[d]
  <2>1. \A k \in DOMAIN s : k > 1 => s[k].dev # d
    <3> SUFFICES ASSUME NEW k \in DOMAIN s, k > 1 PROVE s[k].dev # d
      OBVIOUS
    <3>1. k - 1 \in DOMAIN t /\ t[k - 1] = s[k]
      BY <1>1
    <3> QED
      BY <1>3, <3>1 DEF Quiet
  <2> QED
    BY <1>1, <1>3, <2>1 DEF LastTells
<1>4. ASSUME Head(queue).dev # d PROVE Quiet(d)' <=> Quiet(d)
  <2>1. Quiet(d) => Quiet(d)'
    BY <1>1 DEF Quiet
  <2>2. ASSUME Quiet(d)', NEW i \in DOMAIN s PROVE s[i].dev # d
    <3>1. CASE i = 1
      BY <1>1, <1>4, <3>1
    <3>2. CASE i # 1
      BY <1>1, <2>2, <3>2 DEF Quiet
    <3> QED
      BY <3>1, <3>2
  <2> QED
    BY <2>1, <2>2 DEF Quiet
\* An addition, and what comes before it.
<1>5. ASSUME AdditionFollows(d), NEW i \in DOMAIN t, t[i].dev = d, t[i].action = "add"
      PROVE  \/ \E j \in DOMAIN t :
                   /\ j < i /\ t[j].dev = d /\ t[j].action = "remove"
                   /\ \A k \in DOMAIN t : j < k /\ k < i => t[k].dev # d
             \/ /\ s[1].dev = d /\ s[1].action = "remove"
                /\ \A k \in DOMAIN t : k < i => t[k].dev # d
             \/ /\ s[1].dev # d /\ d \notin todo /\ Entries(World, d) = {}
                /\ \A k \in DOMAIN t : k < i => t[k].dev # d
  <2>1. i + 1 \in DOMAIN s /\ t[i] = s[i + 1] /\ i \in Nat
    BY <1>1
  <2>2. CASE \E j \in DOMAIN s :
                /\ j < i + 1 /\ s[j].dev = d /\ s[j].action = "remove"
                /\ \A k \in DOMAIN s : j < k /\ k < i + 1 => s[k].dev # d
    <3>1. PICK j \in DOMAIN s :
                /\ j < i + 1 /\ s[j].dev = d /\ s[j].action = "remove"
                /\ \A k \in DOMAIN s : j < k /\ k < i + 1 => s[k].dev # d
      BY <2>2
    <3>2. ASSUME NEW k \in DOMAIN t, j < k + 1, k < i PROVE t[k].dev # d
      <4>1. k + 1 \in DOMAIN s /\ t[k] = s[k + 1] /\ k \in Nat /\ k + 1 < i + 1
        BY <1>1, <2>1, <3>2
      <4> QED
        BY <3>1, <3>2, <4>1
    <3>3. CASE j = 1
      <4>1. \A k \in DOMAIN t : k \in Nat /\ j < k + 1
        <5> SUFFICES ASSUME NEW k \in DOMAIN t PROVE k \in Nat /\ j < k + 1
          OBVIOUS
        <5>1. k \in Nat
          BY <1>1
        <5>2. DOMAIN t = 1 .. (Len(s) - 1) /\ Len(s) \in Nat
          OBVIOUS
        <5> QED
          BY <3>3, <5>1, <5>2
      <4> QED
        BY <3>1, <3>2, <3>3, <4>1
    <3>4. CASE j # 1
      <4>1. j - 1 \in DOMAIN t /\ t[j - 1] = s[j] /\ j \in Nat
        BY <1>1, <3>4
      <4>2. j - 1 < i
        BY <2>1, <3>1, <4>1
      <4>3. \A k \in DOMAIN t : k \in Nat /\ (j - 1 < k => j < k + 1)
        BY <1>1, <4>1
      <4> QED
        BY <3>1, <3>2, <4>1, <4>2, <4>3
    <3> QED
      BY <3>3, <3>4
  <2>3. CASE /\ \A j \in DOMAIN s : j < i + 1 => s[j].dev # d
             /\ d \notin todo /\ Entries(World, d) = {}
    <3>1. DOMAIN t = 1 .. (Len(s) - 1) /\ Len(s) \in Nat
      OBVIOUS
    <3>2. 1 < i + 1
      BY <3>1
    <3>3. s[1].dev # d
      BY <1>1, <2>3, <3>2
    <3>4. ASSUME NEW k \in DOMAIN t, k < i PROVE t[k].dev # d
      <4>1. k + 1 \in DOMAIN s /\ t[k] = s[k + 1] /\ k \in Nat /\ k + 1 < i + 1
        BY <1>1, <2>1, <3>4
      <4> QED
        BY <2>3, <4>1
    <3> QED
      BY <2>3, <3>3, <3>4
  <2> QED
    BY <1>5, <2>1, <2>2, <2>3 DEF AdditionFollows
<1>6. ASSUME Head(queue).dev # d, Entries(World', d) = Entries(World, d), AdditionFollows(d)
      PROVE  AdditionFollows(d)'
  <2> SUFFICES ASSUME NEW i \in DOMAIN t, t[i].dev = d, t[i].action = "add"
               PROVE  \/ \E j \in DOMAIN t :
                            /\ j < i /\ t[j].dev = d /\ t[j].action = "remove"
                            /\ \A k \in DOMAIN t : j < k /\ k < i => t[k].dev # d
                      \/ /\ \A j \in DOMAIN t : j < i => t[j].dev # d
                         /\ d \notin todo' /\ Entries(World', d) = {}
    BY DEF AdditionFollows
  <2> HIDE DEF s, t
  <2> QED
    BY <1>1, <1>5, <1>6 DEF s
<1>7. ASSUME Head(queue).dev = d, d \notin todo, AdditionFollows(d),
             Head(queue).action = "remove" => Entries(World', d) = {}
      PROVE  AdditionFollows(d)'
  <2> SUFFICES ASSUME NEW i \in DOMAIN t, t[i].dev = d, t[i].action = "add"
               PROVE  \/ \E j \in DOMAIN t :
                            /\ j < i /\ t[j].dev = d /\ t[j].action = "remove"
                            /\ \A k \in DOMAIN t : j < k /\ k < i => t[k].dev # d
                      \/ /\ \A j \in DOMAIN t : j < i => t[j].dev # d
                         /\ d \notin todo' /\ Entries(World', d) = {}
    BY DEF AdditionFollows
  <2> HIDE DEF s, t
  <2> QED
    BY <1>1, <1>5, <1>7 DEF s
<1>8. ASSUME Head(queue).dev = d, Head(queue).action = "add", AdditionFollows(d)
      PROVE  Entries(World, d) = {}
  <2>1. \A j \in DOMAIN s : ~(j < 1)
    BY <1>1
  <2> QED
    BY <1>1, <1>8, <2>1 DEF AdditionFollows
<1> QED
  BY <1>2, <1>3, <1>4, <1>6, <1>7, <1>8

\* The list follows the event that is taken from the socket.
LEMMA ReceiveFollows == IInv /\ Follows /\ Receive => Follows'
<1> SUFFICES ASSUME IInv, Follows, Receive PROVE Follows'
  OBVIOUS
<1>1. /\ pc # "down" /\ pc' # "down" /\ lost' = lost /\ medium' = medium /\ missed' = missed
      /\ queue' = Tail(queue) /\ queue # <<>> /\ todo' = todo /\ todo = {}
      /\ queue \in Seq(Events) /\ ~Ending
  BY DEF Receive, IInv, Types, Ending
<1>2. PICK h \in Events : h = Head(queue) /\ 1 \in DOMAIN queue /\ queue[1] = h
  BY <1>1, HeadTailProperties, TailEvents
<1> DEFINE d == h.dev
           m == h.medium
<1>3. /\ d \in Devices /\ h.action \in Actions /\ m \in Fits[d] \cup {Absent}
      /\ h.action = "remove" <=> m = Absent
  BY <1>2 DEF Events, Follows, EventsFollow
<1>4. HandleDevice(h.action, d, m)
  BY <1>2 DEF Receive
<1>5. /\ Sane(World')
      /\ \A e \in Devices \ {d} : SameFor(World, World', e)
      /\ (h.action = "add" => Entries(World, d) = {})
           => {v.name : v \in Entries(World', d)} = NameFor(d, m)
      /\ /\ Alone(d) /\ Tidy(World, d, torn)
         /\ IF h.action = "add"
            THEN /\ Entries(World, d) = {}
                 /\ MountedAt(World, d) \subseteq
                       IF m = medium[d] THEN PointFor(d, m) ELSE {}
            ELSE MountedAt(World, d) \subseteq MountPoints(World, d)
         => /\ Tidy(World', d, torn)
            /\ MountedAt(World', d) \subseteq MountPoints(World', d)
            /\ m = medium[d] => MountedAt(World', d) = PointFor(d, m)
  BY <1>3, <1>4, HandleEffect DEF Follows
<1>6. EventsFollow'
  <2>1. \A i \in DOMAIN queue' : i + 1 \in DOMAIN queue /\ queue'[i] = queue[i + 1]
    BY <1>1, TailEvents
  <2> QED
    BY <1>1, <2>1 DEF Follows, EventsFollow
<1>7. ASSUME d \notin lost
      PROVE  /\ ListFollows(d)' /\ (Quiet(d)' => m = medium[d])
             /\ h.action = "add" => Entries(World, d) = {}
  <2>1. LastTells(d) /\ AdditionFollows(d)
    BY <1>1, <1>3, <1>7 DEF Follows, ListFollows
  <2>2. h.action = "add" => Entries(World, d) = {}
    BY <1>1, <2>1, <1>2, TailFollows
  <2>3. {v.name : v \in Entries(World', d)} = NameFor(d, m)
    BY <1>5, <2>2
  <2>4. Quiet(d)' => m = medium[d]
    BY <1>1, <2>1, <1>2, TailFollows
  <2>5. h.action = "remove" => Entries(World', d) = {}
    BY <1>3, <2>3, NothingAbsent, NoEntries
  <2>6. LastTells(d)' /\ AdditionFollows(d)'
    BY <1>1, <2>1, <2>5, <1>2, TailFollows
  <2>7. ListFollows(d)'
    BY <1>1, <2>3, <2>4, <2>6 DEF ListFollows
  <2> QED
    BY <2>2, <2>4, <2>7
<1>0. ASSUME NEW e, Tidy(World', e, torn) PROVE Tidy(World', e, torn')
  BY <1>0, <1>4, NotTorn DEF HandleDevice
<1>8. ASSUME Alone(d), d \notin missed PROVE MountsFollow(d)'
  <2>1. d \notin lost
    BY <1>8 DEF Follows
  <2>2. MountsFollow(d)
    BY <1>3, <1>8 DEF Follows
  <2>3. Tidy(World, d, torn) /\ MountedAt(World, d) \subseteq MountPoints(World, d)
    BY <1>1, <2>2 DEF MountsFollow
  <2>4. h.action = "add" => Entries(World, d) = {} /\ MountedAt(World, d) = {}
    BY <1>7, <2>1, <2>3, NoEntries
  <2>5. /\ Tidy(World', d, torn)
        /\ MountedAt(World', d) \subseteq MountPoints(World', d)
        /\ m = medium[d] => MountedAt(World', d) = PointFor(d, m)
    BY <1>5, <1>8, <2>3, <2>4
  <2> QED
    BY <1>0, <1>1, <1>7, <2>1, <2>5 DEF MountsFollow
<1>9. ASSUME NEW e \in Devices \ {d}
      PROVE  /\ ListFollows(e) => ListFollows(e)'
             /\ Alone(e) /\ MountsFollow(e) => MountsFollow(e)'
  <2>1. SameFor(World, World', e) /\ Entries(World', e) = Entries(World, e)
    BY <1>5 DEF SameFor
  <2>2. /\ Quiet(e)' <=> Quiet(e)
        /\ LastTells(e) => LastTells(e)'
        /\ AdditionFollows(e) => AdditionFollows(e)'
    BY <1>1, <1>9, <2>1, <1>2, TailFollows
  <2> QED
    BY <1>0, <1>1, <2>1, <2>2, OtherFollows
<1>10. \A e \in Devices \ lost : ListFollows(e)'
  BY <1>1, <1>7, <1>9 DEF Follows
<1>11. \A e \in Devices \ missed : Alone(e) => MountsFollow(e)'
  BY <1>8, <1>9 DEF Follows
<1>12. \A e \in lost : Alone(e) => e \in missed
  BY DEF Follows
<1> QED
  BY <1>1, <1>5, <1>6, <1>10, <1>11, <1>12 DEF Follows

\* A device whose script is stopped is listed as it is, and mounted nowhere else than
\* where it should be; the daemon ends before it waits again.
LEMMA StopFollows == IInv /\ Follows /\ StopScript => Follows'
<1> SUFFICES ASSUME IInv, Follows, StopScript PROVE Follows'
  OBVIOUS
<1>1. exit' = TRUE /\ lost' = lost /\ medium' = medium
  BY DEF StopScript
<1>2. \E action \in Actions, d \in Devices :
        \E m \in Fits[d] \cup {Absent} :
          /\ Alone(d) /\ (action = "remove" <=> m = Absent) /\ StopDevice(action, d, m)
          /\ \/ /\ pc = "scan" /\ pc' = "scan" /\ queue' = queue
                /\ d \in todo /\ todo' = todo \ {d} /\ action = "add" /\ m = medium[d]
             \/ /\ pc \in {"select", "blocked"} /\ pc' = "test" /\ todo' = todo
                /\ queue # <<>> /\ queue' = Tail(queue)
                /\ Head(queue).dev = d /\ Head(queue).action = action
                /\ Head(queue).medium = m
  <2>1. CASE pc = "scan"
    <3>1. PICK d \in todo : /\ medium[d] # Absent /\ Alone(d) /\ todo' = todo \ {d}
                            /\ StopDevice("add", d, medium[d]) /\ UNCHANGED <<queue, pc>>
      BY <2>1 DEF StopScript
    <3>2. d \in Devices /\ "add" \in Actions /\ medium[d] \in Fits[d] \cup {Absent}
      BY DEF IInv, Types, Actions, Follows, EventsFollow
    <3> QED
      BY <2>1, <3>1, <3>2
  <2>2. CASE pc \in {"select", "blocked"}
    <3> DEFINE h == Head(queue)
    <3>1. /\ queue \in Seq(Events) /\ queue # <<>> /\ Alone(h.dev) /\ UNCHANGED todo
          /\ pc' = "test" /\ queue' = Tail(queue) /\ StopDevice(h.action, h.dev, h.medium)
      BY <2>2 DEF StopScript, IInv, Types
    <3>2. h \in Events /\ 1 \in DOMAIN queue /\ queue[1] = h
      BY <3>1, HeadTailProperties, TailEvents
    <3>3. /\ h.dev \in Devices /\ h.action \in Actions /\ h.medium \in Fits[h.dev] \cup {Absent}
          /\ h.action = "remove" <=> h.medium = Absent
      <4> HIDE DEF h
      <4> QED
        BY <3>2 DEF Events, Follows, EventsFollow
    <3> HIDE DEF h
    <3> QED
      BY <2>2, <3>1, <3>3 DEF h
  <2> QED
    BY <2>1, <2>2 DEF StopScript
<1>3. PICK action \in Actions, d \in Devices :
        \E m \in Fits[d] \cup {Absent} :
          /\ Alone(d) /\ (action = "remove" <=> m = Absent) /\ StopDevice(action, d, m)
          /\ \/ /\ pc = "scan" /\ pc' = "scan" /\ queue' = queue
                /\ d \in todo /\ todo' = todo \ {d} /\ action = "add" /\ m = medium[d]
             \/ /\ pc \in {"select", "blocked"} /\ pc' = "test" /\ todo' = todo
                /\ queue # <<>> /\ queue' = Tail(queue)
                /\ Head(queue).dev = d /\ Head(queue).action = action
                /\ Head(queue).medium = m
  BY <1>2
<1>4. PICK m \in Fits[d] \cup {Absent} :
          /\ Alone(d) /\ (action = "remove" <=> m = Absent) /\ StopDevice(action, d, m)
          /\ \/ /\ pc = "scan" /\ pc' = "scan" /\ queue' = queue
                /\ d \in todo /\ todo' = todo \ {d} /\ action = "add" /\ m = medium[d]
             \/ /\ pc \in {"select", "blocked"} /\ pc' = "test" /\ todo' = todo
                /\ queue # <<>> /\ queue' = Tail(queue)
                /\ Head(queue).dev = d /\ Head(queue).action = action
                /\ Head(queue).medium = m
  BY <1>3
<1>5. /\ Sane(World')
      /\ \A e \in Devices \ {d} : SameFor(World, World', e)
      /\ (action = "add" => Entries(World, d) = {})
           => {v.name : v \in Entries(World', d)} = NameFor(d, m)
      /\ /\ Tidy(World, d, {d}) /\ d \notin missed'
         /\ IF action = "add"
            THEN /\ Entries(World, d) = {}
                 /\ MountedAt(World, d) \subseteq
                       IF m = medium[d] THEN PointFor(d, m) ELSE {}
            ELSE MountedAt(World, d) \subseteq MountPoints(World, d)
         => /\ Tidy(World', d, {d})
            /\ MountedAt(World', d) \subseteq MountPoints(World', d)
            /\ m = medium[d] => MountedAt(World', d) \subseteq PointFor(d, m)
      /\ torn' = torn \cup {d} /\ missed \subseteq missed' /\ missed' \subseteq missed \cup {d}
  BY <1>4, StopEffect DEF Follows
<1>6. pc # "down" /\ pc' # "down" /\ Ending' /\ d \notin todo' /\ queue \in Seq(Events)
  BY <1>1, <1>4 DEF Ending, IInv, Types
<1>7. /\ \A e : Tidy(World', e, torn) => Tidy(World', e, torn')
      /\ Tidy(World, d, torn) => Tidy(World, d, {d})
      /\ Tidy(World', d, {d}) => Tidy(World', d, torn')
  BY <1>5 DEF Tidy
\* What the events say of the device, and what list and mounts were before.
<1>8. ASSUME d \notin lost
      PROVE  /\ action = "add" => Entries(World, d) = {}
             /\ Quiet(d)' => m = medium[d]
             /\ LastTells(d)'
             /\ {v.name : v \in Entries(World', d)} = NameFor(d, m) => AdditionFollows(d)'
  <2>1. ListFollows(d)
    BY <1>6, <1>8 DEF Follows
  <2>2. CASE pc = "scan"
    <3>1. /\ queue' = queue /\ d \in todo /\ m = medium[d]
      BY <1>4, <2>2
    <3>2. LastTells(d)'
      BY <1>1, <2>1, <3>1 DEF ListFollows, LastTells
    <3>3. AdditionFollows(d)'
      BY <2>1, <3>1 DEF ListFollows, AdditionFollows
    <3> QED
      BY <2>1, <3>1, <3>2, <3>3 DEF ListFollows
  <2>3. CASE pc # "scan"
    <3>1. /\ queue # <<>> /\ queue' = Tail(queue) /\ todo' = todo /\ d \notin todo
          /\ Head(queue).dev = d /\ Head(queue).action = action /\ Head(queue).medium = m
      BY <1>4, <1>6, <2>3
    <3>2. LastTells(d) /\ AdditionFollows(d)
      BY <2>1 DEF ListFollows
    <3>3. /\ action = "add" => Entries(World, d) = {}
          /\ Quiet(d)' => m = medium[d]
          /\ LastTells(d)'
      BY <1>1, <1>6, <3>1, <3>2, TailFollows
    <3>4. ASSUME {v.name : v \in Entries(World', d)} = NameFor(d, m) PROVE AdditionFollows(d)'
      <4>1. action = "remove" => Entries(World', d) = {}
        BY <1>4, <3>4, NothingAbsent, NoEntries
      <4> QED
        BY <1>1, <1>6, <3>1, <3>2, <4>1, TailFollows
    <3> QED
      BY <3>3, <3>4
  <2> QED
    BY <2>2, <2>3
<1>9. EventsFollow'
  <2>1. CASE queue' = queue
    BY <1>1, <2>1 DEF Follows, EventsFollow
  <2>2. CASE queue # <<>> /\ queue' = Tail(queue)
    <3>1. \A i \in DOMAIN queue' : i + 1 \in DOMAIN queue /\ queue'[i] = queue[i + 1]
      BY <1>6, <2>2, TailEvents
    <3> QED
      BY <1>1, <3>1 DEF Follows, EventsFollow
  <2> QED
    BY <1>4, <2>1, <2>2
<1>10. ASSUME d \notin lost PROVE ListFollows(d)'
  BY <1>1, <1>5, <1>6, <1>8, <1>10 DEF ListFollows
<1>11. ASSUME d \notin missed' PROVE MountsFollow(d)'
  <2>1. d \notin missed /\ d \notin lost /\ MountsFollow(d)
    BY <1>4, <1>5, <1>11 DEF Follows
  <2>2. /\ Tidy(World, d, {d})
        /\ IF action = "add"
           THEN /\ Entries(World, d) = {}
                /\ MountedAt(World, d) \subseteq
                      IF m = medium[d] THEN PointFor(d, m) ELSE {}
           ELSE MountedAt(World, d) \subseteq MountPoints(World, d)
    <3>1. CASE pc = "scan"
      <4>1. d \in todo /\ m = medium[d] /\ action = "add"
        BY <1>4, <3>1
      <4> QED
        BY <1>7, <1>8, <2>1, <4>1 DEF MountsFollow
    <3>2. CASE pc # "scan"
      <4>1. d \notin todo
        BY <1>4, <1>6, <3>2
      <4>2. MountedAt(World, d) \subseteq MountPoints(World, d)
        BY <1>6, <2>1, <4>1 DEF MountsFollow
      <4>3. action = "add" => Entries(World, d) = {} /\ MountedAt(World, d) = {}
        BY <1>8, <2>1, <4>2, NoEntries
      <4> QED
        BY <1>7, <2>1, <4>2, <4>3 DEF MountsFollow
    <3> QED
      BY <3>1, <3>2
  <2>3. /\ Tidy(World', d, torn')
        /\ MountedAt(World', d) \subseteq MountPoints(World', d)
        /\ m = medium[d] => MountedAt(World', d) \subseteq PointFor(d, m)
    BY <1>5, <1>7, <1>11, <2>2
  <2> QED
    BY <1>1, <1>6, <1>8, <2>1, <2>3 DEF MountsFollow
<1>12. ASSUME NEW e \in Devices \ {d}
       PROVE  /\ ListFollows(e) => ListFollows(e)'
              /\ Alone(e) /\ MountsFollow(e) => MountsFollow(e)'
  <2>1. SameFor(World, World', e) /\ Entries(World', e) = Entries(World, e)
    BY <1>5 DEF SameFor
  <2>2. e \in todo' <=> e \in todo
    BY <1>4
  <2>3. /\ Quiet(e)' <=> Quiet(e)
        /\ LastTells(e) => LastTells(e)'
        /\ AdditionFollows(e) => AdditionFollows(e)'
    <3>1. CASE pc = "scan"
      <4>1. queue' = queue
        BY <1>4, <3>1
      <4> QED
        BY <1>1, <2>1, <2>2, <4>1, SameEvents
    <3>2. CASE pc # "scan"
      <4>1. /\ queue # <<>> /\ queue' = Tail(queue) /\ todo' = todo /\ Head(queue).dev # e
        BY <1>4, <1>12, <3>2
      <4> QED
        BY <1>1, <1>6, <2>1, <4>1, TailFollows
    <3> QED
      BY <3>1, <3>2
  <2> QED
    BY <1>1, <1>6, <1>7, <2>1, <2>2, <2>3, OtherFollows
<1>13. \A e \in Devices \ lost : ListFollows(e)'
  BY <1>6, <1>10, <1>12 DEF Follows
<1>14. \A e \in Devices \ missed' : Alone(e) => MountsFollow(e)'
  BY <1>5, <1>11, <1>12 DEF Follows
<1>15. \A e \in lost : Alone(e) => e \in missed'
  BY <1>5 DEF Follows
<1> QED
  BY <1>1, <1>5, <1>9, <1>13, <1>14, <1>15 DEF Follows

\* The last event of a device that waits.
LEMMA LastEvent ==
    ASSUME queue \in Seq(Events), NEW d, ~Quiet(d)
    PROVE  \E j \in DOMAIN queue :
              queue[j].dev = d /\ \A k \in DOMAIN queue : k > j => queue[k].dev # d
<1> DEFINE S == {i \in DOMAIN queue : queue[i].dev = d}
<1>1. DOMAIN queue = 1 .. Len(queue) /\ Len(queue) \in Nat
  OBVIOUS
<1>2. S # {}
  BY DEF Quiet
<1>3. S \in SUBSET Nat /\ S \in SUBSET (1 .. Len(queue)) /\ IsFiniteSet(1 .. Len(queue))
  BY <1>1, FS_Interval
<1>4. IsFiniteSet(S)
  BY <1>3, FS_Subset
<1> HIDE DEF S
<1>5. PICK j \in S : \A k \in S : k <= j
  BY <1>2, <1>3, <1>4, Greatest
<1>6. \A k \in DOMAIN queue : k > j => k \notin S
  BY <1>1, <1>3, <1>5
<1> QED
  BY <1>5, <1>6 DEF S

\* What the events say when one is appended.
LEMMA AppendFollows ==
    ASSUME queue \in Seq(Events), NEW v \in Events, queue' = Append(queue, v),
           todo' = todo, World' = World, EventsFollow, NEW d,
           d # v.dev => medium'[d] = medium[d]
    PROVE  /\ d # v.dev => /\ Quiet(d)' <=> Quiet(d)
                           /\ LastTells(d) => LastTells(d)'
                           /\ AdditionFollows(d) => AdditionFollows(d)'
           /\ d = v.dev => ~Quiet(d)' /\ (v.medium = medium'[d] => LastTells(d)')
           /\ /\ d = v.dev /\ ListFollows(d)
              /\ v.action = "add" => medium[d] = Absent
              => AdditionFollows(d)'
<1> DEFINE s == queue
           t == queue'
           n == Len(queue) + 1
<1>1. /\ DOMAIN s = 1 .. Len(s) /\ Len(s) \in Nat /\ DOMAIN t = 1 .. n
      /\ \A i \in DOMAIN s : i \in DOMAIN t /\ t[i] = s[i] /\ i < n
      /\ \A i \in DOMAIN t : i \in DOMAIN s \/ i = n
      /\ n \in DOMAIN t /\ t[n] = v
      /\ \A i \in DOMAIN t : ~(i > n)
  OBVIOUS
<1> HIDE DEF s, t, n
<1>2. ASSUME d # v.dev PROVE Quiet(d)' <=> Quiet(d)
  <2>1. Quiet(d) <=> \A i \in DOMAIN s : s[i].dev # d
    BY DEF Quiet, s
  <2>2. Quiet(d)' <=> \A i \in DOMAIN t : t[i].dev # d
    BY DEF Quiet, t
  <2> QED
    BY <1>1, <1>2, <2>1, <2>2
<1>3. ASSUME d # v.dev, LastTells(d) PROVE LastTells(d)'
  <2> SUFFICES ASSUME NEW i \in DOMAIN t, t[i].dev = d,
                      \A k \in DOMAIN t : k > i => t[k].dev # d
               PROVE  t[i].medium = medium'[d]
    BY DEF LastTells, t
  <2>1. i \in DOMAIN s /\ s[i].dev = d /\ \A k \in DOMAIN s : k > i => s[k].dev # d
    BY <1>1, <1>3
  <2>2. s[i].medium = medium[d]
    BY <1>3, <2>1 DEF LastTells, s
  <2> QED
    BY <1>1, <1>3, <2>1, <2>2
\* An addition that was there before.
<1>4. ASSUME AdditionFollows(d), NEW i \in DOMAIN s, s[i].dev = d, s[i].action = "add"
      PROVE  \/ \E j \in DOMAIN t :
                   /\ j < i /\ t[j].dev = d /\ t[j].action = "remove"
                   /\ \A k \in DOMAIN t : j < k /\ k < i => t[k].dev # d
             \/ /\ \A j \in DOMAIN t : j < i => t[j].dev # d
                /\ d \notin todo' /\ Entries(World', d) = {}
  <2>1. \/ \E j \in DOMAIN s :
                   /\ j < i /\ s[j].dev = d /\ s[j].action = "remove"
                   /\ \A k \in DOMAIN s : j < k /\ k < i => s[k].dev # d
        \/ /\ \A j \in DOMAIN s : j < i => s[j].dev # d
           /\ d \notin todo /\ Entries(World, d) = {}
    BY <1>4 DEF AdditionFollows, s
  <2>2. \A k \in DOMAIN t : k < i => k \in DOMAIN s
    BY <1>1
  <2> QED
    BY <1>1, <2>1, <2>2
<1>5. ASSUME d # v.dev, AdditionFollows(d) PROVE AdditionFollows(d)'
  <2>1. \A i \in DOMAIN t : t[i].dev = d => i \in DOMAIN s /\ s[i] = t[i]
    BY <1>1, <1>5
  <2> QED
    BY <1>4, <1>5, <2>1 DEF AdditionFollows, t
<1>6. ASSUME d = v.dev PROVE ~Quiet(d)'
  BY <1>1, <1>6 DEF Quiet, t
<1>7. ASSUME d = v.dev, v.medium = medium'[d] PROVE LastTells(d)'
  <2> SUFFICES ASSUME NEW i \in DOMAIN t, t[i].dev = d,
                      \A k \in DOMAIN t : k > i => t[k].dev # d
               PROVE  t[i].medium = medium'[d]
    BY DEF LastTells, t
  <2>1. i = n
    BY <1>1, <1>7
  <2> QED
    BY <1>1, <1>7, <2>1
<1>8. ASSUME d = v.dev, ListFollows(d), v.action = "add", medium[d] = Absent
      PROVE  \/ \E j \in DOMAIN t :
                   /\ j < n /\ t[j].dev = d /\ t[j].action = "remove"
                   /\ \A k \in DOMAIN t : j < k /\ k < n => t[k].dev # d
             \/ /\ \A j \in DOMAIN t : j < n => t[j].dev # d
                /\ d \notin todo' /\ Entries(World', d) = {}
  <2>0. \A k \in DOMAIN t : k < n => k \in DOMAIN s
    BY <1>1
  <2>1. CASE Quiet(d)
    <3>1. d \notin todo
      BY <1>8, <2>1 DEF ListFollows
    <3>2. {u.name : u \in Entries(World, d)} = {}
      BY <1>8, <2>1, <3>1, NothingAbsent DEF ListFollows
    <3>3. Entries(World, d) = {}
      BY <3>2, NoEntries
    <3>4. \A j \in DOMAIN s : s[j].dev # d
      BY <2>1 DEF Quiet, s
    <3> QED
      BY <1>1, <2>0, <3>1, <3>3, <3>4
  <2>2. CASE ~Quiet(d)
    <3>1. PICK j \in DOMAIN s : s[j].dev = d /\ \A k \in DOMAIN s : k > j => s[k].dev # d
      BY <2>2, LastEvent DEF s
    <3>2. s[j].medium = Absent
      BY <1>8, <3>1 DEF ListFollows, LastTells, s
    <3>3. s[j].action = "remove"
      BY <3>1, <3>2 DEF EventsFollow, s
    <3>4. \A k \in DOMAIN s : j < k => k > j
      BY <1>1
    <3> QED
      BY <1>1, <2>0, <3>1, <3>3, <3>4
  <2> QED
    BY <2>1, <2>2
<1>9. ASSUME d = v.dev, ListFollows(d), v.action = "add" => medium[d] = Absent
      PROVE  AdditionFollows(d)'
  <2>1. AdditionFollows(d)
    BY <1>9 DEF ListFollows
  <2> SUFFICES ASSUME NEW i \in DOMAIN t, t[i].dev = d, t[i].action = "add"
               PROVE  \/ \E j \in DOMAIN t :
                            /\ j < i /\ t[j].dev = d /\ t[j].action = "remove"
                            /\ \A k \in DOMAIN t : j < k /\ k < i => t[k].dev # d
                      \/ /\ \A j \in DOMAIN t : j < i => t[j].dev # d
                         /\ d \notin todo' /\ Entries(World', d) = {}
    BY DEF AdditionFollows, t
  <2>2. CASE i = n
    BY <1>1, <1>8, <1>9, <2>2
  <2>3. CASE i \in DOMAIN s
    <3>1. s[i] = t[i]
      BY <1>1, <2>3
    <3> QED
      BY <1>4, <2>1, <2>3, <3>1
  <2> QED
    BY <1>1, <2>2, <2>3
<1> QED
  BY <1>2, <1>3, <1>5, <1>6, <1>7, <1>9

\* A device that comes, changes or goes, whether or not the daemon hears of it.
LEMMA SendFollows ==
    ASSUME IInv, Follows, NEW action \in Actions, NEW d \in Devices,
           NEW m \in Fits[d] \cup {Absent},
           action = "remove" <=> m = Absent, action = "add" <=> medium[d] = Absent,
           m \in Contents, Becomes(action, d, m)
    PROVE  Follows'
<1> DEFINE v == [action |-> action, dev |-> d, medium |-> m]
           room == pc # "down" /\ Len(queue) < Buffer
           full == pc # "down" /\ ~room
           unlisted == d \in Known /\ (pc = "down" \/ d \in todo)
<1>1. /\ medium' = [medium EXCEPT ![d] = m] /\ todo' = todo /\ pc' = pc
      /\ torn' = torn /\ exit' = exit
      /\ World' = World /\ World.mounts = mounts
      /\ queue' = IF room THEN Append(queue, v) ELSE queue
      /\ lost' = IF full THEN lost \cup {d} ELSE lost
      /\ missed' = IF (full /\ Alone(d)) \/ unlisted THEN missed \cup {d} ELSE missed
  BY DEF Becomes, Send, World, daemon, files
<1>2. medium'[d] = m /\ \A e \in Devices \ {d} : medium'[e] = medium[e]
  BY <1>1 DEF IInv, Types
<1>3. v \in Events /\ v.dev = d /\ v.action = action /\ v.medium = m /\ queue \in Seq(Events)
  BY DEF Events, IInv, Types
<1> HIDE DEF v
<1>4. Sane(World')
  BY <1>1 DEF Follows
<1>5. EventsFollow'
  <2>1. \A e \in Devices : medium'[e] \in Fits[e] \cup {Absent}
    BY <1>2 DEF Follows, EventsFollow
  <2>2. \A i \in DOMAIN queue' : (i \in DOMAIN queue /\ queue'[i] = queue[i]) \/ queue'[i] = v
    <3>1. \A i \in DOMAIN Append(queue, v) :
            (i \in DOMAIN queue /\ Append(queue, v)[i] = queue[i]) \/ Append(queue, v)[i] = v
      BY <1>3
    <3> QED
      BY <1>1, <3>1
  <2> QED
    BY <1>3, <2>1, <2>2 DEF Follows, EventsFollow
<1>6. \A e \in lost' : Alone(e) => e \in missed'
  BY <1>1 DEF Follows
<1>7. ASSUME pc # "down", d \notin lost' PROVE ListFollows(d)'
  <2>1. room /\ queue' = Append(queue, v) /\ d \notin lost
    BY <1>1, <1>7
  <2>2. ListFollows(d)
    BY <1>7, <2>1 DEF Follows
  <2>3. ~Quiet(d)' /\ LastTells(d)' /\ AdditionFollows(d)'
    <3>1. EventsFollow
      BY DEF Follows
    <3> QED
      BY <1>1, <1>2, <1>3, <2>1, <2>2, <3>1, AppendFollows
  <2> QED
    BY <1>1, <2>2, <2>3 DEF ListFollows
<1>8. ASSUME Alone(d), d \notin missed' PROVE MountsFollow(d)'
  <2>1. ~full /\ ~unlisted /\ d \notin missed /\ MountsFollow(d)
    BY <1>1, <1>8 DEF Follows
  <2>2. MountedAt(World, d) # {} => d \in Known
    BY <1>1, <1>8 DEF Known, MountedAt
  <2>3. pc = "down" \/ d \in todo => MountedAt(World, d) = {}
    BY <2>1, <2>2
  <2>4. Tidy(World', d, torn') /\ MountedAt(World', d) = MountedAt(World, d)
        /\ MountPoints(World', d) = MountPoints(World, d)
    BY <1>1, <2>1 DEF MountsFollow
  <2>5. pc # "down" => ~Quiet(d)'
    <3>1. EventsFollow
      BY DEF Follows
    <3> QED
      BY <1>1, <1>2, <1>3, <2>1, <3>1, AppendFollows
  <2> QED
    BY <1>1, <2>1, <2>3, <2>4, <2>5 DEF MountsFollow
<1>9. ASSUME NEW e \in Devices \ {d}
      PROVE  /\ ListFollows(e) => ListFollows(e)'
             /\ Alone(e) /\ MountsFollow(e) => MountsFollow(e)'
  <2>1. SameFor(World, World', e) /\ medium'[e] = medium[e] /\ (e \in todo' <=> e \in todo)
        /\ Entries(World', e) = Entries(World, e)
    BY <1>1, <1>2, SameWorld
  <2>2. /\ Quiet(e)' <=> Quiet(e)
        /\ LastTells(e) => LastTells(e)'
        /\ AdditionFollows(e) => AdditionFollows(e)'
    <3>1. CASE room
      <4>1. EventsFollow /\ e # v.dev /\ queue' = Append(queue, v)
        BY <1>1, <1>3, <3>1 DEF Follows
      <4> QED
        BY <1>1, <1>3, <2>1, <4>1, AppendFollows
    <3>2. CASE ~room
      <4>1. queue' = queue
        BY <1>1, <3>2
      <4> QED
        BY <2>1, <4>1, SameEvents
    <3> QED
      BY <3>1, <3>2
  <2>3. Ending => Ending'
    BY <1>1 DEF Ending
  <2> QED
    BY <1>1, <2>1, <2>2, <2>3, OtherFollows
<1>10. lost \subseteq lost' /\ missed \subseteq missed'
  BY <1>1
<1>11. pc' # "down" => \A e \in Devices \ lost' : ListFollows(e)'
  BY <1>1, <1>7, <1>9, <1>10 DEF Follows
<1>12. \A e \in Devices \ missed' : Alone(e) => MountsFollow(e)'
  BY <1>8, <1>9, <1>10 DEF Follows
<1> QED
  BY <1>4, <1>5, <1>6, <1>11, <1>12 DEF Follows

\* Every step keeps list and mounts with the devices.
LEMMA NextFollows == IInv /\ Follows /\ [Next]_vars => Follows'
<1> SUFFICES ASSUME IInv, Follows, [Next]_vars PROVE Follows'
  OBVIOUS
<1>1. CASE Start
  BY <1>1, StartFollows
<1>2. CASE ScanDevice
  BY <1>2, ScanFollows
<1>3. CASE ScanEnds
  BY <1>3, StillFollows DEF ScanEnds, files, Ending
<1>4. CASE TestExit
  BY <1>4, StillFollows DEF TestExit, files, Ending
<1>5. CASE Block
  BY <1>5, StillFollows DEF Block, files, Ending
<1>6. CASE Receive
  BY <1>6, ReceiveFollows
<1>7. CASE Exit
  BY <1>7, GoneFollows DEF Exit
<1>8. CASE Crash
  BY <1>8, GoneFollows DEF Crash
<1>9. CASE Terminate
  BY <1>9, StillFollows DEF Terminate, files, Ending
<1>10. ASSUME NEW d \in Devices, NEW m \in Contents, Plug(d, m) \/ Change(d, m)
       PROVE  Follows'
  <2>1. m \in Fits[d] /\ m # Absent
    BY <1>10, AutomountdAssumption DEF Plug, Change
  <2>2. CASE Plug(d, m)
    BY <1>10, <2>1, <2>2, SendFollows DEF Plug, Actions
  <2>3. CASE Change(d, m)
    BY <1>10, <2>1, <2>3, SendFollows DEF Change, Actions
  <2> QED
    BY <1>10, <2>2, <2>3
<1>11. CASE \E d \in Devices : Unplug(d)
  BY <1>11, SendFollows DEF Unplug, Actions, Contents
<1>12. CASE UNCHANGED vars
  BY <1>12, StillFollows DEF vars, daemon, Ending
<1>13. CASE StopScript
  BY <1>13, StopFollows
<1> QED
  BY <1>1, <1>2, <1>3, <1>4, <1>5, <1>6, <1>7, <1>8, <1>9, <1>10, <1>11, <1>12, <1>13
  DEF Next

\* List and mounts follow the devices, whatever comes, goes and changes, through scans,
\* full sockets, crashes and restarts.
LEMMA FollowsAlways == Spec => []Follows
BY Inductive, InitIInv, InitFollows, NextIInv, NextFollows, PTL DEF Spec

\* Whenever the daemon waits, its list is that of the devices there are, except for
\* those of which the socket dropped an event and for the CD drives: an event is later
\* than what the scan read, so handling both leaves what the last of them says.
THEOREM ListAlwaysCurrent == Spec => []ListIsCurrent
<1>1. IInv /\ Follows => ListIsCurrent
  <2> SUFFICES ASSUME IInv, Follows, AtRest, NEW d \in Devices \ lost, Kind[d] # "cd"
               PROVE  {v.name : v \in {u \in Elems(vlist) : u.dev = d}} =
                        IF Wanted(d) THEN {Label[medium[d]]} ELSE {}
    BY DEF ListIsCurrent
  <2>1. pc # "down" /\ d \notin todo /\ Quiet(d)
    BY DEF AtRest, IInv, Types, Quiet
  <2>2. {v.name : v \in Entries(World, d)} = NameFor(d, medium[d])
    BY <2>1 DEF Follows, ListFollows
  <2>3. Entries(World, d) = {u \in Elems(vlist) : u.dev = d}
    BY DEF Entries, World
  <2>4. IsVolume(d, medium[d]) <=> Wanted(d)
    BY AutomountdAssumption DEF IsVolume, Wanted
  <2> QED
    BY <2>2, <2>3, <2>4 DEF NameFor
<1> QED
  BY <1>1, Inductive, FollowsAlways, PTL

\* Whenever the daemon waits, a device whose names no other has is mounted where it
\* should be, once, after however many restarts, if nothing happened to it while nobody
\* listened or a script stopped before it could unmount; and it is recorded there, if no
\* script of it was stopped since.
THEOREM MountsAlwaysRight == Spec => []MountIsRight
<1>1. IInv /\ Follows => MountIsRight
  <2> SUFFICES ASSUME IInv, Follows, AtRest, NEW d \in Devices, d \notin missed, Alone(d),
                      Kind[d] # "cd"
               PROVE  LET mine == {i \in DOMAIN mounts : mounts[i].dev = d}
                      IN /\ {mounts[i].mp : i \in mine} = Right(d)
                         /\ Cardinality(mine) <= 1
                         /\ d \notin torn =>
                               {e.mp : e \in {f \in mnts : f.dev = d}} = Right(d)
    BY DEF MountIsRight
  <2> DEFINE mine == {i \in DOMAIN mounts : mounts[i].dev = d}
  <2>1. pc # "down" /\ d \notin todo /\ Quiet(d) /\ ~Ending
    BY DEF AtRest, IInv, Types, Quiet, Ending
  <2>2. MountsFollow(d)
    BY DEF Follows
  <2>3. MountedAt(World, d) = PointFor(d, medium[d]) /\ Tidy(World, d, torn)
    BY <2>1, <2>2 DEF MountsFollow
  <2>4. PointFor(d, medium[d]) = Right(d)
    BY AutomountdAssumption DEF PointFor, Right, IsVolume, Wanted
  <2>5. World.mounts = mounts /\ World.mnts = mnts
    BY DEF World
  <2>6. {mounts[i].mp : i \in mine} = MountedAt(World, d)
    BY <2>5 DEF MountedAt, Elems
  <2>7. d \notin torn => {e.mp : e \in {f \in mnts : f.dev = d}} = MountedAt(World, d)
    BY <2>3, <2>5 DEF Tidy, Recorded
  <2>8. Cardinality(mine) <= 1
    <3>1. CASE mine = {}
      BY <3>1, FS_EmptySet
    <3>2. CASE mine # {}
      <4>1. PICK i \in mine : TRUE
        BY <3>2
      <4>2. mine = {i}
        BY <2>3, <2>5, <4>1 DEF Tidy, OnceIn
      <4>3. Cardinality({i}) = 1
        BY FS_Singleton
      <4> QED
        BY <4>2, <4>3
    <3> QED
      BY <3>1, <3>2
  <2> QED
    BY <2>3, <2>4, <2>6, <2>7, <2>8
<1> QED
  BY <1>1, Inductive, FollowsAlways, PTL

=============================================================================
