---------------------------- MODULE MCAutomountd ----------------------------
(***************************************************************************)
(* Instance of Automountd: two partitions of one disk without labels, which*)
(* get the same name and can be exchanged, and an optical drive with its   *)
(* own: magneto-optical, or one that reads CDs.                            *)
(***************************************************************************)
EXTENDS Automountd, TLC

CONSTANTS p, q, o, data, audio, plain, odd

Drives == (p :> "partition") @@ (q :> "partition") @@ (o :> "optical")

\* The drive as udev describes those that read CDs.
CdDrive == [Drives EXCEPT ![o] = "cd"]

Holds == (p :> {plain}) @@ (q :> {plain}) @@ (o :> {data, Blank})

Names == (plain :> "disk") @@ (odd :> "odd") @@ (data :> "data") @@ (audio :> "audio")

Discs == (plain :> "CD") @@ (odd :> "CD") @@ (data :> "CD") @@ (audio :> "CDDA")

Partitions == Permutations({p, q})
=============================================================================
