----------------------------- MODULE MCPackage -----------------------------
(***************************************************************************)
(* Instances of Package.  Each run makes the edits its question is about.  *)
(***************************************************************************)
EXTENDS Package

\* What `package' notices.
NoticedEdits == Noticed

\* What install itself compares, what decides the devel archive, a new version, a
\* patch and what a need_build hook watches.
OverlayEdits ==
    {"version", "rev", "patchFile", "buildRule", "installRule", "installdevRule", "watched"}
=============================================================================
