---- MODULE MCVerifier ----
(* Instances of Verifier for TLC. *)
EXTENDS Verifier

\* Two drives with a manifest of one file each.
TwoDrives == << <<1>>, <<1>> >>
\* The first drive has a manifest that cannot be loaded and one of two files, the second none.
BrokenAndTwo == << <<Unreadable, 2>>, <<>> >>
\* One drive with a manifest that cannot be loaded and one of one file.
OneBroken == << <<Unreadable, 1>> >>

Nowhere     == {}
SecondDrive == {2}
====
