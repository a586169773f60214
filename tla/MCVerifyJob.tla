---------------------------- MODULE MCVerifyJob ----------------------------
(* Instances of VerifyJob for TLC. *)
EXTENDS VerifyJob, TLC

\* Threads are alike, and of the readings of the clock only equality counts.
Same == Permutations(Threads) \cup Permutations(Times)

File(there, fmt, sound, sha, iso) ==
    [there |-> there, fmt |-> fmt, sound |-> sound, sha |-> sha, list |-> FALSE, iso |-> iso]

List(fmt) == [File(TRUE, fmt, TRUE, TRUE, "none") EXCEPT !.list = TRUE]

\* A missing file; a plain manifest and a plain image without a record; encrypted images, a
\* good one and one with a record that does not fit; a file with another digest; a damaged
\* one; manifests under a password and under the public key.
AllSorts == <<
    File(FALSE, "plain", TRUE, FALSE, "none"),
    List("plain"),
    File(TRUE, "plain", TRUE, TRUE, "missing"),
    File(TRUE, "password", TRUE, TRUE, "valid"),
    File(TRUE, "password", TRUE, TRUE, "invalid"),
    File(TRUE, "password", TRUE, FALSE, "none"),
    File(TRUE, "password", FALSE, TRUE, "valid"),
    List("password"),
    List("pqe") >>
=============================================================================
