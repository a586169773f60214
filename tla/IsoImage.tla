------------------------------ MODULE IsoImage ------------------------------
(***************************************************************************)
(* One ISO image and the programs that write and read its ISOB3 record     *)
(* (blake3iso_core/mod.rs, io.rs; bin/blake3iso.rs; isomd5.rs): implant    *)
(* and remove run as processes that may stop between any two writes, check *)
(* reads while they do, and the image is edited in between.                *)
(*                                                                         *)
(* A digest is what was hashed: NormalizedHash shows that this does not    *)
(* depend on the area the record is in.  Hashing takes long: an image that *)
(* is edited meanwhile is hashed in part as it was, in part as it is.      *)
(* Writing the area is one step.                                           *)
(***************************************************************************)
EXTENDS Naturals

CONSTANTS
    Writers,     \* processes that run implant or remove
    MaxRuns,     \* bound: implants and removes
    MaxEdits     \* bound: changes to the rest of the image

ASSUME IsoAssumption == MaxRuns \in Nat /\ MaxEdits \in Nat

Data    == 0..MaxEdits
Blank   == [kind |-> "blank"]
IsoMd5  == [kind |-> "isomd5"]      \* ISOMD5 metadata of the image as it was built
Other   == [kind |-> "other"]       \* bytes of some other program
Newer   == [kind |-> "newer"]       \* our magic, with a version this program does not know
Areas   == {Blank, IsoMd5, Other, Newer}
Mixed   == MaxEdits + 1             \* hashed before and after an edit
Digests == [data : Data \cup {Mixed}, area : Areas]
Isob3(h) == [kind |-> "isob3", digest |-> h]
Area    == Areas \cup {Isob3(h) : h \in Digests}

VARIABLES
    data,     \* the image outside the application-use area
    area,     \* the application-use area
    writer,   \* each writing process: where it is, --force, the digest computed
    runs,
    check,    \* the checking process: where it is, the record it read; history: whether the
              \* image is not, or no longer, what that record was computed from
    outcome   \* of the last check: of check_iso, and the exit code of blake3iso check

vars == <<data, area, writer, runs, check, outcome>>

NoDigest == [data |-> 0, area |-> Blank]
AtRest   == [pc |-> "idle", force |-> FALSE, digest |-> NoDigest]
NoCheck  == [pc |-> "idle", stored |-> NoDigest, stale |-> FALSE]
NoOutcome == [result |-> "none", code |-> 0]

Init ==
    /\ data = 0 /\ area \in Areas
    /\ writer = [w \in Writers |-> AtRest] /\ runs = 0
    /\ check = NoCheck /\ outcome = NoOutcome

\* Mutant: the record is part of what is hashed.
HashAll(d, a) == [data |-> d, area |-> a]

\* compute_blake3_normalized
Hash(d, a) == [data |-> d, area |-> Blank]

IsOurs(a)  == a.kind \in {"isob3", "newer"}       \* the first eight bytes
Readable(a) == a.kind = "isob3"                   \* read_metadata_from_appdata

(* implant and remove *)

ImageOnly == UNCHANGED <<check, outcome>>

Begins(w, pc, force) ==
    /\ writer[w].pc = "idle" /\ runs < MaxRuns /\ runs' = runs + 1
    /\ writer' = [writer EXCEPT ![w] = [AtRest EXCEPT !.pc = pc, !.force = force]]

At(w, pc) == writer[w].pc = pc
To(w, pc) == writer' = [writer EXCEPT ![w] = IF pc = "idle" THEN AtRest ELSE [@ EXCEPT !.pc = pc]]

\* Mutant: the force flag is not needed.
MayReplaceAny(a, force) == TRUE

\* Our own record, or a blank area, or --force.
MayReplace(a, force) == force \/ IsOurs(a) \/ a = Blank

ImplantStarts(w) ==
    /\ \E force \in BOOLEAN : MayReplace(area, force) /\ Begins(w, "blank", force)
    /\ UNCHANGED <<data, area>> /\ ImageOnly

Writes(a) == area' = a /\ UNCHANGED <<data, runs>>

\* Hashing begins at once, with the image as it is.
ImplantBlanks(w) ==
    /\ At(w, "blank") /\ Writes(Blank) /\ ImageOnly
    /\ writer' = [writer EXCEPT ![w].pc = "hash", ![w].digest.data = data]

ImplantHashes(w) ==
    /\ At(w, "hash")
    /\ writer' = [writer EXCEPT ![w].pc = "record",
                     ![w].digest = Hash(IF @.data = data THEN data ELSE Mixed, area)]
    /\ UNCHANGED <<data, area, runs>> /\ ImageOnly

ImplantRecords(w) ==
    /\ At(w, "record") /\ To(w, "idle")
    /\ Writes(Isob3(writer[w].digest)) /\ ImageOnly

RemoveStarts(w) ==
    /\ Begins(w, "remove", FALSE)
    /\ UNCHANGED <<data, area>> /\ ImageOnly

RemoveBlanks(w) == At(w, "remove") /\ Writes(Blank) /\ To(w, "idle") /\ ImageOnly

\* An I/O error, or the end of the process.
WriterStops(w) ==
    /\ ~At(w, "idle") /\ To(w, "idle")
    /\ UNCHANGED <<data, area, runs>> /\ ImageOnly

Edits ==
    /\ data < MaxEdits /\ data' = data + 1
    /\ check' = [check EXCEPT !.stale = TRUE]
    /\ UNCHANGED <<area, writer, runs, outcome>>

(* check: the record first, the rest of the image later *)

Checked == UNCHANGED <<data, area, writer, runs>>

CheckReads ==
    /\ check.pc = "idle"
    /\ \/ /\ Readable(area)
          /\ check' = [pc |-> "hash", stored |-> area.digest, stale |-> area.digest.data # data]
          /\ UNCHANGED outcome
       \/ ~Readable(area) /\ check' = [NoCheck EXCEPT !.pc = "fallback"] /\ UNCHANGED outcome
    /\ Checked

CheckHashes ==
    /\ check.pc = "hash" /\ check' = [check EXCEPT !.pc = "idle"]
    /\ \/ check.stored = Hash(data, area) /\ outcome' = [result |-> "valid", code |-> 0]
       \/ /\ check.stored # Hash(data, area) \/ check.stale
          /\ outcome' = [result |-> "invalid", code |-> 1]
    /\ Checked

\* run_check, check_iso having found nothing: ISOMD5 if its marks are there.  The checker is
\* written to a temporary file and run; if it cannot be written the check is not made, and
\* any status of it but 0 is a mismatch.
CheckFallsBack ==
    /\ check.pc = "fallback" /\ check' = NoCheck
    /\ outcome' \in IF area # IsoMd5 THEN {[result |-> "missing", code |-> 2]}
                    ELSE {[result |-> "md5", code |-> c] : c \in IF data = 0 THEN {0, 1} ELSE {1}}
                         \cup {[result |-> "unchecked", code |-> 0],
                          [result |-> "error", code |-> 2]}
    /\ Checked

CheckFails ==
    /\ check.pc # "idle" /\ check' = NoCheck
    /\ outcome' = [result |-> "error", code |-> 2] /\ Checked

Next ==
    \/ \E w \in Writers :
          \/ ImplantStarts(w) \/ ImplantBlanks(w) \/ ImplantHashes(w) \/ ImplantRecords(w)
          \/ RemoveStarts(w) \/ RemoveBlanks(w) \/ WriterStops(w)
    \/ Edits \/ CheckReads \/ CheckHashes \/ CheckFallsBack \/ CheckFails

Spec == Init /\ [][Next]_vars

----------------------------------------------------------------------------
(* Properties *)

\* An image that is what its record was computed from is never called invalid, not even when
\* implants and removals run, are interrupted and run again beside the check.
IntactNeverInvalid ==
    [][outcome'.result = "invalid" /\ check.pc = "hash" /\ check'.pc = "idle" => check.stale]_vars

\* The step is one of a removal, or of an implant with --force.
Entitled == \E w \in Writers : writer'[w] # writer[w] /\ (At(w, "remove") \/ writer[w].force)

\* Metadata of other programs is replaced with --force, or by a removal, only.
ForeignKept == [][area' # area /\ area \in {IsoMd5, Other} => Entitled]_vars
=============================================================================
