------------------------------ MODULE FileCheck ------------------------------
(***************************************************************************)
(* How the bytes of an unencrypted file become a verdict: the line of a    *)
(* manifest names it (ManifestLines), its SHA-256 is computed              *)
(* (Sha256Readers), and the record and the digest of an ISO image are read *)
(* after that, or alone for a drive (NormalizedHash).  The three are       *)
(* composed here in the order of worker/execute.rs, with the abort flag    *)
(* going up and down beside them and the progress that each reports.       *)
(*                                                                         *)
(* One job at a time; what was done for the one before is forgotten.       *)
(***************************************************************************)
EXTENDS Integers, Sequences

CONSTANTS
    Names,         \* names that lines may hold, sequences of tokens
    FileName,      \* the file that is there
    MaxSize,       \* bound: bytes of a file or an image
    PvdOffset,     \* the primary volume descriptor, one sector
    Alignment, UncachedChunk, BufferedChunk,               \* Sha256Readers
    Sector, AppOffset, AppSize, ChunkSize, PerCommand, MaxTries \* NormalizedHash

ASSUME SizesAssumption ==
    /\ {Sector, ChunkSize, AppSize, MaxTries, PerCommand, Alignment,
        UncachedChunk, BufferedChunk} \subseteq Nat \ {0}
    /\ {MaxSize, PvdOffset, AppOffset} \subseteq Nat
    /\ PvdOffset % Sector = 0 /\ ChunkSize % Sector = 0
    /\ UncachedChunk % Alignment = 0
    /\ PvdOffset <= AppOffset /\ AppOffset + AppSize <= PvdOffset + Sector

VARIABLES
    stage,     \* of the job
    line,      \* the line that was read: its form and the name in it
    parsed,    \* what parsing made of it
    image,     \* the file is taken for an ISO image
    abort,
    size, windows, reader, pos, fed, counted, wasted,
    raw, total, readable, pc, at, area, offset, tries, tail, hashed, told

L   == INSTANCE ManifestLines
Sha == INSTANCE Sha256Readers
Iso == INSTANCE NormalizedHash

ASSUME NamesAssumption == Names \subseteq Seq(L!Tokens) /\ FileName \in Names

jobVars  == <<line, parsed, image>>
fileVars == <<size, windows>>
shaVars  == <<reader, pos, fed, counted, wasted>>
isoVars  == <<pc, at, area, offset, tries, tail, hashed, told>>
diskVars   == <<raw, total, readable>>
vars == <<stage, jobVars, abort, fileVars, shaVars, diskVars, isoVars>>

Forms == {"text", "binary", "bsd", "sha512", "comment", "bare"}

\* What the usual tools write: sha256sum's two forms, the BSD form, and lines
\* that are no entries of a SHA-256 manifest.
Written(l) ==
    CASE l.form = "text"    -> <<L!Digest, L!Blank, L!Blank>> \o l.name
      [] l.form = "binary"  -> <<L!Digest, L!Blank, L!Star>> \o l.name
      [] l.form = "bsd"     -> <<L!Open>> \o l.name \o <<L!Close, L!Digest>>
      [] l.form = "sha512"  -> <<L!Digest, L!Digest, L!Blank, L!Blank>> \o l.name
      [] l.form = "comment" -> <<L!Blank, "#">> \o l.name
      [] l.form = "bare"    -> l.name

NoLine == [form |-> "bare", name |-> <<>>]

----------------------------------------------------------------------------
(* The job *)

Fresh ==
    /\ reader = "idle" /\ pos = 0 /\ fed = <<>> /\ counted = 0 /\ wasted = 0
    /\ size = 0 /\ windows = FALSE
    /\ raw = FALSE /\ total = 0 /\ readable = 0
    /\ Iso!InitHash

Init ==
    /\ stage = "idle" /\ line = NoLine /\ parsed = L!Parse(<<>>)
    /\ image = FALSE /\ abort = FALSE
    /\ Fresh

Files(n, w, r, t, upTo) ==
    /\ size' = n /\ windows' = w
    /\ raw' = r /\ total' = t /\ readable' = upTo

Reset ==
    /\ reader' = "idle" /\ pos' = 0 /\ fed' = <<>>
    /\ counted' = 0 /\ wasted' = 0
    /\ pc' = "area" /\ at' = Iso!Begin /\ area' = <<>>
    /\ offset' = 0 /\ tries' = 0 /\ tail' = <<>> /\ hashed' = <<>>
    /\ told' = 0

\* parse_sha256_manifest_text, one line.
LoadsLine ==
    /\ stage = "idle"
    /\ \E form \in Forms, name \in Names :
          /\ line' = [form |-> form, name |-> name]
          /\ parsed' = L!Parse(Written(line'))
    /\ stage' = "loaded"
    /\ UNCHANGED <<image, abort, fileVars, shaVars, diskVars, isoVars>>

\* An entry whose file is not there is over at once.
NotFound ==
    /\ stage = "loaded"
    /\ parsed.kind # "entry" \/ parsed.name # FileName
    /\ stage' = "idle" /\ line' = NoLine /\ parsed' = L!Parse(<<>>)
    /\ UNCHANGED <<image, abort, fileVars, shaVars, diskVars, isoVars>>

\* verify_manifest_entry
TakesEntry ==
    /\ stage = "loaded" /\ parsed.kind = "entry" /\ parsed.name = FileName
    /\ \E n \in 0..MaxSize, w \in BOOLEAN : Files(n, w, FALSE, n, n)
    /\ image' \in BOOLEAN
    /\ Reset
    /\ stage' = "sha" /\ line' = NoLine /\ parsed' = L!Parse(<<>>)
    /\ UNCHANGED abort

\* verify_embedded_drive, on a raw device: its driver reads up to a sector.
TakesDrive ==
    /\ stage = "idle"
    /\ \E t, upTo \in 0..MaxSize :
          /\ t % Sector = 0 /\ upTo % Sector = 0
          /\ PvdOffset + Sector <= upTo /\ upTo <= t
          /\ Files(0, TRUE, TRUE, t, upTo)
    /\ image' = TRUE
    /\ Reset
    /\ stage' = "iso"
    /\ UNCHANGED <<line, parsed, abort>>

Ends(verdict) ==
    /\ stage' = verdict
    /\ UNCHANGED <<jobVars, abort, fileVars, shaVars, diskVars, isoVars>>

ReadsForSha ==
    /\ stage = "sha" /\ Sha!Steps
    /\ UNCHANGED <<stage, jobVars, abort, fileVars, diskVars, isoVars>>

\* The digest is listed or is not; an image must be long enough for the area.
Compares ==
    /\ stage = "sha" /\ reader = "ok"
    /\ \/ Ends("bad")
       \/ ~image /\ Ends("ok")
       \/ image /\ Ends("iso")

ShaFails ==
    /\ stage = "sha"
    /\ \/ reader = "failed" /\ Ends("bad")
       \/ reader = "aborted" /\ Ends("aborted")

GoesOnForIso ==
    /\ stage = "iso" /\ Iso!Goes
    /\ UNCHANGED <<stage, jobVars, abort, fileVars, shaVars>>

FailsForIso ==
    /\ stage = "iso" /\ (Iso!Stops \/ Iso!HiddenFails)
    /\ UNCHANGED <<stage, jobVars, abort, fileVars, shaVars>>

\* check_iso_with_progress_and_cancel: no record in the area, or its digest.
IsoEnds ==
    /\ stage = "iso"
    /\ \/ pc = "loop" /\ offset = 0 /\ Ends("bad")
       \/ pc = "ok" /\ (Ends("ok") \/ Ends("bad"))
       \/ pc = "failed" /\ Ends("bad")

Forgets ==
    /\ stage \in {"ok", "bad", "aborted"}
    /\ Files(0, FALSE, FALSE, 0, 0) /\ Reset
    /\ stage' = "idle" /\ image' = FALSE
    /\ UNCHANGED <<line, parsed, abort>>

\* The user, and reset_results for the next run.
Flips ==
    /\ abort' = ~abort
    /\ UNCHANGED <<stage, jobVars, fileVars, shaVars, diskVars, isoVars>>

Runs == ReadsForSha \/ Compares \/ ShaFails \/ GoesOnForIso \/ IsoEnds
Next ==
    \/ LoadsLine \/ NotFound \/ TakesEntry \/ TakesDrive
    \/ Runs \/ FailsForIso \/ Forgets \/ Flips

\* A job that has begun is run by its thread, and every call returns; that it
\* fails is possible and never needed.
Spec == Init /\ [][Next]_vars /\ WF_vars(Runs)

----------------------------------------------------------------------------
(* The plan's estimate *)

\* estimated_manifest_target_bytes, and estimated_embedded_bytes for a device,
\* whose length the file system does not tell.
Planned == IF raw THEN total ELSE IF image THEN 2 * size ELSE size

----------------------------------------------------------------------------
(* Properties *)

\* A line that a tool wrote for a file is read back as an entry for that file,
\* with the exceptions the formats do not tell apart: a name that begins with
\* a blank or, in a text line, an asterisk, one that ends with a blank, and in
\* a BSD line one that holds its closing part.
LinesRead ==
    LET name == line.name IN
    stage = "loaded" /\ line.form \in {"text", "binary", "bsd"} /\ name # <<>> =>
        \/ parsed = [kind |-> "entry", name |-> name]
        \/ line.form = "text" /\ Head(name) \in {L!Blank, L!Star}
        \/ line.form # "bsd" /\ name[Len(name)] = L!Blank
        \/ line.form = "bsd" /\ \E i \in 1..Len(name) : name[i] = L!Close

\* The digest that is compared is the one of the whole file and of nothing
\* else, whichever readers were tried and wherever the first one gave up.
ShaIsWhole == reader = "ok" => fed = Sha!Bytes(0, size)

\* The record is looked for in the application-use area, and the digest is the
\* one of the whole image with a blank area, wherever the reads were cut, the
\* driver timed out or stopped; the in-memory digest of the image is equal.
DigestIsNormalized ==
    /\ pc \in {"loop", "scsi", "ok"} => area = Iso!Bytes(AppOffset, Iso!AppEnd)
    /\ pc = "ok" => hashed = Iso!Normalized(total)

\* What a job reports as read is what was planned for it, and more only by what
\* the reader that gave up had read: the bar of the run neither stops short of
\* a job that passed nor runs ahead for another reason.
ProgressMatchesPlan ==
    /\ counted + told <= Planned + wasted
    /\ stage = "ok" => counted + told = Planned + wasted

\* Every job ends, whatever the drive does.
JobEnds == stage \in {"sha", "iso"} ~> stage \in {"ok", "bad", "aborted"}
=============================================================================
