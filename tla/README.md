# ISOB3TOOLS in TLA+

ISOB3TOOLS verifies optical discs and ISO images and prepares encrypted ones.
It is four programs over one library: the window application ISOB3GUI, which
checks SHA-256 manifests and ISOB3 (BLAKE3) records of the drives it finds, and
the commands `blake3iso`, `direnc` and `discdecrypt`.  This directory holds
TLA+ modules of the parts of it that decide something over several steps, the
TLC runs that check them and proofs that TLAPS checks.

Source lines below are those of `src/`, the repository.

## 1. The system and its parts

| Part (source) | State it keeps | Operations | What is hard |
|---|---|---|---|
| Verifier window (`app/mod.rs`, `actions.rs`, `events.rs`, `ui/`) | `App`: scanning, verifying, drives, done and total, results, open dialogs, close-after-abort; the receiver of the current channel; the abort flag | one frame after another: read the close request, drain events, draw and take one click (scan, verify, abort, the abort dialog) | the abort flag is one for the life of the process; a channel is replaced while threads still send; counters decide that a run is over |
| Verification run (`worker/mod.rs`) | the plan, the jobs per drive | plan drive by drive and manifest by manifest, announce the jobs, run the SHA-256 phase, then the embedded-record phase | abort between any two steps, results sent before the jobs are announced |
| Worker pool (`worker/execute.rs:67-132`) | job channel, done channel, threads | feed one batch per drive, take it, run its jobs in order, report | a thread that leaves early, a feeder that waits for reports |
| Jobs and manifest loading (`worker/execute.rs`, `worker/plan.rs`) | temporary plaintext files | decrypt, hash, compare, check the record, clean up | many exits, shared temporary directory, names made from the clock |
| Chunked formats DBENC002 to 005 (`dbenc/aead.rs`, `argon2.rs`, `pqe.rs`, `mod.rs`) | a file of frames | encrypt, decrypt to a temporary file, to memory or to a path, with cancel | nonce and associated data per chunk, the end of the file, what is left behind on failure |
| Legacy format DBENC001 (`dbenc/legacy.rs`) | header, HMAC, CBC blocks | encrypt with a placeholder HMAC that is patched, verify, decrypt block-wise with one block held back | padding across reads, two passes over the file |
| Normalized digest (`blake3iso_core/hash.rs`, `io.rs`) | hasher, offset, retries | hash an image in pieces with the application-use area blanked; device tail; retry | pieces cut anywhere, drivers that end early |
| ISOB3 record and `blake3iso` (`blake3iso_core/mod.rs`, `bin/blake3iso.rs`, `isomd5.rs`) | the application-use area | implant, remove, check with the ISOMD5 fallback, info | blank, hash, write as three steps; other processes |
| `direnc` (`bin/direnc.rs`) | the directory tree | walk, encrypt each file through a sibling temporary file, rename, inject the decryptor | kill and re-run, links, directories that cannot be listed |
| `discdecrypt` (`bin/discdecrypt.rs`) | the output tree | walk, decrypt or copy | one of many files failing, two kinds of credentials |
| Key files (`keyutil.rs`, the credentials of `direnc` and `discdecrypt`) | `<prefix>.ek`, `<prefix>.dk` | generate, find, load, refuse | two writes over an existing pair, two generations at once, a default that answers for a file nobody named |
| SHA-256 (`sha256sum.rs`) | hasher, progress | parse manifest lines, digest with a fallback reader on Windows | what is hashed and told twice when the fallback starts again |
| Media discovery (`media.rs`), formatting (`format.rs`), sidecars (`encfile.rs`) | none, or display only | | |

How they interact: the window starts one thread per scan or run and hands it the
sending end of the current event channel and the shared abort flag.  The run
thread calls `run_drive_phase` twice; each call starts its own pool threads,
which run jobs; a job calls the decryption entry points of `dbenc` and the
record check of `blake3iso_core`.  `direnc` and `discdecrypt` call the
encryption and decryption entry points to paths.  The window, `blake3iso keygen`, `direnc` and
`discdecrypt` meet in the key files.  `blake3iso` calls `blake3iso_core` and, when
there is no record, runs an external ISOMD5 checker.

What makes each part correct, in a sentence: a run the window shows as over is
over and nothing of an aborted run is shown; each drive is read by one thread
and its jobs are reported once and in order; a file is reported as good only if
it exists, opens and has the digest listed, and as a different one only if it is, whoever
meets it in the temporary directory; only a prefix of
the true plaintext, and a whole one unless the file was cut between two chunks,
ever leaves a decryption; the digest of an image does not depend on how it was
read; an intact image is never called invalid; `direnc` never loses a file,
`discdecrypt` gives back what was prepared, and the two key files of one prefix
serve for each other.

## 2. Modules

`X -> Y` reads "X extends Y".

| Module | Models | State and actions |
|---|---|---|
| `PhaseOps` | the operations of one work phase as functions on a phase record | `Feed`, `Take`, `Complete`, `Return`, ...: used by both modules below, so that they cannot differ |
| `DrivePhase` -> `PhaseOps` | the abstract specification of `run_drive_phase` | one variable, the phase: which batch is unfed, queued, taken, running, finished or given up |
| `DrivePool` -> `PhaseOps` | `run_drive_phase` itself | job channel, done channel, feeder and pool threads with their program counters; shown to implement `DrivePhase` by the mapping `PhaseView` |
| `Verifier` -> `PhaseOps` | the window application with its scans, runs, phases, channel and abort flag | `App` fields under the source's names; a frame is `FrameStarts`, events one by one, `Drained`, one click.  Threads of earlier runs live on beside the next |
| `VerifyJob` | what a thread does inside a job | per thread: decrypt, hash, compare, check record, read back, parse; the shared temporary directory, where the same name may be given to several threads and a file holds the outputs of all who write to it; each file is a constant record of what reading it would show |
| `Dbenc`, with `ChunkedAead` and `LegacyCbc` as instances | one encrypted file and one call that decrypts it | the format and the format its magic names; the four kinds of call; the temporary file and the destination |
| `ChunkedAead` | the streams of DBENC002 to 005 | encryption frame by frame, damage at rest, decryption; a frame keeps the nonce and the associated data it was sealed with |
| `LegacyCbc` | the streams of DBENC001 | blocks as tuples, padding values, HMAC as the bytes it covers, pending block |
| `FileCheck`, with `ManifestLines`, `Sha256Readers` and `NormalizedHash` as instances | how the bytes of one unencrypted file become a verdict | the stage of the job; the three parts in the order of `execute.rs`, beside the abort flag and the progress |
| `ManifestLines` | what parsing makes of a line of a manifest | operators on sequences of tokens |
| `Sha256Readers` | the uncached and the buffered SHA-256 reader | byte *i* of the file is the number *i*; what the hasher was fed and the callback told |
| `NormalizedHash` | the application-use area and the normalized digest, of a file, of a raw device with hidden sectors, and of an image in memory | likewise |
| `IsoImage` | the record and the commands that write or check it | image data as a version number, area by kind, processes at their program counters |
| `DiscPrep` | `direnc`, then `discdecrypt` | the tree as paths and contents, a content as the payload it came from and the keys around it |
| `DiscKeys` | key generation, the choice of a credential by both commands, and the decryptor's window | the two files of each prefix, generations at their program counters, what each part of the disc is sealed with |
| `MC*` | instances for TLC | |
| `DrivePool_proofs`, `Verifier_proofs`, `VerifyJob_proofs`, `FileCheck_proofs`, `Dbenc_proofs`, `IsoImage_proofs`, `DiscPrep_proofs`, `DiscKeys_proofs` | theorems | |

`ChunkedAead`, `LegacyCbc`, `Sha256Readers` and `NormalizedHash` have actions but no
specification of their own: the module that instances them gives them their
variables, says when they step and states the properties.

The link from definitions to source lines is in `PROJECT.json` ("map").
Ciphers, hashes, HMACs and key derivation are ideal: a ciphertext opens only under
the key, nonce and associated data it was made with, and a digest is what was
hashed.  A `\* Mutant:` comment marks an operator that is a plausible mistake in
the definition after it; each property is checked to fail under one of them.

Abstractions worth knowing:

- `Verifier`: log and progress events are left out, but not the control that
  depends on whether sending them works.  What is on the drives is a constant,
  manifests as sequences of entries or `Unreadable`.
- `DrivePool` and `Verifier` model the abort flag as it is: polled, never
  waited for, lowered again by the next scan or run.
- `VerifyJob`: what a file on the drives holds does not change during the run, and
  reading it is one step or a failure.  The clock reads any of `Times` whenever it is
  read: `SystemTime` is not unique between threads, nor does it only go forward.  A
  temporary file with the outputs of several threads, or an unfinished one, may show a
  reader anything; creating one keeps those who had the old one open as writers, and
  removing one goes by its name, whoever's it is.  `FileCheck` has the same job for an unencrypted file read by
  read; the two meet in the order of the stages.
- `Dbenc`: the magic is changed apart from the rest of the file.  A file taken for
  another format fails at the tag in its header, or has no chunk that opens.
- `FileCheck`: one job at a time, with what was done for the one before forgotten; a
  line is a sequence of tokens, of which 64 digits in a row are one.
- `DiscKeys`: a key pair is named after the generation that drew it, and the files of
  the disc are grouped in parts with one credential each.
- `IsoImage`: a write of the 512-byte area is one step; an edit while the image
  is hashed gives a digest of neither version (`Mixed`).
- `DiscPrep`: the walk takes paths in any order, each once; a directory that
  cannot be listed hides its files from it without an error, as in the code.

## 3. Runs

Passing runs:

| Run | Instance and bounds | What it shows |
|---|---|---|
| `DrivePool` | 4 drives with 2, 0, 1, 1 jobs, 2 pool threads, the flag changes twice | one thread per drive, results in order, the phase always ends, and the threads and channels implement `DrivePhase` |
| `Verifier` | 2 drives, the second with an embedded record, 2 threads per phase, 1 scan, 2 runs | results are counted once and belong to the run on display, nothing of an aborted run is seen, embedded checks wait for the SHA-256 jobs |
| `VerifierLive` | 1 drive with an unreadable manifest and one of one file, 2 runs, under fairness | scans, runs and threads end |
| `VerifyJob` | 2 threads, 3 jobs over 9 sorts of file, 2 readings of the clock; threads and readings exchanged by symmetry | even where threads share a temporary file: passed means verified, a mismatch is one, and a plaintext stays only after a mismatch, a failed read-back or an exit |
| `FileCheck` | names of up to 3 tokens; files and devices of up to 16 bytes, sectors of 4, an area of 2 bytes in the second, pieces of 4 and 3, chunks of 2 sectors, 4 tries | a line is read as it was written, the SHA-256 is of the whole file, the ISO digest does not depend on the reads, the progress agrees with the plan, and every job ends |
| `Dbenc` | DBENC002 to 005: up to 4 bytes in chunks of up to 2, 2 accidents, `AadModulus` 2 for the 32-bit counter; DBENC001: all plaintexts of up to 5 bytes of 2 values, blocks of 2, reads of 1 to 3 | nonces are fresh, only a beginning of the plaintext comes out, what is undamaged opens, damage is refused; DBENC001 comes out whole or is refused, alike by the stream and in memory |
| `IsoImage` | 2 writers, 3 implants or removals, 2 edits | an intact image is never invalid, foreign metadata is kept |
| `DiscPrep` | a file, a link to it, a manifest, a file that cannot be listed; 2 runs of `direnc`, 1 of `discdecrypt` | no file is lost, success means encrypted, the round trip, the mirror is complete |
| `DiscKeys` | 2 generations into 2 prefixes, a disc in 2 parts, 2 passwords of which one was chosen | the files of one prefix serve for each other, every refusal has a reason, success means every part, the window never stays locked |

Why the bounds are enough: two drives and two threads give every order of two
batches, and a third and fourth drive in `DrivePool` make batches queue; two
runs are needed for an aborted run to meet the next one, and a third would only
repeat that; one scan lists the drives and the second run follows without one.
In `Dbenc` two full chunks, a partial one and none are all reached, and with the
modulus of 2 the cut of the chunk index to 32 bits happens within a file of three
chunks; two accidents are needed to swap two frames and lose one; block size 2
gives every position of the padding block against a read.  In `FileCheck` the area
starts and ends within a sector and every cut through it is a read, a file of 16
bytes takes four uncached pieces and a tail, and a device may hide none, one or
two sectors.  In `DiscPrep` two runs give every combination of an interrupted run
and the one after it.  In `DiscKeys` two generations are enough for one to
overwrite the other, and the second prefix and password are what a user may
name wrongly.  In `VerifyJob` two threads share a directory, one reading of the clock
makes them meet in one file and the other lets them miss each other, and the third job
reuses a thread; the nine sorts of file are one for each way a job can end.

Runs that find what a comment of the code rules out (each has a finding in
`PROJECT.json` with the quotation):

| Run | What happens |
|---|---|
| `VerifierFinish` | a manifest that fails to load is counted as done but not as a job: the run is shown as finished while a job still runs (`events.rs:94`). Because of it `FinishedIsLast` is no property of the passing runs, and `ResultsAreCurrent` is checked where every manifest loads: otherwise late results of the first run reach the second |
| `VerifierZombie` | the next run lowers the abort flag before a thread of the aborted run polled it; it goes on (`actions.rs:44`) |
| `DiscPrepAgain` | `direnc` run again, after a run that failed at its last step, encrypts twice; `discdecrypt` takes off one layer and reports success (`direnc.rs:250`) |

Deadlock is checked in `DrivePool`, the three runs of `Verifier`, `FileCheck` and
`IsoImage`.  In `Dbenc`, `VerifyJob`, `DiscPrep`, `DiscPrepAgain` and `DiscKeys` there
comes a state in which the file, the jobs or the disc are done, so these runs
do not check it.

### Behaviours a reader would not expect

The models have these as the code does; no run states a property of them.

The verifier:

- A close request takes effect when the run ends by itself, without the user's
  answer (`ui/mod.rs:26`), and a confirmed abort-and-close exits at the next frame,
  with threads still in their jobs (`ui/mod.rs:33`).
- A digest mismatch, or a manifest that cannot be read back, leaves the decrypted
  file in the temporary directory (`execute.rs:218`, `plan.rs:119` and 164), where
  `execute.rs:36` says that it must be cleaned up after the check and `dbenc/mod.rs:118`
  that the caller has to: `Compares` and `ReadsBack` of `VerifyJob`, the verdicts
  "mismatch" and "unread".  `NothingKept` holds of every other way a job ends; it is not
  what these two comments promise, which does not hold.  A failed copy out of the
  temporary file leaves it too (`dbenc/mod.rs:207` and 298): `CopyFails` of `Dbenc`.
- An aborted record check is reported as an invalid record (`execute.rs:466`):
  `IsoCheckFails` of `VerifyJob`.
- The name of a temporary file is not unique (`dbenc/mod.rs:447`): two threads that read
  the same time write into one file and empty or remove it under each other, which the
  comment at 446 means to avoid.  That a thread reads its own plaintext back is therefore
  no property here: an image may be judged by the record of another one or called invalid,
  and a probe or a load may see another manifest.  What the digest decides is not touched, since it is
  taken while decrypting: `PassMeansVerified` and `MismatchIsReal`.
- The plan counts the bytes of a plaintext manifest, but loading one reports no
  progress; a device is planned and read to the end of the device, not to the size
  in its volume descriptor; and what the uncached reader read before it gave up is
  counted again (`wasted` in `ProgressMatchesPlan`).
- A name in a manifest that begins with a blank or an asterisk, or ends with a
  blank, is read without it; a BSD line is cut at the first `") = "`; and no blank
  is needed behind the 64 digits, so a line of 128 digits gives an entry for a
  file named by the second half (`sha256sum.rs:313-343`).  `LinesRead` lists these.

The formats and the record:

- An empty chunked file, or one cut at the end of its header, decrypts to nothing
  with any password or key, since only chunks are authenticated; so does a file taken
  for DBENC004 or 005 that ends behind what is read as the header: `Misreads` of `Dbenc`.
- `implant` replaces an existing ISOB3 record without `--force`, and `check` exits
  with 0 when the ISOMD5 checker could not be run (`bin/blake3iso.rs:103`):
  `MayReplace` and `CheckFallsBack` of `IsoImage`.

Directories, discs and keys:

- `direnc` tells manifests by their names (`sha256sum.rs:57`), where
  `docs/direnc.md:45` says by content; it leaves files it could not list in
  plaintext and reports success, leaves a partial sibling file when it is killed,
  and takes a link to a file it encrypted before as one more payload file:
  `ShouldSkip`, `Listed`, `Killed` and `Content` of `DiscPrep`.
- An output directory that does not exist yet is compared with the input as it is
  spelt, links and `..` included (`discdecrypt.rs:578-602`), so that one inside the input is not
  always refused, as `docs/discdecrypt.md:84` says.
- The password is asked for only if there is no default key; a default key that
  cannot be loaded refuses a run, of `discdecrypt` even one with the right
  `--password`: `Resolves` and `Command` of `DiscKeys`, "bad key".
- The key files of a prefix are named with `with_extension`, which replaces what
  follows the last dot: `keys.v1` and `keys.v2` are both written to `keys.ek` and
  `keys.dk`, where the help text of `keygen` says `<output>.ek`
  (`keyutil.rs:55`, `bin/blake3iso.rs:70`).  A prefix of `DiscKeys` is the name that
  comes out.

### Fairness

- `Verifier` (`FairSpec`): weak fairness of the window's step, since egui is
  asked to repaint every 100 ms (`ui/mod.rs`), and of each scan, coordinator and
  pool thread, which the operating system runs.  No fairness of a click: the
  window's step may always be the one in which the user does nothing.
- `DrivePool`: weak fairness of each thread and of the feeder; receiving on a
  channel blocks until something is there or every sender is gone, which is the
  enabling condition of the action.  The flag need never change.
- `FileCheck`: weak fairness of the job that is running.  No abort, no error and no
  further job need occur; time-outs of a device are bounded by its tries.
- `DiscKeys`: weak fairness of the thread that decrypts and of the window's frame,
  which a running window asks for every 100 ms.  No user and no key generation
  need go on.
- Everything else is safety only.

## 4. Proofs

TLAPS proves for every value of the constants what the runs show on an instance:

| Theorem | Says |
|---|---|
| `PoolImplementsPhase`, `BatchInOnePlace`, `ResultsAreInOrder` (`DrivePool_proofs`) | the threads and channels implement `DrivePhase`; a batch is in one place; a drive's results come in the order of its jobs, each once |
| `TypeCorrect`, `AbortSilent`, `AbortedStayOut` (`Verifier_proofs`) | the types; no Aborted event of a worker and no Fatal event of a run whose threads left early is in the channel the window reads; no result of an aborted run is shown or counted after the abort |
| `EmbeddedComesLast`, `ResultsAreCounted` (`Verifier_proofs`) | in a run that was not aborted the embedded checks come after the last SHA-256 job was reported; every outcome is counted once |
| `PanelIsCurrent`, `OverMeansDone` (`Verifier_proofs`) | where every manifest loads: only results of the last run are on display, and a run is over on screen only when all its jobs were reported |
| `PassesAreSound`, `MismatchesAreReal`, `PlaintextIsRemoved` (`VerifyJob_proofs`) | the three properties of the jobs, whatever the clock reads |
| `WholeFileIsHashed`, `ImageIsNormalized`, `ProgressIsPlanned` (`FileCheck_proofs`) | the SHA-256 digest is of the whole file, the normalized digest of the whole image with a blank area, and the progress told is the one planned |
| `LinesAreRead` (`FileCheck_proofs`) | a manifest's line is read back as an entry for its file, for every name the line's form can tell |
| `NoncesFresh`, `OnlyBeginnings`, `WholeComesBack`, `DamageIsRefused` (`Dbenc_proofs`) | no nonce twice; in all five formats only a beginning of the plaintext comes out, an undisturbed file comes out whole, a damaged chunk is refused |
| `WholeOrNothing`, `StreamAgrees` (`Dbenc_proofs`) | a DBENC001 file comes out whole or is refused, and the streaming and the in-memory decryption agree on it |
| `IntactIsNeverInvalid`, `ForeignIsKept` (`IsoImage_proofs`) | the two action properties of the record |
| `DiscTypeCorrect`, `PayloadSafe` (`DiscPrep_proofs`) | the types; through every failure and kill of every run of `direnc`, each name holds the whole of its file, plain or encrypted |
| `PreparedIsEncrypted`, `OnceIsUndone`, `MirrorIsComplete` (`DiscPrep_proofs`) | a successful run of `direnc` left nothing it reaches in plaintext; what it ran over once `discdecrypt` gives back; a successful decryption left nothing out |
| `KeysTypeCorrect`, `KeyFilesServe` (`DiscKeys_proofs`) | the types; the two files of a prefix that was left to one generation at a time serve for each other |
| `RefusalsExplained`, `OkIsWhole` (`DiscKeys_proofs`) | a refusal has a reason, and a success is one of every part of the disc |

Assumed are the named assumptions of the modules: numbers are naturals and not
zero where they are sizes, manifests are sequences, links lead to files that are
not links, the null values are none of the names.  One hypothesis is stated in the
theorems that need it, `PanelIsCurrent` and `OverMeansDone`: `AllLoad`, that no manifest
is broken.  Neither property holds without it.  The run
`VerifierFinish` has a broken manifest, whose result the window counts and the total
does not, so that the run ends early on screen (the finding); a second run started
then shares the channel with threads of the first, whose results appear in it.

**The argument for the pool.** A step of a thread is one of the phase only
together with what the channels say: the phase's batch is "queued" while it is
in the job channel, "taken" or "running" by the thread that holds it, and
"finished" once its done message is there.  The invariant relates each thread's
program counter to its batch, orders the channel, counts the done messages
against the batches that were fed and not yet reported, and says that a thread
which ended without a batch found the channel empty and closed.  With it each
action of the pool is one of `DrivePhase` or leaves `PhaseView` as it is.  For the
order of the results `IRes` adds that a batch that waits or is in work has a job left,
and that the jobs of a drive in the sent events are 1 up to the number that is over, in
this order.

**The argument for the verifier.** The properties of the channel are not inductive: that
an Aborted event is not in the channel says nothing of the thread that is about
to send one.  `IInv` adds what the code relies on without saying so.
`request_abort` raises the flag and replaces the channel in one step; only the
start of a scan or run lowers the flag, and that thread gets the new channel.
So: while the flag is up every run holds a dropped channel (`FlagCutsOff`); a run
whose channel is the current one has lost no worker (`LiveClean`); each result in
the channel is of a run with the current channel (`QueueLive`); an aborted run's
channel is not the current one (`AbortedCutOff`).  The proof has one lemma per
action of the threads, of the window and of its events; steps of one run's
threads go through `RunStepInv`, which says that a step that keeps its own
part keeps all.  Lemmas on phase records come first: the phase's operations
keep a job left in every batch that is not finished.

`OInv` adds, for the order of the phases, that only an abort takes its channel from a
run, and that a phase which returned without losing a worker has no job left.
`Counted` says which events there are: each result shown or sent is of work that was
reported (`IsDone`: a planning step no longer to do, a job no longer left), those in the
channel are different from each other and from those shown, and `done` is the number of
those shown.  A thread sends a result in the step that takes the work off what is left, so
it is a new one.  `CInv`, under `AllLoad`, adds that the plan's count is the number of
result events the plan allows (`PlansCount`), that at most one scan has an event to come
(`ScansOK`), that every result shown or sent is of the last run, that a run which shares the
channel with a later one is over, and that the total is 0 or the plan's count, announced
once (`Current`).  `done >= total > 0` then means that every result event of the run has been
shown, and with that each of its jobs is reported (`AllDoneIsOver`).

**The argument for the jobs.** A job learns what it is judged by before anyone can come
between: that its file exists, that its credential was given, that it opens and what its
digest is are facts about the file itself, kept with the place the thread is at (`Found`).
Only the record of an encrypted image and the text of an encrypted manifest are read
back from the directory, and no property rests on these.  For the removal the invariant
says that a job which is past its temporary file has no output there (`Cleared`).  It is
inductive because no step of another thread brings an output back: to create a file
keeps at most the outputs that were in it and adds the creator's, and to remove one,
whoever's it is, keeps none (`StepOfOne`).

**The argument for the readers.** Every reader has hashed exactly the bytes before its
position (`ShaOK`, `HashOK`), and the position moves only with what was fed.  The uncached
SHA-256 reader starts from nothing and hands nothing on: what it read in vain is counted
in `wasted` and nowhere else.  The digest of an image feeds each piece with the part that
overlaps the area blanked; wherever pieces are cut, they add up to the blanked image
(`Iso!Normalized`).  The SCSI commands' bytes are hashed as they are, which is right only
behind the area: the area is within the sector of the volume descriptor, which the driver
must have read (`DiskOK`), so the commands begin behind it.  For a line, the proof follows
the parser through the three forms on a sequence of tokens of any length.

**The argument for the chunked formats.** Chunks have any length, so where chunk *i*
begins is not in any variable: the invariant says there is a function `cut` from
chunk numbers to offsets which the frames on the disc agree with (`IsChunk`), in
any order and number once the medium has been at them.  A frame opens only at
the position in its nonce, so after *i* frames the output is the plaintext up to
`cut[i]`.  An undamaged file has the frames 0, 1, ... to the end, and `cut` of
their number is the size.  The encryption extends `cut` by one value at each chunk.

**The argument for DBENC001.** Here everything is fixed by the plaintext: `Padded` is it with
its padding, `Blocks` its blocks, `Full` the ciphertext of all of them.  While it encrypts,
the library has taken *d* blocks and keeps the rest of what it has read (`Taken`), however
the reads fall; the MAC is the placeholder or that of `Full`, and a file that was cut is
shorter than `Full`.  So the HMAC passes for a finished file under the right key and for
nothing else.  Decryption has written *m* blocks and keeps the next one back (`Written`):
`ldec.pos <= (m + 1) * Block` says that the block kept back at the end is the last, the
one with the padding.  The in-memory decryption takes the same `Full` at once.

**The argument for the record.** Every digest written is one of an image with a
blank area, although the area is rewritten while others hash: the digest blanks
it.  So a check whose image has not been edited since (`~stale`) finds the record's
digest equal to its own.  And while a writer without `--force` is at work the area
holds no foreign metadata: it found none, and none of the programs writes any.

**The argument for `direnc`.** `PayloadKept` is not inductive at the rename, which
puts a temporary file's content under the file's name.  `IInv` of
`DiscPrep_proofs` adds that the path being written to carries the number of the
current run, so that it is none of the directory's names (`TempApart`), that a
link's name is still a link or holds its target, and that before the rename the
temporary file is the whole of the file's payload.  `WorkInv` adds how a run goes over the
directory: it has at most one temporary file, and only while it encrypts (`WriterOK`), it
is done with the paths it has seen, each encrypted or to be skipped (`SeenOK`), and a path
has a layer per run, or one more where a link was (`LayersOK`).  `ReadInv` says what a
decryption makes of that: what it has seen is in the output and, after one run of `direnc`,
as it was, since one layer came off.

**The argument for the keys.** For a prefix that never was in trouble: at most one
generation is at work on it (`OneAtATime`), its two files are of that generation as
far as it got (`PairGrows`), and of one pair when none is (`PairWhole`); a
prefix that something was sealed with is at rest (`UsedAtRest`), so what it was
sealed with is still in both files (`SealedWith`).  For a run of `discdecrypt`, `TellInv`
adds that what is in the output was opened with its credentials, that a failed one
stands before a part they do not open, and that a private key half written belongs to a
generation under way or to a prefix in trouble.

Every safety invariant and every action property of a passing run is stated by a
theorem.  Only model-checked: liveness under fairness, which the prover does not
reach (`PhaseTerminates`, `ScanEndsForUser`, `RunEndsForUser`, `ThreadsEnd`, `JobEnds`,
`WindowRecovers`), and the three runs that show a violation, whose counterexamples need
no proof.

## 5. Not modelled

- Media discovery (`media.rs`) reads the operating system's lists once and keeps no
  state; what it finds is a constant of `Verifier`.
- Walking a drive for manifests and finding the file an entry names: `plan.rs` and
  `sha256sum.rs` use them as pure functions of the file system.
- Drawing, wording, worker counts and time estimates, the password and key fields of
  the verifier.
- `encfile.rs` is called by no program; `blake3iso info` reads the record and changes
  nothing; `main.rs` and `lib.rs` only declare and start.
- The embedded ISOMD5 checker and the calls of Windows are external: a choice of
  outcomes.
- Ciphers, key derivation and key encapsulation are ideal, as said above.
- Four hazards of `PROJECT.json` have no property, with the reason in their note: the
  close request that is acted on later (`ui/mod.rs:26`), the exit of the process with
  threads in the middle of a decryption (`ui/mod.rs:34`), the copy that fails before the
  cleanup (`dbenc/mod.rs:207`), and the encrypted manifest that a failed probe passes
  over (`worker/plan.rs:49`).

## 6. Plan

Done: the phase and the pool with their refinement and its proof; the application
and the proofs about its channel; jobs, record and digest; the file formats and the
library's entry points, the readers and the lines of a manifest, the directory, the disc
and its keys, all with proofs of their safety properties.

Next, modelling: the steps of `VerifyJob` inside a run of `Verifier`, so that the exit
after an abort can be related to the temporary files it leaves; the walk of
`worker/plan.rs` over a drive that changes.

Next, proofs: that each phase of a run in `Verifier` implements `DrivePhase`, as the pool
does, so that the application's threads and those of `DrivePool` keep one promise.
