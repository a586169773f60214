----------------------------- MODULE VerifyJob -----------------------------
(***************************************************************************)
(* What the worker threads do inside a job (worker/execute.rs,             *)
(* worker/plan.rs): check one entry of a SHA-256 manifest, check the ISOB3 *)
(* record of a drive, or, while planning, load a manifest or look whether  *)
(* an encrypted file is one.  Encrypted files are decrypted to temporary   *)
(* files of one shared directory, whose names are made of the format, the  *)
(* clock and the extension; two threads may get the same name, since any   *)
(* two readings of the clock may agree.  The process may exit in the       *)
(* middle of it all.                                                       *)
(*                                                                         *)
(* Each file is a constant record of what reading it would show.           *)
(***************************************************************************)
EXTENDS Integers

CONSTANTS
    Threads,     \* the threads that run jobs: pool threads, a planning thread
    Files,       \* the files
    About,       \* [Files -> there, fmt, sound, sha, list, iso]: see FileInfo
    Times,       \* what the clock may read, whenever it is read
    MaxJobs,     \* bound: jobs run
    NoFile

FileInfo == [there : BOOLEAN,                           \* it exists
             fmt   : {"plain", "password", "pqe"},      \* detect_format
             sound : BOOLEAN,                           \* undamaged: decrypts with its credential
             sha   : BOOLEAN,                           \* its SHA-256 is the one listed
             list  : BOOLEAN,                           \* its content lists files and digests
            iso   : {"none", "valid", "missing", "invalid"}] \* its ISOB3 record; none: not an ISO

ASSUME VerifyJobAssumption ==
    /\ About \in [Files -> FileInfo]
    /\ MaxJobs \in Nat
    /\ NoFile \notin Files

Kinds == {"entry", "embedded", "load", "probe"}
Names == {"password", "pqe"} \X BOOLEAN \X Times

ASSUME NoFileAssumption == NoFile \notin Names

VARIABLES
    settings,    \* encrypted mode on, password right, private key loaded
    abort,       \* abort_requested
    temps,       \* the temporary directory: for each name whose outputs its file holds, as pairs of a
                 \* thread and what it decrypted, {} if there is no file
    job,         \* what each thread is doing
    jobs         \* jobs started

vars == <<settings, abort, temps, job, jobs>>

Idle == [pc |-> "idle", kind |-> "none", file |-> NoFile, name |-> NoFile,
         list |-> FALSE, verdict |-> "none"]

Settings == [enabled : BOOLEAN, right : BOOLEAN, dk : BOOLEAN]

\* The gates in front of a decryption.
MayDecrypt(f) == CASE About[f].fmt = "pqe"      -> settings.dk
                   [] About[f].fmt = "password" -> settings.enabled
                   [] OTHER                     -> TRUE

\* The decryption of f succeeds.
Opens(f) == About[f].sound /\ (About[f].fmt = "password" => settings.right)

IsIso(f) == About[f].iso # "none"

\* detect_format knows the header.
IsEncrypted(f) == About[f].there /\ About[f].fmt # "plain"

Init ==
    /\ settings \in Settings
    /\ abort = FALSE
    /\ temps = [n \in Names |-> {}]
    /\ job = [t \in Threads |-> Idle]
    /\ jobs = 0

At(t, pc) == job[t].pc = pc
Step(t, new) == job' = [job EXCEPT ![t] = new]
Goes(t, pc) == Step(t, [job[t] EXCEPT !.pc = pc])
Ends(t, verdict) == Step(t, [job[t] EXCEPT !.pc = "ended", !.verdict = verdict])

\* The thread has text to parse; list: whether it lists files and digests.
Loads(t, list) == Step(t, [job[t] EXCEPT !.pc = "parse", !.list = list])

Starts(t) ==
    /\ job[t].pc \in {"idle", "ended"} /\ jobs < MaxJobs /\ jobs' = jobs + 1
    /\ \A u \in Threads : job[u].pc # "gone"
    /\ \E kind \in Kinds, f \in Files :
          /\ kind # "entry" => About[f].there
          /\ kind = "probe" => IsEncrypted(f)
          /\ kind = "embedded" => About[f].fmt = "plain" /\ IsIso(f)
          /\ Step(t, [Idle EXCEPT !.pc = kind, !.kind = kind, !.file = f])
    /\ UNCHANGED <<settings, abort, temps>>

JobOnly == UNCHANGED <<settings, abort, jobs>>

\* The file is missing, or needs a credential that was not given.  A probe that ends
\* badly passes the file over without a word.
Refuses(t) ==
    /\ job[t].pc \in {"entry", "load", "probe"}
    /\ ~About[job[t].file].there \/ ~MayDecrypt(job[t].file)
    /\ Ends(t, "bad")
    /\ UNCHANGED temps /\ JobOnly

ReadsPlain(t) ==
    /\ job[t].pc \in {"entry", "load", "probe"}
    /\ About[job[t].file].there /\ ~IsEncrypted(job[t].file)
    /\ IF At(t, "entry") THEN Goes(t, "hash") ELSE Loads(t, About[job[t].file].list)
    /\ UNCHANGED temps /\ JobOnly

\* make_temp_path: the format's prefix, the time, the extension.
Name(f, now) == <<About[f].fmt, IsIso(f), now>>

StillWrites(u, n) == At(u, "decrypt") /\ job[u].name = n
Unfinished(n) == {o \in temps[n] : StillWrites(o[1], n)}

\* Creating the file empties one that was there; whoever has that one open writes on.
Decrypts(t) ==
    /\ job[t].pc \in {"entry", "load", "probe"}
    /\ IsEncrypted(job[t].file) /\ MayDecrypt(job[t].file)
    /\ \E now \in Times :
          LET n == Name(job[t].file, now) IN
          /\ temps' = [temps EXCEPT ![n] = Unfinished(n) \cup {<<t, job[t].file>>}]
          /\ Step(t, [job[t] EXCEPT !.pc = "decrypt", !.name = n])
    /\ JobOnly

\* Mutant: nothing is removed.
RemoveNothing(t) == UNCHANGED temps

\* cleanup_temp_file goes by the name: the file may be another thread's by now, or gone.
Remove(t) == temps' = IF job[t].name = NoFile THEN temps ELSE [temps EXCEPT ![job[t].name] = {}]

\* The loop polls the flag; a load passes a should_abort that is never true.
DecryptAborts(t) ==
    /\ At(t, "decrypt") /\ job[t].kind = "entry" /\ abort
    /\ Remove(t) /\ Ends(t, "aborted")
    /\ JobOnly

DecryptFails(t) ==
    /\ At(t, "decrypt") /\ Remove(t)
    /\ Ends(t, "bad")
    /\ JobOnly

DecryptEnds(t) ==
    /\ At(t, "decrypt") /\ Opens(job[t].file)
    /\ Goes(t, IF job[t].kind = "entry" THEN "compare" ELSE "readback")
    /\ UNCHANGED temps /\ JobOnly

Hashes(t) ==
    /\ At(t, "hash")
    /\ \/ Goes(t, "compare")
       \/ abort /\ Ends(t, "aborted")
       \/ Ends(t, "bad")
    /\ UNCHANGED temps /\ JobOnly

\* What can be read where a thread expects its plaintext: the outputs there, and the file
\* whose content they are if there is one output and nobody still writes it.
Content(t) == IF job[t].name = NoFile THEN {<<t, job[t].file>>} ELSE temps[job[t].name]
IsWhole(t, f) == \E u \in Threads : Content(t) = {<<u, f>>} /\ ~StillWrites(u, job[t].name)

\* Mutant: the digest is taken of the temporary file, when the decryption is over.
MatchesReadBack(t) ==
    IF job[t].name = NoFile THEN About[job[t].file].sha
                            ELSE \E f \in Files : IsWhole(t, f) /\ About[f].sha

\* The digest was taken of the bytes as they were decrypted.
Matches(t) == About[job[t].file].sha

\* On a mismatch the function returns at once, and a temporary file stays.
Compares(t) ==
    /\ At(t, "compare")
    /\ \/ Matches(t) /\ Goes(t, "iso")
       \/ ~Matches(t) /\ Ends(t, "mismatch")
    /\ UNCHANGED temps /\ JobOnly

\* Mutant: an ISO without a record passes.
IsoPassesMissing(kind, found) == found \in {"valid", "missing"} \/ (kind = "entry" /\ found = "none")

\* Skipped passes for an entry only; Missing and Invalid never pass.
IsoPasses(kind, found) == found = "valid" \/ (kind = "entry" /\ found = "none")

\* What the check of the record finds: it looks at a file named as an image only, and a
\* mixture of plaintexts or an unfinished one may show anything.
MayFind(t, found) ==
    IF ~IsIso(job[t].file) THEN found = "none"
    ELSE \/ Content(t) = {} /\ found = "invalid"
         \/ \E f \in Files : IsWhole(t, f) /\ found = About[f].iso
         \/ /\ Content(t) # {} /\ \A f \in Files : ~IsWhole(t, f)
            /\ found \in {"valid", "missing", "invalid"}

\* verify_isob3_target and what follows it, to the cleanup at the end.
ChecksIso(t) ==
    /\ job[t].pc \in {"iso", "embedded"}
    /\ \E found \in {"none", "valid", "missing", "invalid"} :
          /\ MayFind(t, found)
          /\ Ends(t, IF IsoPasses(job[t].kind, found) THEN "ok" ELSE "bad")
    /\ Remove(t)
    /\ JobOnly

\* A read error of the check comes back as Invalid, and so does an abort
\* (map_check_outcome), so that the two arms for an abort are never taken.
IsoCheckFails(t) ==
    /\ job[t].pc \in {"iso", "embedded"} /\ IsIso(job[t].file)
    /\ Ends(t, "bad") /\ Remove(t)
    /\ JobOnly

\* load_manifest_entries and the probes: the plaintext is read back and its file removed;
\* if it cannot be read the file stays.
ReadsBack(t) ==
    /\ At(t, "readback")
    /\ \/ /\ Content(t) # {} /\ Remove(t)
          /\ \E list \in BOOLEAN :
                /\ \A f \in Files : IsWhole(t, f) => list = About[f].list
                /\ Loads(t, list)
       \/ Ends(t, "unread") /\ UNCHANGED temps
    /\ JobOnly

\* A probe takes a file that has an entry; a manifest without one is loaded as well, unless
\* it is no text.
Parses(t) ==
    /\ At(t, "parse")
    /\ \/ (job[t].kind = "probe" => job[t].list) /\ Ends(t, "ok")
       \/ ~job[t].list /\ Ends(t, "bad")
    /\ UNCHANGED temps /\ JobOnly

\* A plaintext manifest cannot be read.
ReadFails(t) ==
    /\ At(t, "parse") /\ job[t].name = NoFile
    /\ Ends(t, "bad")
    /\ UNCHANGED temps /\ JobOnly

Running(t) == job[t].pc \notin {"idle", "ended", "gone"}

\* process::exit: the threads are gone wherever they are, and nobody cleans up.
Exits ==
    /\ \E t \in Threads : Running(t)
    /\ job' = [t \in Threads |-> IF Running(t) THEN [job[t] EXCEPT !.pc = "gone"] ELSE job[t]]
    /\ UNCHANGED <<settings, abort, temps, jobs>>

\* The user aborts, or starts the next run while threads of the aborted one are still here.
Flips == abort' = ~abort /\ UNCHANGED <<settings, temps, job, jobs>>

Acts(t) == \/ Starts(t) \/ Refuses(t) \/ ReadsPlain(t) \/ Decrypts(t) \/ DecryptAborts(t)
           \/ DecryptFails(t) \/ DecryptEnds(t) \/ Hashes(t) \/ Compares(t) \/ ChecksIso(t)
           \/ IsoCheckFails(t) \/ ReadsBack(t) \/ Parses(t) \/ ReadFails(t)

Next == Flips \/ Exits \/ \E t \in Threads : Acts(t)

Spec == Init /\ [][Next]_vars

----------------------------------------------------------------------------
(* Properties *)

\* A file is reported as good only if it exists, its credential was given, it opens and, for
\* an entry, has the digest listed; a plaintext image only if its own record is valid.  This
\* holds even if threads share a temporary file, replace or remove it under each other.
Sound(k, f) ==
    /\ About[f].there /\ MayDecrypt(f)
    /\ About[f].fmt # "plain" => Opens(f)
    /\ k = "entry" => About[f].sha
    /\ k = "entry" /\ About[f].fmt = "plain" => About[f].iso \in {"none", "valid"}
    /\ k = "embedded" => About[f].iso = "valid"

PassMeansVerified ==
    \A t \in Threads : job[t].verdict = "ok" => Sound(job[t].kind, job[t].file)

\* A file is said to have another digest only if it opens and has one, whatever became of
\* the temporary file in the meantime.
MismatchIsReal ==
    \A t \in Threads : job[t].verdict = "mismatch" =>
        LET f == job[t].file IN
        /\ About[f].there /\ ~About[f].sha
        /\ About[f].fmt # "plain" => Opens(f)

\* A job that passed, was aborted, or failed by anything but a mismatch or its read-back
\* has none of its plaintext left in the directory, whoever shared the file or wrote to
\* that name afterwards.
NothingKept ==
    \A t \in Threads :
        /\ At(t, "ended") /\ job[t].name # NoFile
        /\ job[t].verdict \in {"ok", "aborted", "bad"}
        => <<t, job[t].file>> \notin temps[job[t].name]
=============================================================================
