------------------------------ MODULE DiscPrep ------------------------------
(***************************************************************************)
(* A directory on its way to a disc and back (bin/direnc.rs,               *)
(* bin/discdecrypt.rs): direnc encrypts its files in place, one after the  *)
(* other through a sibling temporary file, and adds the decryptor; it may  *)
(* fail or be killed at any step and be started again.  discdecrypt then   *)
(* mirrors the disc into an output directory.                              *)
(*                                                                         *)
(* A file's content is the payload it came from and the keys of the        *)
(* encryptions around it, the last one outermost.                          *)
(***************************************************************************)
EXTENDS Naturals, Sequences, FiniteSets, Functions, SequencesExt

CONSTANTS
    Files,           \* files of the directory, links included; decryptor/ is not among them
    Links, Target,   \* symbolic links and the files they lead to
    NamedSha,        \* files whose name has sha256 or .sha in it
    Hidden,          \* files in directories that cannot be listed
    Excludes,        \* the sets of files that --exclude may name
    MaxRuns          \* bound: runs of direnc

Keys == {"password", "private key"}   \* DBENC001 to 004; DBENC005

ASSUME DiscAssumption ==
    /\ Links \cup NamedSha \cup Hidden \cup UNION Excludes \subseteq Files
    /\ Target \in [Links -> Files \ Links]
    /\ Files # {} /\ MaxRuns \in Nat

\* Run 0: the file itself; run r: what the r-th run of direnc writes beside it.
Paths     == [file : Files, run : 0..MaxRuns]
Itself(f) == [file |-> f, run |-> 0]

VARIABLES
    tree,       \* what is there, links left out
    links,      \* links not yet replaced
    run,        \* direnc: where it is, its key and excludes, the paths it is done with, the
                \* path it is at
    runs, result,
    decryptor,  \* the files of decryptor/
    dec,        \* discdecrypt: likewise, with the credentials it was given
    out, decResult

direnc == <<tree, links, run, runs, result, decryptor>>
vars   == <<direnc, dec, out, decResult>>

Plain(f) == [of |-> f, layers |-> <<>>, whole |-> TRUE]

NoPath == Itself(CHOOSE f \in Files : TRUE)
NoRun  == [pc |-> "idle", key |-> "password", exclude |-> {}, seen |-> {}, path |-> NoPath]
NoDec  == [pc |-> "idle", creds |-> {}, seen |-> {}]

Init ==
    /\ tree = [p \in {Itself(f) : f \in Files \ Links} |-> Plain(p.file)]
    /\ links = {Itself(f) : f \in Links}
    /\ run = NoRun /\ runs = 0 /\ result = "none" /\ decryptor = "none"
    /\ dec = NoDec
    /\ out = <<>> /\ decResult = "none"

Put(fs, p, c) == [q \in DOMAIN fs \cup {p} |-> IF q = p THEN c ELSE fs[q]]
Drop(fs, p)   == Restrict(fs, DOMAIN fs \ {p})

\* What reading a path gives: of a link, what it leads to.
Content(p) == tree[IF p \in links THEN Itself(Target[p.file]) ELSE p]

\* WalkDir; a directory that cannot be listed is passed over without an error.
Listed == {p \in DOMAIN tree \cup links : p.file \notin Hidden}

----------------------------------------------------------------------------
(* direnc *)

Disc == UNCHANGED <<dec, out, decResult>>

RunStarts ==
    /\ run.pc = "idle" /\ dec.pc = "idle" /\ decResult = "none" /\ runs < MaxRuns
    /\ \E key \in Keys, exclude \in Excludes :
          run' = [NoRun EXCEPT !.pc = "walk", !.key = key, !.exclude = exclude]
    /\ runs' = runs + 1 /\ result' = "running"
    /\ UNCHANGED <<tree, links, decryptor>> /\ Disc

\* should_skip: by the file's name, which a temporary file's begins with, or by --exclude.
ShouldSkip(p) == p.file \in NamedSha \cup run.exclude

Ahead == Listed \ run.seen

Skips ==
    /\ run.pc = "walk"
    /\ \E p \in Ahead : ShouldSkip(p) /\ run' = [run EXCEPT !.seen = @ \cup {p}]
    /\ UNCHANGED <<tree, links, runs, result, decryptor>> /\ Disc

\* sibling_temp_path
Temp(p) == [p EXCEPT !.run = runs]

\* Mutant: the file is encrypted where it is.
BeginsInPlace(p) ==
    tree' = Put(tree, p, [Content(p) EXCEPT !.layers = Append(@, run.key), !.whole = FALSE])

Begins(p) ==
    tree' = Put(tree, Temp(p), [Content(p) EXCEPT !.layers = Append(@, run.key), !.whole = FALSE])

EncBegins ==
    /\ run.pc = "walk"
    /\ \E p \in Ahead :
          /\ ~ShouldSkip(p) /\ Begins(p)
          /\ run' = [run EXCEPT !.pc = "encrypt", !.path = p]
    /\ UNCHANGED <<links, runs, result, decryptor>> /\ Disc

EncEnds ==
    /\ run.pc = "encrypt" /\ run' = [run EXCEPT !.pc = "replace"]
    /\ tree' = [tree EXCEPT ![Temp(run.path)] = [Content(run.path) EXCEPT !.layers = Append(@, run.key)]]
    /\ UNCHANGED <<links, runs, result, decryptor>> /\ Disc

Ends(r) == run' = [NoRun EXCEPT !.exclude = run.exclude] /\ result' = r

\* The temporary file is removed, if that succeeds.
EncFails ==
    /\ run.pc = "encrypt" /\ Ends("failed")
    /\ tree' \in {tree, Drop(tree, Temp(run.path))}
    /\ UNCHANGED <<links, runs, decryptor>> /\ Disc

\* Mutant: the temporary file is copied.
MoveKeeping(from, to) == Put(tree, to, tree[from])

\* rename
Move(from, to) == Drop(Put(tree, to, tree[from]), from)

Replaces ==
    /\ run.pc = "replace"
    /\ tree' = Move(Temp(run.path), run.path)
    /\ links' = links \ {run.path}
    /\ run' = [run EXCEPT !.pc = "walk", !.seen = @ \cup {run.path}, !.path = NoPath]
    /\ UNCHANGED <<runs, result, decryptor>> /\ Disc

\* Mutant: a file that cannot be replaced is passed over.
ReplaceFailsSilently ==
    /\ run.pc = "replace"
    /\ tree' = Drop(tree, Temp(run.path))
    /\ run' = [run EXCEPT !.pc = "walk", !.seen = @ \cup {run.path}, !.path = NoPath]
    /\ UNCHANGED <<links, runs, result, decryptor>> /\ Disc

ReplaceFails ==
    /\ run.pc = "replace" /\ Ends("failed")
    /\ UNCHANGED <<tree, links, runs, decryptor>> /\ Disc

WalkEnds ==
    /\ run.pc = "walk" /\ Ahead = {} /\ run' = [run EXCEPT !.pc = "inject"]
    /\ UNCHANGED <<tree, links, runs, result, decryptor>> /\ Disc

Injects ==
    /\ run.pc = "inject" /\ Ends("ok") /\ decryptor' = "complete"
    /\ UNCHANGED <<tree, links, runs>> /\ Disc

\* The binaries are not beside direnc, or cannot be copied.
InjectFails ==
    /\ run.pc = "inject" /\ Ends("failed")
    /\ decryptor' \in {decryptor, IF decryptor = "none" THEN "partial" ELSE decryptor}
    /\ UNCHANGED <<tree, links, runs>> /\ Disc

Killed ==
    /\ run.pc # "idle" /\ Ends("killed")
    /\ UNCHANGED <<tree, links, runs, decryptor>> /\ Disc

----------------------------------------------------------------------------
(* discdecrypt, on a disc made of the directory *)

DecStarts ==
    /\ run.pc = "idle" /\ runs > 0 /\ dec.pc = "idle" /\ decResult = "none"
    /\ \E creds \in SUBSET Keys \ {{}} :
          dec' = [pc |-> "walk", creds |-> creds, seen |-> {}]
    /\ UNCHANGED <<direnc, out, decResult>>

DecDone(p, c) ==
    /\ dec' = [dec EXCEPT !.seen = @ \cup {p}] /\ out' = Put(out, p, c)
    /\ UNCHANGED <<direnc, decResult>>

\* Mutant: what cannot be opened with the credentials is copied as it is.
CopiesLocked(c) == c.layers = <<>> \/ (c.layers # <<>> /\ Last(c.layers) \notin dec.creds)

\* No header; of an incomplete file it may be missing.
Copies(c) == c.layers = <<>> \/ ~c.whole

\* An incomplete file may be cut between two chunks.
Opens(c) == c.layers # <<>> /\ Last(c.layers) \in dec.creds

DecFile ==
    /\ dec.pc = "walk"
    /\ \E p \in Listed \ dec.seen :
          \/ Copies(Content(p)) /\ DecDone(p, Content(p))
          \/ Opens(Content(p)) /\ DecDone(p, [Content(p) EXCEPT !.layers = Front(@)])

\* Mutant: a file that fails is left out.
DecFailsSilently ==
    /\ dec.pc = "walk"
    /\ \E p \in Listed \ dec.seen : dec' = [dec EXCEPT !.seen = @ \cup {p}]
    /\ UNCHANGED <<direnc, out, decResult>>

\* No credential, a file that does not open, an I/O error; a part may be written.
DecFails ==
    /\ dec.pc = "walk"
    /\ \E p \in Listed \ dec.seen :
          out' \in {out, Put(out, p, [Content(p) EXCEPT !.whole = FALSE])}
    /\ dec' = NoDec /\ decResult' = "failed"
    /\ UNCHANGED direnc

DecEnds ==
    /\ dec.pc = "walk" /\ Listed \subseteq dec.seen
    /\ dec' = NoDec /\ decResult' = "ok"
    /\ UNCHANGED <<direnc, out>>

Next ==
    \/ RunStarts \/ Skips \/ EncBegins \/ EncEnds \/ EncFails \/ Replaces \/ ReplaceFails
    \/ WalkEnds \/ Injects \/ InjectFails \/ Killed
    \/ DecStarts \/ DecFile \/ DecFails \/ DecEnds

Spec == Init /\ [][Next]_vars

----------------------------------------------------------------------------
(* Properties *)

Contents == [of : Files, layers : SeqOf(Keys, 2 * MaxRuns), whole : BOOLEAN]

\* The types; and a run has no temporary file between two files.
TypeOK ==
    /\ DOMAIN tree \subseteq Paths /\ DOMAIN out \subseteq Paths
    /\ \A p \in DOMAIN tree : tree[p] \in Contents
    /\ \A p \in DOMAIN out : out[p] \in Contents
    /\ links \subseteq {Itself(f) : f \in Links} /\ links \cap DOMAIN tree = {}
    /\ run \in [pc : {"idle", "walk", "encrypt", "replace", "inject"}, key : Keys,
                exclude : Excludes \cup {{}}, seen : SUBSET Paths, path : Paths]
    /\ runs \in 0..MaxRuns /\ result \in {"none", "running", "ok", "failed", "killed"}
    /\ decryptor \in {"none", "partial", "complete"}
    /\ dec \in [pc : {"idle", "walk"}, creds : SUBSET Keys, seen : SUBSET Paths]
    /\ decResult \in {"none", "ok", "failed"}
    /\ run.pc \in {"walk", "inject"} => \A p \in DOMAIN tree : p.run # runs

\* At every moment of every run, wherever it was killed or failed before, each name holds the
\* whole of its file, as it was or encrypted.
PayloadKept ==
    \A f \in Files : LET source == IF f \in Links THEN Target[f] ELSE f
                     IN  /\ Itself(f) \in DOMAIN tree \cup links
                         /\ Content(Itself(f)).of = source /\ Content(Itself(f)).whole

Reached == {p \in DOMAIN tree \cup links : p.file \notin Hidden \cup NamedSha \cup run.exclude}

\* A run that says it prepared the directory left no payload file it can reach in plaintext.
OkMeansEncrypted ==
    result = "ok" => /\ decryptor = "complete"
                     /\ \A p \in Reached : Content(p).layers # <<>>

\* What direnc ran over once, ending however it did, discdecrypt gives back as it was.
RoundTrip ==
    runs = 1 /\ decResult = "ok" =>
        \A f \in Files \ (Links \cup Hidden) : out[Itself(f)] = Plain(f)

\* A decryption that says it succeeded left nothing out that it can reach.
MirrorComplete == decResult = "ok" => Listed \subseteq DOMAIN out

\* What a successful run prepared, a successful decryption decrypts completely.
MirrorDecrypted == result = "ok" /\ decResult = "ok" => \A p \in DOMAIN out : out[p].layers = <<>>
=============================================================================
