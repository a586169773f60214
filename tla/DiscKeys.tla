------------------------------ MODULE DiscKeys ------------------------------
(***************************************************************************)
(* Who can open a disc: key generation (keyutil.rs), the choice of a       *)
(* credential by direnc and by discdecrypt, and the decryptor's window.    *)
(* A key generation writes <prefix>.ek and then <prefix>.dk, each with     *)
(* fs::write (truncate, then fill), without a lock or a temporary file, so *)
(* a generation that stops early, or two of them at once, may leave files  *)
(* of different pairs.  direnc and discdecrypt read one of the two files,  *)
(* named by the user or found under the default prefix.                    *)
(*                                                                         *)
(* Abstractions.  A pair of keys is named after the generation that drew   *)
(* it.  Encryption is ideal: what is sealed with a credential opens with   *)
(* that credential and is refused with any other (ChunkedAead.tla).  The   *)
(* files of the disc are grouped in parts, one credential each; a part is  *)
(* sealed once (DiscPrep.tla has the second run).  A missing home          *)
(* directory is the same as missing default files.  A write over a file    *)
(* that is already full needs no space and is made whole or not at all.    *)
(***************************************************************************)
EXTENDS Integers, FiniteSets

CONSTANTS
    Gens,      \* runs of a key generation, each one draws a fresh pair
    Prefixes,  \* prefixes of key files
    Default,   \* ~/.isob3/default
    Parts,     \* parts of the disc
    Passwords, \* the passwords that somebody may try
    Chosen     \* those that a disc may be sealed with

None == "none"
Outside == {None, "plain", "absent", "part"}

ASSUME DefaultAssumption == Default \in Prefixes
ASSUME NamesAssumption ==
    /\ (Gens \cup Passwords \cup Prefixes) \cap Outside = {}
    /\ Gens \cap Passwords = {}
    /\ Chosen \subseteq Passwords

VARIABLES
    ek, dk,     \* the two key files of each prefix
    gen,        \* the generations: program counter and prefix
    enc,        \* the run of direnc
    disc,       \* what each part is sealed with
    origin,     \* history: the prefix whose .ek sealed the part
    burnt,      \* the directory has been written to the disc
    dec,        \* the last run of discdecrypt
    out,        \* parts whose plaintext the run has written
    win,        \* the decryptor's window
    troubled    \* history: prefixes whose key files were not left to
                \* one generation at a time

genVars == <<ek, dk, gen>>
encVars == <<enc, disc, origin>>
decVars == <<dec, out, win>>
vars == <<genVars, encVars, burnt, decVars, troubled>>

KeyFile == {"absent", "part"} \cup Gens

IsFile(file) == file # "absent"
\* Mutant: the length of the file is not looked at.
LoadsAnyFile(file) == file # "absent"

Loads(file) == file \in Gens    \* else fs::read or the length check fails

Generating(p) == \E g \in Gens :
    gen[g].prefix = p /\ gen[g].pc \notin {"idle", "done", "failed"}

\* A part of the disc, or a key in direnc's memory, comes from p.ek.
Used(p) == enc.from = p \/ \E part \in Parts : origin[part] = p

NoRun == [pc |-> "idle", key |-> None, from |-> None, pw |-> None,
          given |-> None]

-----------------------------------------------------------------------------
Init ==
    /\ ek = [p \in Prefixes |-> "absent"]
    /\ dk = [p \in Prefixes |-> "absent"]
    /\ gen = [g \in Gens |-> [pc |-> "idle", prefix |-> Default]]
    /\ enc = [cred |-> None, from |-> None]
    /\ disc = [part \in Parts |-> "plain"]
    /\ origin = [part \in Parts |-> None]
    /\ burnt = FALSE
    /\ dec = NoRun
    /\ out = {}
    /\ win = [open |-> FALSE, running |-> FALSE, status |-> "ready"]
    /\ troubled = {}

-----------------------------------------------------------------------------
(* Key generation. *)

\* create_dir_all and the drawing of a pair leave no trace in the key files.
Begins(g, p) ==
    /\ gen[g].pc = "idle"
    /\ gen' = [gen EXCEPT ![g] = [pc |-> "fill ek", prefix |-> p]]
    /\ ek' = [ek EXCEPT ![p] = "part"]
    /\ troubled' = IF Generating(p) \/ Used(p)
                   THEN troubled \cup {p} ELSE troubled
    /\ UNCHANGED <<dk, encVars, burnt, decVars>>

Moves(g, from, to) ==
    /\ gen[g].pc = from
    /\ gen' = [gen EXCEPT ![g].pc = to]
    /\ UNCHANGED <<encVars, burnt, decVars, troubled>>

FillsEk(g) ==
    /\ Moves(g, "fill ek", "open dk")
    /\ ek' = [ek EXCEPT ![gen[g].prefix] = g]
    /\ UNCHANGED dk

\* Mutant: a private key that is there already is kept, and success told.
OpensDkIfMissing(g) ==
    /\ Moves(g, "open dk", IF IsFile(dk[gen[g].prefix]) THEN "done"
                           ELSE "fill dk")
    /\ dk' = [dk EXCEPT ![gen[g].prefix] = IF IsFile(@) THEN @ ELSE "part"]
    /\ UNCHANGED ek

OpensDk(g) ==
    /\ Moves(g, "open dk", "fill dk")
    /\ dk' = [dk EXCEPT ![gen[g].prefix] = "part"]
    /\ UNCHANGED ek

FillsDk(g) ==
    /\ Moves(g, "fill dk", "done")
    /\ dk' = [dk EXCEPT ![gen[g].prefix] = g]
    /\ UNCHANGED ek

\* An error of create_dir_all or of either write, or the end of the process.
StopsEarly(g) ==
    /\ gen[g].pc \notin {"idle", "done", "failed"}
    /\ gen' = [gen EXCEPT ![g].pc = "failed"]
    /\ troubled' = troubled \cup {gen[g].prefix}
    /\ UNCHANGED <<ek, dk, encVars, burnt, decVars>>

-----------------------------------------------------------------------------
(* direnc: the credential is resolved first, then the parts are sealed.    *)

\* The prefix whose .ek is read: --public-key, else the default unless
\* --password is given.
EkNamed(pub, pw) ==
    CASE pub # None -> pub
      [] pub = None /\ pw = None /\ IsFile(ek[Default]) -> Default
      [] OTHER -> None

\* Reading a key file while it is being generated is the caller's trouble.
Read(p) == IF p # None /\ Generating(p) THEN troubled \cup {p} ELSE troubled

Resolves(pub, pw, typed) ==
    LET from == EkNamed(pub, pw)
        cred == CASE from # None /\ Loads(ek[from]) -> ek[from]
                  [] from = None /\ pw # None -> pw
                  [] from = None /\ pw = None -> typed
                  [] OTHER -> None
    IN  /\ ~burnt /\ enc.cred = None
        /\ enc' = IF cred = None THEN enc        \* exit code 2
                  ELSE [cred |-> cred, from |-> from]
        /\ troubled' = Read(from)
        /\ UNCHANGED <<disc, origin, genVars, burnt, decVars>>

\* The parts that are not excluded; fewer of them when a file fails.  A
\* password with the format of a public key fails at the first file.
Seals(chosen) ==
    /\ enc.cred # None
    /\ \A part \in chosen : disc[part] = "plain"
    /\ disc' = [part \in Parts |->
                   IF part \in chosen THEN enc.cred ELSE disc[part]]
    /\ origin' = [part \in Parts |->
                     IF part \in chosen THEN enc.from ELSE origin[part]]
    /\ enc' = [cred |-> None, from |-> None]
    /\ UNCHANGED <<genVars, burnt, decVars, troubled>>

Burns ==
    /\ ~burnt /\ enc.cred = None
    /\ burnt' = TRUE
    /\ UNCHANGED <<genVars, encVars, decVars, troubled>>

-----------------------------------------------------------------------------
(* discdecrypt: the credentials of a run. *)

\* Starts run() with what was resolved, or ends before it.
Starts(pc, from, pw, given) ==
    /\ dec' = [pc |-> pc, from |-> from, pw |-> pw, given |-> given,
               key |-> IF from # None THEN dk[from] ELSE None]
    /\ out' = {}
    /\ troubled' = Read(from)
    /\ UNCHANGED <<genVars, encVars, burnt>>

\* The prefix whose .dk the command reads: --private-key, else the default.
DkNamed(key) ==
    IF key # None THEN key ELSE IF IsFile(dk[Default]) THEN Default ELSE None

\* Mutant: the password is dropped as soon as there is a key.
CommandKeyOnly(key, pw, typed) ==
    LET from == DkNamed(key)
        given == IF from = None /\ pw = None THEN typed ELSE pw
        pc == CASE from # None /\ ~Loads(dk[from]) -> "bad key"
                [] from = None /\ given = None -> "refused"
                [] OTHER -> "running"
    IN  /\ burnt /\ ~win.open /\ dec.pc # "running"
        /\ Starts(pc, from, IF from = None THEN given ELSE None, given)
        /\ UNCHANGED win

\* The password is asked for only when no key is loaded; given together
\* with a key it is kept.
Command(key, pw, typed) ==
    LET from == DkNamed(key)
        given == IF from = None /\ pw = None THEN typed ELSE pw
        pc == CASE from # None /\ ~Loads(dk[from]) -> "bad key"
                [] from = None /\ given = None -> "refused"
                [] OTHER -> "running"
    IN  /\ burnt /\ ~win.open /\ dec.pc # "running"
        /\ Starts(pc, from, given, given)
        /\ UNCHANGED win

OpensWindow ==
    /\ burnt /\ ~win.open /\ dec.pc # "running"
    /\ win' = [open |-> TRUE, running |-> FALSE, status |-> "ready"]
    /\ dec' = NoRun /\ out' = {}
    /\ UNCHANGED <<genVars, encVars, burnt, troubled>>

\* start_decrypt, with what the fields hold; every input is disabled during
\* a run.  foldersGiven: both folders are filled in.  The key field may hold
\* the default that it was filled in with, and the password field what was
\* typed before there was a key.
Clicks(foldersGiven, field, pass) ==
    LET pc == CASE ~foldersGiven -> "refused"
                [] foldersGiven /\ field # None /\ ~Loads(dk[field]) ->
                       "bad key"
                [] foldersGiven /\ field = None /\ pass = None -> "refused"
                [] OTHER -> "running"
    IN  /\ win.open /\ ~win.running
        /\ Starts(pc, IF foldersGiven THEN field ELSE None,
                  IF field = None THEN pass ELSE None, pass)
        /\ win' = IF pc = "running"
                  THEN [win EXCEPT !.running = TRUE, !.status = "decrypting"]
                  ELSE [win EXCEPT !.status = "error"]

\* Closing the window ends the process and with it the thread of a run.
Closes ==
    /\ win.open
    /\ win' = [win EXCEPT !.open = FALSE, !.running = FALSE]
    /\ dec' = NoRun /\ out' = {}
    /\ UNCHANGED <<genVars, encVars, burnt, troubled>>

\* Mutant: only a success ends the run in the window.
FrameOnSuccess ==
    /\ win.running /\ dec.pc = "ok"
    /\ win' = [win EXCEPT !.running = FALSE, !.status = "ok"]
    /\ UNCHANGED <<dec, out, genVars, encVars, burnt, troubled>>

\* A frame finds the result of the run in the channel.
Frame ==
    /\ win.running /\ dec.pc # "running"
    /\ win' = [win EXCEPT !.running = FALSE,
                          !.status = IF dec.pc = "ok" THEN "ok" ELSE "error"]
    /\ UNCHANGED <<dec, out, genVars, encVars, burnt, troubled>>

-----------------------------------------------------------------------------
(* run(): one part after the other, in the order of the walk. *)

Opened(part) ==
    \/ disc[part] = "plain"                                  \* fs::copy
    \/ disc[part] \in Gens /\ dec.key = disc[part]           \* DBENC005
    \/ disc[part] \in Passwords /\ dec.pw = disc[part]       \* DBENC001 to 004

\* Mutant: a part of the other kind of credential is copied as it is.
ServesAnyway(part) ==
    /\ dec.pc = "running" /\ part \notin out
    /\ IF \/ Opened(part)
          \/ disc[part] \in Gens /\ dec.key = None
       THEN out' = out \cup {part} /\ UNCHANGED dec
       ELSE out' = out /\ dec' = [dec EXCEPT !.pc = "failed"]
    /\ UNCHANGED <<win, genVars, encVars, burnt, troubled>>

Serves(part) ==
    /\ dec.pc = "running" /\ part \notin out
    /\ IF Opened(part)
       THEN out' = out \cup {part} /\ UNCHANGED dec
       ELSE out' = out /\ dec' = [dec EXCEPT !.pc = "failed"]
    /\ UNCHANGED <<win, genVars, encVars, burnt, troubled>>

Finishes ==
    /\ dec.pc = "running" /\ out = Parts
    /\ dec' = [dec EXCEPT !.pc = "ok"]
    /\ UNCHANGED <<out, win, genVars, encVars, burnt, troubled>>

\* The folders are refused, or a file cannot be read or written.
IoError ==
    /\ dec.pc = "running"
    /\ dec' = [dec EXCEPT !.pc = "io error"]
    /\ UNCHANGED <<out, win, genVars, encVars, burnt, troubled>>

-----------------------------------------------------------------------------
Generates(g) ==
    \/ \E p \in Prefixes : Begins(g, p)
    \/ FillsEk(g) \/ OpensDk(g) \/ FillsDk(g)
    \/ StopsEarly(g)

Prepares ==
    \/ \E pub \in Prefixes \cup {None}, pw, typed \in Chosen \cup {None} :
           Resolves(pub, pw, typed)
    \/ \E chosen \in SUBSET Parts : Seals(chosen)
    \/ Burns

Runs ==
    \/ \E part \in Parts : Serves(part)
    \/ Finishes
    \/ IoError

Asks ==
    \/ \E key \in Prefixes \cup {None}, pw, typed \in Passwords \cup {None} :
           Command(key, pw, typed)
    \/ OpensWindow
    \/ \E foldersGiven \in BOOLEAN, field \in Prefixes \cup {None},
          pass \in Passwords \cup {None} : Clicks(foldersGiven, field, pass)
    \/ Closes

Next ==
    \/ \E g \in Gens : Generates(g)
    \/ Prepares
    \/ Asks
    \/ Runs
    \/ Frame

\* The thread of a run is scheduled; a running window asks for a frame every
\* 100 ms.  Nothing obliges a user or a key generation to go on.
Spec == Init /\ [][Next]_vars /\ WF_vars(Runs) /\ WF_vars(Frame)

-----------------------------------------------------------------------------
(* Properties. *)

KeysTyped ==
    /\ ek \in [Prefixes -> KeyFile] /\ dk \in [Prefixes -> KeyFile]
    /\ gen \in [Gens -> [pc : {"idle", "fill ek", "open dk", "fill dk",
                               "done", "failed"},
                         prefix : Prefixes]]
    /\ troubled \subseteq Prefixes

EncTyped ==
    /\ enc \in [cred : Gens \cup Chosen \cup {None},
                from : Prefixes \cup {None}]
    /\ disc \in [Parts -> Gens \cup Chosen \cup {"plain"}]
    /\ origin \in [Parts -> Prefixes \cup {None}]
    /\ burnt \in BOOLEAN

DecTyped ==
    /\ dec \in [pc : {"idle", "running", "ok", "failed", "io error",
                      "refused", "bad key"},
                key : KeyFile \cup {None}, from : Prefixes \cup {None},
                pw : Passwords \cup {None},
                given : Passwords \cup {None}]
    /\ out \subseteq Parts
    /\ win \in [open : BOOLEAN, running : BOOLEAN,
                status : {"ready", "decrypting", "ok", "error"}]

TypeOK == KeysTyped /\ EncTyped /\ DecTyped

\* The two key files of a prefix serve for each other: what direnc sealed
\* with <prefix>.ek opens with the <prefix>.dk that a later discdecrypt reads,
\* unless a generation into the prefix stopped early, met another one or a
\* reader, or began when the prefix was already in use.
SameNameOpens ==
    \A part \in Parts :
        /\ dec.pc \notin {"idle", "bad key"}
        /\ dec.from # None /\ dec.from = origin[part]
        /\ dec.from \notin troubled
        => dec.key = disc[part]

\* A decryption that fails without an I/O error lacks a credential: for some
\* part neither the password its user gave nor the key that was read is the
\* right one, or the window was given both.  And a key file that is there but
\* cannot be loaded was left so by a generation in trouble.
RefusalExplained ==
    /\ dec.pc = "failed" =>
           \/ \E part \in Parts \ out : disc[part] \notin {dec.given, dec.key}
           \/ win.open /\ dec.key # None /\ dec.given # None
    /\ dec.pc = "bad key" => dec.key = "absent" \/ dec.from \in troubled

\* A decryption is reported as done, by the command or in the window, only
\* when the plaintext of every part is in the output, and so only with every
\* credential of the disc.
OkMeansAll ==
    dec.pc = "ok" \/ (win.open /\ win.status = "ok")
        => /\ out = Parts
           /\ \A part \in Parts :
                  disc[part] \in {"plain", dec.key, dec.pw}

\* The window leaves the state in which all its inputs are disabled, however
\* the run ends.
WindowRecovers == win.running ~> ~win.running
=============================================================================
