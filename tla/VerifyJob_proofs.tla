-------------------------- MODULE VerifyJob_proofs --------------------------
(***************************************************************************)
(* The jobs of any number of threads over any files, with a clock that may *)
(* read anything: what is said of digests is right and plaintext is        *)
(* removed, however the threads meet in the temporary directory.           *)
(***************************************************************************)
EXTENDS VerifyJob, TLAPS

\* Where a thread can be, and what is kept of its job.
Pcs == Kinds \cup {"idle", "hash", "decrypt", "compare", "iso", "readback", "parse", "ended", "gone"}
Verdicts == {"ok", "bad", "mismatch", "unread", "aborted"}

JobInfo == [pc : Pcs, kind : Kinds \cup {"none"}, file : Files \cup {NoFile},
            name : Names \cup {NoFile}, list : BOOLEAN, verdict : Verdicts \cup {"none"}]

\* What a thread writes when it decrypts a file.
Output == Threads \X Files

\* The types of the variables.
JobTyped ==
    /\ settings \in Settings
    /\ temps \in [Names -> SUBSET Output]
    /\ job \in [Threads -> JobInfo]
    /\ jobs \in Nat

\* What a thread has found out about its file by the place it is at.
Found(j) ==
    /\ j.pc # "idle" => j.file \in Files
    /\ j.pc \in Kinds => j.kind = j.pc /\ j.name = NoFile
    /\ j.pc \in {"hash", "compare", "iso"} => j.kind = "entry"
    /\ j.pc \in {"readback", "parse"} => j.kind \in {"load", "probe"}
    /\ j.pc \in {"idle", "hash"} => j.name = NoFile
    /\ j.pc \in {"compare", "iso", "readback", "parse"} =>
          (j.name = NoFile <=> About[j.file].fmt = "plain")
    /\ j.pc \in {"decrypt", "readback"} => j.name # NoFile
    /\ j.pc = "embedded" => About[j.file].there /\ About[j.file].fmt = "plain" /\ IsIso(j.file)
    /\ j.pc \in {"hash", "decrypt", "compare", "iso", "readback", "parse"} =>
          About[j.file].there /\ MayDecrypt(j.file)
    /\ j.pc = "decrypt" => About[j.file].fmt # "plain" /\ j.kind \in {"entry", "load", "probe"}
    /\ j.pc = "hash" => About[j.file].fmt = "plain"
    /\ j.pc \in {"compare", "iso", "readback", "parse"} /\ About[j.file].fmt # "plain" =>
          Opens(j.file)
    /\ j.pc = "iso" => About[j.file].sha

\* The file has another digest, and the job could know.
Mismatches(f) == /\ About[f].there /\ ~About[f].sha
                 /\ About[f].fmt # "plain" => Opens(f)

\* A verdict is given at the end only, and for what the file is.
Judged(j) ==
    /\ j.verdict # "none" => j.pc = "ended"
    /\ j.verdict = "ok" => Sound(j.kind, j.file)
    /\ j.verdict = "mismatch" => Mismatches(j.file)

\* The job has removed its temporary file.
IsPast(j) == j.pc = "parse" \/ (j.pc = "ended" /\ j.verdict \in {"ok", "aborted", "bad"})
Cleared(t, j) == IsPast(j) /\ j.name # NoFile => <<t, j.file>> \notin temps[j.name]

IInv == /\ JobTyped
        /\ \A t \in Threads : Found(job[t]) /\ Judged(job[t]) /\ Cleared(t, job[t])

\* Nothing has begun.
LEMMA InitInv == Init => IInv
<1> SUFFICES ASSUME Init PROVE IInv
  OBVIOUS
<1>1. Idle \in JobInfo
  BY DEF Idle, JobInfo, Pcs
<1>2. JobTyped
  <2>1. job \in [Threads -> JobInfo] /\ temps \in [Names -> SUBSET Output]
    BY <1>1 DEF Init
  <2> QED
    BY <2>1 DEF Init, JobTyped
<1>3. Found(Idle) /\ Judged(Idle) /\ \A t \in Threads : Cleared(t, Idle)
  BY DEF Idle, Found, Judged, Kinds, Cleared, IsPast
<1>4. \A t \in Threads : job[t] = Idle
  BY DEF Init
<1> QED
  BY <1>2, <1>3, <1>4 DEF IInv

\* A step of one thread that gives it the record r: another thread's output only goes away,
\* so that what has to be shown is about the thread alone.
LEMMA StepOfOne ==
    ASSUME IInv, NEW t \in Threads, NEW r \in JobInfo,
           Step(t, r), UNCHANGED settings, jobs' \in Nat,
           temps' \in [Names -> SUBSET Output],
           \A n \in Names, o \in Output : o[1] # t /\ o \in temps'[n] => o \in temps[n],
           Found(r), Judged(r),
           IsPast(r) /\ r.name # NoFile => <<t, r.file>> \notin temps'[r.name]
    PROVE  IInv'
<1>1. job' = [job EXCEPT ![t] = r] /\ job' \in [Threads -> JobInfo]
  BY DEF IInv, JobTyped, Step
<1>2. job'[t] = r /\ \A u \in Threads : u # t => job'[u] = job[u]
  BY <1>1 DEF IInv, JobTyped
<1>3. JobTyped'
  BY <1>1 DEF IInv, JobTyped
<1>4. ASSUME NEW u \in Threads, u # t
      PROVE  Found(job[u])' /\ Judged(job[u])' /\ Cleared(u, job[u])'
  <2>1. job'[u] = job[u] /\ UNCHANGED settings
    BY <1>2, <1>4
  <2>2. Found(job[u])' /\ Judged(job[u])'
    BY <2>1 DEF IInv, Found, Judged, Sound, Mismatches, MayDecrypt, Opens
  <2>3. job[u] \in JobInfo /\ Found(job[u]) /\ Cleared(u, job[u])
    BY DEF IInv, JobTyped
  <2>4. SUFFICES ASSUME IsPast(job[u]), job[u].name # NoFile,
                        <<u, job[u].file>> \in temps'[job[u].name]
                 PROVE  FALSE
    BY <2>1, <2>2 DEF Cleared, IsPast
  <2>5. job[u].name \in Names /\ job[u].file \in Files
    BY <2>3, <2>4 DEF JobInfo, Found, IsPast
  <2>6. <<u, job[u].file>> \in Output /\ <<u, job[u].file>>[1] # t
    BY <1>4, <2>5 DEF Output
  <2> QED
    BY <2>3, <2>4, <2>5, <2>6 DEF Cleared
<1>5. Found(job[t])' /\ Judged(job[t])' /\ Cleared(t, job[t])'
  <2>1. Found(job[t])' /\ Judged(job[t])'
    BY <1>2 DEF Found, Judged, Sound, Mismatches, MayDecrypt, Opens
  <2> QED
    BY <1>2, <2>1 DEF Cleared, IsPast
<1> QED
  BY <1>2, <1>3, <1>4, <1>5 DEF IInv

\* A step that touches no temporary file, of a job that has none, has removed it already, or
\* has not come to that.
LEMMA QuietStep ==
    ASSUME IInv, NEW t \in Threads, NEW r \in JobInfo,
           Step(t, r), UNCHANGED <<settings, temps, jobs>>,
           r.name = job[t].name, r.file = job[t].file, Found(r), Judged(r),
           r.name = NoFile \/ job[t].pc = "parse" \/ ~IsPast(r)
    PROVE  IInv'
<1>1. jobs \in Nat /\ temps \in [Names -> SUBSET Output] /\ Cleared(t, job[t])
  BY DEF IInv, JobTyped
<1>2. IsPast(r) /\ r.name # NoFile => <<t, r.file>> \notin temps'[r.name]
  BY <1>1 DEF Cleared, IsPast
<1>3. \A n \in Names, o \in Output : o[1] # t /\ o \in temps'[n] => o \in temps[n]
  OBVIOUS
<1> QED
  BY <1>1, <1>2, <1>3, StepOfOne

\* A step that removes the file at the thread's name.
LEMMA RemovingStep ==
    ASSUME IInv, NEW t \in Threads, NEW r \in JobInfo,
           Step(t, r), Remove(t), UNCHANGED <<settings, jobs>>,
           r.name = job[t].name, Found(r), Judged(r)
    PROVE  IInv'
<1>1. /\ jobs \in Nat /\ temps \in [Names -> SUBSET Output]
      /\ r.name # NoFile => r.name \in Names
  BY DEF IInv, JobTyped, JobInfo
<1>2. /\ temps' \in [Names -> SUBSET Output]
      /\ \A n \in Names : temps'[n] = IF n = job[t].name THEN {} ELSE temps[n]
  BY <1>1, NoFileAssumption DEF Remove
<1>3. IsPast(r) /\ r.name # NoFile => <<t, r.file>> \notin temps'[r.name]
  BY <1>1, <1>2
<1>4. \A n \in Names, o \in Output : o[1] # t /\ o \in temps'[n] => o \in temps[n]
  BY <1>2
<1> QED
  BY <1>1, <1>2, <1>3, <1>4, StepOfOne

\* The thread's new record r differs in its place, its list and its verdict.
Follows(t, r) == /\ r \in JobInfo /\ Step(t, r)
                 /\ r.kind = job[t].kind /\ r.file = job[t].file /\ r.name = job[t].name

\* The records of a thread that goes on, of one that has text and of one whose job ends.
LEMMA Going ==
    ASSUME JobTyped, NEW t \in Threads, NEW pc \in Pcs, Goes(t, pc)
    PROVE  \E r : Follows(t, r) /\ r.pc = pc /\ r.verdict = job[t].verdict
<1> DEFINE r == [job[t] EXCEPT !.pc = pc]
<1>1. job[t] \in JobInfo
  BY DEF JobTyped
<1>2. /\ r \in JobInfo /\ r.pc = pc /\ r.verdict = job[t].verdict
      /\ r.kind = job[t].kind /\ r.file = job[t].file /\ r.name = job[t].name
  BY <1>1 DEF JobInfo
<1>3. Step(t, r)
  BY DEF Goes
<1> HIDE DEF r
<1>4. Follows(t, r) /\ r.pc = pc /\ r.verdict = job[t].verdict
  BY <1>2, <1>3 DEF Follows
<1> QED
  BY <1>4, Zenon

LEMMA Loading ==
    ASSUME JobTyped, NEW t \in Threads, NEW list \in BOOLEAN, Loads(t, list)
    PROVE  \E r : Follows(t, r) /\ r.pc = "parse" /\ r.verdict = job[t].verdict
<1> DEFINE r == [job[t] EXCEPT !.pc = "parse", !.list = list]
<1>1. job[t] \in JobInfo
  BY DEF JobTyped
<1>2. /\ r \in JobInfo /\ r.pc = "parse" /\ r.verdict = job[t].verdict
      /\ r.kind = job[t].kind /\ r.file = job[t].file /\ r.name = job[t].name
  BY <1>1 DEF JobInfo, Pcs
<1>3. Step(t, r)
  BY DEF Loads
<1> HIDE DEF r
<1>4. Follows(t, r) /\ r.pc = "parse" /\ r.verdict = job[t].verdict
  BY <1>2, <1>3 DEF Follows
<1> QED
  BY <1>4, Zenon

LEMMA Ending ==
    ASSUME JobTyped, NEW t \in Threads, NEW v \in Verdicts, Ends(t, v)
    PROVE  \E r : Follows(t, r) /\ r.pc = "ended" /\ r.verdict = v
<1> DEFINE r == [job[t] EXCEPT !.pc = "ended", !.verdict = v]
<1>1. job[t] \in JobInfo
  BY DEF JobTyped
<1>2. /\ r \in JobInfo /\ r.pc = "ended" /\ r.verdict = v
      /\ r.kind = job[t].kind /\ r.file = job[t].file /\ r.name = job[t].name
  BY <1>1 DEF JobInfo, Pcs
<1>3. Step(t, r)
  BY DEF Ends
<1> HIDE DEF r
<1>4. Follows(t, r) /\ r.pc = "ended" /\ r.verdict = v
  BY <1>2, <1>3 DEF Follows
<1> QED
  BY <1>4, Zenon

-----------------------------------------------------------------------------

\* A job that ends: what its verdict says is true, and the file at its name is removed now,
\* was before, never was there, or need not be.
LEMMA EndsInv ==
    ASSUME IInv, NEW t \in Threads, NEW v \in Verdicts, Ends(t, v), JobOnly,
           job[t].pc # "idle",
           v = "ok" => Sound(job[t].kind, job[t].file),
           v = "mismatch" => Mismatches(job[t].file),
           \/ Remove(t)
           \/ /\ UNCHANGED temps
              /\ job[t].name = NoFile \/ job[t].pc = "parse" \/ v \in {"mismatch", "unread"}
    PROVE  IInv'
<1>1. JobTyped /\ UNCHANGED <<settings, jobs>>
  BY DEF IInv, JobOnly
<1>2. PICK r : Follows(t, r) /\ r.pc = "ended" /\ r.verdict = v
  BY <1>1, Ending, Zenon
<1>3. /\ r \in JobInfo /\ Step(t, r) /\ r.pc = "ended" /\ r.verdict = v
      /\ r.kind = job[t].kind /\ r.file = job[t].file /\ r.name = job[t].name
  BY <1>2 DEF Follows
<1>4. Found(r)
  BY <1>3 DEF IInv, Found, Kinds
<1>5. Judged(r)
  BY <1>3 DEF Judged
<1>6. CASE Remove(t)
  BY <1>1, <1>3, <1>4, <1>5, <1>6, RemovingStep
<1>7. CASE /\ UNCHANGED temps
           /\ job[t].name = NoFile \/ job[t].pc = "parse" \/ v \in {"mismatch", "unread"}
  <2>1. r.name = NoFile \/ job[t].pc = "parse" \/ ~IsPast(r)
    BY <1>3, <1>7 DEF IsPast
  <2> QED
    BY <1>1, <1>3, <1>4, <1>5, <1>7, <2>1, QuietStep
<1> QED
  BY <1>6, <1>7

\* A new job forgets the last one.
LEMMA StartsInv == ASSUME IInv, NEW t \in Threads, Starts(t) PROVE IInv'
<1>1. PICK kind \in Kinds, f \in Files :
         /\ kind # "entry" => About[f].there
         /\ kind = "embedded" => About[f].fmt = "plain" /\ IsIso(f)
         /\ Step(t, [Idle EXCEPT !.pc = kind, !.kind = kind, !.file = f])
  BY DEF Starts
<1> DEFINE r == [Idle EXCEPT !.pc = kind, !.kind = kind, !.file = f]
<1>2. r \in JobInfo /\ r.pc = kind /\ r.kind = kind /\ r.file = f /\ r.name = NoFile
      /\ r.verdict = "none"
  BY DEF JobInfo, Idle, Pcs
<1>3. Found(r) /\ Judged(r)
  BY <1>1, <1>2 DEF Found, Judged, Kinds
<1>4. Step(t, r)
  BY <1>1
<1> HIDE DEF r
<1>5. UNCHANGED <<settings, temps>> /\ jobs' \in Nat /\ temps \in [Names -> SUBSET Output]
  BY DEF IInv, JobTyped, Starts
<1>6. \A n \in Names, o \in Output : o[1] # t /\ o \in temps'[n] => o \in temps[n]
  BY <1>5
<1> QED
  BY <1>2, <1>3, <1>4, <1>5, <1>6, StepOfOne

\* A refusal: the file is missing or its credential is.
LEMMA RefusesInv == ASSUME IInv, NEW t \in Threads, Refuses(t) PROVE IInv'
<1>1. Found(job[t]) /\ job[t].pc \in Kinds
  BY DEF IInv, Refuses, Kinds
<1>2. job[t].name = NoFile /\ job[t].pc # "idle"
  BY <1>1 DEF Found, Kinds
<1>3. Ends(t, "bad") /\ JobOnly /\ UNCHANGED temps
  BY DEF Refuses
<1> QED
  BY <1>2, <1>3, EndsInv DEF Verdicts

\* A step to a place where the file at the thread's name matters no more than before.
LEMMA GoesInv ==
    ASSUME IInv, NEW t \in Threads, NEW r, Follows(t, r), JobOnly, UNCHANGED temps,
           r.verdict = job[t].verdict, job[t].pc # "ended", r.pc # "ended", Found(r),
           r.name = NoFile \/ r.pc # "parse"
    PROVE  IInv'
<1>1. Judged(job[t]) /\ UNCHANGED <<settings, jobs>>
  BY DEF IInv, JobOnly
<1>2. Judged(r) /\ (r.name = NoFile \/ ~IsPast(r))
  BY <1>1 DEF Judged, IsPast
<1>3. /\ r \in JobInfo /\ Step(t, r) /\ r.file = job[t].file /\ r.name = job[t].name
  BY DEF Follows
<1> QED
  BY <1>1, <1>2, <1>3, QuietStep

\* A plaintext file is read as it is.
LEMMA ReadsPlainInv == ASSUME IInv, NEW t \in Threads, ReadsPlain(t) PROVE IInv'
<1>1. Found(job[t]) /\ job[t].pc \in {"entry", "load", "probe"} /\ JobTyped /\ JobOnly
      /\ UNCHANGED temps
  BY DEF IInv, ReadsPlain
<1>2. About[job[t].file].there /\ About[job[t].file].fmt = "plain" /\ job[t].name = NoFile
      /\ job[t].file \in Files /\ job[t].kind = job[t].pc
  BY <1>1 DEF ReadsPlain, IsEncrypted, Found, Kinds
<1>3. MayDecrypt(job[t].file) /\ About[job[t].file].list \in BOOLEAN
  BY <1>2, VerifyJobAssumption DEF MayDecrypt, FileInfo
<1>4. CASE At(t, "entry") /\ Goes(t, "hash")
  <2>1. PICK r : Follows(t, r) /\ r.pc = "hash" /\ r.verdict = job[t].verdict
    BY <1>1, <1>4, Going DEF Pcs
  <2>2. Found(r)
    BY <1>1, <1>2, <1>3, <1>4, <2>1 DEF Found, Kinds, Follows, At
  <2> QED
    BY <1>1, <2>1, <2>2, GoesInv
<1>5. CASE ~At(t, "entry") /\ Loads(t, About[job[t].file].list)
  <2>1. PICK r : Follows(t, r) /\ r.pc = "parse" /\ r.verdict = job[t].verdict
    BY <1>1, <1>3, <1>5, Loading
  <2>2. Found(r) /\ r.name = NoFile
    BY <1>1, <1>2, <1>3, <1>5, <2>1 DEF Found, Kinds, Follows, At
  <2> QED
    BY <1>1, <2>1, <2>2, GoesInv
<1> QED
  BY <1>4, <1>5 DEF ReadsPlain

\* Whatever the name, the file there holds the thread's own output and what others still
\* write, and nothing of theirs that was not there.
LEMMA DecryptsInv == ASSUME IInv, NEW t \in Threads, Decrypts(t) PROVE IInv'
<1> PICK f : f = job[t].file
  OBVIOUS
<1>1. PICK now \in Times :
         /\ temps' = [temps EXCEPT ![Name(f, now)] = Unfinished(Name(f, now)) \cup {<<t, f>>}]
         /\ Step(t, [job[t] EXCEPT !.pc = "decrypt", !.name = Name(f, now)])
  BY DEF Decrypts
<1> PICK n : n = Name(f, now)
  OBVIOUS
<1>2. /\ job[t] \in JobInfo /\ jobs \in Nat /\ temps \in [Names -> SUBSET Output]
      /\ Found(job[t]) /\ Judged(job[t])
  BY DEF IInv, JobTyped
<1>3. /\ job[t].pc \in {"entry", "load", "probe"} /\ job[t].pc = job[t].kind
      /\ f \in Files /\ About[f].there /\ About[f].fmt # "plain" /\ MayDecrypt(f)
  BY <1>2 DEF Decrypts, IsEncrypted, Found, Kinds
<1>4. n \in Names /\ n # NoFile
  <2>1. About[f].fmt \in {"password", "pqe"}
    BY <1>3, VerifyJobAssumption DEF FileInfo
  <2>2. IsIso(f) \in BOOLEAN
    BY DEF IsIso
  <2> QED
    BY <2>1, <2>2, NoFileAssumption DEF Name, Names
<1>5. temps' = [temps EXCEPT ![n] = Unfinished(n) \cup {<<t, f>>}]
  BY <1>1
<1>6. Unfinished(n) \subseteq temps[n] /\ <<t, f>> \in Output
  BY <1>3 DEF Unfinished, Output
<1>7. temps' \in [Names -> SUBSET Output]
  BY <1>2, <1>4, <1>5, <1>6
<1>8. ASSUME NEW m \in Names, NEW o \in Output, o[1] # t, o \in temps'[m]
      PROVE  o \in temps[m]
  <2>1. o # <<t, f>>
    BY <1>8
  <2> QED
    BY <1>2, <1>5, <1>6, <1>8, <2>1
<1> DEFINE r == [job[t] EXCEPT !.pc = "decrypt", !.name = n]
<1>9. r \in JobInfo
  BY <1>2, <1>4 DEF JobInfo, Pcs
<1>10. /\ r.pc = "decrypt" /\ r.name = n /\ r.file = f
       /\ r.kind = job[t].kind /\ r.verdict = job[t].verdict
  BY <1>2 DEF JobInfo
<1>11. Step(t, r)
  BY <1>1
<1> HIDE DEF r
<1>12. Found(r) /\ Judged(r) /\ ~IsPast(r)
  BY <1>2, <1>3, <1>4, <1>10 DEF Found, Judged, Kinds, IsPast
<1>13. UNCHANGED settings /\ jobs' \in Nat
  BY <1>2 DEF Decrypts, JobOnly
<1> QED
  BY <1>7, <1>8, <1>9, <1>11, <1>12, <1>13, StepOfOne

\* A decryption that stops removes the file at its name.
LEMMA DecryptStopsInv ==
    ASSUME IInv, NEW t \in Threads, DecryptAborts(t) \/ DecryptFails(t) PROVE IInv'
<1>1. PICK v \in {"aborted", "bad"} : Ends(t, v)
  BY DEF DecryptAborts, DecryptFails
<1>2. Remove(t) /\ JobOnly /\ job[t].pc # "idle"
  BY DEF DecryptAborts, DecryptFails, At
<1> QED
  BY <1>1, <1>2, EndsInv DEF Verdicts

\* A decryption that ends has opened its file.
LEMMA DecryptEndsInv == ASSUME IInv, NEW t \in Threads, DecryptEnds(t) PROVE IInv'
<1>1. Found(job[t]) /\ job[t].pc = "decrypt" /\ JobTyped /\ Opens(job[t].file) /\ JobOnly
      /\ UNCHANGED temps
  BY DEF IInv, DecryptEnds, At
<1>2. PICK pc \in {"compare", "readback"} :
         pc = (IF job[t].kind = "entry" THEN "compare" ELSE "readback") /\ Goes(t, pc)
  BY DEF DecryptEnds
<1>3. PICK r : Follows(t, r) /\ r.pc = pc /\ r.verdict = job[t].verdict
  BY <1>1, <1>2, Going DEF Pcs
<1>4. Found(r)
  BY <1>1, <1>2, <1>3 DEF Found, Kinds, Follows
<1> QED
  BY <1>1, <1>3, <1>4, GoesInv

\* A plaintext file is hashed, or not.
LEMMA HashesInv == ASSUME IInv, NEW t \in Threads, Hashes(t) PROVE IInv'
<1>1. Found(job[t]) /\ job[t].pc = "hash" /\ JobTyped /\ JobOnly /\ UNCHANGED temps
  BY DEF IInv, Hashes, At
<1>2. CASE Goes(t, "compare")
  <2>1. PICK r : Follows(t, r) /\ r.pc = "compare" /\ r.verdict = job[t].verdict
    BY <1>1, <1>2, Going DEF Pcs
  <2>2. Found(r)
    BY <1>1, <2>1 DEF Found, Kinds, Follows
  <2> QED
    BY <1>1, <2>1, <2>2, GoesInv
<1>3. CASE Ends(t, "aborted") \/ Ends(t, "bad")
  <2>1. PICK v \in {"aborted", "bad"} : Ends(t, v)
    BY <1>3
  <2>2. job[t].name = NoFile
    BY <1>1 DEF Found
  <2> QED
    BY <1>1, <2>1, <2>2, EndsInv DEF Verdicts
<1> QED
  BY <1>2, <1>3 DEF Hashes

\* The digest that is compared is of what was decrypted.
LEMMA ComparesInv == ASSUME IInv, NEW t \in Threads, Compares(t) PROVE IInv'
<1>1. Found(job[t]) /\ job[t].pc = "compare" /\ JobTyped /\ JobOnly /\ UNCHANGED temps
  BY DEF IInv, Compares, At
<1>2. CASE Matches(t) /\ Goes(t, "iso")
  <2>1. PICK r : Follows(t, r) /\ r.pc = "iso" /\ r.verdict = job[t].verdict
    BY <1>1, <1>2, Going DEF Pcs
  <2>2. Found(r)
    BY <1>1, <1>2, <2>1 DEF Found, Kinds, Matches, Follows
  <2> QED
    BY <1>1, <2>1, <2>2, GoesInv
<1>3. CASE ~Matches(t) /\ Ends(t, "mismatch")
  <2>1. Mismatches(job[t].file)
    BY <1>1, <1>3 DEF Found, Matches, Mismatches
  <2> QED
    BY <1>1, <1>3, <2>1, EndsInv DEF Verdicts
<1> QED
  BY <1>2, <1>3 DEF Compares

\* The check of the record of a plaintext file sees that file.
LEMMA OwnRecord ==
    ASSUME IInv, NEW t \in Threads, job[t].pc \in {"iso", "embedded"},
           About[job[t].file].fmt = "plain",
           NEW found, MayFind(t, found)
    PROVE  found = About[job[t].file].iso
<1> PICK f : f = job[t].file
  OBVIOUS
<1>1. f \in Files /\ job[t].name = NoFile
  BY DEF IInv, Found, Kinds
<1>2. CASE IsIso(f)
  <2>1. Content(t) = {<<t, f>>}
    BY <1>1 DEF Content
  <2>2. IsWhole(t, f)
    BY <2>1 DEF IsWhole, StillWrites, At
  <2>3. ASSUME NEW g \in Files, IsWhole(t, g) PROVE g = f
    <3>1. PICK u \in Threads : Content(t) = {<<u, g>>}
      BY <2>3 DEF IsWhole
    <3>2. <<u, g>> = <<t, f>>
      BY <2>1, <3>1
    <3> QED
      BY <3>2
  <2> QED
    BY <1>1, <1>2, <2>1, <2>2, <2>3 DEF MayFind
<1>3. CASE ~IsIso(f)
  BY <1>3 DEF MayFind, IsIso
<1> QED
  BY <1>2, <1>3

\* What the check of the record finds passes or not, and the temporary file is removed.
LEMMA ChecksIsoInv == ASSUME IInv, NEW t \in Threads, ChecksIso(t) PROVE IInv'
<1>1. Found(job[t]) /\ job[t].pc \in {"iso", "embedded"} /\ JobOnly /\ Remove(t)
  BY DEF IInv, ChecksIso
<1>2. PICK found \in {"none", "valid", "missing", "invalid"}, v \in {"ok", "bad"} :
         /\ MayFind(t, found)
         /\ v = (IF IsoPasses(job[t].kind, found) THEN "ok" ELSE "bad") /\ Ends(t, v)
  BY DEF ChecksIso
<1>3. ASSUME v = "ok" PROVE Sound(job[t].kind, job[t].file)
  <2>1. IsoPasses(job[t].kind, found)
    BY <1>2, <1>3
  <2>2. About[job[t].file].fmt = "plain" => found = About[job[t].file].iso
    BY <1>1, <1>2, OwnRecord
  <2>3. CASE job[t].pc = "iso"
    BY <1>1, <2>1, <2>2, <2>3 DEF IsoPasses, Sound, Found
  <2>4. CASE job[t].pc = "embedded"
    <3>1. job[t].kind = "embedded" /\ MayDecrypt(job[t].file)
      BY <1>1, <2>4 DEF Found, Kinds, MayDecrypt
    <3> QED
      BY <1>1, <2>1, <2>2, <2>4, <3>1 DEF IsoPasses, Sound, Found
  <2> QED
    BY <1>1, <2>3, <2>4
<1> QED
  BY <1>1, <1>2, <1>3, EndsInv DEF Verdicts

\* A check that fails.
LEMMA IsoCheckFailsInv == ASSUME IInv, NEW t \in Threads, IsoCheckFails(t) PROVE IInv'
<1>1. Ends(t, "bad") /\ Remove(t) /\ JobOnly /\ job[t].pc # "idle"
  BY DEF IsoCheckFails
<1> QED
  BY <1>1, EndsInv DEF Verdicts

\* Read back and removed, or left behind unread.
LEMMA ReadsBackInv == ASSUME IInv, NEW t \in Threads, ReadsBack(t) PROVE IInv'
<1>1. Found(job[t]) /\ Judged(job[t]) /\ job[t].pc = "readback" /\ JobTyped /\ JobOnly
      /\ UNCHANGED <<settings, jobs>>
  BY DEF IInv, ReadsBack, At, JobOnly
<1>2. ASSUME Remove(t), NEW list \in BOOLEAN, Loads(t, list) PROVE IInv'
  <2>1. PICK r : Follows(t, r) /\ r.pc = "parse" /\ r.verdict = job[t].verdict
    BY <1>1, <1>2, Loading
  <2>2. Found(r) /\ Judged(r) /\ r \in JobInfo /\ Step(t, r) /\ r.name = job[t].name
    BY <1>1, <2>1 DEF Found, Judged, Kinds, Follows
  <2> QED
    BY <1>1, <1>2, <2>2, RemovingStep
<1>3. CASE Ends(t, "unread") /\ UNCHANGED temps
  BY <1>1, <1>3, EndsInv DEF Verdicts
<1> QED
  BY <1>2, <1>3 DEF ReadsBack

\* A manifest is taken, passed over, or could not be read.
LEMMA ParsesInv == ASSUME IInv, NEW t \in Threads, Parses(t) \/ ReadFails(t) PROVE IInv'
<1>1. Found(job[t]) /\ job[t].pc = "parse" /\ JobOnly /\ UNCHANGED temps
  BY DEF IInv, Parses, ReadFails, At
<1>2. PICK v \in {"ok", "bad"} : Ends(t, v)
  BY DEF Parses, ReadFails
<1>3. Sound(job[t].kind, job[t].file)
  BY <1>1 DEF Found, Sound
<1> QED
  BY <1>1, <1>2, <1>3, EndsInv DEF Verdicts

\* The exit takes every thread at work, and leaves its file unfinished.
LEMMA ExitsInv == ASSUME IInv, Exits PROVE IInv'
<1>1. /\ UNCHANGED <<settings, abort, temps, jobs>>
      /\ job' = [t \in Threads |-> IF Running(t) THEN [job[t] EXCEPT !.pc = "gone"] ELSE job[t]]
  BY DEF Exits
<1>2. \A t \in Threads :
         /\ job[t] \in JobInfo /\ job'[t] \in JobInfo
         /\ job'[t].pc = IF Running(t) THEN "gone" ELSE job[t].pc
         /\ job'[t].file = job[t].file /\ job'[t].verdict = job[t].verdict
         /\ ~Running(t) => job'[t] = job[t]
  BY <1>1 DEF IInv, JobTyped, JobInfo, Pcs
<1>3. JobTyped'
  BY <1>1, <1>2 DEF IInv, JobTyped
<1>4. ASSUME NEW t \in Threads PROVE Found(job[t])' /\ Judged(job[t])' /\ Cleared(t, job[t])'
  <2>1. Found(job[t]) /\ Judged(job[t]) /\ Cleared(t, job[t])
    BY DEF IInv
  <2>2. CASE Running(t)
    <3>1. job[t].verdict = "none" /\ job'[t].pc = "gone" /\ job[t].file \in Files
      BY <1>2, <2>1, <2>2 DEF Judged, Running, Found, JobInfo
    <3> QED
      BY <1>1, <1>2, <2>1, <3>1 DEF Found, Judged, Cleared, IsPast, Kinds
  <2>3. CASE ~Running(t)
    BY <1>1, <1>2, <2>1, <2>3
       DEF Found, Judged, Cleared, IsPast, Sound, Mismatches, MayDecrypt, Opens
  <2> QED
    BY <2>2, <2>3
<1> QED
  BY <1>3, <1>4 DEF IInv

\* No step changes what another thread has found out, or brings its plaintext back.
LEMMA StepInv == ASSUME IInv, [Next]_vars PROVE IInv'
<1>1. CASE Flips \/ UNCHANGED vars
  <2>1. UNCHANGED <<settings, temps, job, jobs>>
    BY <1>1 DEF Flips, vars
  <2>2. JobTyped'
    BY <2>1 DEF IInv, JobTyped
  <2>3. \A t \in Threads : Found(job[t])' /\ Judged(job[t])' /\ Cleared(t, job[t])'
    BY <2>1 DEF IInv, Found, Judged, Cleared, IsPast, Sound, Mismatches, MayDecrypt, Opens
  <2> QED
    BY <2>2, <2>3 DEF IInv
<1>2. CASE Exits
  BY <1>2, ExitsInv
<1>3. ASSUME NEW t \in Threads, Acts(t) PROVE IInv'
  BY <1>3, StartsInv, RefusesInv, ReadsPlainInv, DecryptsInv, DecryptStopsInv, DecryptEndsInv,
     HashesInv, ComparesInv, ChecksIsoInv, IsoCheckFailsInv, ReadsBackInv, ParsesInv DEF Acts
<1> QED
  BY <1>1, <1>2, <1>3 DEF Next

\* A file that execute.rs or plan.rs reports as good was found to exist, to open and to have
\* the digest listed, and a plaintext image to carry its own valid record, whatever names
\* make_temp_path gave to whom.
THEOREM PassesAreSound == Spec => []PassMeansVerified
<1>1. IInv /\ [Next]_vars => IInv'
  BY StepInv
<1>2. IInv => PassMeansVerified
  BY DEF IInv, Judged, PassMeansVerified
<1> QED
  BY InitInv, <1>1, <1>2, PTL DEF Spec

\* A digest that verify_manifest_entry reports as another one is another one, since it was
\* taken while decrypting and not of the temporary file.
THEOREM MismatchesAreReal == Spec => []MismatchIsReal
<1>1. IInv /\ [Next]_vars => IInv'
  BY StepInv
<1>2. IInv => MismatchIsReal
  BY DEF IInv, Judged, MismatchIsReal, Mismatches
<1> QED
  BY InitInv, <1>1, <1>2, PTL DEF Spec

\* The plaintext of a job is in the temporary directory after its end only if the job ended
\* by a mismatch (execute.rs:218) or by a failed read-back (plan.rs:119).
THEOREM PlaintextIsRemoved == Spec => []NothingKept
<1>1. IInv /\ [Next]_vars => IInv'
  BY StepInv
<1>2. IInv => NothingKept
  BY DEF IInv, Cleared, IsPast, NothingKept, At
<1> QED
  BY InitInv, <1>1, <1>2, PTL DEF Spec
=============================================================================
