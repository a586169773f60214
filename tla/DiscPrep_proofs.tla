-------------------------- MODULE DiscPrep_proofs --------------------------
(***************************************************************************)
(* direnc loses no file, for every directory, every set of links and       *)
(* excludes and every number of runs: whatever step it fails at or is      *)
(* killed at, each name holds the whole of its file, plain or encrypted.   *)
(* A run that reports success has encrypted every file it should, and the  *)
(* mirrored tree that discdecrypt writes has every file back.              *)
(***************************************************************************)
EXTENDS DiscPrep, SequenceTheorems, TLAPS

(***************************************************************************)
(* The inductive invariant.  The argument: what direnc writes goes to a    *)
(* path of its own run, which no file of the directory has, and what it    *)
(* renames over a file is the whole of that file, encrypted.               *)
(***************************************************************************)

Source(f) == IF f \in Links THEN Target[f] ELSE f

FileContents == [of : Files, layers : Seq(Keys), whole : BOOLEAN]

\* A path of t holds the whole of the payload file s.
Holds(t, p, s) == p \in DOMAIN t /\ t[p].of = s /\ t[p].whole = TRUE

\* The directory: a file's name holds the file, a link's name is a link or holds its target.
TreeOK ==
    /\ tree \in [DOMAIN tree -> FileContents] /\ DOMAIN tree \subseteq Paths
    /\ links \subseteq {Itself(f) : f \in Links}
    /\ \A f \in Files \ Links : Holds(tree, Itself(f), f)
    /\ \A f \in Links : Itself(f) \in links \/ Holds(tree, Itself(f), Target[f])

\* direnc: the file it is at has a temporary one, whole before it replaces the file.
RunOK ==
    /\ runs \in 0..MaxRuns
    /\ run \in [pc : {"idle", "walk", "encrypt", "replace", "inject"}, key : Keys,
                exclude : SUBSET Files, seen : SUBSET Paths, path : Paths]
    /\ run.pc # "idle" => runs > 0
    /\ run.pc \in {"encrypt", "replace"} =>
          run.path \in DOMAIN tree \cup links /\ Temp(run.path) \in DOMAIN tree
    /\ run.pc = "replace" => \A f \in Files : run.path = Itself(f) =>
          Holds(tree, Temp(run.path), Source(f))

IInv == TreeOK /\ RunOK

\* While direnc runs, a path it writes to is none of the directory's own.
LEMMA TempApart ==
    ASSUME runs \in 0..MaxRuns, runs > 0, NEW p \in Paths
    PROVE  Temp(p) \in Paths /\ \A f \in Files : Temp(p) # Itself(f)
  BY DiscAssumption DEF Temp, Paths, Itself

\* Reading a path gives a content; reading the name of a file, the whole of that file.
LEMMA ContentFacts ==
    ASSUME TreeOK
    PROVE  /\ \A p \in DOMAIN tree \cup links : Content(p) \in FileContents
           /\ \A f \in Files : /\ Itself(f) \in DOMAIN tree \cup links
                               /\ Content(Itself(f)).of = Source(f)
                               /\ Content(Itself(f)).whole = TRUE
<1>1. ASSUME NEW f \in Links PROVE Target[f] \in Files \ Links /\ Itself(f).file = f
  BY DiscAssumption DEF Itself
<1>2. ASSUME NEW p \in DOMAIN tree \cup links PROVE Content(p) \in FileContents
  <2>1. CASE p \in links
    <3>1. PICK f \in Links : p = Itself(f)
      BY <2>1 DEF TreeOK
    <3>2. Itself(Target[f]) \in DOMAIN tree
      BY <1>1 DEF TreeOK, Holds
    <3>. QED BY <1>1, <2>1, <3>1, <3>2 DEF Content, TreeOK
  <2>2. CASE p \notin links
    BY <2>2 DEF Content, TreeOK
  <2>. QED BY <2>1, <2>2
<1>3. ASSUME NEW f \in Files
      PROVE  /\ Itself(f) \in DOMAIN tree \cup links
             /\ Content(Itself(f)).of = Source(f)
             /\ Content(Itself(f)).whole = TRUE
  <2>1. CASE f \notin Links
    <3>1. Itself(f) \notin links
      BY <2>1 DEF TreeOK, Itself
    <3>. QED BY <2>1, <3>1 DEF TreeOK, Holds, Content, Source
  <2>2. CASE f \in Links /\ Itself(f) \in links
    BY <1>1, <2>2 DEF TreeOK, Holds, Content, Source
  <2>3. CASE f \in Links /\ Itself(f) \notin links
    BY <2>3 DEF TreeOK, Holds, Content, Source
  <2>. QED BY <2>1, <2>2, <2>3
<1>. QED BY <1>2, <1>3

\* The invariant gives the property.
LEMMA Kept == IInv => PayloadKept
  BY ContentFacts DEF IInv, PayloadKept, Source

\* A run at rest.
LEMMA NoRunFacts ==
    /\ NoPath \in Paths
    /\ NoRun \in [pc : {"idle", "walk", "encrypt", "replace", "inject"}, key : Keys,
                  exclude : SUBSET Files, seen : SUBSET Paths, path : Paths]
    /\ NoRun.pc = "idle"
<1>1. (CHOOSE f \in Files : TRUE) \in Files
  BY DiscAssumption
<1>2. NoPath \in Paths
  BY <1>1, DiscAssumption DEF NoPath, Paths, Itself
<1>. QED BY <1>2 DEF NoRun, Keys

\* The directory as it is found.
LEMMA InitInv == Init => IInv
<1>. SUFFICES ASSUME Init PROVE IInv
  OBVIOUS
<1>1. \A f \in Files : Plain(f) \in FileContents /\ Itself(f) \in Paths /\ Itself(f).file = f
  BY DiscAssumption DEF Plain, FileContents, Itself, Paths, Keys
<1>2. TreeOK
  <2>1. DOMAIN tree = {Itself(f) : f \in Files \ Links}
    BY DEF Init
  <2>2. \A p \in DOMAIN tree : tree[p] = Plain(p.file) /\ p.file \in Files /\ p \in Paths
    BY <1>1, <2>1 DEF Init
  <2>3. tree \in [DOMAIN tree -> FileContents]
    BY <1>1, <2>1, <2>2 DEF Init
  <2>4. ASSUME NEW f \in Files \ Links PROVE Holds(tree, Itself(f), f)
    <3>1. Itself(f) \in DOMAIN tree /\ tree[Itself(f)] = Plain(f)
      BY <1>1, <2>1, <2>2
    <3>. QED BY <3>1 DEF Holds, Plain
  <2>. QED BY <2>2, <2>3, <2>4 DEF Init, TreeOK
<1>3. RunOK
  BY NoRunFacts, DiscAssumption DEF Init, RunOK
<1>. QED BY <1>2, <1>3 DEF IInv

\* A path that holds the same as before in a directory that keeps its other names.
LEMMA TreeStep ==
    ASSUME TreeOK,
           tree' \in [DOMAIN tree' -> FileContents], DOMAIN tree' \subseteq Paths,
           links' \subseteq links,
           \A f \in Files : \/ Itself(f) \in links /\ Itself(f) \in links'
                            \/ Holds(tree', Itself(f), Source(f))
    PROVE  TreeOK'
<1>1. \A f \in Files \ Links : Itself(f) \notin links
  BY DEF TreeOK, Itself
<1>2. \A f \in Files \ Links : Holds(tree', Itself(f), f)
  BY <1>1 DEF Source
<1>3. \A f \in Links : Itself(f) \in links' \/ Holds(tree', Itself(f), Target[f])
  BY DiscAssumption DEF Source
<1>. QED BY <1>2, <1>3 DEF TreeOK, Holds

\* direnc's bookkeeping changes, the directory does not.
LEMMA QuietInv ==
    ASSUME IInv, UNCHANGED <<tree, links>>,
           RunStarts \/ Skips \/ ReplaceFails \/ WalkEnds \/ Injects \/ InjectFails \/ Killed
    PROVE  IInv'
<1>1. TreeOK'
  BY DEF IInv, TreeOK, Holds
<1>2. RunOK'
  <2>. USE DEF IInv, RunOK
  <2>1. CASE RunStarts
    <3>1. PICK key \in Keys, exclude \in Excludes :
             run' = [NoRun EXCEPT !.pc = "walk", !.key = key, !.exclude = exclude]
      BY <2>1 DEF RunStarts
    <3>2. exclude \in SUBSET Files
      BY DiscAssumption
    <3>3. runs' \in 0..MaxRuns /\ runs' > 0
      <4>1. runs \in 0..MaxRuns /\ runs < MaxRuns /\ runs' = runs + 1
        BY <2>1 DEF RunStarts
      <4>. QED BY <4>1, DiscAssumption
    <3>4. run' \in [pc : {"idle", "walk", "encrypt", "replace", "inject"}, key : Keys,
                    exclude : SUBSET Files, seen : SUBSET Paths, path : Paths]
      BY <3>1, <3>2, NoRunFacts
    <3>5. run'.pc = "walk"
      BY <3>1, NoRunFacts
    <3>. QED BY <3>3, <3>4, <3>5
  <2>2. CASE Skips
    <3>1. PICK p \in Ahead : run' = [run EXCEPT !.seen = @ \cup {p}]
      BY <2>2 DEF Skips
    <3>2. p \in Paths
      <4>1. p \in DOMAIN tree \cup links
        BY DEF Ahead, Listed
      <4>2. \A f \in Links : Itself(f) \in Paths
        BY DiscAssumption DEF Itself, Paths
      <4>. QED BY <4>1, <4>2 DEF TreeOK
    <3>. QED BY <2>2, <3>1, <3>2 DEF Skips
  <2>3. CASE ReplaceFails \/ InjectFails \/ Injects \/ Killed
    <3>1. run' = [NoRun EXCEPT !.exclude = run.exclude] /\ runs' = runs
      BY <2>3 DEF ReplaceFails, InjectFails, Injects, Killed, Ends
    <3>. QED BY <3>1, NoRunFacts
  <2>4. CASE WalkEnds
    BY <2>4 DEF WalkEnds
  <2>. QED BY <2>1, <2>2, <2>3, <2>4
<1>. QED BY <1>1, <1>2 DEF IInv

\* direnc starts to encrypt a file: its temporary file is none of the directory's own.
LEMMA EncBeginsInv == IInv /\ EncBegins => IInv'
<1>. SUFFICES ASSUME IInv, EncBegins PROVE IInv'
  OBVIOUS
<1>1. PICK p \in Ahead : Begins(p) /\ run' = [run EXCEPT !.pc = "encrypt", !.path = p]
  BY DEF EncBegins
<1>. DEFINE c == [Content(p) EXCEPT !.layers = Append(@, run.key), !.whole = FALSE]
<1>2. p \in DOMAIN tree \cup links
  BY DEF Ahead, Listed
<1>3. p \in Paths
  BY <1>2, DiscAssumption DEF IInv, TreeOK, Itself, Paths
<1>4. c \in FileContents
  <2>1. Content(p) \in FileContents /\ run.key \in Keys
    BY <1>2, ContentFacts DEF IInv, RunOK
  <2>2. Append(Content(p).layers, run.key) \in Seq(Keys)
    BY <2>1 DEF FileContents
  <2>. QED BY <2>1, <2>2 DEF FileContents
<1>5. Temp(p) \in Paths /\ \A f \in Files : Temp(p) # Itself(f)
  BY <1>3, TempApart DEF IInv, RunOK, EncBegins
<1>6. tree' = Put(tree, Temp(p), c) /\ links' = links /\ runs' = runs
  BY <1>1 DEF Begins, EncBegins
<1>. HIDE DEF c
<1>7. /\ tree' \in [DOMAIN tree \cup {Temp(p)} -> FileContents]
      /\ \A q \in DOMAIN tree : q # Temp(p) => tree'[q] = tree[q]
  <2>1. tree \in [DOMAIN tree -> FileContents]
    BY DEF IInv, TreeOK
  <2>2. /\ Put(tree, Temp(p), c) \in [DOMAIN tree \cup {Temp(p)} -> FileContents]
        /\ \A q \in DOMAIN tree : q # Temp(p) => Put(tree, Temp(p), c)[q] = tree[q]
    BY <1>4, <2>1 DEF Put
  <2>. QED BY <1>6, <2>2
<1>8. DOMAIN tree' = DOMAIN tree \cup {Temp(p)}
  BY <1>7
<1>9. TreeOK'
  <2>1. \A f \in Files : \/ Itself(f) \in links /\ Itself(f) \in links'
                         \/ Holds(tree', Itself(f), Source(f))
    BY <1>5, <1>6, <1>7, <1>8 DEF IInv, TreeOK, Holds, Source
  <2>. QED BY <1>5, <1>6, <1>7, <1>8, <2>1, TreeStep DEF IInv, TreeOK
<1>10. Temp(p)' = Temp(p)
  BY <1>6 DEF Temp
<1>11. RunOK'
  BY <1>1, <1>2, <1>3, <1>6, <1>8, <1>10 DEF IInv, RunOK, EncBegins, Temp
<1>. QED BY <1>9, <1>11 DEF IInv

\* The encryption of a file ends: its temporary file is the whole of it.
LEMMA EncEndsInv == IInv /\ EncEnds => IInv'
<1>. SUFFICES ASSUME IInv, EncEnds PROVE IInv'
  OBVIOUS
<1>. DEFINE p == run.path
            c == [Content(p) EXCEPT !.layers = Append(@, run.key)]
<1>1. p \in DOMAIN tree \cup links /\ p \in Paths /\ Temp(p) \in DOMAIN tree
  BY DEF IInv, RunOK, EncEnds
<1>2. \A f \in Files : Temp(p) # Itself(f)
  BY <1>1, TempApart DEF IInv, RunOK, EncEnds
<1>3. c \in FileContents /\ c.of = Content(p).of /\ c.whole = Content(p).whole
  <2>1. Content(p) \in FileContents /\ run.key \in Keys
    BY <1>1, ContentFacts DEF IInv, RunOK
  <2>2. Append(Content(p).layers, run.key) \in Seq(Keys)
    BY <2>1 DEF FileContents
  <2>. QED BY <2>1, <2>2 DEF FileContents
<1>4. tree' = [tree EXCEPT ![Temp(p)] = c] /\ links' = links /\ runs' = runs
  BY DEF EncEnds
<1>5. run' = [run EXCEPT !.pc = "replace"] /\ run'.path = p
  BY DEF EncEnds, IInv, RunOK
<1>. HIDE DEF c
<1>6. /\ DOMAIN tree' = DOMAIN tree /\ tree' \in [DOMAIN tree' -> FileContents]
      /\ \A q \in DOMAIN tree : q # Temp(p) => tree'[q] = tree[q]
      /\ tree'[Temp(p)] = c
  BY <1>1, <1>3, <1>4 DEF IInv, TreeOK
<1>7. TreeOK'
  <2>1. \A f \in Files : \/ Itself(f) \in links /\ Itself(f) \in links'
                         \/ Holds(tree', Itself(f), Source(f))
    BY <1>2, <1>4, <1>6 DEF IInv, TreeOK, Holds, Source
  <2>. QED BY <1>4, <1>6, <2>1, TreeStep DEF IInv, TreeOK
<1>8. Temp(p)' = Temp(p)
  BY <1>4, <1>5 DEF Temp
<1>9. ASSUME NEW f \in Files, p = Itself(f) PROVE Holds(tree', Temp(p), Source(f))
  BY <1>1, <1>3, <1>6, <1>9, ContentFacts DEF IInv, Holds
<1>10. RunOK'
  <2>1. run' \in [pc : {"idle", "walk", "encrypt", "replace", "inject"}, key : Keys,
                  exclude : SUBSET Files, seen : SUBSET Paths, path : Paths]
    BY <1>5 DEF IInv, RunOK
  <2>2. runs > 0 /\ runs \in 0..MaxRuns
    BY DEF IInv, RunOK, EncEnds
  <2>. QED BY <1>1, <1>4, <1>5, <1>6, <1>8, <1>9, <2>1, <2>2 DEF RunOK, Source, Temp
<1>. QED BY <1>7, <1>10 DEF IInv

\* The encryption of a file fails: at most the temporary file is gone.
LEMMA EncFailsInv == IInv /\ EncFails => IInv'
<1>. SUFFICES ASSUME IInv, EncFails PROVE IInv'
  OBVIOUS
<1>. DEFINE p == run.path
<1>1. p \in Paths /\ \A f \in Files : Temp(p) # Itself(f)
  BY TempApart DEF IInv, RunOK, EncFails
<1>2. run' = [NoRun EXCEPT !.exclude = run.exclude] /\ links' = links /\ runs' = runs
  BY DEF EncFails, Ends
<1>3. RunOK'
  BY <1>2, NoRunFacts DEF IInv, RunOK
<1>4. TreeOK'
  <2>1. CASE tree' = tree
    BY <1>2, <2>1 DEF IInv, TreeOK, Holds
  <2>2. CASE tree' = Drop(tree, Temp(p))
    <3>1. /\ DOMAIN tree' = DOMAIN tree \ {Temp(p)} /\ tree' \in [DOMAIN tree' -> FileContents]
          /\ \A q \in DOMAIN tree' : tree'[q] = tree[q]
      BY <2>2 DEF Drop, Restrict, IInv, TreeOK
    <3>2. \A f \in Files : \/ Itself(f) \in links /\ Itself(f) \in links'
                           \/ Holds(tree', Itself(f), Source(f))
      BY <1>1, <1>2, <3>1 DEF IInv, TreeOK, Holds, Source
    <3>. QED BY <1>2, <3>1, <3>2, TreeStep DEF IInv, TreeOK
  <2>. QED BY <2>1, <2>2 DEF EncFails
<1>. QED BY <1>3, <1>4 DEF IInv

\* A file is replaced: by the whole of it, encrypted; a link's name by what it led to.
LEMMA ReplacesInv == IInv /\ Replaces => IInv'
<1>. SUFFICES ASSUME IInv, Replaces PROVE IInv'
  OBVIOUS
<1>. DEFINE p == run.path
            q == Temp(p)
<1>1. p \in Paths /\ q \in DOMAIN tree /\ \A f \in Files : q # Itself(f)
  BY TempApart DEF IInv, RunOK, Replaces
<1>2. tree' = Drop(Put(tree, p, tree[q]), q) /\ links' = links \ {p} /\ runs' = runs
  BY DEF Replaces, Move
<1>3. run' = [run EXCEPT !.pc = "walk", !.seen = @ \cup {p}, !.path = NoPath]
  BY DEF Replaces
<1>4. \A f \in Files : p = Itself(f) => tree[q].of = Source(f) /\ tree[q].whole = TRUE
  BY DEF IInv, RunOK, Replaces, Holds
<1>5. tree[q] \in FileContents /\ tree \in [DOMAIN tree -> FileContents]
  BY <1>1 DEF IInv, TreeOK
<1>. HIDE DEF p, q
<1>6. /\ DOMAIN tree' = (DOMAIN tree \cup {p}) \ {q}
      /\ tree' \in [DOMAIN tree' -> FileContents]
      /\ \A r \in DOMAIN tree' : tree'[r] = IF r = p THEN tree[q] ELSE tree[r]
  BY <1>2, <1>5 DEF Drop, Put, Restrict
<1>7. ASSUME NEW f \in Files
      PROVE  \/ Itself(f) \in links /\ Itself(f) \in links'
             \/ Holds(tree', Itself(f), Source(f))
  <2>1. CASE p = Itself(f)
    BY <1>1, <1>4, <1>6, <2>1 DEF Holds
  <2>2. CASE p # Itself(f)
    BY <1>1, <1>2, <1>6, <2>2 DEF IInv, TreeOK, Holds, Source
  <2>. QED BY <2>1, <2>2
<1>8. TreeOK'
  BY <1>1, <1>2, <1>6, <1>7, TreeStep DEF IInv, TreeOK
<1>9. RunOK'
  <2>1. /\ run' \in [pc : {"idle", "walk", "encrypt", "replace", "inject"}, key : Keys,
                     exclude : SUBSET Files, seen : SUBSET Paths, path : Paths]
        /\ run'.pc = "walk"
    BY <1>1, <1>3, NoRunFacts DEF IInv, RunOK
  <2>2. runs' \in 0..MaxRuns /\ runs' > 0
    BY <1>2 DEF IInv, RunOK, Replaces
  <2>. QED BY <2>1, <2>2 DEF RunOK
<1>. QED BY <1>8, <1>9 DEF IInv

\* Every step keeps the invariant; discdecrypt only reads the directory.
LEMMA NextInv == IInv /\ [Next]_vars => IInv'
<1>. SUFFICES ASSUME IInv, [Next]_vars PROVE IInv'
  OBVIOUS
<1>1. CASE RunStarts \/ Skips \/ ReplaceFails \/ WalkEnds \/ Injects \/ InjectFails \/ Killed
  <2>1. UNCHANGED <<tree, links>>
    BY <1>1 DEF RunStarts, Skips, ReplaceFails, WalkEnds, Injects, InjectFails, Killed
  <2>. QED BY <1>1, <2>1, QuietInv
<1>2. CASE EncBegins
  BY <1>2, EncBeginsInv
<1>3. CASE EncEnds
  BY <1>3, EncEndsInv
<1>4. CASE EncFails
  BY <1>4, EncFailsInv
<1>5. CASE Replaces
  BY <1>5, ReplacesInv
<1>6. CASE DecStarts \/ DecFile \/ DecFails \/ DecEnds \/ UNCHANGED vars
  <2>1. UNCHANGED <<tree, links, run, runs>>
    BY <1>6 DEF DecStarts, DecFile, DecDone, DecFails, DecEnds, vars, direnc
  <2>. QED BY <2>1 DEF IInv, TreeOK, RunOK, Holds, Temp
<1>. QED BY <1>1, <1>2, <1>3, <1>4, <1>5, <1>6 DEF Next

\* direnc loses no file: at every moment, wherever earlier runs were killed or failed, each
\* name holds the whole of its file, as it was or encrypted.
THEOREM PayloadSafe == Spec => []PayloadKept
<1>1. Init => IInv
  BY InitInv
<1>2. IInv /\ [Next]_vars => IInv'
  BY NextInv
<1>3. IInv => PayloadKept
  BY Kept
<1>. QED BY <1>1, <1>2, <1>3, PTL DEF Spec

----------------------------------------------------------------------------
(***************************************************************************)
(* What a run makes of the files, on top of IInv.  The argument: a run     *)
(* encrypts a path once, because it remembers the paths it is done with    *)
(* and has one temporary file at most, so that a file has one layer per    *)
(* run, and what was a link one more, of the file it led to.  A path that  *)
(* the run is done with is encrypted, or was to be skipped.                *)
(***************************************************************************)

WriterOK ==
    /\ run.exclude \in Excludes \cup {{}}
    /\ run.pc # "idle" => result = "running"
    /\ links \cap DOMAIN tree = {} /\ \A p \in DOMAIN tree : p.run <= runs
    /\ run.pc \in {"walk", "inject"} => \A p \in DOMAIN tree : p.run # runs
    /\ run.pc \in {"encrypt", "replace"} =>
          /\ run.path \notin run.seen /\ run.path.run # runs
          /\ \A p \in DOMAIN tree : p.run = runs => p = Temp(run.path)

\* The layers that a path may have.
Slot(p)   == IF p.file \in Links /\ runs > 0 THEN 1 ELSE 0
Rounds(p) == IF run.pc = "idle" \/ p \in run.seen \/ p.run = runs THEN runs ELSE runs - 1

LayersOK == \A p \in DOMAIN tree : Len(tree[p].layers) <= Rounds(p) + Slot(p)

SeenOK ==
    /\ run.pc # "idle" => \A p \in run.seen :
          /\ p.run # runs
          /\ ShouldSkip(p) \/ (p \notin links /\ (p \in DOMAIN tree => tree[p].layers # <<>>))
    /\ run.pc = "replace" => tree[Temp(run.path)].layers # <<>>
    /\ run.pc = "inject" => Listed \subseteq run.seen

WorkInv == WriterOK /\ LayersOK /\ SeenOK /\ OkMeansEncrypted

\* No file has a layer, and nothing runs.
LEMMA InitWork == Init => WorkInv
<1>. SUFFICES ASSUME Init PROVE WorkInv
  OBVIOUS
<1>1. /\ run.pc = "idle" /\ run.exclude = {} /\ runs = 0 /\ result = "none"
      /\ DOMAIN tree = {Itself(f) : f \in Files \ Links} /\ links = {Itself(f) : f \in Links}
      /\ \A p \in DOMAIN tree : tree[p].layers = <<>>
  BY DEF Init, NoRun, Plain
<1>2. \A f, g \in Files : Itself(f) = Itself(g) => f = g
  BY DEF Itself
<1>3. WriterOK
  <2>1. \A p \in DOMAIN tree : p.run = 0
    BY <1>1 DEF Itself
  <2>2. links \cap DOMAIN tree = {}
    BY <1>1, <1>2, DiscAssumption
  <2>. QED BY <1>1, <2>1, <2>2 DEF WriterOK
<1>4. LayersOK
  BY <1>1 DEF LayersOK, Rounds, Slot
<1>. QED BY <1>1, <1>3, <1>4 DEF WorkInv, SeenOK, OkMeansEncrypted

\* A path that a run may still encrypt has room for one layer more.
LEMMA Room ==
    ASSUME IInv, LayersOK, run.pc # "idle",
           NEW p \in DOMAIN tree \cup links, p \notin run.seen, p.run # runs
    PROVE  /\ Content(p).layers \in Seq(Keys)
           /\ Len(Content(p).layers) + 1 <= runs + Slot(p)
<1>1. Content(p) \in FileContents /\ runs \in Nat /\ runs > 0
  BY ContentFacts, DiscAssumption DEF IInv, RunOK
<1>2. CASE p \in links
  <2>1. PICK f \in Links : p = Itself(f)
    BY <1>2 DEF IInv, TreeOK
  <2>2. p.file = f /\ Target[f] \in Files \ Links
    BY <2>1, DiscAssumption DEF Itself
  <2>3. Itself(Target[f]) \in DOMAIN tree /\ Itself(Target[f]).file = Target[f]
    BY <2>2 DEF IInv, TreeOK, Holds, Itself
  <2>4. Content(p) = tree[Itself(Target[f])]
    BY <1>2, <2>2 DEF Content
  <2>5. Len(Content(p).layers) <= Rounds(Itself(Target[f])) + Slot(Itself(Target[f]))
    BY <2>3, <2>4 DEF LayersOK
  <2>6. Slot(Itself(Target[f])) = 0 /\ Slot(p) = 1
    BY <1>1, <2>2, <2>3 DEF Slot
  <2>7. Rounds(Itself(Target[f])) <= runs /\ Rounds(Itself(Target[f])) \in Int
    BY <1>1 DEF Rounds
  <2>8. Len(Content(p).layers) \in Nat /\ Content(p).layers \in Seq(Keys)
    BY <1>1 DEF FileContents
  <2>. QED BY <1>1, <2>5, <2>6, <2>7, <2>8
<1>3. CASE p \notin links
  <2>1. Len(tree[p].layers) <= Rounds(p) + Slot(p) /\ Content(p) = tree[p]
    BY <1>3 DEF LayersOK, Content
  <2>2. Rounds(p) = runs - 1 /\ Slot(p) \in Nat
    BY DEF Rounds, Slot
  <2>3. Len(Content(p).layers) \in Nat /\ Content(p).layers \in Seq(Keys)
    BY <1>1 DEF FileContents
  <2>. QED BY <1>1, <2>1, <2>2, <2>3
<1>. QED BY <1>2, <1>3

\* What a sequence is with an element more.
LEMMA AppendFacts ==
    ASSUME NEW S, NEW s \in Seq(S), NEW e \in S
    PROVE  Append(s, e) \in Seq(S) /\ Append(s, e) # <<>> /\ Len(Append(s, e)) = Len(s) + 1
<1>1. Append(s, e) \in Seq(S) /\ Len(Append(s, e)) = Len(s) + 1 /\ Len(s) \in Nat
  OBVIOUS
<1>2. Len(<<>>) = 0
  OBVIOUS
<1>3. Len(Append(s, e)) # 0
  BY <1>1
<1>. QED BY <1>1, <1>2, <1>3, Zenon

\* A layer more.
LEMMA OneMore ==
    ASSUME IInv, NEW p \in DOMAIN tree \cup links, NEW w \in BOOLEAN,
           NEW c, c = [Content(p) EXCEPT !.layers = Append(@, run.key), !.whole = w]
    PROVE  /\ c.layers \in Seq(Keys) /\ c.layers # <<>>
           /\ Len(c.layers) = Len(Content(p).layers) + 1
<1>1. Content(p) \in FileContents /\ run.key \in Keys
  BY ContentFacts DEF IInv, RunOK
<1>2. c.layers = Append(Content(p).layers, run.key)
  <2>1. Content(p) = [of |-> Content(p).of, layers |-> Content(p).layers, whole |-> Content(p).whole]
    BY <1>1 DEF FileContents
  <2>. QED BY <2>1
<1>3. Content(p).layers \in Seq(Keys)
  BY <1>1 DEF FileContents
<1>4. /\ Append(Content(p).layers, run.key) \in Seq(Keys) /\ Append(Content(p).layers, run.key) # <<>>
      /\ Len(Append(Content(p).layers, run.key)) = Len(Content(p).layers) + 1
  BY <1>1, <1>3, AppendFacts
<1>. QED BY <1>2, <1>4, Zenon

\* The directory as it was: the layers fit as they did when no fewer rounds are counted.
LEMMA LayersStay ==
    ASSUME IInv, LayersOK, tree' = tree, runs' \in Nat, runs' >= runs,
           \A p : Rounds(p) <= Rounds(p)', \A p : Rounds(p)' \in Int
    PROVE  LayersOK'
<1>1. runs \in Nat /\ \A p : Rounds(p) \in Int /\ Slot(p) \in Int /\ Slot(p)' \in Int /\ Slot(p) <= Slot(p)'
  BY DiscAssumption DEF Slot, Rounds, IInv, RunOK
<1>2. \A p \in DOMAIN tree : Len(tree[p].layers) \in Nat
  BY DEF IInv, TreeOK, FileContents
<1>. QED BY <1>1, <1>2 DEF LayersOK

\* A run that starts or goes on to a path that it skips, and one that has walked the whole tree.
LEMMA WalkWork ==
    ASSUME IInv, WorkInv, RunStarts \/ Skips \/ WalkEnds
    PROVE  WorkInv'
<1>1. /\ UNCHANGED <<tree, links, decryptor>> /\ runs \in Nat
      /\ run \in [pc : {"idle", "walk", "encrypt", "replace", "inject"}, key : Keys,
                  exclude : SUBSET Files, seen : SUBSET Paths, path : Paths]
      /\ \A p \in DOMAIN tree : p \in Paths
      /\ \A p \in links : p \in Paths /\ p.run = 0
  <2>1. UNCHANGED <<tree, links, decryptor>>
    BY DEF RunStarts, Skips, WalkEnds
  <2>2. \A f \in Links : Itself(f) \in Paths /\ Itself(f).run = 0
    BY DiscAssumption DEF Itself, Paths
  <2>. QED BY <2>1, <2>2, DiscAssumption DEF IInv, RunOK, TreeOK
<1>2. CASE RunStarts
  <2>1. PICK key \in Keys, exclude \in Excludes :
           run' = [NoRun EXCEPT !.pc = "walk", !.key = key, !.exclude = exclude]
    BY <1>2 DEF RunStarts
  <2>2. /\ run'.pc = "walk" /\ run'.exclude \in Excludes /\ run'.seen = {}
        /\ runs' = runs + 1 /\ result' = "running" /\ run.pc = "idle"
    BY <1>2, <2>1 DEF RunStarts, NoRun
  <2>3. LayersOK'
    BY <1>1, <2>2, LayersStay DEF Rounds, WorkInv
  <2>4. \A p \in DOMAIN tree : p.run # runs' /\ p.run <= runs'
    BY <1>1, <2>2 DEF WorkInv, WriterOK, Paths
  <2>. QED BY <1>1, <2>2, <2>3, <2>4 DEF WorkInv, WriterOK, SeenOK, OkMeansEncrypted
<1>3. CASE Skips
  <2>1. PICK p \in Ahead : ShouldSkip(p) /\ run' = [run EXCEPT !.seen = @ \cup {p}]
    BY <1>3 DEF Skips
  <2>2. /\ run'.pc = run.pc /\ run.pc = "walk" /\ run'.seen = run.seen \cup {p}
        /\ run'.exclude = run.exclude /\ runs' = runs /\ result' = result
    BY <1>1, <1>3, <2>1 DEF Skips
  <2>3. p \in DOMAIN tree \cup links
    BY <2>1 DEF Ahead, Listed
  <2>4. p.run # runs
    BY <1>1, <2>2, <2>3 DEF IInv, RunOK, WorkInv, WriterOK
  <2>5. LayersOK'
    BY <1>1, <2>2, LayersStay DEF Rounds, WorkInv
  <2>. QED BY <1>1, <2>1, <2>2, <2>4, <2>5 DEF WorkInv, WriterOK, SeenOK, OkMeansEncrypted, ShouldSkip
<1>4. CASE WalkEnds
  <2>1. /\ run.pc = "walk" /\ run'.pc = "inject" /\ run'.seen = run.seen /\ Ahead = {}
        /\ run'.exclude = run.exclude /\ runs' = runs /\ result' = result
    BY <1>1, <1>4 DEF WalkEnds
  <2>2. LayersOK'
    BY <1>1, <2>1, LayersStay DEF Rounds, WorkInv
  <2>3. Listed' \subseteq run'.seen
    BY <1>1, <2>1 DEF Ahead, Listed
  <2>. QED BY <1>1, <2>1, <2>2, <2>3 DEF WorkInv, WriterOK, SeenOK, OkMeansEncrypted, ShouldSkip
<1>. QED BY <1>2, <1>3, <1>4

\* A run that ends leaves the files as they are, or one temporary file fewer.
LEMMA EndWork ==
    ASSUME IInv, WorkInv, EncFails \/ ReplaceFails \/ Injects \/ InjectFails \/ Killed
    PROVE  WorkInv'
<1>1. /\ run'.pc = "idle" /\ run'.exclude = run.exclude /\ run.pc # "idle"
      /\ runs' = runs /\ links' = links /\ runs \in Nat /\ run'.seen = {}
      /\ result' = "ok" => Injects
  <2>1. run' = [NoRun EXCEPT !.exclude = run.exclude] /\ runs' = runs /\ links' = links
    BY DEF EncFails, ReplaceFails, Injects, InjectFails, Killed, Ends
  <2>2. run'.pc = "idle" /\ run'.exclude = run.exclude /\ run'.seen = {}
    BY <2>1 DEF NoRun
  <2>3. run.pc # "idle" /\ (result' = "ok" => Injects)
    BY DEF EncFails, ReplaceFails, Injects, InjectFails, Killed, Ends
  <2>. QED BY <2>1, <2>2, <2>3, DiscAssumption DEF IInv, RunOK
<1>2. DOMAIN tree' \subseteq DOMAIN tree /\ \A p \in DOMAIN tree' : tree'[p] = tree[p]
  <2>1. CASE tree' = tree
    BY <2>1
  <2>2. CASE EncFails /\ tree' = Drop(tree, Temp(run.path))
    BY <2>2 DEF Drop, Restrict
  <2>. QED BY <2>1, <2>2 DEF EncFails, ReplaceFails, Injects, InjectFails, Killed
<1>3. WriterOK'
  BY <1>1, <1>2 DEF WorkInv, WriterOK
<1>4. LayersOK'
  <2>. SUFFICES ASSUME NEW p \in DOMAIN tree' PROVE Len(tree'[p].layers) <= Rounds(p)' + Slot(p)'
    BY DEF LayersOK
  <2>1. Len(tree[p].layers) <= Rounds(p) + Slot(p) /\ tree'[p] = tree[p] /\ p \in DOMAIN tree
    BY <1>2 DEF WorkInv, LayersOK
  <2>2. Rounds(p) \in {runs, runs - 1} /\ Rounds(p)' = runs /\ Slot(p)' = Slot(p) /\ Slot(p) \in Nat
    BY <1>1 DEF Rounds, Slot
  <2>3. Len(tree[p].layers) \in Nat
    BY <2>1 DEF IInv, TreeOK, FileContents
  <2>. QED BY <1>1, <2>1, <2>2, <2>3
<1>5. OkMeansEncrypted'
  <2>. SUFFICES ASSUME Injects PROVE OkMeansEncrypted'
    BY <1>1 DEF OkMeansEncrypted
  <2>1. run.pc = "inject" /\ decryptor' = "complete" /\ tree' = tree
    BY DEF Injects
  <2>2. ASSUME NEW p \in Reached PROVE p \notin links /\ p \in DOMAIN tree /\ tree[p].layers # <<>>
    BY <2>1 DEF Reached, WorkInv, SeenOK, Listed, ShouldSkip
  <2>3. Reached' = Reached
    BY <1>1, <2>1 DEF Reached
  <2>. QED BY <1>1, <2>1, <2>2, <2>3 DEF OkMeansEncrypted, Content
<1>. QED BY <1>1, <1>3, <1>4, <1>5 DEF WorkInv, SeenOK

\* The temporary file of the path that the run is at has a layer more than what is read there.
LEMMA EncBeginsWork == ASSUME IInv, WorkInv, EncBegins PROVE WorkInv'
<1>1. PICK p \in Ahead : /\ ~ShouldSkip(p) /\ Begins(p)
                         /\ run' = [run EXCEPT !.pc = "encrypt", !.path = p]
  BY DEF EncBegins
<1>. DEFINE c == [Content(p) EXCEPT !.layers = Append(@, run.key), !.whole = FALSE]
            q == Temp(p)
<1>2. /\ run.pc = "walk" /\ links' = links /\ runs' = runs /\ result' = result
      /\ runs \in Nat /\ runs > 0
  BY DiscAssumption DEF EncBegins, IInv, RunOK
<1>3. /\ run'.pc = "encrypt" /\ run'.path = p /\ run'.seen = run.seen /\ run'.exclude = run.exclude
  BY <1>1 DEF IInv, RunOK
<1>4. p \in DOMAIN tree \cup links /\ p \notin run.seen
  BY DEF Ahead, Listed
<1>5. p \in Paths /\ p.run # runs
  <2>1. CASE p \in links
    <3>1. p \in Paths /\ p.run = 0
      BY <2>1, DiscAssumption DEF IInv, TreeOK, Itself, Paths
    <3>. QED BY <1>2, <3>1
  <2>2. CASE p \in DOMAIN tree
    BY <1>2, <2>2 DEF IInv, TreeOK, WorkInv, WriterOK
  <2>. QED BY <1>4, <2>1, <2>2
<1>6. q.run = runs /\ q.file = p.file /\ Temp(p)' = q /\ \A f \in Files : q # Itself(f)
  BY <1>2, <1>5, TempApart DEF Temp, Paths, IInv, RunOK
<1>7. /\ c.layers \in Seq(Keys) /\ c.layers # <<>>
      /\ Len(c.layers) <= runs + Slot(p)
  <2>1. FALSE \in BOOLEAN
    OBVIOUS
  <2>. QED BY <1>2, <1>4, <1>5, <2>1, Room, OneMore DEF WorkInv
<1>8. tree' = Put(tree, q, c)
  BY <1>1 DEF Begins
<1>. HIDE DEF c, q
<1>9. /\ DOMAIN tree' = DOMAIN tree \cup {q} /\ tree'[q] = c
      /\ \A r \in DOMAIN tree : r # q => tree'[r] = tree[r]
  BY <1>8 DEF Put
<1>10. \A r \in DOMAIN tree : r.run # runs
  BY <1>2 DEF WorkInv, WriterOK
<1>11. WriterOK'
  <2>1. q \notin links
    <3>1. \A f \in Links : q # Itself(f)
      BY <1>6, DiscAssumption
    <3>. QED BY <3>1 DEF IInv, TreeOK
  <2>2. links' \cap DOMAIN tree' = {}
    BY <1>2, <1>9, <2>1 DEF WorkInv, WriterOK
  <2>3. \A r \in DOMAIN tree' : r.run <= runs' /\ (r.run = runs' => r = q)
    BY <1>2, <1>6, <1>9, <1>10 DEF WorkInv, WriterOK
  <2>. QED BY <1>2, <1>3, <1>4, <1>5, <1>6, <2>2, <2>3 DEF WorkInv, WriterOK
<1>12. LayersOK'
  <2>. SUFFICES ASSUME NEW r \in DOMAIN tree' PROVE Len(tree'[r].layers) <= Rounds(r)' + Slot(r)'
    BY DEF LayersOK
  <2>1. Slot(r)' = Slot(r) /\ Rounds(r)' = Rounds(r)
    BY <1>2, <1>3 DEF Slot, Rounds
  <2>2. CASE r = q
    BY <1>6, <1>7, <1>9, <2>1, <2>2 DEF Slot, Rounds
  <2>3. CASE r # q
    BY <1>9, <2>1, <2>3 DEF WorkInv, LayersOK
  <2>. QED BY <2>2, <2>3
<1>13. SeenOK'
  <2>1. q \notin run.seen
    BY <1>2, <1>6 DEF WorkInv, SeenOK
  <2>2. ASSUME NEW r \in run.seen
        PROVE  /\ r.run # runs
               /\ ShouldSkip(r)' \/ (r \notin links' /\ (r \in DOMAIN tree' => tree'[r].layers # <<>>))
    <3>1. /\ r.run # runs /\ r # q
          /\ ShouldSkip(r) \/ (r \notin links /\ (r \in DOMAIN tree => tree[r].layers # <<>>))
      BY <1>2, <2>1 DEF WorkInv, SeenOK
    <3>2. ShouldSkip(r)' <=> ShouldSkip(r)
      BY <1>3 DEF ShouldSkip
    <3>. QED BY <1>2, <1>9, <3>1, <3>2
  <2>. QED BY <1>2, <1>3, <2>2 DEF SeenOK
<1>14. OkMeansEncrypted'
  BY <1>2 DEF WorkInv, WriterOK, OkMeansEncrypted
<1>. QED BY <1>11, <1>12, <1>13, <1>14 DEF WorkInv

\* So has it when it is whole.
LEMMA EncEndsWork == ASSUME IInv, WorkInv, EncEnds PROVE WorkInv'
<1>. DEFINE p == run.path
            q == Temp(p)
            c == [Content(p) EXCEPT !.layers = Append(@, run.key)]
<1>1. /\ run.pc = "encrypt" /\ links' = links /\ runs' = runs /\ result' = result
      /\ runs \in Nat /\ runs > 0
      /\ run' = [run EXCEPT !.pc = "replace"] /\ tree' = [tree EXCEPT ![q] = c]
  BY DiscAssumption DEF EncEnds, IInv, RunOK
<1>2. /\ run'.pc = "replace" /\ run'.path = p /\ run'.seen = run.seen /\ run'.exclude = run.exclude
  BY <1>1 DEF IInv, RunOK
<1>3. /\ p \in DOMAIN tree \cup links /\ q \in DOMAIN tree /\ p \in Paths
      /\ p \notin run.seen /\ p.run # runs
  BY <1>1 DEF IInv, RunOK, WorkInv, WriterOK
<1>4. q.run = runs /\ q.file = p.file /\ Temp(p)' = q /\ \A f \in Files : q # Itself(f)
  BY <1>1, <1>2, <1>3, TempApart DEF Temp, Paths, IInv, RunOK
<1>5. /\ c.layers # <<>> /\ Len(c.layers) <= runs + Slot(p)
  <2>1. Content(p) \in FileContents /\ run.key \in Keys
    BY <1>3, ContentFacts DEF IInv, RunOK
  <2>2. c.layers = Append(Content(p).layers, run.key) /\ Content(p).layers \in Seq(Keys)
    BY <2>1 DEF FileContents
  <2>3. Len(Content(p).layers) + 1 <= runs + Slot(p)
    BY <1>1, <1>3, Room DEF WorkInv
  <2>. QED BY <2>1, <2>2, <2>3
<1>6. Temp(run.path)' = q
  BY <1>4
<1>. HIDE DEF c, q
<1>7. /\ DOMAIN tree' = DOMAIN tree /\ tree'[q] = c
      /\ \A r \in DOMAIN tree : r # q => tree'[r] = tree[r]
  BY <1>1, <1>3
<1>8. WriterOK'
  <2>1. \A r \in DOMAIN tree : r.run = runs => r = q
    BY <1>1 DEF WorkInv, WriterOK, q
  <2>2. /\ run'.path \notin run'.seen /\ run'.path.run # runs'
    BY <1>1, <1>2, <1>3
  <2>. QED BY <1>1, <1>2, <1>6, <1>7, <2>1, <2>2 DEF WorkInv, WriterOK
<1>9. LayersOK'
  <2>. SUFFICES ASSUME NEW r \in DOMAIN tree' PROVE Len(tree'[r].layers) <= Rounds(r)' + Slot(r)'
    BY DEF LayersOK
  <2>1. Slot(r)' = Slot(r) /\ Rounds(r)' = Rounds(r)
    BY <1>1, <1>2 DEF Slot, Rounds
  <2>2. CASE r = q
    BY <1>4, <1>5, <1>7, <2>1, <2>2 DEF Slot, Rounds
  <2>3. CASE r # q
    BY <1>7, <2>1, <2>3 DEF WorkInv, LayersOK
  <2>. QED BY <2>2, <2>3
<1>10. SeenOK'
  <2>1. ASSUME NEW r \in run.seen
        PROVE  /\ r.run # runs
               /\ ShouldSkip(r)' \/ (r \notin links' /\ (r \in DOMAIN tree' => tree'[r].layers # <<>>))
    <3>1. /\ r.run # runs
          /\ ShouldSkip(r) \/ (r \notin links /\ (r \in DOMAIN tree => tree[r].layers # <<>>))
      BY <1>1 DEF WorkInv, SeenOK
    <3>2. r # q
      BY <1>4, <3>1
    <3>3. ShouldSkip(r)' <=> ShouldSkip(r)
      BY <1>2 DEF ShouldSkip
    <3>. QED BY <1>1, <1>7, <3>1, <3>2, <3>3
  <2>2. tree'[q].layers # <<>>
    BY <1>5, <1>7
  <2>. QED BY <1>1, <1>2, <1>6, <2>1, <2>2 DEF SeenOK
<1>11. OkMeansEncrypted'
  BY <1>1 DEF WorkInv, WriterOK, OkMeansEncrypted
<1>. QED BY <1>8, <1>9, <1>10, <1>11 DEF WorkInv

\* The path that is replaced has the layers of the temporary file, and the run is done with it.
LEMMA ReplacesWork == ASSUME IInv, WorkInv, Replaces PROVE WorkInv'
<1>0. PICK p : p = run.path
  OBVIOUS
<1>. DEFINE q == Temp(p)
<1>1. /\ run.pc = "replace" /\ links' = links \ {p} /\ runs' = runs /\ result' = result
      /\ runs \in Nat /\ runs > 0
      /\ run' = [run EXCEPT !.pc = "walk", !.seen = @ \cup {p}, !.path = NoPath]
      /\ tree' = Drop(Put(tree, p, tree[q]), q)
  BY <1>0, DiscAssumption DEF Replaces, Move, IInv, RunOK
<1>2. /\ run'.pc = "walk" /\ run'.seen = run.seen \cup {p} /\ run'.exclude = run.exclude
  BY <1>1 DEF IInv, RunOK
<1>3. /\ q \in DOMAIN tree /\ p \in Paths /\ p.run # runs
      /\ \A r \in DOMAIN tree : r.run = runs => r = q
  BY <1>0, <1>1 DEF IInv, RunOK, WorkInv, WriterOK
<1>4. q.run = runs /\ q.file = p.file
  BY <1>1, <1>3 DEF Temp, Paths, IInv, RunOK
<1>5. tree[q].layers # <<>> /\ Len(tree[q].layers) <= runs + Slot(p)
  BY <1>0, <1>1, <1>3, <1>4 DEF WorkInv, SeenOK, LayersOK, Slot, Rounds
<1>. HIDE DEF q
<1>6. /\ DOMAIN tree' = (DOMAIN tree \cup {p}) \ {q}
      /\ \A r \in DOMAIN tree' : tree'[r] = IF r = p THEN tree[q] ELSE tree[r]
  BY <1>1 DEF Drop, Put, Restrict
<1>7. WriterOK'
  <2>1. ASSUME NEW r \in DOMAIN tree' PROVE r.run <= runs' /\ r.run # runs'
    <3>1. CASE r = p
      <4>1. p \in links => p.run = 0
        BY DEF IInv, TreeOK, Itself
      <4>2. p.run <= runs
        BY <1>0, <1>1, <4>1 DEF IInv, RunOK, WorkInv, WriterOK
      <4>. QED BY <1>1, <1>3, <3>1, <4>2
    <3>2. CASE r # p
      BY <1>1, <1>3, <1>6, <3>2 DEF WorkInv, WriterOK
    <3>. QED BY <3>1, <3>2
  <2>2. links' \cap DOMAIN tree' = {}
    BY <1>1, <1>6 DEF WorkInv, WriterOK
  <2>. QED BY <1>1, <1>2, <2>1, <2>2 DEF WorkInv, WriterOK
<1>8. LayersOK'
  <2>. SUFFICES ASSUME NEW r \in DOMAIN tree' PROVE Len(tree'[r].layers) <= Rounds(r)' + Slot(r)'
    BY DEF LayersOK
  <2>1. Slot(r)' = Slot(r) /\ (r # p => Rounds(r)' = Rounds(r)) /\ Rounds(p)' = runs
    BY <1>1, <1>2 DEF Slot, Rounds
  <2>2. CASE r = p
    BY <1>5, <1>6, <2>1, <2>2
  <2>3. CASE r # p
    BY <1>6, <2>1, <2>3 DEF WorkInv, LayersOK
  <2>. QED BY <2>2, <2>3
<1>9. SeenOK'
  <2>1. ASSUME NEW r \in run'.seen
        PROVE  /\ r.run # runs
               /\ ShouldSkip(r)' \/ (r \notin links' /\ (r \in DOMAIN tree' => tree'[r].layers # <<>>))
    <3>1. CASE r = p
      BY <1>1, <1>3, <1>5, <1>6, <3>1
    <3>2. CASE r # p
      <4>1. r \in run.seen /\ (ShouldSkip(r)' <=> ShouldSkip(r))
        BY <1>2, <3>2 DEF ShouldSkip
      <4>2. /\ r.run # runs
            /\ ShouldSkip(r) \/ (r \notin links /\ (r \in DOMAIN tree => tree[r].layers # <<>>))
        BY <1>1, <4>1 DEF WorkInv, SeenOK
      <4>. QED BY <1>1, <1>6, <3>2, <4>1, <4>2
    <3>. QED BY <3>1, <3>2
  <2>. QED BY <1>1, <1>2, <2>1 DEF SeenOK
<1>10. OkMeansEncrypted'
  BY <1>1 DEF WorkInv, WriterOK, OkMeansEncrypted
<1>. QED BY <1>7, <1>8, <1>9, <1>10 DEF WorkInv

\* Every step keeps it; discdecrypt only reads the directory.
LEMMA NextWork == IInv /\ WorkInv /\ [Next]_vars => WorkInv'
<1>. SUFFICES ASSUME IInv, WorkInv, [Next]_vars PROVE WorkInv'
  OBVIOUS
<1>1. CASE RunStarts \/ Skips \/ WalkEnds
  BY <1>1, WalkWork
<1>2. CASE EncFails \/ ReplaceFails \/ Injects \/ InjectFails \/ Killed
  BY <1>2, EndWork
<1>3. CASE DecStarts \/ DecFile \/ DecFails \/ DecEnds \/ UNCHANGED vars
  <2>1. UNCHANGED <<tree, links, run, runs, result, decryptor>>
    BY <1>3 DEF DecStarts, DecFile, DecDone, DecFails, DecEnds, vars, direnc
  <2>. QED BY <2>1 DEF WorkInv, WriterOK, LayersOK, Rounds, Slot, SeenOK, OkMeansEncrypted,
                       ShouldSkip, Listed, Reached, Content, Temp
<1>. QED BY <1>1, <1>2, <1>3, EncBeginsWork, EncEndsWork, ReplacesWork DEF Next

\* It holds in every state.
LEMMA WorkInductive == Spec => [](IInv /\ WorkInv)
  BY InitInv, InitWork, NextInv, NextWork, PTL DEF Spec

\* A run of direnc that says it prepared the directory left no payload file that it can reach
\* in plaintext (the end of run in direnc.rs).
THEOREM PreparedIsEncrypted == Spec => []OkMeansEncrypted
<1>1. WorkInv => OkMeansEncrypted
  BY DEF WorkInv
<1>. QED BY WorkInductive, <1>1, PTL

----------------------------------------------------------------------------
(***************************************************************************)
(* What discdecrypt makes of the disc, on top of WorkInv.  While it runs   *)
(* and after it, the disc is as the last run of direnc left it; what it is *)
(* done with is in the output directory, with one layer taken off.         *)
(***************************************************************************)

ReaderOK ==
    /\ result \in {"none", "running", "ok", "failed", "killed"}
    /\ decryptor \in {"none", "partial", "complete"}
    /\ dec \in [pc : {"idle", "walk"}, creds : SUBSET Keys, seen : SUBSET Paths]
    /\ decResult \in {"none", "ok", "failed"}
    /\ DOMAIN out \subseteq Paths
    /\ \A p \in DOMAIN out : out[p] \in Contents
    /\ dec.pc # "idle" \/ decResult # "none" => run.pc = "idle"

\* With one run at most, what has been read of a payload file is the file.
Restored(f) == out[Itself(f)] = Plain(f)

OutOK ==
    /\ dec.pc = "walk" =>
          /\ dec.seen \subseteq DOMAIN out /\ decResult = "none"
          /\ runs <= 1 => \A f \in Files \ Links : Itself(f) \in dec.seen => Restored(f)
    /\ decResult = "ok" =>
          /\ Listed \subseteq DOMAIN out
          /\ runs <= 1 => \A f \in Files \ (Links \cup Hidden) : Restored(f)

ReadInv == ReaderOK /\ OutOK

\* The sequences of a bounded length.
LEMMA SeqOfFacts ==
    ASSUME NEW S, NEW n \in Nat, NEW s
    PROVE  s \in SeqOf(S, n) <=> s \in Seq(S) /\ Len(s) <= n
<1>1. ASSUME s \in SeqOf(S, n) PROVE s \in Seq(S) /\ Len(s) <= n
  <2>1. PICK m \in 0..n : s \in [1..m -> S]
    BY <1>1 DEF SeqOf
  <2>. QED BY <2>1
<1>2. ASSUME s \in Seq(S), Len(s) <= n PROVE s \in SeqOf(S, n)
  <2>1. Len(s) \in 0..n /\ s \in [1..Len(s) -> S]
    BY <1>2
  <2>. QED BY <2>1 DEF SeqOf
<1>. QED BY <1>1, <1>2

\* A sequence without its last element.
LEMMA FrontFacts ==
    ASSUME NEW S, NEW s \in Seq(S), s # <<>>
    PROVE  /\ Front(s) \in Seq(S) /\ Len(Front(s)) = Len(s) - 1
           /\ Len(s) <= 1 => Front(s) = <<>>
<1>1. Len(s) \in Nat /\ Len(s) # 0
  OBVIOUS
<1>2. Front(s) \in Seq(S) /\ Len(Front(s)) = Len(s) - 1
  <2>1. 1 \in Int /\ Len(s) - 1 \in Int /\ \A i \in 1..(Len(s) - 1) : s[i] \in S
    BY <1>1
  <2>2. /\ SubSeq(s, 1, Len(s) - 1) \in Seq(S)
        /\ Len(SubSeq(s, 1, Len(s) - 1)) = IF 1 <= Len(s) - 1 THEN Len(s) - 1 - 1 + 1 ELSE 0
    BY <2>1, SubSeqProperties
  <2>3. (IF 1 <= Len(s) - 1 THEN Len(s) - 1 - 1 + 1 ELSE 0) = Len(s) - 1
    <3>1. PICK n \in Nat : n = Len(s) /\ n # 0
      BY <1>1
    <3>2. CASE n = 1
      BY <3>1, <3>2
    <3>3. CASE n > 1
      <4>1. 1 <= n - 1 /\ n - 1 - 1 + 1 = n - 1
        BY <3>1, <3>3
      <4>. QED BY <3>1, <4>1, Zenon
    <3>. QED BY <3>1, <3>2, <3>3
  <2>4. Front(s) = SubSeq(s, 1, Len(s) - 1)
    BY Zenon DEF Front
  <2>. QED BY <2>2, <2>3, <2>4, Zenon
<1>. QED BY <1>1, <1>2

\* Every file has at most as many layers as the type allows.
LEMMA TreeTyped == IInv /\ WorkInv => \A p \in DOMAIN tree \cup links : Content(p) \in Contents
<1>. SUFFICES ASSUME IInv, WorkInv PROVE \A p \in DOMAIN tree \cup links : Content(p) \in Contents
  OBVIOUS
<1>1. runs \in Nat /\ MaxRuns \in Nat /\ runs <= MaxRuns /\ (run.pc # "idle" => runs > 0)
  BY DiscAssumption DEF IInv, RunOK
<1>2. ASSUME NEW p \in DOMAIN tree PROVE tree[p] \in Contents
  <2>1. tree[p] \in FileContents /\ Len(tree[p].layers) <= Rounds(p) + Slot(p)
    BY DEF IInv, TreeOK, WorkInv, LayersOK
  <2>2. CASE runs = 0
    BY <1>1, <2>1, <2>2, SeqOfFacts DEF Rounds, Slot, FileContents, Contents
  <2>3. CASE runs # 0
    <3>1. Rounds(p) <= runs /\ Slot(p) <= 1 /\ Rounds(p) \in Int /\ Slot(p) \in Int
      BY <1>1 DEF Rounds, Slot
    <3>2. Len(tree[p].layers) \in Nat /\ tree[p].layers \in Seq(Keys)
      BY <2>1 DEF FileContents
    <3>3. Len(tree[p].layers) <= 2 * MaxRuns /\ 2 * MaxRuns \in Nat
      BY <1>1, <2>1, <2>3, <3>1, <3>2
    <3>4. tree[p].layers \in SeqOf(Keys, 2 * MaxRuns)
      BY <3>2, <3>3, SeqOfFacts
    <3>. QED BY <2>1, <3>4 DEF FileContents, Contents
  <2>. QED BY <2>2, <2>3
<1>3. ASSUME NEW p \in links PROVE Itself(Target[p.file]) \in DOMAIN tree
  <2>1. PICK f \in Links : p = Itself(f)
    BY DEF IInv, TreeOK
  <2>. QED BY <2>1, DiscAssumption DEF IInv, TreeOK, Holds, Itself
<1>. QED BY <1>2, <1>3 DEF Content

\* Every state is of its type.
LEMMA Typed == IInv /\ WorkInv /\ ReadInv => TypeOK
<1>. SUFFICES ASSUME IInv, WorkInv, ReadInv PROVE TypeOK
  OBVIOUS
<1>1. \A p \in DOMAIN tree : tree[p] \in Contents
  <2>1. ASSUME NEW p \in DOMAIN tree PROVE tree[p] = Content(p)
    BY DEF Content, WorkInv, WriterOK
  <2>. QED BY <2>1, TreeTyped
<1>2. run \in [pc : {"idle", "walk", "encrypt", "replace", "inject"}, key : Keys,
               exclude : Excludes \cup {{}}, seen : SUBSET Paths, path : Paths]
  BY DEF IInv, RunOK, WorkInv, WriterOK
<1>. QED BY <1>1, <1>2 DEF TypeOK, IInv, TreeOK, RunOK, WorkInv, WriterOK, ReadInv, ReaderOK

\* Nothing has been read.
LEMMA InitRead == Init => ReadInv
  BY DEF Init, ReadInv, ReaderOK, OutOK, NoRun, NoDec

\* direnc runs before the disc is read.
LEMMA WriterRead ==
    ASSUME ReadInv, Disc, dec.pc = "idle", decResult = "none",
           result' \in {"none", "running", "ok", "failed", "killed"},
           decryptor' \in {"none", "partial", "complete"}
    PROVE  ReadInv'
  BY DEF ReadInv, ReaderOK, OutOK, Disc

\* discdecrypt opens a file, or copies it, and is done with it.
LEMMA FileRead == ASSUME IInv, WorkInv, ReadInv, DecFile PROVE ReadInv'
<1>1. PICK p \in Listed \ dec.seen :
         \/ Copies(Content(p)) /\ DecDone(p, Content(p))
         \/ Opens(Content(p)) /\ DecDone(p, [Content(p) EXCEPT !.layers = Front(@)])
  BY DEF DecFile
<1>2. PICK c : /\ DecDone(p, c)
               /\ \/ Copies(Content(p)) /\ c = Content(p)
                  \/ Opens(Content(p)) /\ c = [Content(p) EXCEPT !.layers = Front(@)]
  BY <1>1
<1>3. /\ dec' = [dec EXCEPT !.seen = @ \cup {p}] /\ out' = Put(out, p, c) /\ dec.pc = "walk"
      /\ UNCHANGED <<tree, links, run, runs, result, decryptor, decResult>>
  BY <1>2 DEF DecDone, direnc, DecFile
<1>4. dec'.pc = "walk" /\ dec'.seen = dec.seen \cup {p} /\ dec'.creds = dec.creds
  BY <1>3 DEF ReadInv, ReaderOK
<1>5. p \in DOMAIN tree \cup links /\ p \in Paths
  <2>1. \A f \in Links : Itself(f) \in Paths
    BY DiscAssumption DEF Itself, Paths
  <2>. QED BY <2>1 DEF Listed, IInv, TreeOK
<1>6. Content(p) \in Contents /\ Content(p) \in FileContents
  BY <1>5, TreeTyped, ContentFacts DEF IInv
<1>7. Opens(Content(p)) =>
         /\ Front(Content(p).layers) \in SeqOf(Keys, 2 * MaxRuns)
         /\ Len(Content(p).layers) <= 1 => Front(Content(p).layers) = <<>>
  <2>. SUFFICES ASSUME Opens(Content(p))
                PROVE  /\ Front(Content(p).layers) \in SeqOf(Keys, 2 * MaxRuns)
                       /\ Len(Content(p).layers) <= 1 => Front(Content(p).layers) = <<>>
    OBVIOUS
  <2>1. Content(p).layers \in Seq(Keys) /\ Content(p).layers # <<>> /\ 2 * MaxRuns \in Nat
        /\ Content(p).layers \in SeqOf(Keys, 2 * MaxRuns)
    BY <1>6, DiscAssumption DEF Opens, FileContents, Contents
  <2>2. Len(Content(p).layers) <= 2 * MaxRuns /\ Len(Content(p).layers) \in Nat
    BY <2>1, SeqOfFacts
  <2>3. /\ Front(Content(p).layers) \in Seq(Keys)
        /\ Len(Front(Content(p).layers)) = Len(Content(p).layers) - 1
        /\ Len(Content(p).layers) <= 1 => Front(Content(p).layers) = <<>>
    BY <2>1, FrontFacts
  <2>. QED BY <2>1, <2>2, <2>3, SeqOfFacts
<1>8. c \in Contents
  BY <1>2, <1>6, <1>7 DEF Contents
<1>9. /\ DOMAIN out' = DOMAIN out \cup {p} /\ out'[p] = c
      /\ \A q \in DOMAIN out : q # p => out'[q] = out[q]
  BY <1>3 DEF Put
<1>10. ReaderOK'
  <2>1. dec' \in [pc : {"idle", "walk"}, creds : SUBSET Keys, seen : SUBSET Paths]
    BY <1>3, <1>5 DEF ReadInv, ReaderOK
  <2>2. \A q \in DOMAIN out' : out'[q] \in Contents
    BY <1>8, <1>9 DEF ReadInv, ReaderOK
  <2>. QED BY <1>3, <1>5, <1>9, <2>1, <2>2 DEF ReadInv, ReaderOK
<1>11. ASSUME runs <= 1, NEW f \in Files \ Links, Itself(f) \in dec'.seen
       PROVE  Restored(f)'
  <2>1. CASE Itself(f) # p
    <3>1. Itself(f) \in dec.seen /\ Itself(f) \in DOMAIN out /\ out[Itself(f)] = Plain(f)
      BY <1>3, <1>4, <1>11, <2>1 DEF ReadInv, OutOK, Restored
    <3>. QED BY <1>9, <2>1, <3>1 DEF Restored
  <2>2. CASE Itself(f) = p
    <3>1. /\ Content(p).of = f /\ Content(p).whole = TRUE /\ p.file = f
          /\ p \in DOMAIN tree /\ Content(p) = tree[p]
      BY <2>2, ContentFacts DEF IInv, TreeOK, Holds, Source, Content, WorkInv, WriterOK, Itself
    <3>2. run.pc = "idle" /\ runs \in Nat
      BY <1>3, DiscAssumption DEF ReadInv, ReaderOK, IInv, RunOK
    <3>3. Len(Content(p).layers) <= runs /\ Content(p).layers \in Seq(Keys)
      <4>1. Len(tree[p].layers) <= Rounds(p) + Slot(p)
        BY <3>1 DEF WorkInv, LayersOK
      <4>2. Rounds(p) = runs /\ Slot(p) = 0
        BY <3>1, <3>2 DEF Rounds, Slot
      <4>. QED BY <1>6, <3>1, <3>2, <4>1, <4>2 DEF FileContents
    <3>4. Len(Content(p).layers) <= 1
      BY <1>11, <3>2, <3>3
    <3>5. c.layers = <<>>
      <4>1. CASE Copies(Content(p)) /\ c = Content(p)
        BY <3>1, <4>1 DEF Copies
      <4>2. CASE Opens(Content(p)) /\ c = [Content(p) EXCEPT !.layers = Front(@)]
        BY <1>6, <1>7, <3>4, <4>2 DEF FileContents
      <4>. QED BY <1>2, <4>1, <4>2
    <3>6. c.of = f /\ c.whole = TRUE
      BY <1>2, <1>6, <3>1 DEF FileContents
    <3>7. c = Plain(f)
      BY <1>8, <3>5, <3>6 DEF Contents, Plain
    <3>. QED BY <1>9, <2>2, <3>7 DEF Restored
  <2>. QED BY <2>1, <2>2
<1>12. OutOK'
  <2>1. dec'.seen \subseteq DOMAIN out' /\ decResult' = "none"
    BY <1>3, <1>4, <1>9 DEF ReadInv, OutOK
  <2>. QED BY <1>3, <1>11, <2>1 DEF OutOK
<1>. QED BY <1>10, <1>12 DEF ReadInv

\* discdecrypt starts, fails or ends.
LEMMA EndsRead ==
    ASSUME IInv, WorkInv, ReadInv, DecStarts \/ DecFails \/ DecEnds
    PROVE  ReadInv'
<1>1. UNCHANGED <<tree, links, run, runs, result, decryptor>>
  BY DEF DecStarts, DecFails, DecEnds, direnc
<1>2. CASE DecStarts
  BY <1>1, <1>2 DEF DecStarts, ReadInv, ReaderOK, OutOK
<1>3. CASE DecFails
  <2>1. PICK p \in Listed \ dec.seen :
           out' \in {out, Put(out, p, [Content(p) EXCEPT !.whole = FALSE])}
    BY <1>3 DEF DecFails
  <2>2. p \in DOMAIN tree \cup links /\ p \in Paths
    <3>1. \A f \in Links : Itself(f) \in Paths
      BY DiscAssumption DEF Itself, Paths
    <3>. QED BY <3>1 DEF Listed, IInv, TreeOK
  <2>. DEFINE c == [Content(p) EXCEPT !.whole = FALSE]
  <2>3. c \in Contents
    <3>1. Content(p) \in Contents
      BY <2>2, TreeTyped
    <3>. QED BY <3>1 DEF Contents
  <2>. HIDE DEF c
  <2>4. \A q \in DOMAIN out' : out'[q] \in Contents /\ q \in Paths
    <3>1. CASE out' = out
      BY <3>1 DEF ReadInv, ReaderOK
    <3>2. CASE out' = Put(out, p, c)
      BY <2>2, <2>3, <3>2 DEF Put, ReadInv, ReaderOK
    <3>. QED BY <2>1, <3>1, <3>2 DEF c
  <2>5. dec' = NoDec /\ decResult' = "failed" /\ dec.pc = "walk"
    BY <1>3 DEF DecFails
  <2>. QED BY <1>1, <2>4, <2>5 DEF ReadInv, ReaderOK, OutOK, NoDec
<1>4. CASE DecEnds
  <2>1. /\ dec' = NoDec /\ decResult' = "ok" /\ dec.pc = "walk" /\ out' = out
        /\ Listed \subseteq dec.seen
    BY <1>4 DEF DecEnds
  <2>2. Listed' \subseteq DOMAIN out'
    BY <1>1, <2>1 DEF ReadInv, OutOK, Listed
  <2>3. ASSUME runs <= 1, NEW f \in Files \ (Links \cup Hidden) PROVE Restored(f)'
    <3>1. Itself(f) \in Listed
      BY DEF Listed, IInv, TreeOK, Holds, Itself
    <3>. QED BY <2>1, <2>3, <3>1 DEF ReadInv, OutOK, Restored
  <2>. QED BY <1>1, <2>1, <2>2, <2>3 DEF ReadInv, ReaderOK, OutOK, NoDec
<1>. QED BY <1>2, <1>3, <1>4

\* Every step keeps it.
LEMMA NextRead == IInv /\ WorkInv /\ ReadInv /\ [Next]_vars => ReadInv'
<1>. SUFFICES ASSUME IInv, WorkInv, ReadInv, [Next]_vars PROVE ReadInv'
  OBVIOUS
<1>1. CASE UNCHANGED vars
  BY <1>1 DEF vars, direnc, ReadInv, ReaderOK, OutOK, Restored, Listed
<1>2. CASE RunStarts
  BY <1>2, WriterRead DEF RunStarts, ReadInv, ReaderOK
<1>3. CASE \/ Skips \/ EncBegins \/ EncEnds \/ EncFails \/ Replaces \/ ReplaceFails
           \/ WalkEnds \/ Injects \/ InjectFails \/ Killed
  <2>1. run.pc # "idle" /\ Disc
    BY <1>3 DEF Skips, EncBegins, EncEnds, EncFails, Replaces, ReplaceFails, WalkEnds, Injects,
                InjectFails, Killed
  <2>2. /\ result' \in {"none", "running", "ok", "failed", "killed"}
        /\ decryptor' \in {"none", "partial", "complete"}
    BY <1>3 DEF ReadInv, ReaderOK, Skips, EncBegins, EncEnds, EncFails, Replaces, ReplaceFails,
                WalkEnds, Injects, InjectFails, Killed, Ends
  <2>3. dec.pc = "idle" /\ decResult = "none"
    BY <2>1 DEF ReadInv, ReaderOK
  <2>. QED BY <2>1, <2>2, <2>3, WriterRead
<1>. QED BY <1>1, <1>2, <1>3, FileRead, EndsRead DEF Next

\* It holds in every state.
LEMMA ReadInductive == Spec => [](IInv /\ WorkInv /\ ReadInv)
  BY InitInv, InitWork, InitRead, NextInv, NextWork, NextRead, PTL DEF Spec

\* Every state is of its type: no path ever has more layers than two per run, and a run of
\* direnc has no temporary file between two files.
THEOREM DiscTypeCorrect == Spec => []TypeOK
  BY ReadInductive, Typed, PTL

\* What direnc ran over once, however it ended, discdecrypt gives back as it was (run of
\* direnc.rs, then run of discdecrypt.rs).
THEOREM OnceIsUndone == Spec => []RoundTrip
<1>1. ReadInv => RoundTrip
  BY DEF ReadInv, OutOK, Restored, RoundTrip
<1>. QED BY ReadInductive, <1>1, PTL

\* A decryption that says it succeeded left nothing out that it can reach (run of
\* discdecrypt.rs).
THEOREM MirrorIsComplete == Spec => []MirrorComplete
<1>1. ReadInv => MirrorComplete
  BY DEF ReadInv, OutOK, MirrorComplete
<1>. QED BY ReadInductive, <1>1, PTL
=============================================================================
