-------------------------- MODULE DiscKeys_proofs --------------------------
(***************************************************************************)
(* What was sealed with <prefix>.ek opens with <prefix>.dk, for every set  *)
(* of key generations, prefixes, parts and passwords, however generations, *)
(* direnc and discdecrypt are interleaved, as long as the prefix was left  *)
(* to one generation at a time; a run of discdecrypt that refuses has a    *)
(* cause, and one that reports success opened every part.                  *)
(***************************************************************************)
EXTENDS DiscKeys, TLAPS

(***************************************************************************)
(* The inductive invariant.  The argument: into a prefix out of trouble    *)
(* one generation writes at most, and while none does the two files are of *)
(* one pair, or absent; from its first use on no generation writes there,  *)
(* so that the pair that sealed a part is the one that is read later.  No  *)
(* part is sealed once the disc is burnt, and nothing is decrypted before. *)
(***************************************************************************)

Busy(g)    == gen[g].pc \notin {"idle", "done", "failed"}
Into(g, q) == Busy(g) /\ gen[g].prefix = q

OneAtATime(q) == \A g, h \in Gens : Into(g, q) /\ Into(h, q) => g = h
PairGrows(q)  == \A g \in Gens : Into(g, q) /\ gen[g].pc # "fill ek" => ek[q] = g
PairWhole(q)  == ~Generating(q) => ek[q] = dk[q]
UsedAtRest(q) == Used(q) => ~Generating(q)

SealedWith(q) ==
    /\ enc.from = q => enc.cred = ek[q]
    /\ \A part \in Parts : origin[part] = q => disc[part] = ek[q]

KeyOK(q) ==
    OneAtATime(q) /\ PairGrows(q) /\ PairWhole(q) /\ UsedAtRest(q) /\ SealedWith(q)

KeysOK == \A q \in Prefixes \ troubled : KeyOK(q)

DiscFirst ==
    /\ dec.pc # "idle" \/ win.open => burnt
    /\ burnt => enc.cred = None
    /\ enc.cred = None => enc.from = None

IInv == TypeOK /\ KeysOK /\ DiscFirst /\ SameNameOpens

\* The assumptions, as the proofs use them.
LEMMA NamesApart ==
    /\ Default \in Prefixes /\ None \notin Prefixes
    /\ None \notin Gens /\ None \notin Passwords /\ Chosen \subseteq Passwords
  BY DefaultAssumption, NamesAssumption DEF Outside

\* No generation has begun, no part is sealed and no run has been made.
LEMMA InitEstablishes == Init => IInv
<1> SUFFICES ASSUME Init PROVE IInv
  OBVIOUS
<1>1. TypeOK
  BY NamesApart DEF Init, TypeOK, KeysTyped, EncTyped, DecTyped, KeyFile, NoRun
<1>2. KeysOK
  <2> SUFFICES ASSUME NEW q \in Prefixes
               PROVE  KeyOK(q)
    BY DEF KeysOK
  <2>1. \A g \in Gens : ~Busy(g)
    BY DEF Init, Busy
  <2>2. ~Used(q)
    BY NamesApart DEF Init, Used
  <2> QED
    BY <2>1, <2>2, NamesApart
    DEF Init, KeyOK, OneAtATime, PairGrows, PairWhole, UsedAtRest, SealedWith, Into, Generating, Busy
<1>3. DiscFirst /\ SameNameOpens
  BY DEF Init, DiscFirst, SameNameOpens, NoRun
<1> QED
  BY <1>1, <1>2, <1>3 DEF IInv

-----------------------------------------------------------------------------
(* Steps that leave one of the three groups of variables alone. *)

\* direnc and its disc keep their type while nothing is prepared.
LEMMA EncTypeStays == EncTyped /\ UNCHANGED <<encVars, burnt>> => EncTyped'
  BY DEF EncTyped, encVars

\* The decryptor keeps its type while it does not step.
LEMMA DecTypeStays == DecTyped /\ UNCHANGED decVars => DecTyped'
  BY DEF DecTyped, decVars

\* The key files and their generations keep their type while none steps.
LEMMA KeysTypeStays ==
    ASSUME KeysTyped, UNCHANGED genVars, troubled' \subseteq Prefixes
    PROVE  KeysTyped'
  BY DEF KeysTyped, genVars

\* A prefix keeps what holds of it when neither a generation into it, nor its
\* files, nor direnc steps.
LEMMA Elsewhere ==
    ASSUME NEW q \in Prefixes, KeyOK(q),
           \A h \in Gens : /\ Into(h, q)' <=> Into(h, q)
                           /\ Into(h, q) => gen'[h] = gen[h],
           ek'[q] = ek[q], dk'[q] = dk[q], UNCHANGED <<enc, disc, origin>>
    PROVE  KeyOK(q)'
<1>1. Generating(q)' <=> Generating(q)
  BY DEF Generating, Into, Busy
<1>2. Used(q)' <=> Used(q)
  BY DEF Used
<1>3. OneAtATime(q)' /\ PairGrows(q)'
  BY DEF KeyOK, OneAtATime, PairGrows
<1>4. PairWhole(q)' /\ UsedAtRest(q)' /\ SealedWith(q)'
  BY <1>1, <1>2 DEF KeyOK, PairWhole, UsedAtRest, SealedWith
<1> QED
  BY <1>3, <1>4 DEF KeyOK

\* So do all of them when only the decryptor steps.
LEMMA KeysStay ==
    ASSUME KeysOK, UNCHANGED <<genVars, encVars>>, troubled \subseteq troubled'
    PROVE  KeysOK'
<1> SUFFICES ASSUME NEW q \in Prefixes, q \notin troubled'
             PROVE  KeyOK(q)'
  BY DEF KeysOK
<1>1. KeyOK(q) /\ UNCHANGED <<ek, dk, gen, enc, disc, origin>>
  BY DEF KeysOK, genVars, encVars
<1> QED
  BY <1>1, Elsewhere DEF Into, Busy

-----------------------------------------------------------------------------
(* A step of a key generation. *)

\* It leaves disc and decryptor alone: only the pairs are to be looked at.
LEMMA GenerationKeepsRest ==
    ASSUME IInv, UNCHANGED <<encVars, burnt, decVars>>,
           troubled \subseteq troubled', KeysTyped', KeysOK'
    PROVE  IInv'
<1>1. TypeOK'
  BY EncTypeStays, DecTypeStays DEF IInv, TypeOK
<1>2. DiscFirst' /\ SameNameOpens'
  BY DEF IInv, DiscFirst, SameNameOpens, encVars, decVars
<1> QED
  BY <1>1, <1>2 DEF IInv

\* The generation that begins is the only one into its prefix, and the prefix
\* not in use; or the prefix is in trouble.
LEMMA BeginsKeeps ==
    ASSUME IInv, NEW g \in Gens, NEW p \in Prefixes, Begins(g, p)
    PROVE  IInv'
<1> USE DEF IInv
<1>1. KeysTyped'
  BY DEF TypeOK, KeysTyped, Begins, KeyFile
<1>2. /\ gen'[g].pc = "fill ek" /\ gen'[g].prefix = p
      /\ \A h \in Gens : h # g => gen'[h] = gen[h]
      /\ \A q \in Prefixes : q # p => ek'[q] = ek[q]
      /\ UNCHANGED <<dk, enc, disc, origin>>
  BY DEF TypeOK, KeysTyped, Begins, encVars
<1>3. ASSUME NEW q \in Prefixes, q \notin troubled'
      PROVE  KeyOK(q)'
  <2>1. q \notin troubled /\ KeyOK(q)
    BY <1>3 DEF KeysOK, Begins
  <2>2. CASE q = p
    <3>1. ~Generating(q) /\ ~Used(q)
      BY <1>3, <2>2 DEF Begins
    <3>2. \A h \in Gens : Into(h, q)' => h = g
      BY <1>2, <2>2, <3>1 DEF Into, Busy, Generating
    <3>3. Generating(q)' /\ OneAtATime(q)'
      BY <1>2, <2>2, <3>2 DEF Generating, OneAtATime
    <3>4. PairGrows(q)'
      BY <1>2, <3>2 DEF PairGrows
    <3>5. ~Used(q)'
      BY <1>2, <3>1 DEF Used
    <3> QED
      BY <3>3, <3>4, <3>5 DEF KeyOK, PairWhole, UsedAtRest, SealedWith, Used
  <2>3. CASE q # p
    <3>1. ~Busy(g) /\ ~Into(g, q)'
      BY <1>2, <2>3 DEF Begins, Into, Busy
    <3>2. \A h \in Gens : /\ Into(h, q)' <=> Into(h, q)
                          /\ Into(h, q) => gen'[h] = gen[h]
      BY <1>2, <3>1 DEF Into, Busy
    <3> QED
      BY <1>2, <2>1, <2>3, <3>2, Elsewhere
  <2> QED
    BY <2>2, <2>3
<1> QED
  BY <1>1, <1>3, GenerationKeepsRest DEF Begins, KeysOK

\* A generation that steps on keeps its type.
LEMMA StepTyped ==
    ASSUME NEW P, NEW pcs, NEW f \in [Gens -> [pc : pcs, prefix : P]],
           NEW g \in Gens, NEW to \in pcs
    PROVE  [f EXCEPT ![g].pc = to] \in [Gens -> [pc : pcs, prefix : P]]
  OBVIOUS

\* A step of a generation that is under way touches its own prefix only, and
\* keeps what holds of that one when its .ek holds the generation's key by
\* now, and both files when it is done.
LEMMA MovesKeep ==
    ASSUME IInv, NEW g \in Gens, NEW from, from \notin {"idle", "done", "failed"},
           NEW to \in {"open dk", "fill dk", "done"}, Moves(g, from, to),
           NEW p \in Prefixes, gen[g].prefix = p,
           ek' \in [Prefixes -> KeyFile], dk' \in [Prefixes -> KeyFile],
           \A q \in Prefixes : q # p => ek'[q] = ek[q] /\ dk'[q] = dk[q],
           p \notin troubled => ek'[p] = g,
           to = "done" => dk'[p] = g
    PROVE  IInv'
<1> USE DEF IInv
<1>1. /\ gen'[g].pc = to /\ gen'[g].prefix = p /\ Into(g, p)
      /\ \A h \in Gens : h # g => gen'[h] = gen[h]
      /\ UNCHANGED <<enc, disc, origin, troubled>>
  BY DEF TypeOK, KeysTyped, Moves, Into, Busy, encVars
<1>2. KeysTyped'
  <2>1. KeysTyped /\ troubled' = troubled /\ gen' = [gen EXCEPT ![g].pc = to]
    BY DEF TypeOK, Moves
  <2> QED
    BY <2>1, StepTyped DEF KeysTyped
<1>3. ASSUME NEW q \in Prefixes, q \notin troubled'
      PROVE  KeyOK(q)'
  <2>1. q \notin troubled /\ KeyOK(q)
    BY <1>1, <1>3 DEF KeysOK
  <2>2. CASE q = p
    <3>1. \A h \in Gens : Into(h, q) => h = g
      BY <1>1, <2>1, <2>2 DEF KeyOK, OneAtATime
    <3>2. \A h \in Gens : Into(h, q)' => h = g
      BY <1>1, <3>1 DEF Into, Busy
    <3>3. OneAtATime(q)'
      BY <3>2 DEF OneAtATime
    <3>4. PairGrows(q)'
      BY <2>1, <2>2, <3>2 DEF PairGrows
    <3>5. ~Used(q)
      BY <1>1, <2>1, <2>2 DEF KeyOK, UsedAtRest, Generating, Into, Busy
    <3>6. ~Used(q)'
      BY <1>1, <3>5 DEF Used
    <3>7. to # "done" => Generating(q)'
      BY <1>1, <2>2 DEF Generating
    <3>8. PairWhole(q)'
      BY <2>1, <2>2, <3>7 DEF PairWhole
    <3> QED
      BY <3>3, <3>4, <3>6, <3>8 DEF KeyOK, UsedAtRest, SealedWith, Used
  <2>3. CASE q # p
    <3>1. ~Into(g, q) /\ ~Into(g, q)'
      BY <1>1, <2>3 DEF Into
    <3>2. \A h \in Gens : /\ Into(h, q)' <=> Into(h, q)
                          /\ Into(h, q) => gen'[h] = gen[h]
      BY <1>1, <3>1 DEF Into, Busy
    <3> QED
      BY <1>1, <2>1, <2>3, <3>2, Elsewhere
  <2> QED
    BY <2>2, <2>3
<1> QED
  BY <1>2, <1>3, GenerationKeepsRest DEF Moves, KeysOK

\* Each of its writes is such a step.
LEMMA WritesKeep ==
    ASSUME IInv, NEW g \in Gens, FillsEk(g) \/ OpensDk(g) \/ FillsDk(g)
    PROVE  IInv'
<1> DEFINE p == gen[g].prefix
<1>1. p \in Prefixes /\ KeysTyped
  BY DEF IInv, TypeOK, KeysTyped
<1>2. gen[g].pc \in {"open dk", "fill dk"} /\ p \notin troubled => ek[p] = g
  BY <1>1 DEF IInv, KeysOK, KeyOK, PairGrows, Into, Busy
<1>3. CASE FillsEk(g)
  <2>1. /\ ek' \in [Prefixes -> KeyFile] /\ ek'[p] = g /\ dk' = dk
        /\ \A q \in Prefixes : q # p => ek'[q] = ek[q]
    BY <1>1, <1>3 DEF FillsEk, KeysTyped, KeyFile
  <2> QED
    BY <1>1, <1>3, <2>1, MovesKeep DEF FillsEk, KeysTyped
<1>4. CASE OpensDk(g)
  <2>1. /\ dk' \in [Prefixes -> KeyFile] /\ ek' = ek
        /\ \A q \in Prefixes : q # p => dk'[q] = dk[q]
        /\ gen[g].pc = "open dk"
    BY <1>1, <1>4 DEF OpensDk, Moves, KeysTyped, KeyFile
  <2>2. Moves(g, "open dk", "fill dk")
    BY <1>4 DEF OpensDk
  <2>3. ek' \in [Prefixes -> KeyFile] /\ (p \notin troubled => ek'[p] = g)
    BY <1>1, <1>2, <2>1 DEF KeysTyped
  <2> QED
    BY <1>1, <2>1, <2>2, <2>3, MovesKeep
<1>5. CASE FillsDk(g)
  <2>1. /\ dk' \in [Prefixes -> KeyFile] /\ ek' = ek /\ dk'[p] = g
        /\ \A q \in Prefixes : q # p => dk'[q] = dk[q]
        /\ gen[g].pc = "fill dk"
    BY <1>1, <1>5 DEF FillsDk, Moves, KeysTyped, KeyFile
  <2>2. Moves(g, "fill dk", "done")
    BY <1>5 DEF FillsDk
  <2>3. ek' \in [Prefixes -> KeyFile] /\ (p \notin troubled => ek'[p] = g)
    BY <1>1, <1>2, <2>1 DEF KeysTyped
  <2> QED
    BY <1>1, <2>1, <2>2, <2>3, MovesKeep
<1> QED
  BY <1>3, <1>4, <1>5

\* A generation that stops early leaves its prefix in trouble.
LEMMA StopsKeeps ==
    ASSUME IInv, NEW g \in Gens, StopsEarly(g)
    PROVE  IInv'
<1> DEFINE p == gen[g].prefix
<1>1. p \in Prefixes /\ KeysTyped
  BY DEF IInv, TypeOK, KeysTyped
<1>2. /\ gen' = [gen EXCEPT ![g].pc = "failed"]
      /\ troubled' = troubled \cup {p}
      /\ UNCHANGED <<ek, dk, enc, disc, origin>>
  BY DEF StopsEarly, encVars
<1>3. KeysTyped'
  BY <1>1, <1>2 DEF KeysTyped
<1>4. ASSUME NEW q \in Prefixes, q \notin troubled'
      PROVE  KeyOK(q)'
  <2>1. KeyOK(q) /\ q # p
    BY <1>2, <1>4 DEF IInv, KeysOK
  <2>2. /\ gen'[g].prefix = p
        /\ \A h \in Gens : h # g => gen'[h] = gen[h]
    BY <1>1, <1>2 DEF KeysTyped
  <2>3. ~Into(g, q) /\ ~Into(g, q)'
    BY <2>1, <2>2 DEF Into
  <2>4. \A h \in Gens : /\ Into(h, q)' <=> Into(h, q)
                        /\ Into(h, q) => gen'[h] = gen[h]
    BY <2>2, <2>3 DEF Into, Busy
  <2> QED
    BY <1>2, <2>1, <2>4, Elsewhere
<1> QED
  BY <1>2, <1>3, <1>4, GenerationKeepsRest DEF StopsEarly, KeysOK

-----------------------------------------------------------------------------
(* Steps of direnc. *)

\* They come before the disc is burnt, so that nothing is being decrypted.
LEMMA PreparingKeepsRest ==
    ASSUME IInv, UNCHANGED <<genVars, decVars>>, troubled' \subseteq Prefixes,
           ~burnt, EncTyped', KeysOK', enc'.cred = None => enc'.from = None,
           burnt' => enc'.cred = None
    PROVE  IInv'
<1>1. TypeOK'
  BY KeysTypeStays, DecTypeStays DEF IInv, TypeOK
<1>2. dec.pc = "idle" /\ dec' = dec /\ ~win'.open
  BY DEF IInv, DiscFirst, decVars
<1> QED
  BY <1>1, <1>2 DEF IInv, DiscFirst, SameNameOpens

\* The key that is read is the one of a generation that is over.
LEMMA ResolvesKeeps ==
    ASSUME IInv, NEW pub \in Prefixes \cup {None},
           NEW pw \in Chosen \cup {None}, NEW typed \in Chosen \cup {None},
           Resolves(pub, pw, typed)
    PROVE  IInv'
<1> DEFINE from == EkNamed(pub, pw)
           cred == CASE from # None /\ Loads(ek[from]) -> ek[from]
                     [] from = None /\ pw # None -> pw
                     [] from = None /\ pw = None -> typed
                     [] OTHER -> None
<1>1. from \in Prefixes \cup {None}
  BY NamesApart DEF EkNamed
<1>2. cred \in Gens \cup Chosen \cup {None} /\ (from # None /\ cred # None => cred = ek[from])
  BY <1>1 DEF Loads
<1>3. /\ ~burnt /\ UNCHANGED <<disc, origin, genVars, burnt, decVars>>
      /\ enc.cred = None
      /\ enc' = IF cred = None THEN enc ELSE [cred |-> cred, from |-> from]
      /\ troubled' = Read(from)
  BY DEF Resolves
<1> HIDE DEF from, cred
<1>4. troubled \subseteq troubled' /\ troubled' \subseteq Prefixes
  BY <1>1, <1>3 DEF Read, IInv, TypeOK, KeysTyped
<1>5. EncTyped'
  BY <1>1, <1>2, <1>3 DEF IInv, TypeOK, EncTyped
<1>6. ASSUME NEW q \in Prefixes, q \notin troubled'
      PROVE  KeyOK(q)'
  <2>1. KeyOK(q) /\ UNCHANGED <<ek, dk, gen>>
    BY <1>3, <1>4, <1>6 DEF IInv, KeysOK, genVars
  <2>2. OneAtATime(q)' /\ PairGrows(q)' /\ PairWhole(q)'
    BY <2>1 DEF KeyOK, OneAtATime, PairGrows, PairWhole, Into, Busy, Generating
  <2>3. from = q => ~Generating(q)
    BY <1>3, <1>6, NamesApart DEF Read
  <2>4. CASE enc' = enc
    BY <1>3, <2>1, <2>2, <2>4 DEF KeyOK, UsedAtRest, SealedWith, Used, Generating
  <2>5. CASE cred # None /\ enc' = [cred |-> cred, from |-> from]
    <3>1. enc'.from = from /\ enc'.cred = cred
      BY <2>5
    <3>2. UsedAtRest(q)'
      BY <1>3, <2>1, <2>3, <3>1 DEF KeyOK, UsedAtRest, Used, Generating
    <3>3. SealedWith(q)'
      BY <1>2, <1>3, <2>1, <2>5, <3>1, NamesApart DEF KeyOK, SealedWith
    <3> QED
      BY <2>2, <3>2, <3>3 DEF KeyOK
  <2> QED
    BY <1>3, <2>4, <2>5
<1>7. (enc'.cred = None => enc'.from = None) /\ ~burnt'
  BY <1>3 DEF IInv, DiscFirst
<1> QED
  BY <1>3, <1>4, <1>5, <1>6, <1>7, PreparingKeepsRest DEF KeysOK

\* What is sealed is sealed with the key that was read.
LEMMA SealsKeeps ==
    ASSUME IInv, NEW chosen \in SUBSET Parts, Seals(chosen)
    PROVE  IInv'
<1>1. EncTyped /\ ~burnt /\ UNCHANGED <<genVars, burnt, decVars, troubled>>
  BY DEF IInv, TypeOK, DiscFirst, Seals
<1>2. EncTyped'
  BY <1>1 DEF Seals, EncTyped
<1>3. /\ enc'.cred = None /\ enc'.from = None
      /\ \A part \in Parts :
            \/ disc'[part] = enc.cred /\ origin'[part] = enc.from
            \/ disc'[part] = disc[part] /\ origin'[part] = origin[part]
  BY DEF Seals
<1>4. ASSUME NEW q \in Prefixes, q \notin troubled'
      PROVE  KeyOK(q)'
  <2>1. KeyOK(q) /\ UNCHANGED <<ek, dk, gen>> /\ q # None
    BY <1>1, <1>4, NamesApart DEF IInv, KeysOK, genVars
  <2>2. OneAtATime(q)' /\ PairGrows(q)' /\ PairWhole(q)'
    BY <2>1 DEF KeyOK, OneAtATime, PairGrows, PairWhole, Into, Busy, Generating
  <2>3. Used(q)' => Used(q)
    BY <1>3, <2>1 DEF Used
  <2>4. UsedAtRest(q)'
    BY <2>1, <2>3 DEF KeyOK, UsedAtRest, Generating
  <2>5. SealedWith(q)'
    BY <1>3, <2>1 DEF KeyOK, SealedWith
  <2> QED
    BY <2>2, <2>4, <2>5 DEF KeyOK
<1>5. troubled' \subseteq Prefixes
  BY <1>1 DEF IInv, TypeOK, KeysTyped
<1> QED
  BY <1>1, <1>2, <1>3, <1>4, <1>5, PreparingKeepsRest DEF KeysOK

\* The directory is burnt when no key is held.
LEMMA BurnsKeeps == ASSUME IInv, Burns PROVE IInv'
<1>1. EncTyped' /\ troubled' \subseteq Prefixes
  BY DEF IInv, TypeOK, EncTyped, KeysTyped, Burns, encVars
<1>2. KeysOK' /\ enc' = enc
  BY KeysStay DEF IInv, Burns, encVars
<1> QED
  BY <1>1, <1>2, PreparingKeepsRest DEF IInv, DiscFirst, Burns

-----------------------------------------------------------------------------
(* Steps of discdecrypt and of its window. *)

\* The decryptor changes nothing that the keys depend on; from the burning of
\* the disc on no credential is resolved.
LEMMA DecryptingKeepsRest ==
    ASSUME IInv, UNCHANGED <<genVars, encVars, burnt>>,
           troubled \subseteq troubled', troubled' \subseteq Prefixes,
           DecTyped', dec'.pc # "idle" \/ win'.open => burnt, SameNameOpens'
    PROVE  IInv'
<1>1. TypeOK'
  BY KeysTypeStays, EncTypeStays DEF IInv, TypeOK
<1>2. KeysOK'
  BY KeysStay DEF IInv
<1>3. DiscFirst'
  BY DEF IInv, DiscFirst, encVars
<1> QED
  BY <1>1, <1>2, <1>3 DEF IInv

\* A run that starts reads the key of a generation that is over, so that it
\* is of one pair with the public key, which sealed the part.
LEMMA StartsKeeps ==
    ASSUME IInv, burnt, DecTyped,
           NEW pc \in {"running", "refused", "bad key"},
           NEW from \in Prefixes \cup {None},
           NEW pw \in Passwords \cup {None}, NEW given \in Passwords \cup {None},
           Starts(pc, from, pw, given),
           win' \in [open : BOOLEAN, running : BOOLEAN,
                     status : {"ready", "decrypting", "ok", "error"}]
    PROVE  IInv'
<1>1. /\ dec'.from = from /\ out' = {}
      /\ dec' = [pc |-> pc, from |-> from, pw |-> pw, given |-> given,
                 key |-> IF from # None THEN dk[from] ELSE None]
      /\ from # None => dec'.key = dk[from]
      /\ troubled' = Read(from)
      /\ UNCHANGED <<genVars, encVars, burnt>>
  BY DEF Starts
<1>2. troubled \subseteq troubled' /\ troubled' \subseteq Prefixes
  BY <1>1 DEF Read, IInv, TypeOK, KeysTyped
<1>3. DecTyped'
  <2> DEFINE key == IF from # None THEN dk[from] ELSE None
  <2>1. key \in KeyFile \cup {None}
    BY DEF IInv, TypeOK, KeysTyped
  <2> HIDE DEF key
  <2>2. [pc |-> pc, from |-> from, pw |-> pw, given |-> given, key |-> key] \in
            [pc : {"idle", "running", "ok", "failed", "io error", "refused", "bad key"},
             key : KeyFile \cup {None}, from : Prefixes \cup {None},
             pw : Passwords \cup {None}, given : Passwords \cup {None}]
    BY <2>1
  <2> QED
    BY <1>1, <2>2 DEF DecTyped, key
<1>4. SameNameOpens'
  <2> SUFFICES ASSUME NEW part \in Parts, dec'.from # None,
                      dec'.from = origin'[part], dec'.from \notin troubled'
               PROVE  dec'.key = disc'[part]
    BY DEF SameNameOpens
  <2>1. from \in Prefixes \ troubled /\ ~Generating(from)
    BY <1>1, <1>2 DEF Read
  <2>2. KeyOK(from) /\ origin[part] = from /\ disc'[part] = disc[part]
    BY <1>1, <2>1 DEF IInv, KeysOK, encVars
  <2>3. disc[part] = ek[from] /\ ek[from] = dk[from]
    BY <2>1, <2>2 DEF KeyOK, SealedWith, PairWhole
  <2> QED
    BY <1>1, <2>2, <2>3
<1> QED
  BY <1>1, <1>2, <1>3, <1>4, DecryptingKeepsRest

\* The command reads the key that was named, or the default.
LEMMA CommandKeeps ==
    ASSUME IInv, NEW key \in Prefixes \cup {None}, NEW pw \in Passwords \cup {None},
           NEW typed \in Passwords \cup {None}, Command(key, pw, typed)
    PROVE  IInv'
<1> DEFINE from == DkNamed(key)
           given == IF from = None /\ pw = None THEN typed ELSE pw
           pc == CASE from # None /\ ~Loads(dk[from]) -> "bad key"
                   [] from = None /\ given = None -> "refused"
                   [] OTHER -> "running"
<1>1. from \in Prefixes \cup {None}
  BY NamesApart DEF DkNamed
<1>2. given \in Passwords \cup {None}
  OBVIOUS
<1>3. pc \in {"running", "refused", "bad key"}
  OBVIOUS
<1>4. burnt /\ Starts(pc, from, given, given) /\ win' = win
  BY DEF Command
<1>5. DecTyped
  BY DEF IInv, TypeOK
<1> HIDE DEF from, given, pc
<1> QED
  BY <1>1, <1>2, <1>3, <1>4, <1>5, StartsKeeps DEF DecTyped

\* The window reads the key of its field.
LEMMA ClicksKeeps ==
    ASSUME IInv, NEW foldersGiven \in BOOLEAN, NEW field \in Prefixes \cup {None},
           NEW pass \in Passwords \cup {None}, Clicks(foldersGiven, field, pass)
    PROVE  IInv'
<1> DEFINE pc == CASE ~foldersGiven -> "refused"
                   [] foldersGiven /\ field # None /\ ~Loads(dk[field]) -> "bad key"
                   [] foldersGiven /\ field = None /\ pass = None -> "refused"
                   [] OTHER -> "running"
           from == IF foldersGiven THEN field ELSE None
           pw == IF field = None THEN pass ELSE None
<1>1. /\ pc \in {"running", "refused", "bad key"}
      /\ from \in Prefixes \cup {None}
      /\ pw \in Passwords \cup {None}
  OBVIOUS
<1>2. /\ win.open /\ Starts(pc, from, pw, pass)
      /\ win' = IF pc = "running"
                THEN [win EXCEPT !.running = TRUE, !.status = "decrypting"]
                ELSE [win EXCEPT !.status = "error"]
  BY DEF Clicks
<1>3. burnt /\ DecTyped
  BY <1>2 DEF IInv, TypeOK, DiscFirst
<1> HIDE DEF from, pw, pc
<1>4. win' \in [open : BOOLEAN, running : BOOLEAN,
                status : {"ready", "decrypting", "ok", "error"}]
  BY <1>2, <1>3 DEF DecTyped
<1> QED
  BY <1>1, <1>2, <1>3, <1>4, StartsKeeps

\* A window that opens or closes leaves no run behind.
LEMMA WindowKeeps == ASSUME IInv, OpensWindow \/ Closes PROVE IInv'
<1>1. /\ UNCHANGED <<genVars, encVars, burnt, troubled>>
      /\ dec' = NoRun /\ out' = {} /\ dec'.pc = "idle"
  BY DEF OpensWindow, Closes, NoRun
<1>2. win' \in [open : BOOLEAN, running : BOOLEAN,
                status : {"ready", "decrypting", "ok", "error"}]
  <2>1. CASE OpensWindow
    BY <2>1 DEF OpensWindow
  <2>2. CASE Closes
    BY <2>2 DEF Closes, IInv, TypeOK, DecTyped
  <2> QED
    BY <2>1, <2>2
<1>3. DecTyped' /\ troubled' \subseteq Prefixes
  BY <1>1, <1>2 DEF DecTyped, NoRun, IInv, TypeOK, KeysTyped
<1>4. SameNameOpens'
  BY <1>1 DEF SameNameOpens
<1>5. win'.open => burnt
  BY DEF OpensWindow, Closes, IInv, TypeOK, DecTyped
<1> QED
  BY <1>1, <1>3, <1>4, <1>5, DecryptingKeepsRest

\* A run goes on, ends or is shown with the key that it was started with.
LEMMA RunKeeps ==
    ASSUME IInv, Runs \/ Frame
    PROVE  IInv'
<1>1. DecTyped
  BY DEF IInv, TypeOK
<1>2. /\ UNCHANGED <<genVars, encVars, burnt, troubled>>
      /\ \/ dec' = dec
         \/ /\ dec.pc = "running"
            /\ \E pc \in {"failed", "ok", "io error"} : dec' = [dec EXCEPT !.pc = pc]
  BY DEF Runs, Frame, Serves, Finishes, IoError
<1>3. /\ dec'.from = dec.from /\ dec'.key = dec.key
      /\ dec'.pc = dec.pc \/ dec.pc = "running"
      /\ dec' \in [pc : {"idle", "running", "ok", "failed", "io error",
                         "refused", "bad key"},
                   key : KeyFile \cup {None}, from : Prefixes \cup {None},
                   pw : Passwords \cup {None}, given : Passwords \cup {None}]
  BY <1>1, <1>2 DEF DecTyped
<1>4. out' \subseteq Parts
  BY <1>1 DEF DecTyped, Runs, Frame, Serves, Finishes, IoError
<1>5. win' \in [open : BOOLEAN, running : BOOLEAN,
                status : {"ready", "decrypting", "ok", "error"}]
  BY <1>1 DEF DecTyped, Runs, Frame, Serves, Finishes, IoError
<1>6. SameNameOpens'
  BY <1>2, <1>3 DEF IInv, SameNameOpens, encVars
<1>7. win'.open = win.open
  BY <1>1 DEF DecTyped, Runs, Frame, Serves, Finishes, IoError
<1>8. dec'.pc # "idle" \/ win'.open => burnt
  BY <1>3, <1>7 DEF IInv, DiscFirst
<1>9. DecTyped' /\ troubled' \subseteq Prefixes
  BY <1>2, <1>3, <1>4, <1>5 DEF DecTyped, IInv, TypeOK, KeysTyped
<1> QED
  BY <1>2, <1>6, <1>8, <1>9, DecryptingKeepsRest

-----------------------------------------------------------------------------
(* The theorems. *)

\* Every step keeps the invariant.
LEMMA StepKeeps == ASSUME IInv, [Next]_vars PROVE IInv'
<1>1. CASE \E g \in Gens : Generates(g)
  BY <1>1, BeginsKeeps, WritesKeep, StopsKeeps DEF Generates
<1>2. CASE Prepares
  BY <1>2, ResolvesKeeps, SealsKeeps, BurnsKeeps DEF Prepares
<1>3. CASE Asks
  BY <1>3, CommandKeeps, WindowKeeps, ClicksKeeps DEF Asks
<1>4. CASE Runs \/ Frame
  BY <1>4, RunKeeps
<1>5. CASE UNCHANGED vars
  <2>1. UNCHANGED <<genVars, encVars, decVars, burnt, troubled>>
    BY <1>5 DEF vars, genVars, encVars, decVars
  <2>2. KeysTyped' /\ troubled' \subseteq Prefixes
    BY <2>1, KeysTypeStays DEF IInv, TypeOK, KeysTyped
  <2> QED
    BY <2>1, <2>2, KeysStay, GenerationKeepsRest DEF IInv, encVars, genVars
<1> QED
  BY <1>1, <1>2, <1>3, <1>4, <1>5 DEF Next

\* It holds in every state.
LEMMA Inductive == Spec => []IInv
<1>1. IInv /\ [Next]_vars => IInv'
  BY StepKeeps
<1> QED
  BY InitEstablishes, <1>1, PTL DEF Spec

\* Every state is of its type.
THEOREM KeysTypeCorrect == Spec => []TypeOK
<1>1. IInv => TypeOK
  BY DEF IInv
<1> QED
  BY Inductive, <1>1, PTL

\* The two key files of a prefix serve for each other (keyutil.rs, direnc,
\* discdecrypt): what was sealed with <prefix>.ek opens with the <prefix>.dk
\* that a later run reads, unless the prefix was not left to one generation.
THEOREM KeyFilesServe == Spec => []SameNameOpens
<1>1. IInv => SameNameOpens
  BY DEF IInv
<1> QED
  BY Inductive, <1>1, PTL

-----------------------------------------------------------------------------
(* What the decryptor tells of its run. *)

(***************************************************************************)
(* The invariant about a run, on top of IInv.  A part that was written was *)
(* opened with the credentials of the run, the run ended on a part that    *)
(* was not, and they are still what the run was started with; the window   *)
(* shows a success only while the run that it is about is the last one.    *)
(***************************************************************************)

DkFilled == \A q \in Prefixes \ troubled : dk[q] = "part" => Generating(q)

OutOpened ==
    /\ \A part \in out : Opened(part)
    /\ dec.pc = "idle" => out = {}

StatusTrue ==
    /\ dec.pc = "ok" => out = Parts
    /\ win.open /\ win.status = "ok" => dec.pc = "ok"

StuckOnPart == dec.pc = "failed" => \E part \in Parts \ out : ~Opened(part)

PwUsed ==
    dec.pc \in {"running", "failed"}
        => dec.pw = dec.given \/ (win.open /\ dec.key # None)

BadKeyRead == dec.pc = "bad key" => dec.key = "absent" \/ dec.from \in troubled

RunInv == OutOpened /\ StatusTrue /\ StuckOnPart /\ PwUsed /\ BadKeyRead

TellInv == DkFilled /\ RunInv

\* Nothing has been run.
LEMMA InitTells == Init => TellInv
  BY DEF Init, NoRun, TellInv, RunInv, DkFilled, OutOpened, StatusTrue, StuckOnPart, PwUsed, BadKeyRead

\* A private key is half written only by a generation that is under way, or
\* its prefix is in trouble.
LEMMA HalfWrittenKeeps ==
    ASSUME IInv, DkFilled, [Next]_vars
    PROVE  DkFilled'
<1> SUFFICES ASSUME NEW q \in Prefixes, q \notin troubled', dk'[q] = "part"
             PROVE  Generating(q)'
  BY DEF DkFilled
<1>1. KeysTyped /\ "part" \notin Gens
  BY NamesAssumption DEF IInv, TypeOK, Outside
<1>2. ASSUME UNCHANGED <<dk, gen>>, troubled \subseteq troubled'
      PROVE  Generating(q)'
  BY <1>2 DEF DkFilled, Generating
<1>3. CASE \E g \in Gens : Generates(g)
  <2>1. PICK g \in Gens : Generates(g)
    BY <1>3
  <2>2. \A h \in Gens : h # g => gen'[h] = gen[h]
    BY <1>1, <2>1 DEF Generates, Begins, FillsEk, OpensDk, FillsDk, StopsEarly, Moves, KeysTyped
  <2>3. /\ q \notin troubled
        /\ gen'[g].prefix = q /\ gen'[g].pc \in {"fill ek", "open dk", "fill dk"} => Generating(q)'
    BY <2>1 DEF Generates, Begins, FillsEk, OpensDk, FillsDk, StopsEarly, Moves, Generating
  <2>4. ASSUME gen[g].prefix # q, dk'[q] = dk[q] PROVE Generating(q)'
    <3>1. Generating(q)
      BY <2>3, <2>4 DEF DkFilled
    <3>2. PICK h \in Gens : gen[h].prefix = q /\ gen[h].pc \notin {"idle", "done", "failed"}
      BY <3>1 DEF Generating
    <3> QED
      BY <2>2, <2>4, <3>2 DEF Generating
  <2>5. ASSUME NEW p \in Prefixes, Begins(g, p)
        PROVE  Generating(q)'
    <3>1. gen'[g].pc = "fill ek" /\ gen'[g].prefix = p /\ dk' = dk /\ gen[g].pc = "idle"
      BY <1>1, <2>5 DEF Begins, KeysTyped
    <3>2. CASE p # q
      <4>1. Generating(q)
        BY <2>3, <3>1 DEF DkFilled
      <4> QED
        BY <2>2, <3>1, <4>1 DEF Generating
    <3> QED
      BY <2>3, <3>1, <3>2
  <2>6. CASE FillsEk(g) \/ OpensDk(g)
    <3>1. gen'[g].pc \in {"open dk", "fill dk"} /\ gen'[g].prefix = gen[g].prefix
      <4>1. PICK to \in {"open dk", "fill dk"} : gen' = [gen EXCEPT ![g].pc = to]
        BY <2>6 DEF FillsEk, OpensDk, Moves
      <4>2. gen[g] \in [pc : {"idle", "fill ek", "open dk", "fill dk", "done", "failed"},
                        prefix : Prefixes] /\ g \in DOMAIN gen
        BY <1>1 DEF KeysTyped
      <4>3. gen'[g] = [gen[g] EXCEPT !.pc = to]
        BY <4>1, <4>2
      <4> QED
        BY <4>2, <4>3
    <3>2. gen[g].prefix # q => dk'[q] = dk[q]
      BY <1>1, <2>6 DEF FillsEk, OpensDk, KeysTyped
    <3> QED
      BY <2>3, <2>4, <3>1, <3>2
  <2>7. CASE FillsDk(g)
    <3>1. dk' = [dk EXCEPT ![gen[g].prefix] = g] /\ gen[g].prefix \in Prefixes
      BY <1>1, <2>7 DEF FillsDk, KeysTyped
    <3>2. gen[g].prefix # q /\ dk'[q] = dk[q]
      BY <1>1, <3>1 DEF KeysTyped
    <3> QED
      BY <2>4, <3>2
  <2>8. CASE StopsEarly(g)
    <3>1. gen[g].prefix # q /\ dk' = dk
      BY <2>8 DEF StopsEarly
    <3> QED
      BY <2>4, <3>1
  <2> QED
    BY <2>1, <2>5, <2>6, <2>7, <2>8 DEF Generates
<1>4. CASE Prepares
  BY <1>2, <1>4 DEF Prepares, Resolves, Seals, Burns, genVars, Read
<1>5. CASE Asks
  BY <1>2, <1>5 DEF Asks, Command, OpensWindow, Clicks, Closes, Starts, genVars, Read
<1>6. CASE Runs \/ Frame
  BY <1>2, <1>6 DEF Runs, Serves, Finishes, IoError, Frame, genVars
<1>7. CASE UNCHANGED vars
  BY <1>2, <1>7 DEF vars, genVars
<1> QED
  BY <1>3, <1>4, <1>5, <1>6, <1>7 DEF Next

\* What a run tells stays as true as it was while neither the run, nor the
\* window, nor the disc changes.
LEMMA RunUntouched ==
    ASSUME RunInv, UNCHANGED <<decVars, disc>>, troubled \subseteq troubled'
    PROVE  RunInv'
<1>1. UNCHANGED <<dec, out, win, disc>>
  BY DEF decVars
<1>2. \A part : Opened(part)' <=> Opened(part)
  BY <1>1 DEF Opened
<1> QED
  BY <1>1, <1>2 DEF RunInv, OutOpened, StatusTrue, StuckOnPart, PwUsed, BadKeyRead

\* There is no run before the disc is burnt.
LEMMA PreparingTells == ASSUME IInv, RunInv, Prepares PROVE RunInv'
<1>1. CASE Burns
  BY <1>1, RunUntouched DEF Burns, encVars
<1>2. CASE \E pub \in Prefixes \cup {None}, pw, typed \in Chosen \cup {None} :
              Resolves(pub, pw, typed)
  BY <1>2, RunUntouched DEF Resolves, Read
<1>3. CASE \E chosen \in SUBSET Parts : Seals(chosen)
  <2>1. dec.pc = "idle" /\ ~win.open /\ UNCHANGED <<dec, out, win>> /\ out = {}
    BY <1>3 DEF Seals, decVars, IInv, DiscFirst, RunInv, OutOpened
  <2> QED
    BY <2>1 DEF RunInv, OutOpened, StatusTrue, StuckOnPart, PwUsed, BadKeyRead
<1> QED
  BY <1>1, <1>2, <1>3 DEF Prepares

\* A run starts with nothing written; a key that it cannot load is missing,
\* or its prefix is in trouble.
LEMMA StartingTells ==
    ASSUME IInv, DkFilled,
           NEW pc \in {"running", "refused", "bad key"},
           NEW from \in Prefixes \cup {None}, NEW pw, NEW given,
           Starts(pc, from, pw, given),
           pc = "bad key" => from # None /\ ~Loads(dk[from]),
           pc = "running" => pw = given \/ (win'.open /\ from # None),
           win'.open => win'.status # "ok"
    PROVE  RunInv'
<1>1. /\ dec'.pc = pc /\ dec'.from = from /\ dec'.pw = pw /\ dec'.given = given
      /\ dec'.key = IF from # None THEN dk[from] ELSE None
      /\ out' = {} /\ troubled' = Read(from)
  BY DEF Starts
<1>2. from # None => dk[from] \in KeyFile /\ dk[from] # None
  <2>1. dk \in [Prefixes -> KeyFile] /\ None \notin KeyFile
    BY NamesApart DEF IInv, TypeOK, KeysTyped, KeyFile, None
  <2> QED
    BY <2>1
<1>3. PwUsed'
  BY <1>1, <1>2 DEF PwUsed
<1>4. pc = "bad key" => dk[from] = "absent" \/ from \in Read(from)
  BY <1>2 DEF Loads, KeyFile, DkFilled, Read
<1> QED
  BY <1>1, <1>3, <1>4 DEF RunInv, OutOpened, StatusTrue, StuckOnPart, BadKeyRead

\* So does one that is asked for, by the command or in the window; a window
\* that opens or closes leaves no run to tell of.
LEMMA AskingTells == ASSUME IInv, TellInv, Asks PROVE RunInv'
<1>1. ASSUME NEW key \in Prefixes \cup {None}, NEW pw \in Passwords \cup {None},
             NEW typed \in Passwords \cup {None}, Command(key, pw, typed)
      PROVE  RunInv'
  <2> DEFINE from == DkNamed(key)
             given == IF from = None /\ pw = None THEN typed ELSE pw
             pc == CASE from # None /\ ~Loads(dk[from]) -> "bad key"
                     [] from = None /\ given = None -> "refused"
                     [] OTHER -> "running"
  <2>1. from \in Prefixes \cup {None}
    BY NamesApart DEF DkNamed
  <2>2. /\ pc \in {"running", "refused", "bad key"}
        /\ pc = "bad key" => from # None /\ ~Loads(dk[from])
    OBVIOUS
  <2>3. Starts(pc, from, given, given) /\ ~win'.open
    BY <1>1 DEF Command
  <2> HIDE DEF from, given, pc
  <2> QED
    BY <2>1, <2>2, <2>3, StartingTells DEF TellInv
<1>2. ASSUME NEW foldersGiven \in BOOLEAN, NEW field \in Prefixes \cup {None},
             NEW pass \in Passwords \cup {None}, Clicks(foldersGiven, field, pass)
      PROVE  RunInv'
  <2> DEFINE pc == CASE ~foldersGiven -> "refused"
                     [] foldersGiven /\ field # None /\ ~Loads(dk[field]) -> "bad key"
                     [] foldersGiven /\ field = None /\ pass = None -> "refused"
                     [] OTHER -> "running"
             from == IF foldersGiven THEN field ELSE None
             pw == IF field = None THEN pass ELSE None
  <2>1. /\ pc \in {"running", "refused", "bad key"}
        /\ from \in Prefixes \cup {None}
        /\ pc = "bad key" => from # None /\ ~Loads(dk[from])
        /\ pc = "running" => from = field
        /\ field = None => pw = pass
    OBVIOUS
  <2>2. /\ win.open /\ Starts(pc, from, pw, pass)
        /\ win' = IF pc = "running"
                  THEN [win EXCEPT !.running = TRUE, !.status = "decrypting"]
                  ELSE [win EXCEPT !.status = "error"]
    BY <1>2 DEF Clicks
  <2> HIDE DEF from, pw, pc
  <2>3. win'.open /\ win'.status # "ok"
    BY <2>2 DEF IInv, TypeOK, DecTyped
  <2> QED
    BY <2>1, <2>2, <2>3, StartingTells DEF TellInv
<1>3. CASE OpensWindow \/ Closes
  <2>1. dec'.pc = "idle" /\ out' = {}
    BY <1>3 DEF OpensWindow, Closes, NoRun
  <2>2. win'.open => win'.status = "ready"
    <3>1. win \in [open : BOOLEAN, running : BOOLEAN,
                   status : {"ready", "decrypting", "ok", "error"}]
      BY DEF IInv, TypeOK, DecTyped
    <3>2. CASE OpensWindow
      BY <3>2 DEF OpensWindow
    <3>3. CASE Closes
      <4>1. win'.open = FALSE
        BY <3>1, <3>3 DEF Closes
      <4> QED
        BY <4>1
    <3> QED
      BY <1>3, <3>2, <3>3
  <2> QED
    BY <2>1, <2>2 DEF RunInv, OutOpened, StatusTrue, StuckOnPart, PwUsed, BadKeyRead
<1> QED
  BY <1>1, <1>2, <1>3 DEF Asks

\* A part is written when it was opened, and the run fails on one that was
\* not; it is done when every part is written.
LEMMA RunningTells == ASSUME IInv, RunInv, Runs PROVE RunInv'
<1>1. /\ dec.pc = "running" /\ UNCHANGED <<win, disc, troubled>>
      /\ dec'.key = dec.key /\ dec'.pw = dec.pw /\ dec'.given = dec.given
  BY DEF Runs, Serves, Finishes, IoError, encVars, IInv, TypeOK, DecTyped
<1>2. \A part : Opened(part)' <=> Opened(part)
  BY <1>1 DEF Opened
<1>3. ~(win.open /\ win.status = "ok")
  BY <1>1 DEF RunInv, StatusTrue
<1>4. ASSUME NEW part \in Parts, Serves(part)
      PROVE  RunInv'
  <2>1. CASE Opened(part)
    <3>1. dec' = dec /\ out' = out \cup {part}
      BY <1>4, <2>1 DEF Serves
    <3> QED
      BY <1>1, <1>2, <1>3, <2>1, <3>1
      DEF RunInv, OutOpened, StatusTrue, StuckOnPart, PwUsed, BadKeyRead
  <2>2. CASE ~Opened(part)
    <3>1. dec'.pc = "failed" /\ out' = out /\ part \notin out
      BY <1>4, <2>2 DEF Serves, IInv, TypeOK, DecTyped
    <3> QED
      BY <1>1, <1>2, <1>3, <2>2, <3>1
      DEF RunInv, OutOpened, StatusTrue, StuckOnPart, PwUsed, BadKeyRead
  <2> QED
    BY <2>1, <2>2
<1>5. CASE Finishes \/ IoError
  <2>1. /\ out' = out /\ dec'.pc \in {"ok", "io error"}
        /\ dec'.pc = "ok" => out = Parts
    BY <1>5 DEF Finishes, IoError, IInv, TypeOK, DecTyped
  <2> QED
    BY <1>1, <1>2, <1>3, <2>1
    DEF RunInv, OutOpened, StatusTrue, StuckOnPart, PwUsed, BadKeyRead
<1> QED
  BY <1>4, <1>5 DEF Runs

\* A frame shows what the run ended with.
LEMMA FrameTells == ASSUME IInv, RunInv, Frame PROVE RunInv'
<1>1. /\ UNCHANGED <<dec, out, disc, troubled>> /\ win'.open = win.open
      /\ win'.status = "ok" => dec.pc = "ok"
  BY DEF Frame, encVars, IInv, TypeOK, DecTyped
<1>2. \A part : Opened(part)' <=> Opened(part)
  BY <1>1 DEF Opened
<1> QED
  BY <1>1, <1>2 DEF RunInv, OutOpened, StatusTrue, StuckOnPart, PwUsed, BadKeyRead

\* The invariant about a run holds in every state.
LEMMA TellInductive == Spec => []TellInv
<1>1. IInv /\ TellInv /\ [Next]_vars => TellInv'
  <2> SUFFICES ASSUME IInv, TellInv, [Next]_vars PROVE TellInv'
    OBVIOUS
  <2>1. DkFilled' /\ RunInv
    BY HalfWrittenKeeps DEF TellInv
  <2>2. CASE \E g \in Gens : Generates(g)
    <3>1. UNCHANGED <<decVars, disc>> /\ troubled \subseteq troubled'
      BY <2>2 DEF Generates, Begins, FillsEk, OpensDk, FillsDk, StopsEarly, Moves, encVars
    <3> QED
      BY <2>1, <3>1, RunUntouched DEF TellInv
  <2>3. CASE UNCHANGED vars
    BY <2>1, <2>3, RunUntouched DEF TellInv, vars, encVars
  <2> QED
    BY <2>1, <2>2, <2>3, PreparingTells, AskingTells, RunningTells, FrameTells DEF Next, TellInv
<1> QED
  BY InitTells, Inductive, <1>1, PTL DEF Spec

\* A decryption that fails without an I/O error lacks a credential, and a key
\* file that is there but does not load was left so by a generation in trouble
\* (run and start_decrypt of discdecrypt.rs).
THEOREM RefusalsExplained == Spec => []RefusalExplained
<1>1. IInv /\ TellInv => RefusalExplained
  <2> SUFFICES ASSUME IInv, TellInv, dec.pc = "failed",
                      ~(win.open /\ dec.key # None /\ dec.given # None)
               PROVE  \E part \in Parts \ out : disc[part] \notin {dec.given, dec.key}
    BY DEF RefusalExplained, TellInv, RunInv, BadKeyRead
  <2>1. PICK part \in Parts \ out : ~Opened(part)
    BY DEF TellInv, RunInv, StuckOnPart
  <2>2. /\ disc[part] \in Gens \cup Chosen \cup {"plain"}
        /\ dec.key \in KeyFile \cup {None} /\ dec.given \in Passwords \cup {None}
    BY DEF IInv, TypeOK, EncTyped, DecTyped
  <2>3. CASE disc[part] \in Gens
    <3>1. disc[part] # dec.key /\ disc[part] # dec.given
      BY <2>1, <2>2, <2>3, NamesAssumption DEF Opened, Outside
    <3> QED
      BY <3>1
  <2>4. CASE disc[part] \in Chosen
    <3>1. disc[part] \in Passwords /\ disc[part] # dec.pw
      BY <2>1, <2>4, NamesAssumption DEF Opened
    <3>2. disc[part] # dec.key
      BY <2>2, <3>1, NamesAssumption DEF KeyFile, Outside
    <3>3. dec.pw = dec.given \/ dec.given = None
      BY DEF TellInv, RunInv, PwUsed
    <3>4. disc[part] # None
      BY <3>1, NamesApart
    <3> QED
      BY <3>1, <3>2, <3>3, <3>4
  <2> QED
    BY <2>1, <2>2, <2>3, <2>4 DEF Opened
<1> QED
  BY Inductive, TellInductive, <1>1, PTL

\* A decryption is reported as done only when every part is in the output,
\* each opened with a credential of the run (run and the frame of
\* discdecrypt.rs).
THEOREM OkIsWhole == Spec => []OkMeansAll
<1>1. TellInv => OkMeansAll
  BY DEF TellInv, RunInv, OutOpened, StatusTrue, Opened, OkMeansAll
<1> QED
  BY TellInductive, <1>1, PTL
=============================================================================
