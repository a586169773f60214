---------------------------- MODULE Dbenc_proofs ----------------------------
(***************************************************************************)
(* The encryption library (dbenc/mod.rs, aead.rs, legacy.rs), for every    *)
(* size of files, reads, chunks and blocks and any damage: no nonce is     *)
(* used twice, only a beginning of the plaintext comes out, an undamaged   *)
(* file comes out whole, a garbled one is refused, and one in the format   *)
(* DBENC001 comes out whole or not at all, as it does in memory.           *)
(***************************************************************************)
EXTENDS Dbenc, SequenceTheorems, TLAPS

FrameInfo == [len : Nat, whole : BOOLEAN, nonce : Nat,
              aad : [magic : C!Formats, len : Nat, index : Int], data : Seq(Nat)]
FileInfo  == [there : BOOLEAN, bytes : Seq(Nat)]
Cuts      == [Nat -> Nat]

\* A frame holds the bytes that its nonce says, when chunk i of the file begins at cut[i].
IsChunk(f, cut) ==
    /\ f \in FrameInfo
    /\ f.aad = C!Aad(fmt, f.nonce, f.len)
    /\ f.data = [j \in 1..f.len |-> cut[f.nonce] + j]
    /\ cut[f.nonce + 1] = cut[f.nonce] + f.len /\ cut[f.nonce + 1] <= size

\* The file: its frames are chunks, in order as long as nothing happened to it.
FileInv(cut) ==
    /\ cut \in Cuts /\ cut[0] = 0
    /\ enc \in [pc : {"start", "chunks", "done", "failed"}, index : Nat, pos : Nat]
    /\ disc \in [header : BOOLEAN, frames : Seq(FrameInfo), tail : {"none", "length", "body"}]
    /\ harm \in Nat /\ size \in Nat
    /\ enc.pos = cut[enc.index] /\ enc.pos <= size
    /\ enc.pc = "done" => enc.pos = size
    /\ \A i \in 1..Len(disc.frames) :
          IsChunk(disc.frames[i], cut) /\ disc.frames[i].nonce < enc.index
    /\ harm = 0 =>
          /\ Len(disc.frames) = enc.index
          /\ \A i \in 1..Len(disc.frames) : disc.frames[i].nonce = i - 1 /\ disc.frames[i].whole

\* The bytes that the first n chunks hold, or fewer.
Upto(s, n) == \E m \in 0..n : s = C!Plaintext(m)

\* The decryption: what came out is what the opened frames hold, or a part of it.
CallInv(cut) ==
    /\ call \in [pc : {"idle", "stream", "copying", "ok", "failed"}, mode : Modes, key : Keys]
    /\ dec \in [pc : {"idle", "chunks", "ok", "failed", "aborted"}, mode : Modes, key : Keys, index : Nat]
    /\ temp \in FileInfo /\ dest \in FileInfo
    /\ dec.index <= Len(disc.frames) /\ cut[dec.index] <= size
    /\ \A i \in 1..dec.index : disc.frames[i].whole
    /\ dec.pc = "idle" \/ dec.key = "wrong" => dec.index = 0
    /\ dec.pc = "ok" => dec.index = Len(disc.frames) /\ disc.tail # "body"
    /\ call.pc # "idle" => enc.pc \in {"done", "failed"}
    /\ dec.pc # "idle" => call.pc # "idle" /\ magic = fmt /\ call.mode = dec.mode /\ call.key = dec.key
    /\ Upto(temp.bytes, cut[dec.index]) /\ Upto(dest.bytes, cut[dec.index])

\* The file is there with the first n bytes.
Holds(file, n) == file.there /\ file.bytes = C!Plaintext(n)

\* Where the bytes are, from the beginning of a call to its end.
PlaceInv(cut) ==
    /\ call.pc = "idle" => temp = C!NoFile /\ dest = C!NoFile
    /\ call.pc = "stream" =>
          /\ dec.pc # "idle"
          /\ dec.pc \in {"chunks", "ok"} => Holds(C!Out(dec.mode), cut[dec.index])
          /\ dec.pc \in {"failed", "aborted"} /\ dec.mode # "dest" => temp = C!NoFile
    /\ call.pc = "copying" =>
          call.mode \in {"memory", "copy"} /\ Holds(temp, cut[dec.index]) /\ (magic = fmt => dec.pc = "ok")
    /\ call.pc = "ok" =>
          /\ Holds(IF call.mode = "temp" THEN temp ELSE dest, cut[dec.index])
          /\ magic = fmt => dec.pc = "ok"
    /\ call.pc = "failed" /\ call.mode = "temp" => temp = C!NoFile

-----------------------------------------------------------------------------
(* DBENC001 *)

\* The plaintext with its padding, its blocks, and the ciphertext of all of them.
Padded == plain \o L!Padding(plain)
Blocks == L!BlocksOf(Padded)
Count  == (Len(plain) \div Block) + 1
Full   == L!Cipher(<<>>, Blocks)

\* A byte of a ciphertext.
Cells == [chain : Seq(Seq(Nat)), off : Nat]

\* The ciphertext of the first k blocks, and the block before the next.
Before(k) == IF k = 0 THEN <<>> ELSE SubSeq(Full, (k - 1) * Block + 1, k * Block)

\* The encryption has taken d blocks of the plaintext and keeps the rest of what it read.
Taken(d) ==
    /\ d * Block <= lenc.pos /\ lenc.pos < (d + 1) * Block /\ lenc.pos <= Len(plain)
    /\ lenc.done = SubSeq(Blocks, 1, d)
    /\ lenc.pending = SubSeq(plain, d * Block + 1, lenc.pos)
    /\ ldisc.cipher = SubSeq(Full, 1, d * Block)

\* The MAC is that of the whole ciphertext, or none; a cut file is shorter than its MAC says.
LegacyFile ==
    /\ plain \in Seq(Nat)
    /\ lenc \in [pc : {"start", "stream", "mac", "done", "failed", "cut"}, pos : Nat,
                 pending : Seq(Nat), done : Seq(Seq(Nat))]
    /\ ldisc \in [header : BOOLEAN, mac : {L!Placeholder, L!MacOf("right", Full)}, cipher : Seq(Cells)]
    /\ lenc.pc \in {"start", "stream"} => \E d \in 0..Count : Taken(d)
    /\ lenc.pc \in {"mac", "done"} => ldisc.cipher = Full
    /\ lenc.pc \in {"stream", "mac", "done"} => ldisc.header
    /\ lenc.pc \in {"start", "stream", "mac", "failed"} => ldisc.mac = L!Placeholder
    /\ lenc.pc \in {"done", "cut"} => ldisc.mac = L!MacOf("right", Full)
    /\ lenc.pc = "cut" => Len(ldisc.cipher) < Len(Full)

\* The decryption has written m blocks and keeps the next one, or what it read of it.
Written(m) ==
    /\ temp = [there |-> TRUE, bytes |-> SubSeq(Padded, 1, m * Block)]
    /\ m * Block <= ldec.pos /\ ldec.pos <= Len(Full) /\ ldec.pos <= (m + 1) * Block
    /\ ldec.pos = m * Block => m = 0
    /\ ldec.pending = SubSeq(Full, m * Block + 1, ldec.pos)
    /\ ldec.prev = Before(m)

\* The call and its stream: only a whole file under the right key comes to be decrypted.
LegacyCall ==
    /\ call \in [pc : {"idle", "stream", "copying", "ok", "failed"}, mode : Modes, key : Keys]
    /\ ldec \in [pc : {"idle", "verify", "stream", "ok", "refused", "stopped"}, key : Keys, pos : Nat,
                 pending : Seq(Cells), prev : Seq(Cells)]
    /\ call.pc # "idle" => lenc.pc \in {"done", "failed", "cut"}
    /\ call.pc = "idle" => ldec.pc = "idle"
    /\ call.pc = "stream" => ldec.pc # "idle"
    /\ ldec.pc # "idle" => magic = fmt /\ call.key = ldec.key /\ call.mode \in {"temp", "copy"}
    /\ ldec.pc \in {"idle", "verify"} => ldec.pos = 0 /\ ldec.pending = <<>> /\ ldec.prev = <<>>
    /\ ldec.pc \in {"stream", "ok"} => lenc.pc = "done" /\ ldec.key = "right"
    /\ ldec.pc = "refused" => ~(lenc.pc = "done" /\ ldec.key = "right")

\* A file with nothing in it, and one with the plaintext.
Empty == [there |-> TRUE, bytes |-> <<>>]
All   == [there |-> TRUE, bytes |-> plain]

\* A beginning of the plaintext, and none at all with a wrong key or as another format.
Outcome(s) ==
    /\ \E n \in 0..Len(plain) : s = SubSeq(plain, 1, n)
    /\ call.key = "wrong" \/ magic # fmt => s = <<>>

\* Where the plaintext is, from the beginning of a call to its end.
LegacyPlace ==
    /\ call.pc = "idle" => temp = C!NoFile /\ dest = C!NoFile
    /\ call.pc = "stream" =>
          /\ dest = C!NoFile
          /\ ldec.pc \in {"verify", "refused", "stopped"} => temp = C!NoFile
          /\ ldec.pc = "stream" => \E m \in 0..(Count - 1) : Written(m)
          /\ ldec.pc = "ok" => temp = All
    /\ call.pc = "copying" =>
          /\ dest = C!NoFile /\ call.mode \in {"memory", "copy"}
          /\ magic = fmt => ldec.pc = "ok" /\ temp = All
          /\ magic # fmt => temp = Empty
    /\ call.pc = "ok" =>
          /\ magic = fmt =>
                /\ lenc.pc = "done" /\ call.key = "right"
                /\ IF call.mode = "temp" THEN temp = All /\ dest = C!NoFile
                                         ELSE dest = All /\ temp = C!NoFile
          /\ magic # fmt => temp \in {C!NoFile, Empty} /\ dest \in {C!NoFile, Empty}
                            /\ (call.mode = "temp" => temp = Empty)
    /\ call.pc = "failed" =>
          /\ call.mode = "temp" => temp = C!NoFile
          /\ Outcome(temp.bytes) /\ Outcome(dest.bytes)

\* Every file is of one kind, and the streams of the other kind never begin.
IInv ==
    /\ fmt \in Formats
    /\ Legacy => disc.frames = <<>> /\ disc.tail = "none" /\ dec.pc = "idle"
                 /\ LegacyFile /\ LegacyCall /\ LegacyPlace
    /\ ~Legacy => ldec.pc = "idle" /\ \E cut \in Cuts : FileInv(cut) /\ CallInv(cut) /\ PlaceInv(cut)

-----------------------------------------------------------------------------

(* The chunked formats *)

\* A chunk continues the plaintext where the one before it ended.
LEMMA PlainAppend ==
    ASSUME NEW a \in Nat, NEW n \in Nat
    PROVE  C!Plaintext(a) \o [j \in 1..n |-> a + j] = C!Plaintext(a + n)
<1> DEFINE s == C!Plaintext(a)
           t == [j \in 1..n |-> a + j]
<1>1. s \in Seq(Nat) /\ Len(s) = a /\ t \in Seq(Nat) /\ Len(t) = n
  BY DEF C!Plaintext
<1>2. C!Plaintext(a + n) \in Seq(Nat) /\ Len(C!Plaintext(a + n)) = a + n
  BY DEF C!Plaintext
<1>3. s \o t \in Seq(Nat) /\ Len(s \o t) = a + n
  BY <1>1
<1>4. \A i \in 1..(a + n) : (s \o t)[i] = C!Plaintext(a + n)[i]
  BY <1>1 DEF C!Plaintext
<1> QED
  BY <1>2, <1>3, <1>4, SeqEqual

\* The first bytes of the first bytes.
LEMMA PlainPrefix ==
    ASSUME NEW m \in Nat, NEW n \in 0..m
    PROVE  /\ C!Plaintext(n) \in Seq(Nat) /\ Len(C!Plaintext(n)) = n
           /\ SubSeq(C!Plaintext(m), 1, n) = C!Plaintext(n)
<1>1. /\ C!Plaintext(n) \in Seq(Nat) /\ Len(C!Plaintext(n)) = n
      /\ C!Plaintext(m) \in Seq(Nat) /\ Len(C!Plaintext(m)) = m
  BY DEF C!Plaintext
<1>2. SubSeq(C!Plaintext(m), 1, n) \in Seq(Nat) /\ Len(SubSeq(C!Plaintext(m), 1, n)) = n
  BY <1>1
<1>3. \A i \in 1..n : SubSeq(C!Plaintext(m), 1, n)[i] = C!Plaintext(n)[i]
  BY <1>1 DEF C!Plaintext
<1> QED
  BY <1>1, <1>2, <1>3, SeqEqual

-----------------------------------------------------------------------------

\* Before the call nothing has come out, whatever happens to the file.
LEMMA IdleCall ==
    ASSUME NEW cut \in Cuts, CallInv(cut), PlaceInv(cut), call.pc = "idle",
           UNCHANGED <<call, dec, temp, dest, size>>, size \in Nat,
           disc'.frames \in Seq(FrameInfo), NEW new \in Cuts, new[0] = 0
    PROVE  CallInv(new)' /\ PlaceInv(new)'
<1>1. dec.pc = "idle" /\ dec.index = 0 /\ temp = C!NoFile /\ dest = C!NoFile
  BY DEF CallInv, PlaceInv
<1>2. Upto(<<>>, 0)
  BY DEF Upto, C!Plaintext
<1>3. Upto(temp.bytes, new[0])' /\ Upto(dest.bytes, new[0])'
  BY <1>1, <1>2 DEF Upto, C!NoFile
<1>4. CallInv(new)'
  BY <1>1, <1>3 DEF CallInv
<1>5. PlaceInv(new)'
  BY <1>1 DEF PlaceInv
<1> QED
  BY <1>4, <1>5

\* A frame is the same chunk as long as the file is the same.
LEMMA ChunkStays ==
    ASSUME NEW cut \in Cuts, NEW f, IsChunk(f, cut), UNCHANGED <<fmt, size>>
    PROVE  IsChunk(f, cut)'
  BY DEF IsChunk, C!Aad

\* The header, and the end of the encryption.
LEMMA EncEndsInv ==
    ASSUME NEW cut \in Cuts, FileInv(cut), C!EncHeader \/ C!EncFails \/ C!EncEnds
    PROVE  FileInv(cut)'
<1>1. UNCHANGED <<fmt, size, harm>>
  BY DEF C!EncHeader, C!EncFails, C!EncEnds, C!EncOnly
<1>2. /\ enc' \in [pc : {"start", "chunks", "done", "failed"}, index : Nat, pos : Nat]
      /\ enc'.index = enc.index /\ enc'.pos = enc.pos
      /\ enc'.pc = "done" => enc.pos = size
  BY DEF C!EncHeader, C!EncFails, C!EncEnds, FileInv
<1>3. /\ disc' \in [header : BOOLEAN, frames : Seq(FrameInfo), tail : {"none", "length", "body"}]
      /\ disc'.frames = disc.frames
  BY DEF C!EncHeader, C!EncFails, C!EncEnds, FileInv
<1>4. \A i \in 1..Len(disc.frames) : IsChunk(disc.frames[i], cut)'
  BY <1>1, <1>3, ChunkStays DEF FileInv, IsChunk, C!Aad
<1> QED
  BY <1>1, <1>2, <1>3, <1>4 DEF FileInv

\* The next chunk begins where the one before it ended.
LEMMA EncChunkInv ==
    ASSUME NEW cut \in Cuts, FileInv(cut), fmt \in C!Formats, C!EncChunk
    PROVE  \E new \in Cuts : new[0] = 0 /\ FileInv(new)'
<1>1. PICK n \in 1..ChunkSize :
         /\ enc.pc = "chunks" /\ enc.pos + n <= size
         /\ disc' = [disc EXCEPT !.frames = Append(@, C!Frame(enc.index, enc.pos, n))]
         /\ enc' = [enc EXCEPT !.index = @ + 1, !.pos = @ + n]
         /\ UNCHANGED <<fmt, size, harm>>
  BY DEF C!EncChunk, C!EncOnly
<1>2. n \in Nat /\ enc.index \in Nat /\ enc.pos \in Nat /\ enc.pos = cut[enc.index]
      /\ size \in Nat /\ cut[0] = 0
  BY SizesAssumption DEF FileInv
<1> PICK k \in Nat, pos \in Nat : k = enc.index /\ pos = enc.pos
  BY <1>2
<1>3. PICK new \in Cuts :
         /\ new[0] = 0 /\ new[k + 1] = pos + n
         /\ \A i \in 0..k : new[i] = cut[i]
  <2> DEFINE c == [cut EXCEPT ![k + 1] = pos + n]
  <2>1. c \in Cuts /\ c[0] = 0 /\ c[k + 1] = pos + n /\ \A i \in 0..k : c[i] = cut[i]
    BY <1>2 DEF Cuts
  <2> HIDE DEF c
  <2> QED
    BY <2>1
<1>4. PICK f \in FrameInfo :
         /\ f = C!Frame(k, pos, n)
         /\ IsChunk(f, new)' /\ f.nonce = k /\ f.whole
  <2> PICK aad : aad = C!Aad(fmt, k, n)
    OBVIOUS
  <2>1. aad \in [magic : C!Formats, len : Nat, index : Int]
    BY <1>2, SizesAssumption DEF C!Aad
  <2>2. [j \in 1..n |-> pos + j] \in Seq(Nat)
    BY <1>2
  <2> PICK f : f = [len |-> n, whole |-> TRUE, nonce |-> k, aad |-> aad,
                    data |-> [j \in 1..n |-> pos + j]]
    OBVIOUS
  <2>3. f = C!Frame(k, pos, n)
    BY DEF C!Frame, C!Nonce
  <2>4. f \in FrameInfo
    BY <1>2, <2>1, <2>2 DEF FrameInfo
  <2>5. f.len = n /\ f.nonce = k /\ f.aad = aad /\ f.data = [j \in 1..n |-> pos + j] /\ f.whole
    OBVIOUS
  <2>6. C!Aad(fmt, f.nonce, f.len)' = aad
    BY <1>1, <2>5 DEF C!Aad
  <2>8. new[f.nonce] = pos /\ new[f.nonce + 1] = pos + n /\ pos + n <= size'
    BY <1>1, <1>2, <1>3, <2>5
  <2>7. IsChunk(f, new)'
    BY <2>4, <2>5, <2>6, <2>8 DEF IsChunk
  <2> QED
    BY <2>3, <2>4, <2>5, <2>7, Zenon
<1>5. /\ disc' \in [header : BOOLEAN, frames : Seq(FrameInfo), tail : {"none", "length", "body"}]
      /\ disc'.frames = Append(disc.frames, f)
      /\ enc' \in [pc : {"start", "chunks", "done", "failed"}, index : Nat, pos : Nat]
      /\ enc'.pc = "chunks" /\ enc'.index = k + 1 /\ enc'.pos = pos + n
  <2>1. disc' = [disc EXCEPT !.frames = Append(@, f)]
    BY <1>1, <1>4
  <2>2. Append(disc.frames, f) \in Seq(FrameInfo)
    BY <1>4 DEF FileInv
  <2>3. /\ disc' \in [header : BOOLEAN, frames : Seq(FrameInfo), tail : {"none", "length", "body"}]
        /\ disc'.frames = Append(disc.frames, f)
    BY <2>1, <2>2 DEF FileInv
  <2>5. enc' = [pc |-> "chunks", index |-> k + 1, pos |-> pos + n]
    BY <1>1, <1>2 DEF FileInv
  <2>4. /\ enc' \in [pc : {"start", "chunks", "done", "failed"}, index : Nat, pos : Nat]
        /\ enc'.pc = "chunks" /\ enc'.index = k + 1 /\ enc'.pos = pos + n
    BY <1>2, <2>5
  <2> QED
    BY <2>3, <2>4
<1>6. \A i \in 1..Len(disc.frames) :
         /\ disc'.frames[i] = disc.frames[i]
         /\ IsChunk(disc.frames[i], new)' /\ disc.frames[i].nonce < k
  <2> SUFFICES ASSUME NEW i \in 1..Len(disc.frames)
               PROVE  /\ disc'.frames[i] = disc.frames[i]
                      /\ IsChunk(disc.frames[i], new)' /\ disc.frames[i].nonce < k
    OBVIOUS
  <2> PICK g : g = disc.frames[i]
    OBVIOUS
  <2>4. disc'.frames[i] = g
    BY <1>4, <1>5 DEF FileInv
  <2>5. IsChunk(g, cut) /\ g.nonce < k
    BY DEF FileInv
  <2>1. disc'.frames[i] = g /\ IsChunk(g, cut) /\ g.nonce < k /\ g.nonce \in Nat
    BY <2>4, <2>5 DEF FrameInfo, IsChunk
  <2>6. g.nonce \in 0..k /\ g.nonce + 1 \in 0..k
    BY <2>1
  <2>2. new[g.nonce] = cut[g.nonce] /\ new[g.nonce + 1] = cut[g.nonce + 1]
    BY <1>3, <2>6
  <2>3. C!Aad(fmt, g.nonce, g.len)' = C!Aad(fmt, g.nonce, g.len)
    BY <1>1 DEF C!Aad
  <2> QED
    BY <1>1, <2>1, <2>2, <2>3 DEF IsChunk
<1>7. Len(disc'.frames) = Len(disc.frames) + 1 /\ disc'.frames[Len(disc.frames) + 1] = f
  BY <1>4, <1>5 DEF FileInv
<1>8. \A i \in 1..Len(disc'.frames) : IsChunk(disc.frames[i], new)' /\ disc'.frames[i].nonce < enc'.index
  <2> SUFFICES ASSUME NEW i \in 1..Len(disc'.frames)
               PROVE  IsChunk(disc.frames[i], new)' /\ disc'.frames[i].nonce < enc'.index
    OBVIOUS
  <2>1. CASE i \in 1..Len(disc.frames)
    <3>1. disc.frames[i].nonce \in Nat
      BY <2>1, <1>2 DEF FileInv, IsChunk, FrameInfo
    <3>2. IsChunk(disc.frames[i], new)'
      BY <1>6, <2>1, Zenon
    <3>4. disc'.frames[i] = disc.frames[i] /\ disc.frames[i].nonce < k
      BY <1>6, <2>1, Zenon
    <3>5. enc'.index = k + 1
      BY <1>5
    <3>6. disc.frames[i].nonce < k + 1
      BY <3>1, <3>4
    <3>3. disc'.frames[i].nonce < enc'.index
      BY <3>4, <3>5, <3>6, Zenon
    <3> QED
      BY <3>2, <3>3
  <2>2. CASE i = Len(disc.frames) + 1
    <3>1. disc'.frames[i] = f
      BY <1>7, <2>2
    <3>2. disc'.frames[i].nonce < enc'.index
      BY <1>4, <1>5, <3>1
    <3>3. IsChunk(disc.frames[i], new)'
      BY <1>4, <3>1, Zenon
    <3> QED
      BY <3>2, <3>3
  <2> QED
    BY <1>7, <2>1, <2>2 DEF FileInv
<1>9. harm' = 0 =>
         /\ Len(disc'.frames) = enc'.index
         /\ \A i \in 1..Len(disc'.frames) : disc'.frames[i].nonce = i - 1 /\ disc'.frames[i].whole
  BY <1>1, <1>2, <1>4, <1>5, <1>6, <1>7 DEF FileInv
<1>10. harm' \in Nat /\ size' \in Nat /\ enc'.pos = new[enc'.index] /\ enc'.pos <= size'
  BY <1>1, <1>2, <1>3, <1>5 DEF FileInv
<1>11. FileInv(new)'
  BY <1>3, <1>5, <1>8, <1>9, <1>10 DEF FileInv
<1> QED
  BY <1>3, <1>11

\* What the medium leaves are chunks that were there, in any order and number.
LEMMA HarmedInv ==
    ASSUME NEW cut \in Cuts, FileInv(cut), NEW frames \in Seq(FrameInfo),
           NEW tail \in {"none", "length", "body"}, C!Harms(frames, tail),
           \A i \in 1..Len(frames) : IsChunk(frames[i], cut) /\ frames[i].nonce < enc.index
    PROVE  FileInv(cut)'
<1>1. harm \in Nat /\ harm' = harm + 1 /\ UNCHANGED <<fmt, size, enc>>
  BY DEF C!Harms, FileInv
<1>2. disc' = [disc EXCEPT !.frames = frames, !.tail = tail]
  BY DEF C!Harms
<1>3. /\ disc' \in [header : BOOLEAN, frames : Seq(FrameInfo), tail : {"none", "length", "body"}]
      /\ disc'.frames = frames
  BY <1>2 DEF FileInv
<1>4. \A i \in 1..Len(frames) : IsChunk(disc.frames[i], cut)' /\ frames[i].nonce < enc.index
  BY <1>1, <1>3 DEF IsChunk, C!Aad
<1>5. harm' \in Nat /\ harm' # 0
  BY <1>1
<1> QED
  BY <1>1, <1>3, <1>4, <1>5 DEF FileInv

\* Lost, cut, swapped and garbled frames are all of that kind.
LEMMA MediumInv ==
    ASSUME NEW cut \in Cuts, FileInv(cut), C!Medium
    PROVE  FileInv(cut)'
<1> PICK s : s = disc.frames
  OBVIOUS
<1>1. /\ s \in Seq(FrameInfo) /\ disc.tail \in {"none", "length", "body"}
      /\ \A i \in 1..Len(s) : IsChunk(s[i], cut) /\ s[i].nonce < enc.index
  BY DEF FileInv
<1>2. CASE C!LosesFrame
  <2>1. PICK i \in 1..Len(s) : C!Harms(SubSeq(s, 1, i - 1) \o SubSeq(s, i + 1, Len(s)), disc.tail)
    BY <1>2 DEF C!LosesFrame
  <2>2. PICK t, a, b : a = SubSeq(s, 1, i - 1) /\ b = SubSeq(s, i + 1, Len(s)) /\ t = a \o b
    OBVIOUS
  <2>3. /\ a \in Seq(FrameInfo) /\ Len(a) = i - 1 /\ \A j \in 1..Len(a) : a[j] = s[j]
        /\ b \in Seq(FrameInfo) /\ Len(b) = Len(s) - i /\ \A j \in 1..Len(b) : b[j] = s[i + j]
    BY <1>1, <2>2
  <2>4. t \in Seq(FrameInfo) /\ Len(t) = Len(a) + Len(b)
    BY <2>2, <2>3
  <2>5. \A j \in 1..(Len(a) + Len(b)) : t[j] = IF j <= Len(a) THEN a[j] ELSE b[j - Len(a)]
    <3>1. a \in Seq(FrameInfo) /\ b \in Seq(FrameInfo) /\ t = a \o b
      BY <2>2, <2>3
    <3> QED
      BY <3>1, ConcatProperties, Zenon
  <2>6. ASSUME NEW j \in 1..Len(t) PROVE \E m \in 1..Len(s) : t[j] = s[m]
    <3>3. j \in 1..(Len(a) + Len(b)) /\ Len(s) \in Nat
      BY <1>1, <2>4
    <3>1. CASE j <= Len(a)
      <4>1. j \in 1..Len(a) /\ j \in 1..Len(s)
        BY <2>3, <3>1, <3>3
      <4>2. t[j] = a[j]
        BY <2>5, <3>1, <3>3, Zenon
      <4> QED
        BY <2>3, <4>1, <4>2
    <3>2. CASE j > Len(a)
      <4>3. Len(a) \in Nat /\ Len(b) \in Nat
        BY <2>3
      <4>4. j - Len(a) \in 1..Len(b) /\ ~(j <= Len(a))
        BY <3>2, <3>3, <4>3
      <4>5. t[j] = b[j - Len(a)]
        BY <2>5, <3>3, <4>4, Zenon
      <4>1. j - Len(a) \in 1..Len(b) /\ t[j] = b[j - Len(a)]
        BY <4>4, <4>5, Zenon
      <4>2. t[j] = s[i + (j - Len(a))] /\ i + (j - Len(a)) \in 1..Len(s)
        BY <1>1, <2>3, <4>1
      <4> QED
        BY <4>2
    <3> QED
      BY <2>3, <3>1, <3>2, <3>3
  <2>7. \A j \in 1..Len(t) : IsChunk(t[j], cut) /\ t[j].nonce < enc.index
    BY <1>1, <2>6
  <2> QED
    BY <1>1, <2>1, <2>2, <2>4, <2>7, HarmedInv
<1>3. CASE C!CutsFrame
  <2>1. PICK i \in 1..Len(s), tail \in {"none", "length", "body"} : C!Harms(SubSeq(s, 1, i - 1), tail)
    BY <1>3 DEF C!CutsFrame
  <2>2. PICK t : t = SubSeq(s, 1, i - 1)
    OBVIOUS
  <2>3. t \in Seq(FrameInfo) /\ \A j \in 1..Len(t) : j \in 1..Len(s) /\ t[j] = s[j]
    BY <1>1, <2>2
  <2> QED
    BY <1>1, <2>1, <2>2, <2>3, HarmedInv
<1>4. CASE C!SwapsFrames
  <2>1. PICK i, j \in 1..Len(s) : C!Harms([s EXCEPT ![i] = s[j], ![j] = s[i]], disc.tail)
    BY <1>4 DEF C!SwapsFrames
  <2>2. PICK t : t = [s EXCEPT ![i] = s[j], ![j] = s[i]]
    OBVIOUS
  <2>3. t \in Seq(FrameInfo) /\ \A k \in 1..Len(t) : \E m \in 1..Len(s) : t[k] = s[m]
    BY <1>1, <2>2
  <2>4. \A k \in 1..Len(t) : IsChunk(t[k], cut) /\ t[k].nonce < enc.index
    BY <1>1, <2>3
  <2> QED
    BY <1>1, <2>1, <2>2, <2>3, <2>4, HarmedInv
<1>5. CASE C!GarblesFrame
  <2>1. PICK i \in 1..Len(s) : C!Harms([s EXCEPT ![i].whole = FALSE], disc.tail)
    BY <1>5 DEF C!GarblesFrame
  <2>2. PICK g : g = [s[i] EXCEPT !.whole = FALSE]
    OBVIOUS
  <2>7. s[i] \in FrameInfo /\ IsChunk(s[i], cut) /\ s[i].nonce < enc.index
    BY <1>1 DEF IsChunk
  <2>8. /\ g \in FrameInfo /\ g.len = s[i].len /\ g.nonce = s[i].nonce
        /\ g.aad = s[i].aad /\ g.data = s[i].data
    BY <2>2, <2>7 DEF FrameInfo
  <2>3. IsChunk(g, cut) /\ g.nonce < enc.index /\ g \in FrameInfo
    BY <2>7, <2>8 DEF IsChunk
  <2>4. PICK t : t = [s EXCEPT ![i] = g]
    OBVIOUS
  <2>5. t \in Seq(FrameInfo) /\ \A k \in 1..Len(t) : t[k] = IF k = i THEN g ELSE s[k]
    BY <1>1, <2>3, <2>4
  <2>6. Len(t) = Len(s) /\ C!Harms(t, disc.tail)
    BY <1>1, <2>1, <2>2, <2>4
  <2> QED
    BY <1>1, <2>3, <2>5, <2>6, HarmedInv
<1> QED
  BY <1>2, <1>3, <1>4, <1>5 DEF C!Medium

-----------------------------------------------------------------------------

\* A decryption does not change the file.
LEMMA FileStays ==
    ASSUME NEW cut \in Cuts, FileInv(cut), UNCHANGED <<fmt, size, enc, disc, harm>>
    PROVE  FileInv(cut)'
<1>1. \A i \in 1..Len(disc.frames) : IsChunk(disc.frames[i], cut)'
  BY DEF FileInv, IsChunk, C!Aad
<1> QED
  BY <1>1 DEF FileInv

\* Nothing is a beginning of the plaintext, and an empty file one that holds it.
LEMMA NothingYet ==
    /\ C!NoFile \in FileInfo /\ C!NoFile.bytes = <<>> /\ ~C!NoFile.there
    /\ \A f : f = [C!NoFile EXCEPT !.there = TRUE] =>
          f \in FileInfo /\ f.bytes = <<>> /\ Holds(f, 0)
    /\ \A n \in Nat : Upto(<<>>, n) /\ Upto(C!Plaintext(n), n)
<1>1. C!Plaintext(0) = <<>>
  BY DEF C!Plaintext
<1>2. C!NoFile \in FileInfo /\ C!NoFile.bytes = <<>> /\ ~C!NoFile.there
  BY DEF C!NoFile, FileInfo
<1>3. ASSUME NEW f, f = [C!NoFile EXCEPT !.there = TRUE]
      PROVE  f \in FileInfo /\ f.bytes = <<>> /\ Holds(f, 0)
  <2>1. f \in FileInfo
    BY <1>2, <1>3 DEF FileInfo
  <2>2. f.bytes = <<>>
    BY <1>2, <1>3 DEF FileInfo
  <2>3. f.there = TRUE
    BY <1>2, <1>3 DEF FileInfo
  <2> QED
    BY <1>1, <2>1, <2>2, <2>3 DEF Holds
<1>4. \A n \in Nat : Upto(<<>>, n) /\ Upto(C!Plaintext(n), n)
  BY <1>1 DEF Upto
<1> QED
  BY <1>1, <1>2, <1>3, <1>4

\* The stream begins with an empty file.
LEMMA StartsInv ==
    ASSUME NEW cut \in Cuts, FileInv(cut), CallInv(cut), PlaceInv(cut), ~Legacy, Starts
    PROVE  FileInv(cut)' /\ CallInv(cut)' /\ PlaceInv(cut)'
<1>1. PICK mode \in Modes, key \in Keys :
         /\ Takes("stream", mode, key) /\ C!DecStarts(mode, key)
         /\ call.pc = "idle" /\ magic = fmt /\ Stored /\ UNCHANGED magic
  BY DEF Starts
<1>2. UNCHANGED <<fmt, size, enc, disc, harm>>
  BY <1>1 DEF C!DecStarts, C!DecOnly
<1>3. /\ dec.pc = "idle" /\ dec.index = 0 /\ temp = C!NoFile /\ dest = C!NoFile
      /\ enc.pc \in {"done", "failed"}
  BY <1>1 DEF CallInv, PlaceInv, Stored
<1>4. /\ call' = [pc |-> "stream", mode |-> mode, key |-> key]
      /\ dec' = [pc |-> "chunks", mode |-> mode, key |-> key, index |-> 0]
  <2>1. call' = [pc |-> "stream", mode |-> mode, key |-> key]
    BY <1>1 DEF Takes
  <2>2. dec' = [dec EXCEPT !.pc = "chunks", !.mode = mode, !.key = key]
    BY <1>1 DEF C!DecStarts
  <2> QED
    BY <1>3, <2>1, <2>2 DEF CallInv
<1>5. /\ Holds(C!Out(mode)', 0)
      /\ temp' \in FileInfo /\ dest' \in FileInfo
      /\ temp'.bytes = <<>> /\ dest'.bytes = <<>>
  BY <1>1, <1>3, NothingYet DEF C!DecStarts, C!Put, C!Out, C!NoFile
<1>6. cut[0] = 0 /\ size \in Nat /\ Len(disc.frames) \in Nat
  BY DEF FileInv
<1>7. CallInv(cut)'
  BY <1>1, <1>2, <1>3, <1>4, <1>5, <1>6, NothingYet DEF CallInv
<1>8. PlaceInv(cut)'
  BY <1>4, <1>5, <1>6 DEF PlaceInv, C!Out
<1> QED
  BY <1>2, <1>7, <1>8, FileStays

\* A call that is refused, or takes the file for another format, opens nothing.
LEMMA RefusedInv ==
    ASSUME NEW cut \in Cuts, FileInv(cut), CallInv(cut), PlaceInv(cut), ~Legacy,
           IsRefused \/ Misreads
    PROVE  FileInv(cut)' /\ CallInv(cut)' /\ PlaceInv(cut)'
<1>1. /\ UNCHANGED <<fmt, magic, size, enc, disc, harm, dec>>
      /\ call.pc = "idle" /\ Stored
  BY DEF IsRefused, Misreads, chunked
<1>2. /\ dec.pc = "idle" /\ dec.index = 0 /\ temp = C!NoFile /\ dest = C!NoFile
      /\ enc.pc \in {"done", "failed"} /\ cut[0] = 0 /\ size \in Nat
  BY <1>1 DEF CallInv, PlaceInv, Stored, FileInv
<1>3. PICK pc \in {"failed", "copying", "ok"}, mode \in Modes, key \in Keys :
         call' = [pc |-> pc, mode |-> mode, key |-> key]
         /\ \/ pc = "failed" /\ UNCHANGED <<temp, dest>>
            \/ /\ magic # fmt
               /\ pc = IF mode \in {"memory", "copy"} THEN "copying" ELSE "ok"
               /\ IF mode = "dest"
                  THEN dest' = [C!NoFile EXCEPT !.there = TRUE] /\ UNCHANGED temp
                  ELSE temp' = [C!NoFile EXCEPT !.there = TRUE] /\ UNCHANGED dest
  <2>1. CASE IsRefused
    BY <2>1 DEF IsRefused, Takes
  <2>2. CASE Misreads
    BY <2>2 DEF Misreads, Takes
  <2> QED
    BY <2>1, <2>2
<1>4. /\ temp' \in FileInfo /\ dest' \in FileInfo
      /\ temp'.bytes = <<>> /\ dest'.bytes = <<>>
  BY <1>2, <1>3, NothingYet DEF C!NoFile
<1>5. CallInv(cut)'
  BY <1>1, <1>2, <1>3, <1>4, NothingYet DEF CallInv
<1>6. PlaceInv(cut)'
  BY <1>1, <1>2, <1>3, NothingYet DEF PlaceInv, Modes
<1> QED
  BY <1>1, <1>5, <1>6, FileStays

\* A chunk that opens is the next one, and its bytes continue what has come out.
LEMMA DecChunkInv ==
    ASSUME NEW cut \in Cuts, FileInv(cut), CallInv(cut), PlaceInv(cut), call.pc = "stream",
           C!DecChunk, UNCHANGED <<magic, call>>
    PROVE  CallInv(cut)' /\ PlaceInv(cut)'
<1> PICK k, mode : k = dec.index /\ mode = dec.mode
  OBVIOUS
<1> PICK f : f = disc.frames[k + 1]
  OBVIOUS
<1>1. /\ k \in Nat /\ k < Len(disc.frames) /\ dec.pc = "chunks" /\ mode \in Modes
      /\ C!Opens(f, dec.key, k) /\ UNCHANGED <<fmt, size, enc, disc, harm>>
      /\ dec' = [dec EXCEPT !.index = k + 1]
      /\ C!Put([there |-> TRUE, bytes |-> C!Out(mode).bytes \o f.data], mode)
  BY DEF C!DecChunk, C!DecOnly, CallInv
<1>2. IsChunk(f, cut) /\ Len(disc.frames) \in Nat /\ size \in Nat
  BY <1>1 DEF FileInv
<1>3. f.nonce = k /\ f.whole /\ dec.key = "right" /\ f.len \in Nat /\ cut[k] \in Nat
  BY <1>1, <1>2 DEF C!Opens, C!Nonce, IsChunk, FrameInfo, Cuts
<1>4. cut[k + 1] = cut[k] + f.len /\ cut[k + 1] <= size /\ f.data = [j \in 1..f.len |-> cut[k] + j]
  BY <1>2, <1>3 DEF IsChunk
<1>5. C!Out(mode).bytes = C!Plaintext(cut[k])
  BY <1>1 DEF PlaceInv, Holds
<1>6. C!Out(mode).bytes \o f.data = C!Plaintext(cut[k + 1])
  <2> PICK a \in Nat, n \in Nat : a = cut[k] /\ n = f.len
    BY <1>3
  <2>1. f.data = [j \in 1..n |-> a + j] /\ cut[k + 1] = a + n
    BY <1>4
  <2>2. C!Plaintext(a) \o [j \in 1..n |-> a + j] = C!Plaintext(a + n)
    BY PlainAppend, Zenon
  <2> QED
    BY <1>5, <2>1, <2>2
<1>7. C!Plaintext(cut[k + 1]) \in Seq(Nat) /\ cut[k + 1] \in Nat
  BY <1>3, <1>4 DEF C!Plaintext
<1> PICK all : all = [there |-> TRUE, bytes |-> C!Plaintext(cut[k + 1])]
  OBVIOUS
<1>8. all \in FileInfo /\ Holds(all, cut[k + 1]) /\ Upto(all.bytes, cut[k + 1])
  BY <1>7, NothingYet DEF FileInfo, Holds
<1>9. IF mode = "dest" THEN dest' = all /\ UNCHANGED temp ELSE temp' = all /\ UNCHANGED dest
  BY <1>1, <1>6 DEF C!Put, C!Output
<1>10. ASSUME NEW s, Upto(s, cut[k]) PROVE Upto(s, cut[k + 1])
  BY <1>3, <1>4, <1>7, <1>10 DEF Upto
<1>11. Upto(temp.bytes, cut[k])  /\ Upto(dest.bytes, cut[k]) /\ temp \in FileInfo /\ dest \in FileInfo
  BY DEF CallInv
<1>12. /\ temp' \in FileInfo /\ dest' \in FileInfo
       /\ Upto(temp'.bytes, cut[k + 1]) /\ Upto(dest'.bytes, cut[k + 1])
  BY <1>8, <1>9, <1>10, <1>11
<1>13. /\ dec' \in [pc : {"idle", "chunks", "ok", "failed", "aborted"}, mode : Modes, key : Keys, index : Nat]
       /\ dec'.pc = "chunks" /\ dec'.mode = mode /\ dec'.key = dec.key /\ dec'.index = k + 1
  BY <1>1 DEF CallInv
<1>14. C!Out(mode)' = all
  BY <1>9 DEF C!Out, C!Output
<1>15. \A i \in 1..(k + 1) : disc.frames[i].whole
  <2> SUFFICES ASSUME NEW i \in 1..(k + 1) PROVE disc.frames[i].whole
    OBVIOUS
  <2>1. CASE i = k + 1
    BY <1>3, <2>1
  <2>2. CASE i \in 1..k
    BY <2>2 DEF CallInv
  <2> QED
    BY <1>1, <2>1, <2>2
<1>16. CallInv(cut)'
  BY <1>1, <1>2, <1>3, <1>4, <1>12, <1>13, <1>15 DEF CallInv, Upto
<1>17. PlaceInv(cut)'
  BY <1>1, <1>8, <1>13, <1>14 DEF PlaceInv, C!Out, C!Output, Holds
<1> QED
  BY <1>16, <1>17

\* The end of a stream: it has opened every frame, or it removes its file.
LEMMA DecStopsInv ==
    ASSUME NEW cut \in Cuts, FileInv(cut), CallInv(cut), PlaceInv(cut), call.pc = "stream",
           C!DecAborts \/ C!DecFails \/ C!DecEnds, UNCHANGED <<magic, call>>
    PROVE  CallInv(cut)' /\ PlaceInv(cut)'
<1>1. /\ UNCHANGED <<fmt, size, enc, disc, harm, dest>>
      /\ dec.pc = "chunks" /\ temp \in FileInfo /\ dest \in FileInfo
  BY DEF C!DecAborts, C!DecFails, C!DecEnds, C!DecOnly, C!CleanUp, CallInv
<1>2. PICK pc \in {"aborted", "failed", "ok"} :
         /\ dec' = [dec EXCEPT !.pc = pc]
         /\ pc = "ok" => C!AtEnd /\ UNCHANGED temp
         /\ pc # "ok" => C!CleanUp
  BY DEF C!DecAborts, C!DecFails, C!DecEnds, C!To
<1>3. /\ dec' \in [pc : {"idle", "chunks", "ok", "failed", "aborted"}, mode : Modes, key : Keys, index : Nat]
      /\ dec'.pc = pc /\ dec'.mode = dec.mode /\ dec'.key = dec.key /\ dec'.index = dec.index
  BY <1>2 DEF CallInv
<1>4. temp' = temp \/ temp' = C!NoFile
  BY <1>2 DEF C!CleanUp
<1>5. pc # "ok" /\ dec.mode # "dest" => temp' = C!NoFile
  BY <1>2 DEF C!CleanUp, C!Output
<1>6. cut[dec.index] \in Nat /\ temp' \in FileInfo /\ Upto(temp'.bytes, cut[dec.index])
  BY <1>1, <1>4, NothingYet DEF CallInv, Cuts
<1>7. pc = "ok" => dec.index = Len(disc.frames) /\ disc.tail # "body"
  BY <1>2 DEF C!AtEnd
<1>8. CallInv(cut)'
  BY <1>1, <1>3, <1>6, <1>7 DEF CallInv, Upto
<1>9. PlaceInv(cut)'
  <2>1. pc = "ok" => Holds(C!Out(dec.mode)', cut[dec.index])
    BY <1>1, <1>2 DEF PlaceInv, C!Out, C!Output, Holds
  <2> QED
    BY <1>1, <1>3, <1>5, <2>1 DEF PlaceInv, C!Out, C!Output, Holds
<1> QED
  BY <1>8, <1>9

\* The call takes what the stream left.
LEMMA StreamEndsInv ==
    ASSUME NEW cut \in Cuts, FileInv(cut), CallInv(cut), PlaceInv(cut), ~Legacy, StreamEnds
    PROVE  FileInv(cut)' /\ CallInv(cut)' /\ PlaceInv(cut)'
<1>1. /\ UNCHANGED <<fmt, magic, temp, dest, size, enc, disc, harm, dec>> /\ call.pc = "stream"
  BY DEF StreamEnds, chunked
<1>2. PICK pc \in {"copying", "ok", "failed"} :
         /\ call' = [call EXCEPT !.pc = pc]
         /\ pc # "failed" => dec.pc = "ok"
         /\ pc = "failed" => dec.pc \in {"failed", "aborted"}
         /\ pc = "copying" <=> call.mode \in {"memory", "copy"} /\ dec.pc = "ok"
  <2>1. dec.pc \in {"idle", "chunks", "ok", "failed", "aborted"}
    BY DEF CallInv
  <2> QED
    BY <2>1 DEF StreamEnds, Goes
<1>3. /\ call' \in [pc : {"idle", "stream", "copying", "ok", "failed"}, mode : Modes, key : Keys]
      /\ call'.pc = pc /\ call'.mode = call.mode /\ call'.key = call.key
  BY <1>2 DEF CallInv
<1>4. dec.pc # "idle" /\ magic = fmt /\ call.mode = dec.mode /\ call.key = dec.key
      /\ call.mode \in Modes /\ enc.pc \in {"done", "failed"}
  BY <1>1 DEF CallInv, PlaceInv
<1>5. CallInv(cut)'
  BY <1>1, <1>3, <1>4 DEF CallInv, Upto
<1>6. dec.pc = "ok" => Holds(C!Out(dec.mode), cut[dec.index])
  BY <1>1 DEF PlaceInv
<1>7. PlaceInv(cut)'
  BY <1>1, <1>2, <1>3, <1>4, <1>6 DEF PlaceInv, C!Out, C!Output, Holds, Modes
<1> QED
  BY <1>1, <1>5, <1>7, FileStays

\* A part of what was taken is taken as well.
LEMMA PartUpto ==
    ASSUME NEW m \in Nat, NEW s \in Seq(Nat), Upto(s, m), NEW n \in 0..Len(s)
    PROVE  SubSeq(s, 1, n) \in Seq(Nat) /\ Upto(SubSeq(s, 1, n), m)
<1>1. PICK k \in 0..m : s = C!Plaintext(k)
  BY DEF Upto
<1>2. k \in Nat /\ Len(s) = k /\ n \in 0..k
  BY <1>1, PlainPrefix
<1>3. SubSeq(s, 1, n) = C!Plaintext(n) /\ C!Plaintext(n) \in Seq(Nat)
  BY <1>1, <1>2, PlainPrefix
<1>4. n \in 0..m
  BY <1>2
<1> QED
  BY <1>3, <1>4 DEF Upto

\* The copy has what the temporary file had, or a part of it when it fails.
LEMMA CopiesInv ==
    ASSUME NEW cut \in Cuts, FileInv(cut), CallInv(cut), PlaceInv(cut), ~Legacy, Copies \/ CopyFails
    PROVE  FileInv(cut)' /\ CallInv(cut)' /\ PlaceInv(cut)'
<1>1. /\ UNCHANGED <<fmt, magic, size, enc, disc, harm, dec>> /\ call.pc = "copying"
  BY DEF Copies, CopyFails, chunked
<1>2. PICK pc \in {"ok", "failed"} :
         /\ call' = [call EXCEPT !.pc = pc]
         /\ pc = "ok" => dest' = temp /\ temp' = C!NoFile
         /\ pc = "failed" => temp' = temp
  BY DEF Copies, CopyFails, Goes
<1>3. /\ call' \in [pc : {"idle", "stream", "copying", "ok", "failed"}, mode : Modes, key : Keys]
      /\ call'.pc = pc /\ call'.mode = call.mode /\ call'.key = call.key
  BY <1>2 DEF CallInv
<1>4. /\ temp \in FileInfo /\ dest \in FileInfo /\ cut[dec.index] \in Nat
      /\ Upto(temp.bytes, cut[dec.index]) /\ Upto(dest.bytes, cut[dec.index])
      /\ call.mode \in {"memory", "copy"} /\ Holds(temp, cut[dec.index]) /\ (magic = fmt => dec.pc = "ok")
  BY <1>1 DEF CallInv, PlaceInv, Cuts
<1>5. temp' \in FileInfo /\ dest' \in FileInfo
      /\ Upto(temp'.bytes, cut[dec.index]) /\ Upto(dest'.bytes, cut[dec.index])
  <2>1. CASE Copies
    BY <1>4, <2>1, NothingYet DEF Copies
  <2>2. CASE CopyFails /\ UNCHANGED dest
    BY <1>4, <2>2 DEF CopyFails
  <2>3. CASE CopyFails /\ dest' # dest
    <3>1. PICK n \in 0..Len(temp.bytes) : dest' = [there |-> TRUE, bytes |-> SubSeq(temp.bytes, 1, n)]
      BY <2>3 DEF CopyFails
    <3>2. temp.bytes \in Seq(Nat)
      BY <1>4 DEF FileInfo
    <3>3. SubSeq(temp.bytes, 1, n) \in Seq(Nat) /\ Upto(SubSeq(temp.bytes, 1, n), cut[dec.index])
      BY <1>4, <3>2, PartUpto
    <3>4. dest' \in FileInfo /\ dest'.bytes = SubSeq(temp.bytes, 1, n)
      BY <3>1, <3>3 DEF FileInfo
    <3> QED
      BY <1>4, <2>3, <3>3, <3>4 DEF CopyFails
  <2> QED
    BY <2>1, <2>2, <2>3
<1>6. CallInv(cut)'
  BY <1>1, <1>3, <1>4, <1>5 DEF CallInv, Upto
<1>7. PlaceInv(cut)'
  BY <1>1, <1>2, <1>3, <1>4 DEF PlaceInv, Holds
<1> QED
  BY <1>1, <1>6, <1>7, FileStays

-----------------------------------------------------------------------------

\* The steps on a file in a chunked format.
LEMMA ChunkedStep ==
    ASSUME fmt \in Formats, ~Legacy, Next, NEW cut \in Cuts, FileInv(cut), CallInv(cut), PlaceInv(cut)
    PROVE  UNCHANGED fmt /\ \E new \in Cuts : FileInv(new)' /\ CallInv(new)' /\ PlaceInv(new)'
<1>1. CASE Encrypts
  <2>1. C!Encrypts /\ UNCHANGED <<fmt, size, call, dec, temp, dest>> /\ enc.pc \in {"start", "chunks"}
    BY <1>1 DEF Encrypts, C!Encrypts, C!EncHeader, C!EncChunk, C!EncFails, C!EncEnds, C!EncOnly
  <2>2. call.pc = "idle" /\ fmt \in C!Formats
    BY <2>1 DEF CallInv, Formats, Legacy
  <2>3. PICK new \in Cuts : new[0] = 0 /\ FileInv(new)'
    <3>1. CASE C!EncChunk
      BY <2>2, <3>1, EncChunkInv
    <3>2. CASE C!EncHeader \/ C!EncFails \/ C!EncEnds
      <4>1. cut[0] = 0
        BY DEF FileInv
      <4> QED
        BY <3>2, <4>1, EncEndsInv
    <3> QED
      BY <2>1, <3>1, <3>2 DEF C!Encrypts
  <2>4. disc'.frames \in Seq(FrameInfo) /\ size \in Nat
    BY <2>1, <2>3 DEF FileInv
  <2>5. CallInv(new)' /\ PlaceInv(new)'
    BY <2>1, <2>2, <2>3, <2>4, IdleCall
  <2> QED
    BY <2>1, <2>3, <2>5
<1>2. CASE IsHarmed
  <2>1. C!Medium /\ UNCHANGED <<fmt, size, call, dec, temp, dest>> /\ call.pc = "idle"
    BY <1>2 DEF IsHarmed, C!Medium, C!LosesFrame, C!CutsFrame, C!SwapsFrames, C!GarblesFrame, C!Harms
  <2>2. FileInv(cut)'
    BY <2>1, MediumInv
  <2>3. disc'.frames \in Seq(FrameInfo) /\ size \in Nat /\ cut[0] = 0
    BY <2>1, <2>2 DEF FileInv
  <2> QED
    BY <2>1, <2>2, <2>3, IdleCall
<1>3. CASE LosesMagic
  <2>1. UNCHANGED <<fmt, size, enc, disc, harm, call, dec, temp, dest>> /\ call.pc = "idle"
    BY <1>3 DEF LosesMagic, chunked
  <2>2. disc'.frames \in Seq(FrameInfo) /\ size \in Nat /\ cut[0] = 0
    BY <2>1 DEF FileInv
  <2> QED
    BY <2>1, <2>2, IdleCall, FileStays
<1>4. CASE Starts
  BY <1>4, StartsInv DEF Starts, C!DecStarts, C!DecOnly
<1>5. CASE DecryptsBytes
  BY <1>5 DEF DecryptsBytes
<1>6. CASE IsRefused \/ Misreads
  BY <1>6, RefusedInv DEF IsRefused, Misreads
<1>7. CASE Streams
  <2>1. C!Streams /\ call.pc = "stream" /\ UNCHANGED <<magic, call>>
    BY <1>7 DEF Streams
  <2>2. UNCHANGED <<fmt, size, enc, disc, harm>>
    BY <2>1 DEF C!Streams, C!DecAborts, C!DecChunk, C!DecFails, C!DecEnds, C!DecOnly
  <2> QED
    BY <2>1, <2>2, DecChunkInv, DecStopsInv, FileStays DEF C!Streams
<1>8. CASE StreamEnds
  BY <1>8, StreamEndsInv DEF StreamEnds
<1>9. CASE Copies \/ CopyFails
  BY <1>9, CopiesInv DEF Copies, CopyFails
<1> QED
  BY <1>1, <1>2, <1>3, <1>4, <1>5, <1>6, <1>7, <1>8, <1>9 DEF Next

-----------------------------------------------------------------------------
(* DBENC001: multiples of the block *)

\* A multiple of Block is no multiple between two others.
LEMMA Between ==
    ASSUME NEW a \in Nat, NEW b \in Nat, NEW r \in 0..(Block - 1), NEW t \in 0..(Block - 1),
           a * Block + r = b * Block + t
    PROVE  a = b /\ r = t
<1>1. Block \in Nat \ {0}
  BY SizesAssumption
<1>2. (a - b) * Block = t - r
  BY <1>1
<1>3. ASSUME NEW d \in Int, d * Block < Block, d * Block > -Block PROVE d = 0
  <2>1. CASE d >= 1
    <3>1. (d - 1) * Block >= 0
      BY <1>1, <2>1
    <3> QED
      BY <1>1, <1>3, <3>1
  <2>2. CASE d <= -1
    <3>1. (-d - 1) * Block >= 0
      BY <1>1, <2>2
    <3> QED
      BY <1>1, <1>3, <3>1
  <2> QED
    BY <2>1, <2>2
<1>4. a - b = 0
  BY <1>1, <1>2, <1>3
<1> QED
  BY <1>1, <1>2, <1>4

\* The bytes of d blocks and n more.
LEMMA Distribute ==
    ASSUME NEW d \in Nat, NEW n \in Nat
    PROVE  d * Block \in Nat /\ n * Block \in Nat /\ (d + n) * Block = d * Block + n * Block
  BY SizesAssumption

\* Division by Block with remainder.
LEMMA Division ==
    ASSUME NEW n \in Nat
    PROVE  /\ n \div Block \in Nat /\ n % Block \in 0..(Block - 1)
           /\ n = (n \div Block) * Block + (n % Block)
<1> PICK b \in Nat \ {0} : b = Block
  BY SizesAssumption
<1>1. n \div b \in Nat
  OBVIOUS
<1>2. n % b \in 0..(b - 1)
  OBVIOUS
<1>3. n = (n \div b) * b + (n % b)
  OBVIOUS
<1> QED
  BY <1>1, <1>2, <1>3

\* The block and the offset of a byte.
LEMMA Quotient ==
    ASSUME NEW k \in Nat, NEW r \in 0..(Block - 1)
    PROVE  (k * Block + r) \div Block = k /\ (k * Block + r) % Block = r
<1>1. Block \in Nat \ {0} /\ k * Block \in Nat
  BY SizesAssumption
<1>2. k * Block + r \in Nat
  BY <1>1
<1> PICK n \in Nat : n = k * Block + r
  BY <1>2
<1>3. n \div Block \in Nat /\ n % Block \in 0..(Block - 1) /\ n = (n \div Block) * Block + (n % Block)
  BY Division
<1> PICK q \in Nat, t \in 0..(Block - 1) : q = n \div Block /\ t = n % Block
  BY <1>3
<1>4. k = q /\ r = t
  BY <1>3, Between
<1> QED
  BY <1>4

\* More blocks are more bytes.
LEMMA Monotone ==
    ASSUME NEW a \in Nat, NEW b \in Nat
    PROVE  /\ a <= b => a * Block <= b * Block
           /\ a < b => (a + 1) * Block <= b * Block
           /\ a * Block \in Nat /\ (a + 1) * Block = a * Block + Block /\ Block \in Nat \ {0}
<1>1. Block \in Nat \ {0}
  BY SizesAssumption
<1>2. ASSUME NEW c \in Nat, NEW d \in Nat, c <= d PROVE c * Block <= d * Block
  <2>1. (d - c) * Block >= 0
    BY <1>1, <1>2
  <2> QED
    BY <1>1, <2>1
<1> QED
  BY <1>1, <1>2

-----------------------------------------------------------------------------
(* DBENC001: blocks, chaining and padding *)

\* The padding fills up the last block.
LEMMA PaddedIs ==
    ASSUME plain \in Seq(Nat)
    PROVE  /\ Count \in Nat \ {0} /\ Padded \in Seq(Nat) /\ Len(Padded) = Count * Block
           /\ (Count - 1) * Block <= Len(plain) /\ Len(plain) < Len(Padded)
           /\ \A i \in 1..Len(plain) : Padded[i] = plain[i]
           /\ \A i \in (Len(plain) + 1)..Len(Padded) : Padded[i] = Len(Padded) - Len(plain)
<1>0. PICK n \in Nat, q \in Nat, r \in 0..(Block - 1) :
         n = Len(plain) /\ q = n \div Block /\ r = n % Block /\ n = q * Block + r
  BY Division
<1>1. Block \in Nat \ {0} /\ q * Block \in Nat /\ (q + 1) * Block = q * Block + Block
  BY Monotone
<1>2. Count = q + 1 /\ Count - 1 = q
  BY <1>0 DEF Count
<1>3. PICK a \in Nat, m \in 1..Block : a = q * Block /\ m = Block - r
  BY <1>1
<1>14. n = Len(plain) /\ n = a + r /\ (q + 1) * Block = a + Block
  BY <1>0, <1>1, <1>3, Zenon
<1>15. Block \in Nat \ {0} /\ m = Block - r
  BY <1>1, <1>3
<1>16. a + Block = n + m
  BY <1>14, <1>15
<1>4. n = Len(plain) /\ n = a + r /\ (q + 1) * Block = a + Block /\ a + Block = n + m
  BY <1>14, <1>16
<1>5. L!Padding(plain) = [i \in 1..m |-> m]
  BY <1>0, <1>3 DEF L!Padding
<1>6. PICK p \in Seq(Nat) : p = L!Padding(plain) /\ Len(p) = m /\ \A i \in 1..m : p[i] = m
  BY <1>1, <1>5
<1>7. Padded = plain \o p
  BY <1>6 DEF Padded
<1>17. n = Len(plain)
  BY <1>14
<1>19. Padded \in Seq(Nat) /\ Len(Padded) = Len(plain) + Len(p)
  BY <1>7, ConcatProperties, Zenon
<1>8. Padded \in Seq(Nat) /\ Len(Padded) = n + m
  BY <1>6, <1>17, <1>19
<1>9. \A i \in 1..(Len(plain) + Len(p)) : Padded[i] = IF i <= Len(plain) THEN plain[i] ELSE p[i - Len(plain)]
  BY <1>7, ConcatProperties, Zenon
<1>10. \A i \in 1..n : Padded[i] = plain[i]
  BY <1>4, <1>6, <1>9
<1>11. ASSUME NEW i \in (n + 1)..(n + m) PROVE Padded[i] = m
  <2>1. i \in 1..(Len(plain) + Len(p)) /\ ~(i <= Len(plain)) /\ i - Len(plain) \in 1..m
    BY <1>1, <1>4, <1>6
  <2>2. Padded[i] = p[i - Len(plain)]
    BY <1>9, <2>1, Zenon
  <2> QED
    BY <1>6, <2>1, <2>2
<1>12. Len(Padded) - Len(plain) = m /\ Len(Padded) = Count * Block
  BY <1>2, <1>4, <1>8
<1>18. (Count - 1) * Block = a /\ Count \in Nat \ {0}
  BY <1>2, <1>3
<1>13. (Count - 1) * Block <= Len(plain) /\ Len(plain) < Len(Padded)
  BY <1>8, <1>14, <1>18
<1> QED
  BY <1>8, <1>10, <1>11, <1>12, <1>13, <1>17, <1>18

\* What BlocksOf returns.
LEMMA BlocksAre ==
    ASSUME NEW s \in Seq(Nat), NEW n \in Nat, NEW r \in 0..(Block - 1), Len(s) = n * Block + r
    PROVE  /\ L!BlocksOf(s) \in Seq(Seq(Nat)) /\ Len(L!BlocksOf(s)) = n
           /\ L!WholeBytes(s) = n * Block
           /\ \A k \in 1..n : L!BlocksOf(s)[k] = SubSeq(s, (k - 1) * Block + 1, k * Block)
<1>1. Len(s) \div Block = n
  BY Quotient
<1> PICK bs : bs = L!BlocksOf(s)
  OBVIOUS
<1>2. bs = [k \in 1..n |-> SubSeq(s, (k - 1) * Block + 1, k * Block)]
  BY <1>1 DEF L!BlocksOf
<1>3. ASSUME NEW k \in 1..n PROVE SubSeq(s, (k - 1) * Block + 1, k * Block) \in Seq(Nat)
  <2>1. k \in Nat /\ k - 1 \in Nat
    OBVIOUS
  <2>2. k * Block \in Nat /\ (k - 1) * Block \in Nat /\ n * Block \in Nat
    BY <2>1, Monotone
  <2>5. k * Block <= n * Block
    BY <2>1, Monotone
  <2>6. PICK a \in Nat, b \in Nat, c \in Nat : a = (k - 1) * Block /\ b = k * Block /\ c = n * Block
    BY <2>2
  <2>7. b <= c /\ Len(s) = c + r
    BY <2>5, <2>6
  <2>3. \A i \in (a + 1)..b : i \in 1..Len(s)
    BY <2>7
  <2>4. SubSeq(s, a + 1, b) \in Seq(Nat)
    BY <2>3, SubSeqProperties
  <2> QED
    BY <2>4, <2>6
<1>4. bs \in Seq(Seq(Nat)) /\ Len(bs) = n
  BY <1>2, <1>3
<1> QED
  BY <1>1, <1>2, <1>4 DEF L!WholeBytes

\* A part of a sequence.
LEMMA PartIs ==
    ASSUME NEW S, NEW s \in Seq(S), NEW a \in Nat, NEW b \in Nat, a <= b, b <= Len(s)
    PROVE  /\ SubSeq(s, a + 1, b) \in Seq(S) /\ Len(SubSeq(s, a + 1, b)) = b - a
           /\ \A i \in 1..(b - a) : SubSeq(s, a + 1, b)[i] = s[a + i]
<1>1. PICK t : t = SubSeq(s, a + 1, b)
  OBVIOUS
<1>2. t \in Seq(S) /\ Len(t) = b - a /\ \A i \in 1..(b - a) : t[i] = s[a + i]
  BY <1>1
<1> QED
  BY <1>1, <1>2

\* Two neighbouring parts of a sequence are one part.
LEMMA Joins ==
    ASSUME NEW S, NEW s \in Seq(S), NEW l \in Nat, NEW a \in Nat, NEW b \in Nat,
           l <= a, a <= b, b <= Len(s)
    PROVE  SubSeq(s, l + 1, a) \o SubSeq(s, a + 1, b) = SubSeq(s, l + 1, b)
<1>1. PICK t, u, v : t = SubSeq(s, l + 1, a) /\ u = SubSeq(s, a + 1, b) /\ v = SubSeq(s, l + 1, b)
  OBVIOUS
<1>2. /\ t \in Seq(S) /\ Len(t) = a - l /\ \A i \in 1..(a - l) : t[i] = s[l + i]
      /\ u \in Seq(S) /\ Len(u) = b - a /\ \A i \in 1..(b - a) : u[i] = s[a + i]
      /\ v \in Seq(S) /\ Len(v) = b - l /\ \A i \in 1..(b - l) : v[i] = s[l + i]
  <2>1. a <= Len(s) /\ l <= b
    BY LenProperties
  <2> QED
    BY <1>1, <2>1, PartIs
<1>3. /\ t \o u \in Seq(S) /\ Len(t \o u) = Len(t) + Len(u)
      /\ \A i \in 1..(Len(t) + Len(u)) : (t \o u)[i] = IF i <= Len(t) THEN t[i] ELSE u[i - Len(t)]
  BY <1>2, ConcatProperties, Zenon
<1>4. PICK w : w = t \o u
  OBVIOUS
<1>8. w \in Seq(S) /\ Len(w) = Len(t) + Len(u)
  BY <1>3, <1>4
<1>5. w \in Seq(S) /\ Len(w) = b - l
  BY <1>2, <1>8
<1>6. ASSUME NEW i \in 1..(b - l) PROVE w[i] = v[i]
  <2>1. i \in 1..(Len(t) + Len(u))
    BY <1>2
  <2>2. w[i] = IF i <= Len(t) THEN t[i] ELSE u[i - Len(t)]
    BY <1>3, <1>4, <2>1, Zenon
  <2>3. CASE i <= a - l
    BY <1>2, <2>2, <2>3
  <2>4. CASE i > a - l
    <3>1. i - (a - l) \in 1..(b - a) /\ a + (i - (a - l)) = l + i
      BY <2>4
    <3> QED
      BY <1>2, <2>2, <2>4, <3>1
  <2> QED
    BY <2>3, <2>4
<1>7. w = v
  BY <1>2, <1>5, <1>6, SeqEqual
<1> QED
  BY <1>1, <1>4, <1>7

\* A part of a part of a sequence.
LEMMA Within ==
    ASSUME NEW S, NEW s \in Seq(S), NEW a \in Nat, NEW b \in Nat, NEW x \in Nat, NEW y \in Nat,
           x <= y, a + y <= b, b <= Len(s)
    PROVE  SubSeq(SubSeq(s, a + 1, b), x + 1, y) = SubSeq(s, a + x + 1, a + y)
<1>1. PICK t, u, v : t = SubSeq(s, a + 1, b) /\ u = SubSeq(t, x + 1, y) /\ v = SubSeq(s, a + x + 1, a + y)
  OBVIOUS
<1>2. /\ t \in Seq(S) /\ Len(t) = b - a /\ \A i \in 1..(b - a) : t[i] = s[a + i]
      /\ v \in Seq(S) /\ Len(v) = y - x /\ \A i \in 1..(y - x) : v[i] = s[a + x + i]
  BY <1>1
<1>3. u \in Seq(S) /\ Len(u) = y - x /\ \A i \in 1..(y - x) : u[i] = t[x + i]
  BY <1>1, <1>2
<1>4. \A i \in 1..(y - x) : u[i] = v[i]
  BY <1>2, <1>3
<1>5. u = v
  BY <1>2, <1>3, <1>4, SeqEqual
<1> QED
  BY <1>1, <1>5

\* What encrypt_legacy_cbc_block makes of the blocks.
LEMMA CipherIs ==
    ASSUME NEW before \in Seq(Seq(Nat)), NEW bs \in Seq(Seq(Nat))
    PROVE  /\ L!Cipher(before, bs) \in Seq(Cells) /\ Len(L!Cipher(before, bs)) = Len(bs) * Block
           /\ \A k \in 0..(Len(bs) - 1), j \in 1..Block :
                 L!Cipher(before, bs)[k * Block + j] =
                     [chain |-> before \o SubSeq(bs, 1, k + 1), off |-> j - 1]
<1>1. PICK n \in Nat, z \in Nat : n = Len(bs) /\ z = n * Block
  BY Monotone
<1>2. PICK c : c = [i \in 1..z |-> [chain |-> before \o SubSeq(bs, 1, ((i - 1) \div Block) + 1),
                                   off |-> (i - 1) % Block]]
  OBVIOUS
<1>3. c = L!Cipher(before, bs)
  BY <1>1, <1>2 DEF L!Cipher
<1>4. ASSUME NEW k \in Nat, k < n PROVE before \o SubSeq(bs, 1, k + 1) \in Seq(Seq(Nat))
  <2>1. SubSeq(bs, 1, k + 1) \in Seq(Seq(Nat))
    BY <1>1, <1>4
  <2> QED
    BY <2>1, ConcatProperties, Zenon
<1>5. ASSUME NEW i \in 1..z
      PROVE  \E k \in Nat, r \in 0..(Block - 1) :
               k < n /\ k = (i - 1) \div Block /\ r = (i - 1) % Block
  <2>1. i - 1 \in Nat
    OBVIOUS
  <2>2. PICK k \in Nat, r \in 0..(Block - 1) :
           k = (i - 1) \div Block /\ r = (i - 1) % Block /\ i - 1 = k * Block + r
    BY <2>1, Division
  <2>3. ASSUME n <= k PROVE FALSE
    <3>1. n * Block <= k * Block /\ k * Block \in Nat /\ Block \in Nat \ {0}
      BY <1>1, <2>3, Monotone
    <3>2. PICK y \in Nat : y = k * Block /\ z <= y
      BY <1>1, <3>1
    <3>3. i - 1 = y + r /\ r >= 0
      BY <2>2, <3>1, <3>2
    <3> QED
      BY <3>2, <3>3
  <2> QED
    BY <1>1, <2>2, <2>3
<1>6. ASSUME NEW i \in 1..z PROVE c[i] \in Cells
  <2>1. PICK k \in Nat, r \in 0..(Block - 1) : k < n /\ k = (i - 1) \div Block /\ r = (i - 1) % Block
    BY <1>5
  <2>2. c[i] = [chain |-> before \o SubSeq(bs, 1, k + 1), off |-> r]
    BY <1>2, <2>1
  <2>3. r \in Nat
    BY SizesAssumption
  <2>4. PICK h \in Seq(Seq(Nat)) : h = before \o SubSeq(bs, 1, k + 1)
    BY <1>4, <2>1
  <2>5. c[i] = [chain |-> h, off |-> r]
    BY <2>2, <2>4
  <2> QED
    BY <2>3, <2>5 DEF Cells
<1>9. c = [i \in 1..z |-> c[i]]
  BY <1>2
<1>7. c \in Seq(Cells) /\ Len(c) = z
  <2>1. c \in [1..z -> Cells]
    BY <1>6, <1>9, Zenon
  <2> QED
    BY <2>1, SeqDef
<1>8. ASSUME NEW k \in 0..(Len(bs) - 1), NEW j \in 1..Block
      PROVE  c[k * Block + j] = [chain |-> before \o SubSeq(bs, 1, k + 1), off |-> j - 1]
  <2>1. k \in Nat /\ k < n /\ j - 1 \in 0..(Block - 1) /\ Block \in Nat \ {0}
    BY <1>1, SizesAssumption
  <2>2. (k * Block + (j - 1)) \div Block = k /\ (k * Block + (j - 1)) % Block = j - 1
    BY <2>1, Quotient
  <2>3. (k + 1) * Block <= n * Block /\ k * Block \in Nat /\ (k + 1) * Block = k * Block + Block
    BY <1>1, <2>1, Monotone
  <2>4. PICK x \in Nat : x = k * Block /\ x + Block <= z
    BY <1>1, <2>3
  <2>7. Block \in Nat \ {0} /\ x + Block <= z
    BY <2>1, <2>4
  <2>5. x + j \in 1..z /\ (x + j) - 1 = x + (j - 1)
    BY <2>7
  <2>6. c[x + j] = [chain |-> before \o SubSeq(bs, 1, k + 1), off |-> j - 1]
    BY <1>2, <2>2, <2>4, <2>5
  <2> QED
    BY <2>4, <2>6
<1> QED
  BY <1>1, <1>3, <1>7, <1>8

\* The padded plaintext, block by block.
LEMMA BlocksIs ==
    ASSUME plain \in Seq(Nat)
    PROVE  /\ Blocks \in Seq(Seq(Nat)) /\ Len(Blocks) = Count
           /\ \A k \in 0..(Count - 1) : Blocks[k + 1] = SubSeq(Padded, k * Block + 1, (k + 1) * Block)
<1>1. Count \in Nat \ {0} /\ Padded \in Seq(Nat) /\ Len(Padded) = Count * Block
  BY PaddedIs
<1>6. Count * Block \in Nat
  BY <1>1, Monotone
<1>7. 0 \in 0..(Block - 1)
  BY SizesAssumption
<1>2. 0 \in 0..(Block - 1) /\ Count * Block \in Nat
  BY <1>6, <1>7
<1>3. Len(Padded) = Count * Block + 0
  BY <1>1, <1>2
<1>4. /\ Blocks \in Seq(Seq(Nat)) /\ Len(Blocks) = Count
      /\ \A k \in 1..Count : Blocks[k] = SubSeq(Padded, (k - 1) * Block + 1, k * Block)
  BY <1>1, <1>2, <1>3, BlocksAre DEF Blocks
<1>5. ASSUME NEW k \in 0..(Count - 1)
      PROVE  Blocks[k + 1] = SubSeq(Padded, k * Block + 1, (k + 1) * Block)
  <2>1. k + 1 \in 1..Count /\ (k + 1) - 1 = k
    BY <1>1
  <2>2. Blocks[k + 1] = SubSeq(Padded, ((k + 1) - 1) * Block + 1, (k + 1) * Block)
    BY <1>4, <2>1, Zenon
  <2> QED
    BY <2>1, <2>2, Zenon
<1> QED
  BY <1>4, <1>5

\* The ciphertext of the padded plaintext: a byte of block k holds the first k blocks.
LEMMA FullIs ==
    ASSUME plain \in Seq(Nat)
    PROVE  /\ Full \in Seq(Cells) /\ Len(Full) = Count * Block
           /\ \A k \in 0..(Count - 1), j \in 1..Block :
                 Full[k * Block + j] = [chain |-> SubSeq(Blocks, 1, k + 1), off |-> j - 1]
<1>1. Blocks \in Seq(Seq(Nat)) /\ Len(Blocks) = Count /\ Count \in Nat
  BY BlocksIs, PaddedIs
<1>2. <<>> \in Seq(Seq(Nat))
  OBVIOUS
<1>3. /\ Full \in Seq(Cells) /\ Len(Full) = Count * Block
      /\ \A k \in 0..(Count - 1), j \in 1..Block :
            Full[k * Block + j] = [chain |-> <<>> \o SubSeq(Blocks, 1, k + 1), off |-> j - 1]
  BY <1>1, <1>2, CipherIs DEF Full
<1>4. ASSUME NEW k \in 0..(Count - 1) PROVE <<>> \o SubSeq(Blocks, 1, k + 1) = SubSeq(Blocks, 1, k + 1)
  <2>1. SubSeq(Blocks, 1, k + 1) \in Seq(Seq(Nat))
    BY <1>1
  <2> QED
    BY <2>1, ConcatEmptySeq, Zenon
<1> QED
  BY <1>3, <1>4

\* One block of ciphertext and the one before it give one block of plaintext.
LEMMA BlockOpens ==
    ASSUME plain \in Seq(Nat), NEW q \in 0..(Count - 1)
    PROVE  L!DecryptBlock(SubSeq(Full, q * Block + 1, (q + 1) * Block), Before(q)) = Blocks[q + 1]
<1>1. /\ Full \in Seq(Cells) /\ Len(Full) = Count * Block /\ Count \in Nat \ {0} /\ q \in Nat
      /\ Blocks \in Seq(Seq(Nat)) /\ Len(Blocks) = Count
  BY FullIs, BlocksIs, PaddedIs
<1>2. /\ q * Block \in Nat /\ (q + 1) * Block = q * Block + Block /\ Block \in Nat \ {0}
      /\ (q + 1) * Block <= Count * Block
  <2>1. q \in Nat /\ Count \in Nat /\ q < Count
    BY <1>1
  <2> QED
    BY <2>1, Monotone
<1>13. PICK x \in Nat : x = q * Block
  BY <1>2
<1>14. PICK b, p, h : /\ b = SubSeq(Full, x + 1, x + Block)
                      /\ p = Before(q) /\ h = SubSeq(Blocks, 1, q + 1)
  OBVIOUS
<1>3. /\ x = q * Block /\ b = SubSeq(Full, x + 1, x + Block)
      /\ p = Before(q) /\ h = SubSeq(Blocks, 1, q + 1)
  BY <1>13, <1>14
<1>4. x + Block <= Len(Full) /\ (q + 1) * Block = x + Block
  BY <1>1, <1>2, <1>3
<1>5. b \in Seq(Cells) /\ Len(b) = Block /\ \A j \in 1..Block : b[j] = Full[x + j]
  <2>1. x + Block \in Nat /\ x <= x + Block /\ (x + Block) - x = Block
    BY <1>2
  <2>2. PICK y \in Nat : y = x + Block
    BY <2>1
  <2>3. y - x = Block /\ x <= y /\ y <= Len(Full) /\ b = SubSeq(Full, x + 1, y)
    BY <1>3, <1>4, <2>1, <2>2
  <2> QED
    BY <1>1, <2>3, PartIs
<1>6. \A j \in 1..Block : b[j] = [chain |-> h, off |-> j - 1]
  BY <1>3, <1>5, FullIs
<1>7. h \in Seq(Seq(Nat)) /\ Len(h) = q + 1 /\ h[q + 1] = Blocks[q + 1]
  BY <1>1, <1>3
<1>8. 1 \in 1..Block
  BY <1>2
<1>12. b[1] = [chain |-> h, off |-> 1 - 1]
  BY <1>6, <1>8
<1>9. b[1].chain = h
  BY <1>12
<1>10. L!ChainOf(p) = SubSeq(h, 1, q)
  <2>1. CASE q = 0
    BY <1>3, <1>7, <2>1 DEF Before, L!ChainOf
  <2>2. CASE q # 0
    <3>1. PICK k \in 0..(Count - 1) : k = q - 1 /\ k + 1 = q /\ k \in Nat
      BY <1>1, <2>2
    <3>2. p = SubSeq(Full, k * Block + 1, q * Block)
      BY <1>3, <2>2, <3>1 DEF Before
    <3>3. k * Block \in Nat /\ q * Block = k * Block + Block
      BY <3>1, Monotone
    <3>4. PICK y \in Nat : y = k * Block /\ x = y + Block
      BY <1>3, <3>3
    <3>5. p \in Seq(Cells) /\ Len(p) = Block /\ p[1] = Full[y + 1]
      <4>1. y <= x /\ x <= Len(Full) /\ x - y = Block
        BY <1>1, <1>2, <1>4, <3>4
      <4>2. p = SubSeq(Full, y + 1, x)
        BY <1>3, <3>2, <3>4
      <4> QED
        BY <1>1, <1>8, <4>1, <4>2, PartIs
    <3>6. p[1] = [chain |-> SubSeq(Blocks, 1, q), off |-> 1 - 1]
      BY <1>8, <3>1, <3>4, <3>5, FullIs
    <3>7. p # <<>>
      BY <1>2, <3>5
    <3>8. SubSeq(h, 0 + 1, q) = SubSeq(Blocks, 0 + 0 + 1, 0 + q)
      <4>1. 0 <= q /\ 0 + q <= q + 1 /\ q + 1 <= Len(Blocks) /\ 0 \in Nat /\ q + 1 \in Nat
        BY <1>1
      <4>2. h = SubSeq(Blocks, 0 + 1, q + 1)
        BY <1>3
      <4> QED
        BY <1>1, <4>1, <4>2, Within
    <3>9. SubSeq(h, 1, q) = SubSeq(Blocks, 1, q)
      BY <1>1, <3>8
    <3> QED
      BY <3>6, <3>7, <3>9 DEF L!ChainOf
  <2> QED
    BY <2>1, <2>2
<1>11. L!DecryptBlock(b, p) = h[q + 1]
  <2>1. \A j \in 1..Block : b[j] = [chain |-> b[1].chain, off |-> j - 1]
    BY <1>6, <1>9
  <2>2. Len(b[1].chain) = q + 1 /\ Len(b[1].chain) - 1 = q /\ b[1].chain[Len(b[1].chain)] = h[q + 1]
    BY <1>7, <1>9
  <2>3. L!ChainOf(p) = SubSeq(b[1].chain, 1, Len(b[1].chain) - 1)
    BY <1>9, <1>10, <2>2
  <2> QED
    BY <2>1, <2>2, <2>3 DEF L!DecryptBlock
<1> QED
  BY <1>3, <1>4, <1>7, <1>11

\* The blocks of ciphertext from m on, the block before them, give the plaintext from m on.
LEMMA BlocksOpen ==
    ASSUME plain \in Seq(Nat), NEW m \in Nat, NEW n \in Nat, m + n <= Count,
           NEW e \in Nat, (m + n) * Block <= e, e <= Len(Full)
    PROVE  L!DecryptBlocks(SubSeq(Full, m * Block + 1, e), Before(m), n)
              = SubSeq(Padded, m * Block + 1, (m + n) * Block)
<1>1. /\ Full \in Seq(Cells) /\ Len(Full) = Count * Block /\ Count \in Nat \ {0}
      /\ Padded \in Seq(Nat) /\ Len(Padded) = Count * Block
  BY FullIs, PaddedIs
<1>2. m * Block \in Nat /\ n * Block \in Nat /\ Block \in Nat \ {0} /\ (m + n) * Block = m * Block + n * Block
  BY SizesAssumption
<1>3. PICK x \in Nat, z \in Nat : x = m * Block /\ z = n * Block
  BY <1>2
<1>4. (m + n) * Block = x + z /\ x + z <= e
  BY <1>2, <1>3
<1>5. PICK c, u, v : /\ c = SubSeq(Full, x + 1, e) /\ u = L!DecryptBlocks(c, Before(m), n)
                     /\ v = SubSeq(Padded, x + 1, x + z)
  OBVIOUS
<1>6. v \in Seq(Nat) /\ Len(v) = z /\ \A i \in 1..z : v[i] = Padded[x + i]
  <2>1. PICK y \in Nat : y = x + z
    BY <1>3
  <2>2. x <= y /\ y - x = z /\ y <= Len(Padded) /\ v = SubSeq(Padded, x + 1, y)
    BY <1>1, <1>4, <1>5, <2>1
  <2>3. /\ SubSeq(Padded, x + 1, y) \in Seq(Nat) /\ Len(SubSeq(Padded, x + 1, y)) = y - x
        /\ \A i \in 1..(y - x) : SubSeq(Padded, x + 1, y)[i] = Padded[x + i]
    <3>1. Padded \in Seq(Nat) /\ x \in Nat /\ y \in Nat /\ x <= y /\ y <= Len(Padded)
      BY <1>1, <2>2
    <3> QED
      BY <3>1, PartIs
  <2> QED
    BY <2>2, <2>3, Zenon
<1>7. u = [i \in 1..z |->
             L!DecryptBlock(SubSeq(c, ((i - 1) \div Block) * Block + 1, (((i - 1) \div Block) + 1) * Block),
                IF (i - 1) \div Block = 0 THEN Before(m)
                ELSE SubSeq(c, (((i - 1) \div Block) - 1) * Block + 1, ((i - 1) \div Block) * Block))
             [((i - 1) % Block) + 1]]
  BY <1>3, <1>5 DEF L!DecryptBlocks
<1>8. ASSUME NEW i \in 1..z PROVE u[i] = v[i]
  <2>1. i - 1 \in Nat
    OBVIOUS
  <2>2. PICK k \in Nat, r \in 0..(Block - 1) :
           k = (i - 1) \div Block /\ r = (i - 1) % Block /\ i - 1 = k * Block + r
    BY <2>1, Division
  <2>3. PICK w \in Nat : w = k * Block /\ (k + 1) * Block = w + Block
    BY <1>2, Monotone
  <2>4. i = w + r + 1 /\ r \in Nat /\ r < Block
    BY <1>2, <2>2, <2>3
  <2>5. k < n
    <3>1. ASSUME n <= k PROVE z <= w
      BY <1>3, <2>3, <3>1, Monotone
    <3>2. ~(z <= w)
      BY <2>4
    <3> QED
      BY <3>1, <3>2
  <2>6. PICK q \in 0..(Count - 1) : q = m + k
    BY <1>1, <2>5
  <2>7. q * Block = x + w /\ (q + 1) * Block = x + w + Block /\ q \in Nat
    BY <1>2, <1>3, <2>3, <2>6
  <2>8. w + Block <= z
    BY <1>3, <2>3, <2>5, Monotone
  <2>9. SubSeq(c, w + 1, w + Block) = SubSeq(Full, q * Block + 1, (q + 1) * Block)
    <3>1. PICK y \in Nat : y = w + Block
      BY <1>2
    <3>2. w <= y /\ x + y <= e /\ e <= Len(Full)
      BY <1>2, <1>4, <2>8, <3>1
    <3>3. SubSeq(c, w + 1, y) = SubSeq(Full, x + w + 1, x + y)
      BY <1>1, <1>5, <3>2, Within
    <3>4. x + y = x + w + Block
      BY <1>2, <3>1
    <3> QED
      BY <2>7, <3>1, <3>3, <3>4
  <2>10. (IF k = 0 THEN Before(m) ELSE SubSeq(c, (k - 1) * Block + 1, k * Block)) = Before(q)
    <3>1. CASE k = 0
      BY <2>6, <3>1
    <3>2. CASE k # 0
      <4>1. PICK l \in Nat : l = k - 1 /\ k = l + 1
        BY <3>2
      <4>2. PICK y \in Nat : y = l * Block /\ w = y + Block
        BY <1>2, <2>3, <4>1
      <4>3. y <= w /\ x + w <= e /\ e <= Len(Full)
        BY <1>2, <1>4, <2>8, <4>2
      <4>4. SubSeq(c, y + 1, w) = SubSeq(Full, x + y + 1, x + w)
        BY <1>1, <1>5, <4>3, Within
      <4>5. q # 0 /\ q - 1 = m + l
        BY <2>6, <4>1
      <4>6. (q - 1) * Block = x + y
        BY <1>2, <1>3, <4>2, <4>5
      <4>7. Before(q) = SubSeq(Full, x + y + 1, x + w)
        BY <2>7, <4>5, <4>6 DEF Before
      <4> QED
        BY <2>3, <3>2, <4>1, <4>2, <4>4, <4>7
    <3> QED
      BY <3>1, <3>2
  <2>11. L!DecryptBlock(SubSeq(c, w + 1, w + Block), Before(q)) = Blocks[q + 1]
    BY <2>9, BlockOpens
  <2>12. u[i] = Blocks[q + 1][r + 1]
    BY <1>7, <2>2, <2>3, <2>10, <2>11
  <2>13. Blocks[q + 1] = SubSeq(Padded, x + w + 1, x + w + Block)
    BY <2>7, BlocksIs
  <2>14. Blocks[q + 1][r + 1] = Padded[x + w + (r + 1)]
    <3>1. PICK a \in Nat, y \in Nat : a = x + w /\ y = a + Block
      BY <1>2
    <3>2. a <= y /\ y <= Len(Padded) /\ y - a = Block
      BY <1>1, <1>2, <1>4, <2>8, <3>1
    <3>3. \A j \in 1..(y - a) : SubSeq(Padded, a + 1, y)[j] = Padded[a + j]
      <4>1. Padded \in Seq(Nat) /\ a \in Nat /\ y \in Nat /\ a <= y /\ y <= Len(Padded)
        BY <1>1, <3>2
      <4> QED
        BY <4>1, PartIs
    <3>4. r + 1 \in 1..(y - a)
      BY <1>2, <2>4, <3>2
    <3> QED
      BY <2>13, <3>1, <3>3, <3>4
  <2>15. v[i] = Padded[x + w + (r + 1)]
    <3>1. x + i = x + w + (r + 1)
      BY <2>4
    <3> QED
      BY <1>6, <3>1
  <2> QED
    BY <2>12, <2>14, <2>15
<1>9. u = v
  <2>1. \A i \in 1..z : u[i] \in Nat
    BY <1>6, <1>8
  <2>2. u \in [1..z -> Nat]
    <3>1. u = [i \in 1..z |-> u[i]]
      BY <1>7
    <3> QED
      BY <2>1, <3>1, Zenon
  <2>3. u \in Seq(Nat) /\ Len(u) = z
    BY <2>2, SeqDef
  <2> QED
    BY <1>6, <1>8, <2>3, SeqEqual
<1> QED
  BY <1>3, <1>4, <1>5, <1>9

\* The padding is recognised and removed, wherever what is decrypted begins.
LEMMA EndIs ==
    ASSUME NEW t \in Seq(Nat), NEW n \in Nat, NEW x \in Nat, x <= n,
           Len(t) - n \in 1..Block, \A i \in (n + 1)..Len(t) : t[i] = Len(t) - n
    PROVE  /\ L!IsPadded(SubSeq(t, x + 1, Len(t)))
           /\ L!Unpad(SubSeq(t, x + 1, Len(t))) = SubSeq(t, x + 1, n)
<1>10. PICK z \in Nat : z = Len(t)
  BY LenProperties
<1>11. PICK p \in 1..Block : p = z - n
  BY <1>10
<1>12. PICK s : s = SubSeq(t, x + 1, z)
  OBVIOUS
<1>0. /\ z = Len(t) /\ p = z - n /\ s = SubSeq(t, x + 1, z)
      /\ \A i \in (n + 1)..z : t[i] = p
  BY <1>10, <1>11, <1>12
<1>1. p \in Nat \ {0} /\ x <= z /\ z = n + p /\ n <= z /\ z = Len(t)
  <2>1. Block \in Nat
    BY SizesAssumption
  <2>2. p \in Nat \ {0}
    BY <2>1
  <2> QED
    BY <1>10, <1>11, <2>2
<1>2. s \in Seq(Nat) /\ Len(s) = z - x /\ \A i \in 1..(z - x) : s[i] = t[x + i]
  <2>1. t \in Seq(Nat) /\ x \in Nat /\ z \in Nat /\ x <= z /\ z <= Len(t)
    BY <1>1
  <2>2. /\ SubSeq(t, x + 1, z) \in Seq(Nat) /\ Len(SubSeq(t, x + 1, z)) = z - x
        /\ \A i \in 1..(z - x) : SubSeq(t, x + 1, z)[i] = t[x + i]
    BY <2>1, PartIs
  <2> QED
    BY <1>0, <2>2
<1>3. ASSUME NEW i \in (n - x + 1)..(z - x) PROVE s[i] = p
  <2>1. i \in 1..(z - x) /\ x + i \in (n + 1)..z
    BY <1>1
  <2> QED
    BY <1>0, <1>2, <2>1
<1>4. PICK m \in Nat : m = z - x /\ m \in (n - x + 1)..(z - x) /\ m - p = n - x
  BY <1>1
<1>5. Len(s) = m /\ s[m] = p /\ \A i \in (m - p + 1)..m : s[i] = p
  BY <1>2, <1>3, <1>4
<1>6. L!IsPadded(s)
  BY <1>5 DEF L!IsPadded
<1>7. SubSeq(SubSeq(t, x + 1, z), 0 + 1, n - x) = SubSeq(t, x + 0 + 1, x + (n - x))
  <2>1. n - x \in Nat /\ 0 \in Nat /\ 0 <= n - x /\ x + (n - x) <= z /\ z <= Len(t)
    BY <1>1
  <2> QED
    BY <2>1, Within
<1>8. SubSeq(s, 1, n - x) = SubSeq(t, x + 1, n)
  BY <1>0, <1>7
<1>9. L!Unpad(s) = SubSeq(s, 1, n - x)
  BY <1>4, <1>5 DEF L!Unpad
<1> QED
  BY <1>0, <1>6, <1>8, <1>9

\* So it is with the last block as with the whole padded plaintext.
LEMMA PaddingGoes ==
    ASSUME plain \in Seq(Nat), NEW a \in Nat, a < Count
    PROVE  LET s == SubSeq(Padded, a * Block + 1, Count * Block) IN
           L!IsPadded(s) /\ L!Unpad(s) = SubSeq(plain, a * Block + 1, Len(plain))
<1>1. /\ Padded \in Seq(Nat) /\ Len(Padded) = Count * Block /\ Count \in Nat \ {0}
      /\ (Count - 1) * Block <= Len(plain) /\ Len(plain) < Len(Padded)
      /\ \A i \in 1..Len(plain) : Padded[i] = plain[i]
      /\ \A i \in (Len(plain) + 1)..Len(Padded) : Padded[i] = Len(Padded) - Len(plain)
  BY PaddedIs
<1>2. PICK k \in Nat : k = Count - 1 /\ Count = k + 1 /\ a <= k
  BY <1>1
<1>3. /\ a * Block \in Nat /\ k * Block \in Nat /\ a * Block <= k * Block
      /\ (k + 1) * Block = k * Block + Block /\ Block \in Nat \ {0}
  BY <1>2, Monotone
<1>4. PICK x \in Nat, y \in Nat : x = a * Block /\ y = k * Block /\ x <= y
  BY <1>3
<1>5. PICK n \in Nat, z \in Nat : n = Len(plain) /\ z = Len(Padded) /\ z = Count * Block
  <2>1. Len(Padded) \in Nat /\ Len(plain) \in Nat
    BY <1>1, LenProperties
  <2> QED
    BY <1>1, <2>1, Zenon
<1>6. y <= n /\ n < z
  BY <1>1, <1>2, <1>4, <1>5, Zenon
<1>7. z = y + Block
  BY <1>2, <1>3, <1>4, <1>5, Zenon
<1>8. PICK p \in 1..Block : p = z - n
  BY <1>3, <1>6, <1>7
<1>9. x <= n /\ Len(Padded) = z /\ \A i \in (n + 1)..z : Padded[i] = p
  BY <1>1, <1>4, <1>5, <1>6, <1>8
<1>10. PICK s : s = SubSeq(Padded, x + 1, z)
  OBVIOUS
<1>11. L!IsPadded(s) /\ L!Unpad(s) = SubSeq(Padded, x + 1, n)
  <2>1. Padded \in Seq(Nat)
    BY <1>1
  <2>2. x <= n /\ Len(Padded) - n \in 1..Block /\ z = Len(Padded)
    BY <1>8, <1>9
  <2>3. \A i \in (n + 1)..Len(Padded) : Padded[i] = Len(Padded) - n
    BY <1>8, <1>9
  <2>4. /\ L!IsPadded(SubSeq(Padded, x + 1, Len(Padded)))
        /\ L!Unpad(SubSeq(Padded, x + 1, Len(Padded))) = SubSeq(Padded, x + 1, n)
    BY <2>1, <2>2, <2>3, EndIs
  <2> QED
    BY <1>10, <2>2, <2>4, Zenon
<1>12. SubSeq(Padded, x + 1, n) = SubSeq(plain, x + 1, n)
  <2>1. PICK t, u : t = SubSeq(Padded, x + 1, n) /\ u = SubSeq(plain, x + 1, n)
    OBVIOUS
  <2>2. Padded \in Seq(Nat) /\ n <= Len(Padded) /\ n <= Len(plain) /\ x <= n
    BY <1>1, <1>5, <1>6, <1>9
  <2>7. \A i \in 1..n : Padded[i] = plain[i]
    BY <1>1, <1>5
  <2>3. t \in Seq(Nat) /\ Len(t) = n - x /\ \A i \in 1..(n - x) : t[i] = Padded[x + i]
    <3>1. /\ SubSeq(Padded, x + 1, n) \in Seq(Nat) /\ Len(SubSeq(Padded, x + 1, n)) = n - x
          /\ \A i \in 1..(n - x) : SubSeq(Padded, x + 1, n)[i] = Padded[x + i]
      BY <2>2, PartIs
    <3> QED
      BY <2>1, <3>1, Zenon
  <2>4. u \in Seq(Nat) /\ Len(u) = n - x /\ \A i \in 1..(n - x) : u[i] = plain[x + i]
    <3>1. /\ SubSeq(plain, x + 1, n) \in Seq(Nat) /\ Len(SubSeq(plain, x + 1, n)) = n - x
          /\ \A i \in 1..(n - x) : SubSeq(plain, x + 1, n)[i] = plain[x + i]
      BY <2>2, PartIs
    <3> QED
      BY <2>1, <3>1, Zenon
  <2>5. ASSUME NEW i \in 1..(n - x) PROVE t[i] = u[i]
    <3>1. x + i \in 1..n
      OBVIOUS
    <3>2. Padded[x + i] = plain[x + i]
      BY <2>7, <3>1, Zenon
    <3>3. t[i] = Padded[x + i] /\ u[i] = plain[x + i]
      BY <2>3, <2>4, Zenon
    <3> QED
      BY <3>2, <3>3, Zenon
  <2>6. t = u
    BY <2>3, <2>4, <2>5, SeqEqual
  <2> QED
    BY <2>1, <2>6
<1> QED
  BY <1>4, <1>5, <1>10, <1>11, <1>12

\* decrypt_legacy_bytes gives the plaintext back.
LEMMA MemoryOpens ==
    ASSUME plain \in Seq(Nat)
    PROVE  L!InMemory(Full) = [ok |-> TRUE, bytes |-> plain]
<1>1. /\ Full \in Seq(Cells) /\ Len(Full) = Count * Block /\ Count \in Nat \ {0}
      /\ Padded \in Seq(Nat) /\ Len(Padded) = Count * Block
  BY FullIs, PaddedIs
<1>2. 0 \in 0..(Block - 1) /\ Count * Block + 0 = Count * Block /\ 0 * Block = 0 /\ Count * Block # 0
  <2>1. Count * Block \in Nat /\ 0 * Block \in Nat /\ (0 + 1) * Block <= Count * Block
        /\ (0 + 1) * Block = 0 * Block + Block /\ Block \in Nat \ {0}
    BY <1>1, Monotone
  <2> QED
    BY <2>1
<1>3. Len(Full) \div Block = Count /\ Len(Full) % Block = 0
  BY <1>1, <1>2, Quotient
<1>4. PICK s : s = L!DecryptBlocks(Full, <<>>, Count)
  OBVIOUS
<1>5. s = SubSeq(Padded, 1, Count * Block)
  <2>1. SubSeq(Full, 0 * Block + 1, Len(Full)) = Full
    <3>1. 0 * Block + 1 = 1
      BY <1>2
    <3>2. SubSeq(Full, 1, Len(Full)) = Full
      BY <1>1
    <3> QED
      BY <3>1, <3>2
  <2>2. Before(0) = <<>>
    BY DEF Before
  <2>3. 0 + Count <= Count /\ 0 + Count = Count /\ Len(Full) \in Nat /\ Count \in Nat /\ 0 \in Nat
    BY <1>1
  <2>4. (0 + Count) * Block <= Len(Full)
    BY <1>1, <2>3
  <2>5. L!DecryptBlocks(SubSeq(Full, 0 * Block + 1, Len(Full)), Before(0), Count)
          = SubSeq(Padded, 0 * Block + 1, (0 + Count) * Block)
    BY <2>3, <2>4, BlocksOpen
  <2>6. 0 * Block + 1 = 1
    BY <1>2
  <2> QED
    BY <1>4, <2>1, <2>2, <2>3, <2>5, <2>6, Zenon
<1>6. L!IsPadded(s) /\ L!Unpad(s) = SubSeq(plain, 1, Len(plain))
  <2>1. 0 < Count /\ 0 \in Nat /\ 0 * Block + 1 = 1
    BY <1>1, <1>2
  <2> QED
    BY <1>5, <2>1, PaddingGoes
<1>7. SubSeq(plain, 1, Len(plain)) = plain
  OBVIOUS
<1>8. Full # <<>>
  BY <1>1, <1>2
<1> QED
  BY <1>3, <1>4, <1>6, <1>7, <1>8 DEF L!InMemory

-----------------------------------------------------------------------------
\* Before the padding the padded plaintext is the plaintext.
LEMMA PlainPart ==
    ASSUME plain \in Seq(Nat), NEW a \in Nat, NEW b \in Nat, a <= b, b <= Len(plain)
    PROVE  SubSeq(Padded, a + 1, b) = SubSeq(plain, a + 1, b)
<1>1. PICK t, u : t = SubSeq(Padded, a + 1, b) /\ u = SubSeq(plain, a + 1, b)
  OBVIOUS
<1>2. Padded \in Seq(Nat) /\ b <= Len(Padded)
  <2>1. Padded \in Seq(Nat) /\ Len(plain) < Len(Padded)
    BY PaddedIs
  <2> QED
    BY <2>1
<1>3. \A i \in 1..Len(plain) : Padded[i] = plain[i]
  BY PaddedIs
<1>4. t \in Seq(Nat) /\ Len(t) = b - a /\ \A i \in 1..(b - a) : t[i] = Padded[a + i]
  <2>1. /\ SubSeq(Padded, a + 1, b) \in Seq(Nat) /\ Len(SubSeq(Padded, a + 1, b)) = b - a
        /\ \A i \in 1..(b - a) : SubSeq(Padded, a + 1, b)[i] = Padded[a + i]
    BY <1>2, PartIs
  <2> QED
    BY <1>1, <2>1, Zenon
<1>5. u \in Seq(Nat) /\ Len(u) = b - a /\ \A i \in 1..(b - a) : u[i] = plain[a + i]
  <2>1. /\ SubSeq(plain, a + 1, b) \in Seq(Nat) /\ Len(SubSeq(plain, a + 1, b)) = b - a
        /\ \A i \in 1..(b - a) : SubSeq(plain, a + 1, b)[i] = plain[a + i]
    BY PartIs
  <2> QED
    BY <1>1, <2>1, Zenon
<1>6. ASSUME NEW i \in 1..(b - a) PROVE t[i] = u[i]
  <2>1. a + i \in 1..Len(plain)
    OBVIOUS
  <2> QED
    BY <1>3, <1>4, <1>5, <2>1, Zenon
<1>7. t = u
  BY <1>4, <1>5, <1>6, SeqEqual
<1> QED
  BY <1>1, <1>7

\* The blocks of a part of the padded plaintext that begins with a block.
LEMMA PartBlocks ==
    ASSUME plain \in Seq(Nat), NEW d \in Nat, NEW n \in Nat, NEW r \in 0..(Block - 1),
           (d + n) * Block + r <= Count * Block
    PROVE  /\ L!BlocksOf(SubSeq(Padded, d * Block + 1, (d + n) * Block + r)) = SubSeq(Blocks, d + 1, d + n)
           /\ L!WholeBytes(SubSeq(Padded, d * Block + 1, (d + n) * Block + r)) = n * Block
           /\ d + n <= Count
<1>14. PICK e \in Nat : e = (d + n) * Block + r
  <2>1. d + n \in Nat /\ (d + n) * Block \in Nat /\ Block \in Nat \ {0}
    BY Monotone
  <2>2. PICK y \in Nat : y = (d + n) * Block
    BY <2>1
  <2>3. y + r \in Nat
    BY <2>1
  <2> QED
    BY <2>2, <2>3
<1>1. /\ Count \in Nat \ {0} /\ Padded \in Seq(Nat) /\ Len(Padded) = Count * Block
      /\ Blocks \in Seq(Seq(Nat)) /\ Len(Blocks) = Count
  BY PaddedIs, BlocksIs
<1>2. d * Block \in Nat /\ n * Block \in Nat /\ Block \in Nat \ {0} /\ (d + n) * Block = d * Block + n * Block
  <2>1. Block \in Nat \ {0}
    BY SizesAssumption
  <2> QED
    BY <2>1, Distribute, Zenon
<1>3. PICK x \in Nat, z \in Nat : x = d * Block /\ z = n * Block
  BY <1>2
<1>4. e = x + z + r /\ x <= e /\ e - x = z + r /\ e <= Len(Padded)
  <2>1. e = x + z + r /\ e <= Len(Padded)
    BY <1>1, <1>2, <1>3, <1>14, Zenon
  <2>2. r \in Nat
    BY <1>2
  <2> QED
    BY <2>1, <2>2
<1>5. PICK s : s = SubSeq(Padded, x + 1, e)
  OBVIOUS
<1>6. s \in Seq(Nat) /\ Len(s) = e - x
  <2>1. SubSeq(Padded, x + 1, e) \in Seq(Nat) /\ Len(SubSeq(Padded, x + 1, e)) = e - x
    <3>1. Padded \in Seq(Nat) /\ x <= e /\ e <= Len(Padded)
      BY <1>1, <1>4
    <3> QED
      BY <3>1, PartIs
  <2> QED
    BY <1>5, <2>1
<1>7. Len(s) = n * Block + r
  BY <1>3, <1>4, <1>6
<1>8. /\ L!BlocksOf(s) \in Seq(Seq(Nat)) /\ Len(L!BlocksOf(s)) = n
      /\ L!WholeBytes(s) = n * Block
      /\ \A k \in 1..n : L!BlocksOf(s)[k] = SubSeq(s, (k - 1) * Block + 1, k * Block)
  BY <1>6, <1>7, BlocksAre
<1>9. d + n <= Count
  <2>1. ASSUME Count < d + n PROVE FALSE
    <3>1. (Count + 1) * Block <= (d + n) * Block /\ (Count + 1) * Block = Count * Block + Block
          /\ Count * Block \in Nat
      BY <1>1, <2>1, Monotone
    <3>2. PICK c \in Nat : c = Count * Block
      BY <3>1
    <3>3. c + Block <= x + z /\ x + z + r <= c
      BY <1>2, <1>3, <1>4, <3>1, <3>2
    <3> QED
      BY <1>2, <3>3
  <2> QED
    BY <1>1, <2>1
<1>10. PICK bs, v : bs = L!BlocksOf(s) /\ v = SubSeq(Blocks, d + 1, d + n)
  OBVIOUS
<1>11. v \in Seq(Seq(Nat)) /\ Len(v) = n /\ \A k \in 1..n : v[k] = Blocks[d + k]
  <2>1. PICK y \in Nat : y = d + n /\ d <= y /\ y <= Len(Blocks) /\ y - d = n
    BY <1>1, <1>9
  <2>2. /\ SubSeq(Blocks, d + 1, y) \in Seq(Seq(Nat)) /\ Len(SubSeq(Blocks, d + 1, y)) = y - d
        /\ \A k \in 1..(y - d) : SubSeq(Blocks, d + 1, y)[k] = Blocks[d + k]
    BY <1>1, <2>1, PartIs
  <2> QED
    BY <1>10, <2>1, <2>2, Zenon
<1>12. ASSUME NEW k \in 1..n PROVE bs[k] = v[k]
  <2>1. PICK l \in Nat : l = k - 1 /\ k = l + 1 /\ l < n
    OBVIOUS
  <2>2. PICK w \in Nat : w = l * Block /\ k * Block = w + Block /\ w + Block <= z
    <3>1. l * Block \in Nat /\ (l + 1) * Block = l * Block + Block /\ (l + 1) * Block <= n * Block
      BY <2>1, Monotone
    <3> QED
      BY <1>3, <2>1, <3>1, Zenon
  <2>3. bs[k] = SubSeq(s, w + 1, w + Block)
    BY <1>8, <1>10, <2>1, <2>2
  <2>4. SubSeq(s, w + 1, w + Block) = SubSeq(Padded, x + w + 1, x + (w + Block))
    <3>1. PICK y \in Nat : y = w + Block /\ w <= y /\ x + y <= e
      BY <1>2, <1>4, <2>2
    <3>2. SubSeq(SubSeq(Padded, x + 1, e), w + 1, y) = SubSeq(Padded, x + w + 1, x + y)
      <4>1. Padded \in Seq(Nat) /\ w <= y /\ x + y <= e /\ e <= Len(Padded)
        BY <1>1, <1>4, <3>1
      <4> QED
        BY <4>1, Within
    <3> QED
      BY <1>5, <3>1, <3>2
  <2>5. d + l \in 0..(Count - 1) /\ (d + l) + 1 = d + k
    BY <1>1, <1>9, <2>1
  <2>6. Blocks[(d + l) + 1] = SubSeq(Padded, (d + l) * Block + 1, ((d + l) + 1) * Block)
    BY <2>5, BlocksIs
  <2>7. (d + l) * Block = x + w /\ ((d + l) + 1) * Block = x + (w + Block)
    BY <1>2, <1>3, <2>2
  <2>8. Blocks[d + k] = SubSeq(Padded, x + w + 1, x + (w + Block))
    BY <2>5, <2>6, <2>7
  <2> QED
    BY <1>11, <2>3, <2>4, <2>8
<1>13. bs = v
  BY <1>8, <1>10, <1>11, <1>12, SeqEqual
<1> QED
  BY <1>3, <1>5, <1>8, <1>9, <1>10, <1>13, <1>14, Zenon

\* The ciphertext of the next blocks continues that of the blocks before.
LEMMA CipherGrows ==
    ASSUME plain \in Seq(Nat), NEW d \in Nat, NEW n \in Nat, d + n <= Count
    PROVE  SubSeq(Full, 1, d * Block) \o L!Cipher(SubSeq(Blocks, 1, d), SubSeq(Blocks, d + 1, d + n))
              = SubSeq(Full, 1, (d + n) * Block)
<1>1. /\ Count \in Nat \ {0} /\ Blocks \in Seq(Seq(Nat)) /\ Len(Blocks) = Count
      /\ Full \in Seq(Cells) /\ Len(Full) = Count * Block
  BY PaddedIs, BlocksIs, FullIs
<1>2. d * Block \in Nat /\ n * Block \in Nat /\ Block \in Nat \ {0} /\ (d + n) * Block = d * Block + n * Block
  <2>1. Block \in Nat \ {0}
    BY SizesAssumption
  <2> QED
    BY <2>1, Distribute, Zenon
<1>3. PICK x \in Nat, z \in Nat, y \in Nat : x = d * Block /\ z = n * Block /\ y = x + z
  BY <1>2
<1>4. (d + n) * Block <= Count * Block
  <2>1. Count \in Nat /\ d + n \in Nat
    BY <1>1
  <2> QED
    BY <2>1, Monotone
<1>5. y = (d + n) * Block /\ x <= y /\ y <= Len(Full) /\ y - x = z
  BY <1>1, <1>2, <1>3, <1>4
<1>6. PICK h \in Nat : h = d + n /\ d <= h /\ h <= Len(Blocks) /\ h - d = n
  BY <1>1
<1>7. PICK before, bs : before = SubSeq(Blocks, 0 + 1, d) /\ bs = SubSeq(Blocks, d + 1, h)
  OBVIOUS
<1>8. before \in Seq(Seq(Nat)) /\ bs \in Seq(Seq(Nat)) /\ Len(bs) = n
  <2>1. 0 \in Nat /\ 0 <= d /\ d <= Len(Blocks)
    BY <1>6
  <2>2. SubSeq(Blocks, 0 + 1, d) \in Seq(Seq(Nat))
    BY <1>1, <2>1, PartIs
  <2>3. SubSeq(Blocks, d + 1, h) \in Seq(Seq(Nat)) /\ Len(SubSeq(Blocks, d + 1, h)) = h - d
    BY <1>1, <1>6, PartIs
  <2> QED
    BY <1>6, <1>7, <2>2, <2>3
<1>9. PICK c : c = L!Cipher(before, bs)
  OBVIOUS
<1>10. /\ c \in Seq(Cells) /\ Len(c) = z
       /\ \A k \in 0..(n - 1), j \in 1..Block :
             c[k * Block + j] = [chain |-> before \o SubSeq(bs, 1, k + 1), off |-> j - 1]
  <2>1. /\ L!Cipher(before, bs) \in Seq(Cells) /\ Len(L!Cipher(before, bs)) = Len(bs) * Block
        /\ \A k \in 0..(Len(bs) - 1), j \in 1..Block :
              L!Cipher(before, bs)[k * Block + j] =
                 [chain |-> before \o SubSeq(bs, 1, k + 1), off |-> j - 1]
    BY <1>8, CipherIs
  <2> QED
    BY <1>3, <1>8, <1>9, <2>1
<1>11. PICK u : u = SubSeq(Full, x + 1, y)
  OBVIOUS
<1>12. u \in Seq(Cells) /\ Len(u) = z /\ \A i \in 1..z : u[i] = Full[x + i]
  <2>1. /\ SubSeq(Full, x + 1, y) \in Seq(Cells) /\ Len(SubSeq(Full, x + 1, y)) = y - x
        /\ \A i \in 1..(y - x) : SubSeq(Full, x + 1, y)[i] = Full[x + i]
    BY <1>1, <1>5, PartIs
  <2> QED
    BY <1>5, <1>11, <2>1, Zenon
<1>13. ASSUME NEW i \in 1..z PROVE c[i] = u[i]
  <2>1. i - 1 \in Nat
    OBVIOUS
  <2>2. PICK k \in Nat, r \in 0..(Block - 1) : i - 1 = k * Block + r
    BY <2>1, Division
  <2>3. PICK w \in Nat : w = k * Block
    BY <1>2, Monotone
  <2>4. i = w + (r + 1) /\ r + 1 \in 1..Block /\ r \in Nat /\ (r + 1) - 1 = r
    BY <1>2, <2>2, <2>3
  <2>5. k < n
    <3>1. ASSUME n <= k PROVE z <= w
      BY <1>3, <2>3, <3>1, Monotone
    <3>2. ~(z <= w)
      BY <2>4
    <3> QED
      BY <3>1, <3>2
  <2>6. k \in 0..(n - 1)
    BY <2>5
  <2>7. c[i] = [chain |-> before \o SubSeq(bs, 1, k + 1), off |-> (r + 1) - 1]
    BY <1>10, <2>3, <2>4, <2>6, Zenon
  <2>8. before \o SubSeq(bs, 1, k + 1) = SubSeq(Blocks, 1, (d + k) + 1)
    <3>1. PICK m \in Nat : m = k + 1 /\ 0 <= m /\ d + m <= h
      BY <1>6, <2>5
    <3>2. SubSeq(SubSeq(Blocks, d + 1, h), 0 + 1, m) = SubSeq(Blocks, d + 0 + 1, d + m)
      BY <1>1, <1>6, <3>1, Within
    <3>3. PICK g \in Nat : g = d + m /\ 0 <= d /\ d <= g /\ g <= Len(Blocks)
      BY <1>6, <3>1
    <3>4. SubSeq(Blocks, 0 + 1, d) \o SubSeq(Blocks, d + 1, g) = SubSeq(Blocks, 0 + 1, g)
      <4>1. Blocks \in Seq(Seq(Nat)) /\ 0 \in Nat
        BY <1>1
      <4> QED
        BY <3>3, <4>1, Joins
    <3>5. d + 0 + 1 = d + 1 /\ 0 + 1 = 1 /\ g = (d + k) + 1
      BY <3>1, <3>3
    <3> QED
      BY <1>7, <3>1, <3>2, <3>3, <3>4, <3>5
  <2>9. d + k \in 0..(Count - 1) /\ (d + k) * Block + (r + 1) = x + i
    <3>1. d + k \in 0..(Count - 1)
      BY <1>1, <2>5
    <3>2. (d + k) * Block = x + w
      BY <1>2, <1>3, <2>3
    <3> QED
      BY <2>4, <3>1, <3>2
  <2>10. Full[(d + k) * Block + (r + 1)] = [chain |-> SubSeq(Blocks, 1, (d + k) + 1), off |-> (r + 1) - 1]
    BY <2>4, <2>9, FullIs
  <2>11. u[i] = Full[x + i]
    BY <1>12
  <2> QED
    BY <2>7, <2>8, <2>9, <2>10, <2>11
<1>14. c = u
  BY <1>10, <1>12, <1>13, SeqEqual
<1>15. SubSeq(Full, 0 + 1, x) \o SubSeq(Full, x + 1, y) = SubSeq(Full, 0 + 1, y)
  <2>1. 0 \in Nat /\ 0 <= x /\ x <= y /\ y <= Len(Full) /\ Full \in Seq(Cells)
    BY <1>1, <1>5
  <2> QED
    BY <2>1, Joins
<1>16. 0 + 1 = 1
  OBVIOUS
<1> QED
  BY <1>3, <1>5, <1>6, <1>7, <1>9, <1>11, <1>14, <1>15, <1>16, Zenon

\* One read of the encryption: the whole blocks of what was kept and what was read.
LEMMA ReadCuts ==
    ASSUME plain \in Seq(Nat), NEW d \in Nat, NEW pos \in Nat, NEW e \in Nat,
           d * Block <= pos, pos <= e, e <= Len(plain)
    PROVE  LET buf == SubSeq(plain, d * Block + 1, pos) \o SubSeq(plain, pos + 1, e) IN
           \E k \in Nat :
              /\ d + k <= Count /\ (d + k) * Block <= e /\ e < (d + k + 1) * Block
              /\ L!BlocksOf(buf) = SubSeq(Blocks, d + 1, d + k)
              /\ L!Rest(buf, L!WholeBytes(buf)) = SubSeq(plain, (d + k) * Block + 1, e)
<1>14. PICK x \in Nat : x = d * Block
  BY Monotone
<1>1. x = d * Block /\ x <= pos /\ x <= e /\ Block \in Nat \ {0}
  <2>1. x <= pos
    BY <1>14
  <2>2. x <= e
    BY <2>1
  <2> QED
    BY <1>14, <2>1, <2>2, SizesAssumption
<1>2. PICK buf : buf = SubSeq(plain, x + 1, pos) \o SubSeq(plain, pos + 1, e)
  OBVIOUS
<1>3. buf = SubSeq(plain, x + 1, e)
  <2>1. plain \in Seq(Nat) /\ x <= pos /\ pos <= e /\ e <= Len(plain)
    BY <1>1
  <2> QED
    BY <1>2, <2>1, Joins
<1>4. buf = SubSeq(Padded, x + 1, e)
  <2>1. x <= e /\ e <= Len(plain)
    BY <1>1
  <2> QED
    BY <1>3, <2>1, PlainPart
<1>5. PICK b \in Nat : b = e - x
  BY <1>1
<1>6. PICK k \in Nat, r \in 0..(Block - 1) : b = k * Block + r
  BY Division
<1>7. PICK z \in Nat : z = k * Block /\ (d + k) * Block = x + z /\ (d + k + 1) * Block = x + z + Block
  <2>1. d + k \in Nat
    OBVIOUS
  <2>2. k * Block \in Nat /\ (d + k) * Block = d * Block + k * Block
    BY Distribute
  <2>3. ((d + k) + 1) * Block = (d + k) * Block + Block
    BY <2>1, Monotone
  <2> QED
    BY <1>1, <2>2, <2>3
<1>8. e = x + z + r /\ r \in Nat /\ r < Block
  BY <1>1, <1>5, <1>6, <1>7
<1>9. e <= Count * Block
  <2>1. Len(plain) < Len(Padded) /\ Len(Padded) = Count * Block /\ Padded \in Seq(Nat)
    BY PaddedIs
  <2>2. Len(Padded) \in Nat
    BY <2>1, LenProperties
  <2>3. e <= Len(Padded)
    BY <2>1, <2>2
  <2> QED
    BY <2>1, <2>3, Zenon
<1>10. /\ L!BlocksOf(buf) = SubSeq(Blocks, d + 1, d + k)
       /\ L!WholeBytes(buf) = z /\ d + k <= Count
  <2>1. e = (d + k) * Block + r
    BY <1>7, <1>8
  <2>2. (d + k) * Block + r <= Count * Block
    BY <1>9, <2>1, Zenon
  <2>3. /\ L!BlocksOf(SubSeq(Padded, d * Block + 1, (d + k) * Block + r)) = SubSeq(Blocks, d + 1, d + k)
        /\ L!WholeBytes(SubSeq(Padded, d * Block + 1, (d + k) * Block + r)) = k * Block
        /\ d + k <= Count
    BY <2>2, PartBlocks, Zenon
  <2> QED
    BY <1>1, <1>4, <1>7, <2>1, <2>3, Zenon
<1>11. L!Rest(buf, z) = SubSeq(plain, x + z + 1, e)
  <2>1. plain \in Seq(Nat) /\ x <= e /\ e <= Len(plain)
    BY <1>1
  <2>2. SubSeq(plain, x + 1, e) \in Seq(Nat) /\ Len(SubSeq(plain, x + 1, e)) = e - x
    BY <2>1, PartIs
  <2>3. Len(buf) = b
    BY <1>3, <1>5, <2>2
  <2>4. z <= b /\ x + b <= e /\ x + b = e
    BY <1>5, <1>8
  <2>5. SubSeq(SubSeq(plain, x + 1, e), z + 1, b) = SubSeq(plain, x + z + 1, x + b)
    BY <2>1, <2>4, Within
  <2> QED
    BY <1>3, <2>3, <2>4, <2>5 DEF L!Rest
<1>12. x + z <= e /\ e < x + z + Block
  BY <1>1, <1>8
<1>13. /\ d + k <= Count /\ (d + k) * Block <= e /\ e < (d + k + 1) * Block
       /\ L!BlocksOf(buf) = SubSeq(Blocks, d + 1, d + k)
       /\ L!Rest(buf, L!WholeBytes(buf)) = SubSeq(plain, (d + k) * Block + 1, e)
  BY <1>7, <1>10, <1>11, <1>12, Zenon
<1> QED
  BY <1>1, <1>2, <1>13, Zenon

\* The end of the encryption: what was kept and its padding are the last block.
LEMMA PadCuts ==
    ASSUME plain \in Seq(Nat), NEW d \in Nat,
           d * Block <= Len(plain), Len(plain) < (d + 1) * Block
    PROVE  LET s == SubSeq(plain, d * Block + 1, Len(plain)) IN
           /\ d + 1 = Count
           /\ L!BlocksOf(s \o L!Padding(s)) = SubSeq(Blocks, d + 1, d + 1)
<1>1. /\ Count \in Nat \ {0} /\ Padded \in Seq(Nat) /\ Len(Padded) = Count * Block
      /\ \A i \in (Len(plain) + 1)..Len(Padded) : Padded[i] = Len(Padded) - Len(plain)
  BY PaddedIs
<1>2. PICK x \in Nat : x = d * Block /\ (d + 1) * Block = x + Block /\ Block \in Nat \ {0}
  BY Monotone
<1>3. PICK n \in Nat : n = Len(plain) /\ x <= n /\ n < x + Block
  <2>1. Len(plain) \in Nat
    BY LenProperties
  <2> QED
    BY <1>2, <2>1
<1>19. n - x \in 0..(Block - 1)
  <2>1. Block \in Nat \ {0} /\ x <= n /\ n < x + Block
    BY <1>2, <1>3
  <2> QED
    BY <2>1
<1>4. PICK r \in 0..(Block - 1) : r = n - x
  BY <1>19
<1>5. n = d * Block + r
  BY <1>2, <1>3, <1>4
<1>6. n \div Block = d /\ n % Block = r
  BY <1>5, Quotient
<1>7. Count = d + 1
  BY <1>3, <1>6 DEF Count
<1>8. PICK s : s = SubSeq(plain, x + 1, n)
  OBVIOUS
<1>9. s \in Seq(Nat) /\ Len(s) = r
  <2>1. x <= n /\ n <= Len(plain)
    BY <1>3
  <2>2. SubSeq(plain, x + 1, n) \in Seq(Nat) /\ Len(SubSeq(plain, x + 1, n)) = n - x
    BY <2>1, PartIs
  <2> QED
    BY <1>4, <1>8, <2>2, Zenon
<1>10. r % Block = r
  <2>1. 0 * Block + r = r
    BY <1>2
  <2>2. (0 * Block + r) % Block = r
    BY Quotient
  <2> QED
    BY <2>1, <2>2, Zenon
<1>11. L!Padding(s) = L!Padding(plain)
  BY <1>3, <1>6, <1>9, <1>10 DEF L!Padding
<1>20. PICK p : p = L!Padding(plain)
  OBVIOUS
<1>21. PICK e \in Nat : e = x + Block /\ e = Count * Block
  <2>1. x + Block \in Nat
    BY <1>2
  <2> QED
    BY <1>2, <1>7, <2>1, Zenon
<1>12. e = x + Block /\ e = Count * Block /\ p = L!Padding(plain)
  BY <1>20, <1>21
<1>13. PICK m \in Nat : m = e - n /\ m = Block - r /\ n <= e
  BY <1>2, <1>3, <1>4, <1>12
<1>14. p \in Seq(Nat) /\ Len(p) = m /\ \A i \in 1..m : p[i] = m
  <2>1. p = [i \in 1..m |-> m]
    BY <1>3, <1>6, <1>12, <1>13 DEF L!Padding
  <2> QED
    BY <2>1
<1>15. p = SubSeq(Padded, n + 1, e)
  <2>1. PICK t : t = SubSeq(Padded, n + 1, e)
    OBVIOUS
  <2>2. Padded \in Seq(Nat) /\ n <= e /\ e <= Len(Padded) /\ Len(Padded) = e
    BY <1>1, <1>12, <1>13
  <2>3. t \in Seq(Nat) /\ Len(t) = m /\ \A i \in 1..m : t[i] = Padded[n + i]
    <3>1. /\ SubSeq(Padded, n + 1, e) \in Seq(Nat) /\ Len(SubSeq(Padded, n + 1, e)) = e - n
          /\ \A i \in 1..(e - n) : SubSeq(Padded, n + 1, e)[i] = Padded[n + i]
      BY <2>2, PartIs
    <3> QED
      BY <1>13, <2>1, <3>1, Zenon
  <2>4. ASSUME NEW i \in 1..m PROVE t[i] = p[i]
    <3>1. n + i \in (Len(plain) + 1)..Len(Padded) /\ Len(Padded) - Len(plain) = m
      BY <1>3, <1>13, <2>2
    <3>2. Padded[n + i] = Len(Padded) - Len(plain)
      BY <1>1, <3>1, Zenon
    <3>3. t[i] = Padded[n + i] /\ p[i] = m
      BY <1>14, <2>3, Zenon
    <3> QED
      BY <3>1, <3>2, <3>3, Zenon
  <2>5. t = p
    BY <1>14, <2>3, <2>4, SeqEqual
  <2> QED
    BY <2>1, <2>5
<1>16. s = SubSeq(Padded, x + 1, n)
  <2>1. x <= n /\ n <= Len(plain)
    BY <1>3
  <2> QED
    BY <1>8, <2>1, PlainPart
<1>17. s \o p = SubSeq(Padded, x + 1, e)
  <2>1. Padded \in Seq(Nat) /\ x <= n /\ n <= e /\ e <= Len(Padded)
    BY <1>1, <1>3, <1>12, <1>13
  <2> QED
    BY <1>15, <1>16, <2>1, Joins
<1>18. L!BlocksOf(SubSeq(Padded, d * Block + 1, e)) = SubSeq(Blocks, d + 1, d + 1)
  <2>1. 0 \in 0..(Block - 1) /\ e <= Count * Block
    BY <1>2, <1>12
  <2>2. e = (d + 1) * Block + 0
    BY <1>2, <1>12
  <2>3. (d + 1) * Block + 0 <= Count * Block
    BY <2>1, <2>2, Zenon
  <2>4. L!BlocksOf(SubSeq(Padded, d * Block + 1, (d + 1) * Block + 0)) = SubSeq(Blocks, d + 1, d + 1)
    BY <2>1, <2>3, PartBlocks
  <2> QED
    BY <2>2, <2>4, Zenon
<1> QED
  BY <1>2, <1>3, <1>7, <1>8, <1>11, <1>12, <1>17, <1>18, Zenon

\* One read of the decryption: all but the last block, whole or not, is decrypted.
LEMMA ReadOpens ==
    ASSUME plain \in Seq(Nat), NEW m \in Nat, NEW pos \in Nat, NEW e \in Nat,
           m < Count, m * Block <= pos, pos < e, e <= Len(Full)
    PROVE  LET buf == SubSeq(Full, m * Block + 1, pos) \o SubSeq(Full, pos + 1, e)
               k   == L!Ready(buf)
           IN
           /\ k \in Nat /\ m + k < Count /\ (m + k) * Block < e /\ e <= (m + k + 1) * Block
           /\ SubSeq(Padded, 1, m * Block) \o L!DecryptBlocks(buf, Before(m), k)
                 = SubSeq(Padded, 1, (m + k) * Block)
           /\ L!Rest(buf, k * Block) = SubSeq(Full, (m + k) * Block + 1, e)
           /\ (IF k = 0 THEN Before(m) ELSE SubSeq(buf, (k - 1) * Block + 1, k * Block)) = Before(m + k)
<1>1. /\ Full \in Seq(Cells) /\ Len(Full) = Count * Block /\ Count \in Nat \ {0}
      /\ Padded \in Seq(Nat) /\ Len(Padded) = Count * Block
  BY FullIs, PaddedIs
<1>2. PICK x \in Nat : x = m * Block
  BY Monotone
<1>3. x <= pos /\ x < e /\ Block \in Nat \ {0}
  <2>1. x <= pos
    BY <1>2
  <2>2. x < e
    BY <2>1
  <2> QED
    BY <2>1, <2>2, SizesAssumption
<1>4. PICK buf : buf = SubSeq(Full, x + 1, pos) \o SubSeq(Full, pos + 1, e)
  OBVIOUS
<1>5. buf = SubSeq(Full, x + 1, e)
  <2>1. Full \in Seq(Cells) /\ x <= pos /\ pos <= e /\ e <= Len(Full)
    BY <1>1, <1>3
  <2> QED
    BY <1>4, <2>1, Joins
<1>6. PICK b \in Nat : b = e - x - 1
  BY <1>3
<1>7. Len(buf) = b + 1
  <2>1. Full \in Seq(Cells) /\ x <= e /\ e <= Len(Full)
    BY <1>1, <1>3
  <2>2. Len(SubSeq(Full, x + 1, e)) = e - x
    BY <2>1, PartIs
  <2> QED
    BY <1>5, <1>6, <2>2
<1>8. PICK k \in Nat, r \in 0..(Block - 1) : k = b \div Block /\ b = k * Block + r
  BY Division
<1>9. L!Ready(buf) = k
  <2>1. buf # <<>> /\ Len(buf) - 1 = b
    BY <1>7
  <2>2. k = b \div Block
    BY <1>8
  <2> QED
    BY <2>1, <2>2 DEF L!Ready
<1>10. PICK z \in Nat : z = k * Block /\ (m + k) * Block = x + z /\ (m + k + 1) * Block = x + z + Block
  <2>1. m + k \in Nat
    OBVIOUS
  <2>2. k * Block \in Nat /\ (m + k) * Block = m * Block + k * Block
    BY Distribute
  <2>3. ((m + k) + 1) * Block = (m + k) * Block + Block
    BY <2>1, Monotone
  <2> QED
    BY <1>2, <2>2, <2>3
<1>11. e = x + z + r + 1 /\ r \in Nat /\ r < Block
  <2>1. b = z + r
    BY <1>8, <1>10
  <2> QED
    BY <1>3, <1>6, <2>1
<1>12. x + z < e /\ e <= x + z + Block
  BY <1>3, <1>11
<1>13. m + k < Count
  <2>1. ASSUME Count <= m + k PROVE Count * Block <= (m + k) * Block
    <3>1. Count \in Nat /\ m + k \in Nat
      BY <1>1
    <3> QED
      BY <2>1, <3>1, Monotone
  <2>2. e <= Len(Full) /\ Len(Full) = Count * Block
    BY <1>1
  <2>3. Len(Full) \in Nat
    BY <1>1, LenProperties
  <2>4. ASSUME Count <= m + k PROVE FALSE
    <3>1. Len(Full) <= x + z
      BY <1>10, <2>1, <2>2, <2>4, Zenon
    <3> QED
      BY <1>12, <2>2, <2>3, <3>1
  <2>5. Count \in Nat
    BY <1>1
  <2> QED
    BY <2>4, <2>5
<1>14. L!DecryptBlocks(buf, Before(m), k) = SubSeq(Padded, x + 1, x + z)
  <2>1. m + k <= Count /\ (m + k) * Block <= e
    <3>1. (m + k) * Block <= e
      BY <1>10, <1>12
    <3>2. m + k <= Count
      BY <1>1, <1>13
    <3> QED
      BY <3>1, <3>2
  <2>2. L!DecryptBlocks(SubSeq(Full, m * Block + 1, e), Before(m), k)
           = SubSeq(Padded, m * Block + 1, (m + k) * Block)
    BY <2>1, BlocksOpen, Zenon
  <2> QED
    BY <1>2, <1>5, <1>10, <2>2, Zenon
<1>15. SubSeq(Padded, 0 + 1, x) \o SubSeq(Padded, x + 1, x + z) = SubSeq(Padded, 0 + 1, x + z)
  <2>1. PICK y \in Nat : y = x + z
    BY <1>10
  <2>2. 0 \in Nat /\ 0 <= x /\ x <= y
    BY <2>1
  <2>3. Padded \in Seq(Nat) /\ y <= Len(Padded)
    <3>1. e <= Len(Padded) /\ Len(Padded) \in Nat
      <4>1. Len(Padded) = Len(Full) /\ Len(Full) \in Nat
        BY <1>1, LenProperties
      <4> QED
        BY <4>1
    <3> QED
      BY <1>1, <1>12, <2>1, <3>1
  <2> QED
    BY <2>1, <2>2, <2>3, Joins
<1>16. L!Rest(buf, z) = SubSeq(Full, x + z + 1, e)
  <2>1. Full \in Seq(Cells) /\ e <= Len(Full)
    BY <1>1
  <2>2. PICK y \in Nat : y = b + 1 /\ z <= y /\ x + y <= e /\ x + y = e
    BY <1>3, <1>6, <1>12
  <2>3. SubSeq(SubSeq(Full, x + 1, e), z + 1, y) = SubSeq(Full, x + z + 1, x + y)
    BY <2>1, <2>2, Within
  <2> QED
    BY <1>5, <1>7, <2>2, <2>3 DEF L!Rest
<1>17. (IF k = 0 THEN Before(m) ELSE SubSeq(buf, (k - 1) * Block + 1, k * Block)) = Before(m + k)
  <2>1. CASE k = 0
    BY <2>1
  <2>2. CASE k # 0
    <3>1. PICK l \in Nat : l = k - 1 /\ k = l + 1 /\ m + k # 0 /\ (m + k) - 1 = m + l
      BY <2>2
    <3>2. PICK y \in Nat : y = l * Block /\ z = y + Block /\ (m + l) * Block = x + y
      <4>1. l * Block \in Nat /\ (l + 1) * Block = l * Block + Block
        BY Monotone
      <4>2. (m + l) * Block = m * Block + l * Block
        BY Distribute
      <4> QED
        BY <1>2, <1>10, <3>1, <4>1, <4>2, Zenon
    <3>3. Full \in Seq(Cells) /\ y <= z /\ x + z <= e /\ e <= Len(Full)
      BY <1>1, <1>3, <1>12, <3>2
    <3>4. SubSeq(SubSeq(Full, x + 1, e), y + 1, z) = SubSeq(Full, x + y + 1, x + z)
      BY <3>3, Within
    <3>5. Before(m + k) = SubSeq(Full, x + y + 1, x + z)
      <4>1. Before(m + k) = SubSeq(Full, ((m + k) - 1) * Block + 1, (m + k) * Block)
        BY <3>1, Zenon DEF Before
      <4> QED
        BY <1>10, <3>1, <3>2, <4>1, Zenon
    <3>6. SubSeq(buf, (k - 1) * Block + 1, k * Block) = Before(m + k)
      BY <1>5, <1>10, <3>1, <3>2, <3>4, <3>5
    <3> QED
      BY <2>2, <3>6, Zenon
  <2> QED
    BY <2>1, <2>2
<1>18. 0 + 1 = 1
  OBVIOUS
<1>19. /\ k \in Nat /\ m + k < Count /\ (m + k) * Block < e /\ e <= (m + k + 1) * Block
       /\ SubSeq(Padded, 1, m * Block) \o L!DecryptBlocks(buf, Before(m), k)
             = SubSeq(Padded, 1, (m + k) * Block)
       /\ L!Rest(buf, k * Block) = SubSeq(Full, (m + k) * Block + 1, e)
       /\ (IF k = 0 THEN Before(m) ELSE SubSeq(buf, (k - 1) * Block + 1, k * Block)) = Before(m + k)
  <2>1. (m + k) * Block < e /\ e <= (m + k + 1) * Block
    BY <1>10, <1>12, Zenon
  <2>2. SubSeq(Padded, 1, m * Block) \o L!DecryptBlocks(buf, Before(m), k)
          = SubSeq(Padded, 1, (m + k) * Block)
    BY <1>2, <1>10, <1>14, <1>15, <1>18, Zenon
  <2>3. L!Rest(buf, k * Block) = SubSeq(Full, (m + k) * Block + 1, e)
    BY <1>10, <1>16, Zenon
  <2> QED
    BY <1>13, <1>17, <2>1, <2>2, <2>3, Zenon
<1> QED
  BY <1>2, <1>4, <1>9, <1>19, Zenon

\* The end of the decryption: the block kept back is the last one, and loses the padding.
LEMMA LastOpens ==
    ASSUME plain \in Seq(Nat), NEW m \in Nat, m < Count, Len(Full) <= (m + 1) * Block
    PROVE  LET p    == SubSeq(Full, m * Block + 1, Len(Full))
               last == L!DecryptBlocks(p, Before(m), 1)
           IN
           /\ Len(p) = Block /\ L!IsPadded(last)
           /\ SubSeq(Padded, 1, m * Block) \o L!Unpad(last) = plain
<1>1. /\ Full \in Seq(Cells) /\ Len(Full) = Count * Block /\ Count \in Nat \ {0}
      /\ Padded \in Seq(Nat) /\ (Count - 1) * Block <= Len(plain)
  BY FullIs, PaddedIs
<1>2. m + 1 = Count /\ Count - 1 = m
  <2>1. ASSUME m + 1 < Count PROVE FALSE
    <3>1. ((m + 1) + 1) * Block <= Count * Block /\ ((m + 1) + 1) * Block = (m + 1) * Block + Block
          /\ (m + 1) * Block \in Nat /\ Block \in Nat \ {0}
      <4>1. m + 1 \in Nat /\ Count \in Nat
        BY <1>1
      <4> QED
        BY <2>1, <4>1, Monotone
    <3>2. PICK y \in Nat, c \in Nat : y = (m + 1) * Block /\ c = Count * Block
      <4>1. Count * Block \in Nat
        BY <1>1, Monotone
      <4> QED
        BY <3>1, <4>1, Zenon
    <3>3. y + Block <= c /\ c <= y
      BY <1>1, <3>1, <3>2, Zenon
    <3> QED
      BY <3>1, <3>3
  <2> QED
    BY <1>1, <2>1
<1>3. PICK x \in Nat, e \in Nat : x = m * Block /\ e = Len(Full) /\ e = x + Block /\ e = Count * Block
  <2>1. m * Block \in Nat /\ (m + 1) * Block = m * Block + Block /\ Block \in Nat
    BY Monotone
  <2>2. Len(Full) \in Nat
    BY <1>1, LenProperties
  <2> QED
    BY <1>1, <1>2, <2>1, <2>2, Zenon
<1>4. x <= Len(plain) /\ Block \in Nat \ {0}
  BY <1>1, <1>2, <1>3, SizesAssumption, Zenon
<1>5. PICK p : p = SubSeq(Full, x + 1, e)
  OBVIOUS
<1>6. Len(p) = Block
  <2>1. Full \in Seq(Cells) /\ x <= e /\ e <= Len(Full) /\ e - x = Block
    BY <1>1, <1>3, <1>4
  <2>2. Len(SubSeq(Full, x + 1, e)) = e - x
    BY <2>1, PartIs
  <2> QED
    BY <1>5, <2>1, <2>2
<1>7. L!DecryptBlocks(p, Before(m), 1) = SubSeq(Padded, m * Block + 1, Count * Block)
  <2>1. m + 1 <= Count /\ e <= Len(Full)
    BY <1>1, <1>2, <1>3
  <2>2. (m + 1) * Block <= e
    <3>1. (m + 1) * Block = e
      BY <1>2, <1>3, Zenon
    <3> QED
      BY <3>1
  <2>3. L!DecryptBlocks(SubSeq(Full, m * Block + 1, e), Before(m), 1)
           = SubSeq(Padded, m * Block + 1, (m + 1) * Block)
    <3>1. 1 \in Nat
      OBVIOUS
    <3> QED
      BY <2>1, <2>2, <3>1, BlocksOpen, Zenon
  <2> QED
    BY <1>2, <1>3, <1>5, <2>3, Zenon
<1>8. PICK last : last = L!DecryptBlocks(p, Before(m), 1)
  OBVIOUS
<1>9. L!IsPadded(last) /\ L!Unpad(last) = SubSeq(plain, x + 1, Len(plain))
  BY <1>3, <1>7, <1>8, PaddingGoes, Zenon
<1>10. SubSeq(Padded, 1, x) \o L!Unpad(last) = plain
  <2>1. 0 \in Nat /\ 0 <= x /\ x <= Len(plain) /\ Len(plain) \in Nat /\ 0 + 1 = 1
    BY <1>4, LenProperties
  <2>2. SubSeq(Padded, 0 + 1, x) = SubSeq(plain, 0 + 1, x)
    BY <2>1, PlainPart
  <2>3. PICK n \in Nat : n = Len(plain) /\ x <= n /\ n <= Len(plain)
    BY <2>1
  <2>4. SubSeq(plain, 0 + 1, x) \o SubSeq(plain, x + 1, n) = SubSeq(plain, 0 + 1, n)
    <3>1. plain \in Seq(Nat) /\ 0 \in Nat /\ 0 <= x /\ x <= n /\ n <= Len(plain)
      BY <2>1, <2>3
    <3> QED
      BY <3>1, Joins
  <2>5. SubSeq(plain, 1, Len(plain)) = plain
    OBVIOUS
  <2> QED
    BY <1>9, <2>1, <2>2, <2>3, <2>4, <2>5, Zenon
<1> QED
  BY <1>3, <1>5, <1>6, <1>8, <1>9, <1>10, Zenon

-----------------------------------------------------------------------------
(* DBENC001: the steps *)

\* The blocks and the ciphertext depend on the plaintext alone.
LEMMA Fixed ==
    ASSUME UNCHANGED plain
    PROVE  /\ Padded' = Padded /\ Blocks' = Blocks /\ Count' = Count /\ Full' = Full
           /\ \A k : Before(k)' = Before(k)
<1>1. Padded' = Padded /\ Count' = Count
  BY DEF Padded, Count
<1>2. Blocks' = Blocks
  BY <1>1 DEF Blocks
<1>3. Full' = Full
  BY <1>2 DEF Full
<1>4. \A k : Before(k)' = Before(k)
  BY <1>3 DEF Before
<1> QED
  BY <1>1, <1>2, <1>3, <1>4

\* The encryption is where it was as long as its state is.
LEMMA TakenStays ==
    ASSUME NEW d, Taken(d), UNCHANGED <<plain, lenc, ldisc>>
    PROVE  Taken(d)'
<1>1. Blocks' = Blocks /\ Full' = Full
  BY Fixed
<1> QED
  BY <1>1 DEF Taken

\* The file is what it was as long as its state is.
LEMMA LegacyFileStays ==
    ASSUME LegacyFile, UNCHANGED <<plain, lenc, ldisc>>
    PROVE  LegacyFile'
<1>1. Full' = Full /\ Count' = Count
  BY Fixed
<1>2. ASSUME NEW d \in 0..Count, Taken(d) PROVE \E k \in 0..Count : Taken(k)'
  BY <1>2, TakenStays
<1>3. lenc'.pc \in {"start", "stream"} => \E k \in 0..Count' : Taken(k)'
  BY <1>1, <1>2 DEF LegacyFile
<1> QED
  BY <1>1, <1>3 DEF LegacyFile

\* Before the call nothing has come out, whatever happens to the file.
LEMMA BeforeCall ==
    ASSUME LegacyCall, LegacyPlace, call.pc = "idle", UNCHANGED <<call, ldec, temp, dest>>
    PROVE  LegacyCall' /\ LegacyPlace'
<1>1. ldec.pc = "idle" /\ temp = C!NoFile /\ dest = C!NoFile
  BY DEF LegacyCall, LegacyPlace
<1>2. LegacyCall'
  BY <1>1 DEF LegacyCall
<1>3. LegacyPlace'
  BY <1>1 DEF LegacyPlace
<1> QED
  BY <1>2, <1>3

\* Only a file with its MAC passes the check, under its own key.
LEMMA VerifiesIs ==
    ASSUME LegacyFile, lenc.pc \in {"done", "failed", "cut"}, NEW key \in Keys
    PROVE  L!Verifies(key) <=> lenc.pc = "done" /\ key = "right"
<1>1. CASE lenc.pc = "done"
  <2>1. ldisc.header /\ ldisc.mac = <<"right", Full>> /\ ldisc.cipher = Full
    BY <1>1 DEF LegacyFile, L!MacOf
  <2>2. L!Verifies(key) <=> <<"right", Full>> = <<key, Full>>
    BY <2>1 DEF L!Verifies, L!MacOf
  <2> QED
    BY <1>1, <2>2
<1>2. CASE lenc.pc = "failed"
  <2>1. ldisc.mac = <<>>
    BY <1>2 DEF LegacyFile, L!Placeholder
  <2>2. <<>> # <<key, ldisc.cipher>>
    OBVIOUS
  <2> QED
    BY <1>2, <2>1, <2>2 DEF L!Verifies, L!MacOf
<1>3. CASE lenc.pc = "cut"
  <2>1. ldisc.mac = <<"right", Full>> /\ Len(ldisc.cipher) < Len(Full)
        /\ ldisc.cipher \in Seq(Cells) /\ plain \in Seq(Nat)
    BY <1>3 DEF LegacyFile, L!MacOf
  <2>2. Full \in Seq(Cells)
    BY <2>1, FullIs
  <2>3. Len(ldisc.cipher) \in Nat /\ Len(Full) \in Nat
    BY <2>1, <2>2
  <2>4. Full # ldisc.cipher
    BY <2>1, <2>3
  <2>5. <<"right", Full>> # <<key, ldisc.cipher>>
    BY <2>4
  <2> QED
    BY <1>3, <2>1, <2>5 DEF L!Verifies, L!MacOf
<1> QED
  BY <1>1, <1>2, <1>3

-----------------------------------------------------------------------------
\* There is no file yet.
LEMMA LegacyInit ==
    ASSUME Init, Legacy
    PROVE  LegacyFile /\ LegacyCall /\ LegacyPlace
<1>1. plain \in Seq(Nat)
  <2>1. PICK k \in 0..MaxPlain : plain \in [1..k -> Values]
    BY DEF Init, L!Strings
  <2>2. k \in Nat /\ Values \subseteq Nat
    BY SizesAssumption
  <2>3. \A i \in 1..k : plain[i] \in Nat
    BY <2>1, <2>2
  <2>4. plain = [i \in 1..k |-> plain[i]]
    BY <2>1, Zenon
  <2> QED
    BY <2>2, <2>3, <2>4
<1>2. Blocks \in Seq(Seq(Nat)) /\ Full \in Seq(Cells) /\ Count \in Nat \ {0}
  BY <1>1, BlocksIs, FullIs, PaddedIs
<1>3. Block \in Nat \ {0} /\ 0 * Block = 0 /\ (0 + 1) * Block = Block
  BY SizesAssumption
<1>4. /\ lenc = [pc |-> "start", pos |-> 0, pending |-> <<>>, done |-> <<>>]
      /\ ldisc = [header |-> FALSE, mac |-> L!Placeholder, cipher |-> <<>>]
      /\ ldec = [pc |-> "idle", key |-> "right", pos |-> 0, pending |-> <<>>, prev |-> <<>>]
  BY DEF Init, L!InitLegacy
<1>5. SubSeq(Blocks, 1, 0) = <<>> /\ SubSeq(plain, 1, 0) = <<>> /\ SubSeq(Full, 1, 0) = <<>>
  BY <1>1, <1>2
<1>6. Taken(0)
  BY <1>1, <1>3, <1>4, <1>5 DEF Taken
<1>7. \E d \in 0..Count : Taken(d)
  BY <1>2, <1>6
<1>8. LegacyFile
  BY <1>1, <1>4, <1>7 DEF LegacyFile
<1>9. LegacyCall
  BY <1>4 DEF Init, LegacyCall, Modes, Keys
<1>10. LegacyPlace
  BY DEF Init, LegacyPlace
<1> QED
  BY <1>8, <1>9, <1>10

\* One read of the encryption takes as many blocks as it completes.
LEMMA EncReadsInv ==
    ASSUME LegacyFile, L!EncReads
    PROVE  LegacyFile'
<1>1. lenc.pc = "stream" /\ plain \in Seq(Nat) /\ lenc.pos \in Nat /\ UNCHANGED plain
  BY DEF L!EncReads, L!EncOnly, LegacyFile
<1>2. PICK d \in 0..Count : Taken(d)
  BY <1>1 DEF LegacyFile
<1>20. PICK n \in 1..MaxRead :
       LET b == lenc.pending \o SubSeq(plain, lenc.pos + 1, lenc.pos + n) IN
       /\ lenc.pos + n <= Len(plain)
       /\ ldisc' = [ldisc EXCEPT !.cipher = @ \o L!Cipher(lenc.done, L!BlocksOf(b))]
       /\ lenc' = [lenc EXCEPT !.pos = @ + n, !.pending = L!Rest(b, L!WholeBytes(b)),
                               !.done = @ \o L!BlocksOf(b)]
  BY DEF L!EncReads
<1>21. PICK b :
       /\ b = lenc.pending \o SubSeq(plain, lenc.pos + 1, lenc.pos + n)
       /\ lenc.pos + n <= Len(plain)
       /\ ldisc' = [ldisc EXCEPT !.cipher = @ \o L!Cipher(lenc.done, L!BlocksOf(b))]
       /\ lenc' = [lenc EXCEPT !.pos = @ + n, !.pending = L!Rest(b, L!WholeBytes(b)),
                               !.done = @ \o L!BlocksOf(b)]
  BY <1>20
<1>22. PICK e, s, t : e = lenc.pos + n /\ s = L!BlocksOf(b) /\ t = L!Rest(b, L!WholeBytes(b))
  OBVIOUS
<1>3. PICK buf :
         /\ e <= Len(plain)
         /\ buf = lenc.pending \o SubSeq(plain, lenc.pos + 1, e)
         /\ s = L!BlocksOf(buf) /\ t = L!Rest(buf, L!WholeBytes(buf))
         /\ ldisc' = [ldisc EXCEPT !.cipher = @ \o L!Cipher(lenc.done, s)]
         /\ lenc' = [lenc EXCEPT !.pos = e, !.pending = t, !.done = @ \o s]
  BY <1>21, <1>22
<1>4. e \in Nat /\ d \in Nat /\ lenc.pos <= e /\ Count \in Nat
  <2>1. n \in Nat
    BY SizesAssumption
  <2>2. Count \in Nat
    BY <1>1, PaddedIs
  <2> QED
    BY <1>1, <1>22, <2>1, <2>2
<1>5. d * Block <= lenc.pos /\ lenc.done = SubSeq(Blocks, 1, d)
      /\ lenc.pending = SubSeq(plain, d * Block + 1, lenc.pos)
      /\ ldisc.cipher = SubSeq(Full, 1, d * Block)
  BY <1>2 DEF Taken
<1>6. buf = SubSeq(plain, d * Block + 1, lenc.pos) \o SubSeq(plain, lenc.pos + 1, e)
  BY <1>3, <1>5, Zenon
<1>7. PICK k \in Nat :
         /\ d + k <= Count /\ (d + k) * Block <= e /\ e < (d + k + 1) * Block
         /\ L!BlocksOf(buf) = SubSeq(Blocks, d + 1, d + k)
         /\ L!Rest(buf, L!WholeBytes(buf)) = SubSeq(plain, (d + k) * Block + 1, e)
  <2>1. lenc.pos \in Nat /\ e \in Nat /\ d \in Nat /\ d * Block <= lenc.pos /\ lenc.pos <= e /\ e <= Len(plain)
    BY <1>1, <1>3, <1>4, <1>5
  <2>2. \E k \in Nat :
         /\ d + k <= Count /\ (d + k) * Block <= e /\ e < (d + k + 1) * Block
         /\ L!BlocksOf(SubSeq(plain, d * Block + 1, lenc.pos) \o SubSeq(plain, lenc.pos + 1, e)) = SubSeq(Blocks, d + 1, d + k)
         /\ L!Rest(SubSeq(plain, d * Block + 1, lenc.pos) \o SubSeq(plain, lenc.pos + 1, e), L!WholeBytes(SubSeq(plain, d * Block + 1, lenc.pos) \o SubSeq(plain, lenc.pos + 1, e))) = SubSeq(plain, (d + k) * Block + 1, e)
    BY <1>1, <2>1, ReadCuts, Zenon
  <2> QED
    BY <1>6, <2>2, Zenon
<1>8. PICK c \in Nat : c = d + k
  BY <1>4
<1>9. PICK x \in Nat : x = c * Block /\ x <= Len(Full) /\ x <= e /\ x <= Len(plain)
  <2>1. c \in Nat /\ Count \in Nat /\ c <= Count
    BY <1>4, <1>7, <1>8
  <2>2. c * Block \in Nat /\ c * Block <= Count * Block
    BY <2>1, Monotone
  <2>3. Len(Full) = Count * Block
    BY <1>1, FullIs
  <2>4. c * Block <= e /\ e \in Nat /\ e <= Len(plain) /\ Len(plain) \in Nat
    BY <1>1, <1>3, <1>4, <1>7, <1>8
  <2> PICK y : y = c * Block
    OBVIOUS
  <2>5. y \in Nat /\ y <= Len(Full) /\ y <= e
    BY <2>2, <2>3, <2>4
  <2> QED
    BY <2>4, <2>5
<1>10. s = SubSeq(Blocks, d + 1, c) /\ t = SubSeq(plain, x + 1, e)
  BY <1>3, <1>7, <1>8, <1>9, Zenon
<1>11. lenc.done \o s = SubSeq(Blocks, 1, c) /\ SubSeq(Blocks, 1, c) \in Seq(Seq(Nat))
  <2>1. Blocks \in Seq(Seq(Nat)) /\ Len(Blocks) = Count
    BY <1>1, BlocksIs
  <2>2. PICK z \in Nat : z = 0
    OBVIOUS
  <2>5. d <= c /\ c <= Len(Blocks)
    BY <1>4, <1>7, <1>8, <2>1
  <2>6. z <= d /\ z <= c
    BY <1>4, <2>2
  <2>3. SubSeq(Blocks, z + 1, d) \o SubSeq(Blocks, d + 1, c) = SubSeq(Blocks, z + 1, c)
    <3>1. Blocks \in Seq(Seq(Nat)) /\ z \in Nat /\ d \in Nat /\ c \in Nat
          /\ z <= d /\ d <= c /\ c <= Len(Blocks)
      BY <1>4, <2>1, <2>5, <2>6
    <3> QED
      BY <3>1, Joins, Zenon
  <2>4. SubSeq(Blocks, z + 1, c) \in Seq(Seq(Nat))
    BY <1>4, <2>1, <2>5, <2>6, PartIs
  <2>7. z + 1 = 1
    BY <2>2
  <2>8. SubSeq(Blocks, 1, d) \o SubSeq(Blocks, d + 1, c) = SubSeq(Blocks, 1, c)
        /\ SubSeq(Blocks, 1, c) \in Seq(Seq(Nat))
    BY <2>3, <2>4, <2>7, Zenon
  <2> QED
    BY <1>5, <1>10, <2>8, Zenon
<1>12. ldisc.cipher \o L!Cipher(lenc.done, s) = SubSeq(Full, 1, x) /\ SubSeq(Full, 1, x) \in Seq(Cells)
  <2>1. SubSeq(Full, 1, d * Block) \o L!Cipher(SubSeq(Blocks, 1, d), SubSeq(Blocks, d + 1, d + k))
          = SubSeq(Full, 1, (d + k) * Block)
    BY <1>1, <1>4, <1>7, CipherGrows
  <2>2. Full \in Seq(Cells)
    BY <1>1, FullIs
  <2>3. SubSeq(Full, 1, x) \in Seq(Cells)
    <3>1. x <= Len(Full)
      BY <1>9
    <3> QED
      BY <2>2, <3>1
  <2>4. ldisc.cipher \o L!Cipher(lenc.done, s) = SubSeq(Full, 1, x)
    BY <1>5, <1>8, <1>9, <1>10, <2>1, Zenon
  <2> QED
    BY <2>3, <2>4
<1>13. t \in Seq(Nat)
  <2>1. plain \in Seq(Nat) /\ x \in Nat /\ e \in Nat /\ x <= e /\ e <= Len(plain)
    BY <1>1, <1>3, <1>4, <1>9
  <2>2. SubSeq(plain, x + 1, e) \in Seq(Nat)
    BY <2>1, PartIs
  <2> QED
    BY <1>10, <2>2
<1>14. /\ lenc' = [pc |-> "stream", pos |-> e, pending |-> t, done |-> SubSeq(Blocks, 1, c)]
       /\ ldisc' = [header |-> ldisc.header, mac |-> ldisc.mac, cipher |-> SubSeq(Full, 1, x)]
       /\ ldisc.header \in BOOLEAN /\ ldisc.header /\ ldisc.mac = L!Placeholder
  <2>1. lenc' = [lenc EXCEPT !.pos = e, !.pending = t, !.done = SubSeq(Blocks, 1, c)]
    BY <1>3, <1>11
  <2>2. ldisc' = [ldisc EXCEPT !.cipher = SubSeq(Full, 1, x)]
    BY <1>3, <1>12
  <2>3. lenc \in [pc : {"start", "stream", "mac", "done", "failed", "cut"}, pos : Nat,
                 pending : Seq(Nat), done : Seq(Seq(Nat))]
        /\ ldisc \in [header : BOOLEAN, mac : {L!Placeholder, L!MacOf("right", Full)}, cipher : Seq(Cells)]
    BY DEF LegacyFile
  <2>4. lenc' = [pc |-> "stream", pos |-> e, pending |-> t, done |-> SubSeq(Blocks, 1, c)]
    BY <1>1, <2>1, <2>3
  <2>5. ldisc' = [header |-> ldisc.header, mac |-> ldisc.mac, cipher |-> SubSeq(Full, 1, x)]
    BY <2>2, <2>3
  <2>6. ldisc.header \in BOOLEAN /\ ldisc.header /\ ldisc.mac = L!Placeholder
    BY <1>1 DEF LegacyFile
  <2> QED
    BY <2>4, <2>5, <2>6
<1>15. Blocks' = Blocks /\ Full' = Full /\ Count' = Count
  BY <1>1, Fixed
<1>16. Taken(c)'
  <2>1. e < (c + 1) * Block
    BY <1>7, <1>8, Zenon
  <2>2. c * Block <= lenc'.pos /\ lenc'.pos < (c + 1) * Block /\ lenc'.pos <= Len(plain')
    BY <1>1, <1>3, <1>9, <1>14, <2>1
  <2>3. lenc'.done = SubSeq(Blocks', 1, c) /\ ldisc'.cipher = SubSeq(Full', 1, c * Block)
    <3>1. lenc'.done = SubSeq(Blocks, 1, c) /\ ldisc'.cipher = SubSeq(Full, 1, x)
      BY <1>14
    <3>2. x = c * Block
      BY <1>9
    <3> QED
      BY <1>15, <3>1, <3>2, Zenon
  <2>4. lenc'.pending = SubSeq(plain', c * Block + 1, lenc'.pos)
    BY <1>1, <1>9, <1>10, <1>14
  <2> QED
    BY <2>2, <2>3, <2>4 DEF Taken
<1>17. c \in 0..Count'
  BY <1>4, <1>7, <1>8, <1>15
<1>18. \E j \in 0..Count' : Taken(j)'
  BY <1>16, <1>17, Zenon
<1>19. /\ lenc' \in [pc : {"start", "stream", "mac", "done", "failed", "cut"}, pos : Nat,
                      pending : Seq(Nat), done : Seq(Seq(Nat))]
       /\ lenc'.pc = "stream"
  BY <1>4, <1>11, <1>13, <1>14
<1>23. /\ ldisc' \in [header : BOOLEAN, mac : {L!Placeholder, L!MacOf("right", Full)}, cipher : Seq(Cells)]
       /\ ldisc'.header /\ ldisc'.mac = L!Placeholder
  BY <1>12, <1>14
<1> QED
  BY <1>1, <1>15, <1>18, <1>19, <1>23 DEF LegacyFile

\* At the end of the plaintext the padding completes the ciphertext.
LEMMA EncPadsInv ==
    ASSUME LegacyFile, L!EncPads
    PROVE  LegacyFile'
<1>1. /\ lenc.pc = "stream" /\ lenc.pos = Len(plain) /\ plain \in Seq(Nat) /\ UNCHANGED plain
      /\ lenc' = [lenc EXCEPT !.pc = "mac"]
  BY DEF L!EncPads, L!EncOnly, LegacyFile
<1>2. PICK d \in 0..Count : Taken(d)
  BY <1>1 DEF LegacyFile
<1>3. PICK p : /\ p = lenc.pending
               /\ ldisc' = [ldisc EXCEPT !.cipher = @ \o L!Cipher(lenc.done, L!BlocksOf(p \o L!Padding(p)))]
  BY DEF L!EncPads
<1>4. /\ d * Block <= Len(plain) /\ Len(plain) < (d + 1) * Block /\ lenc.done = SubSeq(Blocks, 1, d)
      /\ p = SubSeq(plain, d * Block + 1, Len(plain)) /\ ldisc.cipher = SubSeq(Full, 1, d * Block)
  BY <1>1, <1>2, <1>3 DEF Taken
<1>5. d \in Nat /\ Count \in Nat
  BY <1>1, PaddedIs
<1>6. d + 1 = Count /\ L!BlocksOf(p \o L!Padding(p)) = SubSeq(Blocks, d + 1, d + 1)
  BY <1>1, <1>4, <1>5, PadCuts, Zenon
<1>7. ldisc.cipher \o L!Cipher(lenc.done, L!BlocksOf(p \o L!Padding(p))) = Full
  <2>1. 1 \in Nat /\ d + 1 <= Count
    BY <1>5, <1>6
  <2>2. SubSeq(Full, 1, d * Block) \o L!Cipher(SubSeq(Blocks, 1, d), SubSeq(Blocks, d + 1, d + 1))
          = SubSeq(Full, 1, (d + 1) * Block)
    BY <1>1, <1>5, <2>1, CipherGrows, Zenon
  <2>3. Full \in Seq(Cells) /\ Len(Full) = (d + 1) * Block
    BY <1>1, <1>6, FullIs
  <2>4. SubSeq(Full, 1, Len(Full)) = Full
    BY <2>3
  <2> QED
    BY <1>4, <1>6, <2>2, <2>3, <2>4, Zenon
<1>8. ldisc' = [ldisc EXCEPT !.cipher = Full]
  BY <1>3, <1>7
<1>9. Full' = Full /\ Full \in Seq(Cells)
  BY <1>1, Fixed, FullIs
<1>10. /\ lenc' \in [pc : {"start", "stream", "mac", "done", "failed", "cut"}, pos : Nat,
                      pending : Seq(Nat), done : Seq(Seq(Nat))]
       /\ lenc'.pc = "mac"
  BY <1>1 DEF LegacyFile
<1>11. /\ ldisc' \in [header : BOOLEAN, mac : {L!Placeholder, L!MacOf("right", Full)}, cipher : Seq(Cells)]
       /\ ldisc'.header /\ ldisc'.mac = L!Placeholder /\ ldisc'.cipher = Full
  BY <1>1, <1>8, <1>9 DEF LegacyFile
<1> QED
  BY <1>1, <1>9, <1>10, <1>11 DEF LegacyFile

\* The header, the MAC, a failure, and the cut of a whole file.
LEMMA EncEndsFile ==
    ASSUME LegacyFile, L!EncHeader \/ L!EncPatchesMac \/ L!EncStops \/ L!Cut
    PROVE  LegacyFile'
<1>1. UNCHANGED plain /\ plain \in Seq(Nat)
  BY DEF L!EncHeader, L!EncPatchesMac, L!EncStops, L!Cut, L!EncOnly, LegacyFile
<1>2. Full' = Full /\ Blocks' = Blocks /\ Count' = Count
  BY <1>1, Fixed
<1>3. Full \in Seq(Cells)
  BY <1>1, FullIs
<1>4. /\ lenc \in [pc : {"start", "stream", "mac", "done", "failed", "cut"}, pos : Nat,
                   pending : Seq(Nat), done : Seq(Seq(Nat))]
      /\ ldisc \in [header : BOOLEAN, mac : {L!Placeholder, L!MacOf("right", Full)}, cipher : Seq(Cells)]
  BY DEF LegacyFile
<1>5. CASE L!EncHeader
  <2>1. lenc.pc = "start" /\ lenc' = [lenc EXCEPT !.pc = "stream"] /\ ldisc' = [ldisc EXCEPT !.header = TRUE]
    BY <1>5 DEF L!EncHeader
  <2>2. PICK d \in 0..Count : Taken(d)
    BY <2>1 DEF LegacyFile
  <2>3. /\ lenc'.pc = "stream" /\ UNCHANGED <<lenc.pos, lenc.pending, lenc.done>>
        /\ ldisc'.header /\ UNCHANGED <<ldisc.mac, ldisc.cipher>>
    BY <1>4, <2>1
  <2>4. Taken(d)'
    BY <1>1, <1>2, <2>2, <2>3 DEF Taken
  <2>5. \E k \in 0..Count' : Taken(k)'
    BY <1>2, <2>4
  <2>6. /\ lenc' \in [pc : {"start", "stream", "mac", "done", "failed", "cut"}, pos : Nat,
                      pending : Seq(Nat), done : Seq(Seq(Nat))]
        /\ ldisc' \in [header : BOOLEAN, mac : {L!Placeholder, L!MacOf("right", Full)}, cipher : Seq(Cells)]
    BY <1>4, <2>1
  <2>7. ldisc.mac = L!Placeholder
    BY <2>1 DEF LegacyFile
  <2> QED
    BY <1>1, <1>2, <2>3, <2>5, <2>6, <2>7 DEF LegacyFile
<1>6. CASE L!EncPatchesMac
  <2>1. lenc.pc = "mac" /\ lenc' = [lenc EXCEPT !.pc = "done"]
        /\ ldisc' = [ldisc EXCEPT !.mac = L!MacOf("right", ldisc.cipher)]
    BY <1>6 DEF L!EncPatchesMac
  <2>2. ldisc.cipher = Full /\ ldisc.header
    BY <2>1 DEF LegacyFile
  <2>3. ldisc' = [ldisc EXCEPT !.mac = L!MacOf("right", Full)]
    BY <2>1, <2>2
  <2>4. /\ lenc' \in [pc : {"start", "stream", "mac", "done", "failed", "cut"}, pos : Nat,
                      pending : Seq(Nat), done : Seq(Seq(Nat))]
        /\ ldisc' \in [header : BOOLEAN, mac : {L!Placeholder, L!MacOf("right", Full)}, cipher : Seq(Cells)]
        /\ lenc'.pc = "done" /\ ldisc'.mac = L!MacOf("right", Full)
        /\ UNCHANGED <<ldisc.header, ldisc.cipher>>
    BY <1>4, <2>1, <2>3
  <2> QED
    BY <1>1, <1>2, <2>2, <2>4 DEF LegacyFile
<1>7. CASE L!EncStops
  <2>1. lenc.pc \in {"start", "stream", "mac"} /\ lenc' = [lenc EXCEPT !.pc = "failed"] /\ UNCHANGED ldisc
    BY <1>7 DEF L!EncStops
  <2>2. ldisc.mac = L!Placeholder
    BY <2>1 DEF LegacyFile
  <2>3. /\ lenc' \in [pc : {"start", "stream", "mac", "done", "failed", "cut"}, pos : Nat,
                      pending : Seq(Nat), done : Seq(Seq(Nat))]
        /\ lenc'.pc = "failed"
    BY <1>4, <2>1
  <2> QED
    BY <1>1, <1>2, <1>4, <2>1, <2>2, <2>3 DEF LegacyFile
<1>8. CASE L!Cut
  <2>1. lenc.pc = "done" /\ lenc' = [lenc EXCEPT !.pc = "cut"]
    BY <1>8 DEF L!Cut
  <2>2. ldisc.cipher = Full /\ ldisc.mac = L!MacOf("right", Full)
    BY <2>1 DEF LegacyFile
  <2>3. PICK n \in 0..(Len(Full) - 1) : ldisc' = [ldisc EXCEPT !.cipher = SubSeq(Full, 1, n)]
    BY <1>8, <2>2 DEF L!Cut
  <2>4. SubSeq(Full, 1, n) \in Seq(Cells) /\ Len(SubSeq(Full, 1, n)) < Len(Full)
    BY <1>3
  <2>5. /\ lenc' \in [pc : {"start", "stream", "mac", "done", "failed", "cut"}, pos : Nat,
                      pending : Seq(Nat), done : Seq(Seq(Nat))]
        /\ ldisc' \in [header : BOOLEAN, mac : {L!Placeholder, L!MacOf("right", Full)}, cipher : Seq(Cells)]
        /\ lenc'.pc = "cut" /\ ldisc'.mac = ldisc.mac /\ ldisc'.cipher = SubSeq(Full, 1, n)
    BY <1>4, <2>1, <2>3, <2>4
  <2> QED
    BY <1>1, <1>2, <2>2, <2>4, <2>5 DEF LegacyFile
<1> QED
  BY <1>5, <1>6, <1>7, <1>8

\* The steps of the encryption, and the cut: no call has begun.
LEMMA LegacyFileSteps ==
    ASSUME LegacyFile, LegacyCall, LegacyPlace, L!Encrypts \/ (L!Cut /\ call.pc = "idle"),
           UNCHANGED <<magic, call, dest>>
    PROVE  LegacyFile' /\ LegacyCall' /\ LegacyPlace'
<1>1. call.pc = "idle" /\ UNCHANGED <<ldec, temp>>
  BY DEF L!Encrypts, L!EncHeader, L!EncReads, L!EncPads, L!EncPatchesMac, L!EncStops, L!Cut,
         L!EncOnly, LegacyCall
<1>2. LegacyFile'
  BY EncReadsInv, EncPadsInv, EncEndsFile DEF L!Encrypts
<1> QED
  BY <1>1, <1>2, BeforeCall

-----------------------------------------------------------------------------
\* Nothing is a beginning of the plaintext, and the plaintext is one under the right key.
LEMMA Outcomes ==
    ASSUME plain \in Seq(Nat)
    PROVE  /\ Outcome(<<>>)
           /\ \A n \in 0..Len(plain) : call.key # "wrong" /\ magic = fmt => Outcome(SubSeq(plain, 1, n))
<1>1. SubSeq(plain, 1, 0) = <<>> /\ 0 \in 0..Len(plain)
  OBVIOUS
<1> QED
  BY <1>1 DEF Outcome

\* The calls that take no format, or the wrong one, and the call in memory.
LEMMA LegacyBegins ==
    ASSUME Legacy, LegacyFile, LegacyCall, LegacyPlace, DecryptsBytes \/ IsRefused \/ Misreads
    PROVE  LegacyFile' /\ LegacyCall' /\ LegacyPlace'
<1>1. /\ UNCHANGED <<fmt, magic, plain, lenc, ldisc, ldec>>
      /\ call.pc = "idle" /\ lenc.pc \in {"done", "failed", "cut"}
  BY DEF DecryptsBytes, IsRefused, Misreads, legacy, Stored
<1>2. ldec.pc = "idle" /\ temp = C!NoFile /\ dest = C!NoFile
  BY <1>1 DEF LegacyCall, LegacyPlace
<1>3. plain \in Seq(Nat) /\ C!NoFile.bytes = <<>> /\ [C!NoFile EXCEPT !.there = TRUE] = Empty
  <2>1. plain \in Seq(Nat)
    BY DEF LegacyFile
  <2>2. C!NoFile.bytes = <<>> /\ [C!NoFile EXCEPT !.there = TRUE] = Empty
    <3>1. C!NoFile.bytes = <<>>
      BY DEF C!NoFile
    <3>2. ASSUME NEW file, file = [C!NoFile EXCEPT !.there = TRUE] PROVE file = Empty
      BY <3>2 DEF C!NoFile, Empty
    <3> QED
      BY <3>1, <3>2, Zenon
  <2> QED
    BY <2>1, <2>2
<1>4. LegacyFile'
  BY <1>1, LegacyFileStays
<1>5. plain' \in Seq(Nat) /\ Outcome(<<>>)'
  BY <1>1, <1>3, Outcomes DEF Outcome
<1>6. CASE DecryptsBytes
  <2>1. PICK key \in Keys :
           IF L!Verifies(key) /\ L!InMemory(ldisc.cipher).ok
           THEN /\ call' = [pc |-> "ok", mode |-> "memory", key |-> key]
                /\ dest' = [there |-> TRUE, bytes |-> L!InMemory(ldisc.cipher).bytes]
           ELSE call' = [pc |-> "failed", mode |-> "memory", key |-> key] /\ UNCHANGED dest
    BY <1>6 DEF DecryptsBytes, Takes
  <2>2. temp' = temp /\ magic = fmt /\ "memory" \in Modes
    BY <1>6 DEF DecryptsBytes, Modes
  <2>3. CASE L!Verifies(key) /\ L!InMemory(ldisc.cipher).ok
    <3>1. lenc.pc = "done" /\ key = "right"
      BY <1>1, <2>3, VerifiesIs
    <3>2. L!InMemory(ldisc.cipher) = [ok |-> TRUE, bytes |-> plain]
      BY <1>3, <3>1, MemoryOpens DEF LegacyFile
    <3>3. dest' = All /\ call' = [pc |-> "ok", mode |-> "memory", key |-> "right"]
      BY <2>1, <2>3, <3>1, <3>2 DEF All
    <3>4. LegacyCall'
      BY <1>1, <1>2, <2>2, <3>3 DEF LegacyCall, Keys
    <3>5. LegacyPlace'
      BY <1>1, <1>2, <2>2, <3>1, <3>3 DEF LegacyPlace, All
    <3> QED
      BY <1>4, <3>4, <3>5
  <2>4. CASE ~(L!Verifies(key) /\ L!InMemory(ldisc.cipher).ok)
    <3>1. call' = [pc |-> "failed", mode |-> "memory", key |-> key] /\ UNCHANGED dest
      BY <2>1, <2>4
    <3>2. LegacyCall'
      BY <1>1, <1>2, <2>2, <3>1 DEF LegacyCall
    <3>3. LegacyPlace'
      BY <1>1, <1>2, <1>3, <1>5, <2>2, <3>1 DEF LegacyPlace
    <3> QED
      BY <1>4, <3>2, <3>3
  <2> QED
    BY <2>3, <2>4
<1>7. CASE IsRefused
  <2>1. PICK mode \in Modes, key \in Keys : call' = [pc |-> "failed", mode |-> mode, key |-> key]
    BY <1>7 DEF IsRefused, Takes
  <2>2. UNCHANGED <<temp, dest>>
    BY <1>7 DEF IsRefused
  <2>3. LegacyCall'
    BY <1>1, <1>2, <2>1 DEF LegacyCall
  <2>4. LegacyPlace'
    BY <1>1, <1>2, <1>3, <1>5, <2>1, <2>2 DEF LegacyPlace
  <2> QED
    BY <1>4, <2>3, <2>4
<1>8. CASE Misreads
  <2>1. PICK mode \in Modes, key \in Keys :
           /\ call' = [pc |-> IF mode \in {"memory", "copy"} THEN "copying" ELSE "ok", mode |-> mode, key |-> key]
           /\ IF mode = "dest" THEN dest' = Empty /\ UNCHANGED temp ELSE temp' = Empty /\ UNCHANGED dest
    BY <1>3, <1>8 DEF Misreads, Takes
  <2>2. magic # fmt
    BY <1>8 DEF Misreads
  <2>3. LegacyCall'
    BY <1>1, <1>2, <2>1 DEF LegacyCall
  <2>4. LegacyPlace'
    BY <1>1, <1>2, <2>1, <2>2 DEF LegacyPlace, Empty, Modes
  <2> QED
    BY <1>4, <2>3, <2>4
<1> QED
  BY <1>6, <1>7, <1>8

\* A stream begins with a file that has a header.
LEMMA LegacyStarts ==
    ASSUME Legacy, LegacyFile, LegacyCall, LegacyPlace, Starts
    PROVE  LegacyFile' /\ LegacyCall' /\ LegacyPlace'
<1>1. PICK mode \in Modes, key \in Keys :
         /\ Accepts(mode) /\ call' = [pc |-> "stream", mode |-> mode, key |-> key]
         /\ mode # "memory" /\ L!DecHeader(key) /\ UNCHANGED <<fmt, dest>>
  BY DEF Starts, Takes
<1>2. call.pc = "idle" /\ magic = fmt /\ lenc.pc \in {"done", "failed", "cut"} /\ UNCHANGED magic
  BY DEF Starts, Stored
<1>3. UNCHANGED <<plain, lenc, ldisc, temp>>
      /\ ldec' = [ldec EXCEPT !.pc = IF ldisc.header THEN "verify" ELSE "refused", !.key = key]
  BY <1>1 DEF L!DecHeader, L!DecOnly
<1>4. mode \in {"temp", "copy"}
  BY <1>1, <1>2 DEF Accepts, Legacy, Modes
<1>5. LegacyFile'
  BY <1>3, LegacyFileStays
<1>6. PICK pc \in {"verify", "refused"} :
         /\ ldec' = [ldec EXCEPT !.pc = pc, !.key = key]
         /\ pc = "refused" => lenc.pc # "done"
  BY <1>3 DEF LegacyFile
<1>7. /\ ldec' \in [pc : {"idle", "verify", "stream", "ok", "refused", "stopped"}, key : Keys, pos : Nat,
                    pending : Seq(Cells), prev : Seq(Cells)]
      /\ ldec'.pc = pc /\ ldec'.key = key /\ ldec'.pos = 0 /\ ldec'.pending = <<>> /\ ldec'.prev = <<>>
  BY <1>2, <1>6 DEF LegacyCall
<1>8. LegacyCall'
  BY <1>1, <1>2, <1>3, <1>4, <1>6, <1>7 DEF LegacyCall
<1>9. temp = C!NoFile /\ dest = C!NoFile
  BY <1>2 DEF LegacyPlace
<1>10. LegacyPlace'
  BY <1>1, <1>3, <1>7, <1>9 DEF LegacyPlace
<1> QED
  BY <1>5, <1>8, <1>10

\* The length check lets a whole ciphertext pass.
LEMMA WholeLength ==
    ASSUME plain \in Seq(Nat), ldisc.cipher = Full
    PROVE  L!LengthOk
<1>1. Count \in Nat \ {0} /\ Len(Full) = Count * Block
  BY PaddedIs, FullIs
<1>2. Block \in Nat \ {0}
  BY SizesAssumption
<1>3. Count * Block > 0
  <2>1. 1 <= Count /\ Count \in Nat /\ 1 \in Nat
    BY <1>1
  <2>2. 1 * Block <= Count * Block /\ Count * Block \in Nat /\ 1 * Block = Block
    BY <1>2, <2>1, Monotone
  <2> QED
    BY <1>2, <2>2
<1>4. (Count * Block) % Block = 0
  <2>1. Count \in Nat /\ 0 \in 0..(Block - 1)
    BY <1>1, <1>2
  <2>2. (Count * Block + 0) % Block = 0
    BY <2>1, Quotient
  <2>3. Count * Block \in Nat
    BY <2>1, Monotone
  <2>4. Count * Block + 0 = Count * Block
    BY <2>3
  <2> QED
    BY <2>2, <2>4
<1> QED
  BY <1>1, <1>3, <1>4 DEF L!LengthOk

\* The decryption is where it was as long as its state is.
LEMMA BeforeIs ==
    ASSUME plain \in Seq(Nat), NEW k \in 0..(Count - 1)
    PROVE  Before(k) \in Seq(Cells)
<1>1. CASE k = 0
  BY <1>1 DEF Before
<1>2. CASE k # 0
  <2>1. k - 1 \in Nat /\ k \in Nat /\ k <= Count /\ Count \in Nat /\ k - 1 <= k
    BY <1>2, PaddedIs
  <2>2. (k - 1) * Block \in Nat /\ (k - 1) * Block <= k * Block /\ k * Block <= Count * Block
        /\ k * Block \in Nat
    BY <2>1, Monotone
  <2>3. Full \in Seq(Cells) /\ Len(Full) = Count * Block
    BY FullIs
  <2>4. SubSeq(Full, (k - 1) * Block + 1, k * Block) \in Seq(Cells)
    BY <2>2, <2>3, PartIs
  <2> QED
    BY <1>2, <2>4 DEF Before
<1> QED
  BY <1>1, <1>2

\* What a step of the stream comes down to.
LEMMA StreamSteps ==
    ASSUME Legacy, LegacyFile, LegacyCall, LegacyPlace, call.pc = "stream",
           UNCHANGED <<fmt, magic, call, dest, plain, lenc, ldisc>>,
           ldec.pc \in {"verify", "stream"},
           ldec' \in [pc : {"stream", "ok", "refused", "stopped"}, key : Keys, pos : Nat,
                      pending : Seq(Cells), prev : Seq(Cells)],
           ldec'.key = ldec.key,
           ldec'.pc \in {"stream", "ok"} => lenc.pc = "done" /\ ldec.key = "right",
           ldec'.pc = "refused" => ~(lenc.pc = "done" /\ ldec.key = "right"),
           ldec'.pc \in {"refused", "stopped"} => temp' = C!NoFile,
           ldec'.pc = "stream" => \E m \in 0..(Count - 1) : Written(m)',
           ldec'.pc = "ok" => temp' = All
    PROVE  LegacyFile' /\ LegacyCall' /\ LegacyPlace'
<1>1. LegacyFile' /\ Count' = Count
  BY LegacyFileStays, Fixed
<1>2. LegacyCall'
  BY DEF LegacyCall
<1>3. LegacyPlace'
  BY <1>1 DEF LegacyPlace, All
<1> QED
  BY <1>1, <1>2, <1>3

\* The first pass lets exactly the whole files pass, under their own key.
LEMMA DecVerifiesInv ==
    ASSUME Legacy, LegacyFile, LegacyCall, LegacyPlace, call.pc = "stream",
           UNCHANGED <<fmt, magic, call, dest>>, L!DecVerifies
    PROVE  LegacyFile' /\ LegacyCall' /\ LegacyPlace'
<1>1. ldec.pc = "verify" /\ UNCHANGED <<plain, lenc, ldisc>> /\ plain \in Seq(Nat)
  BY DEF L!DecVerifies, L!DecOnly, LegacyFile
<1>2. /\ lenc.pc \in {"done", "failed", "cut"} /\ ldec.key \in Keys /\ temp = C!NoFile
      /\ ldec.pos = 0 /\ ldec.pending = <<>> /\ ldec.prev = <<>>
      /\ ldec \in [pc : {"idle", "verify", "stream", "ok", "refused", "stopped"}, key : Keys, pos : Nat,
                   pending : Seq(Cells), prev : Seq(Cells)]
  BY <1>1 DEF LegacyCall, LegacyPlace
<1>3. L!Verifies(ldec.key) <=> lenc.pc = "done" /\ ldec.key = "right"
  BY <1>2, VerifiesIs
<1>4. lenc.pc = "done" => L!LengthOk
  BY <1>1, WholeLength DEF LegacyFile
<1>5. CASE lenc.pc = "done" /\ ldec.key = "right"
  <2>1. ldec' = [ldec EXCEPT !.pc = "stream"] /\ temp' = [C!NoFile EXCEPT !.there = TRUE]
    BY <1>3, <1>4, <1>5 DEF L!DecVerifies, L!NoFile, C!NoFile
  <2>2. /\ ldec' \in [pc : {"stream", "ok", "refused", "stopped"}, key : Keys, pos : Nat,
                      pending : Seq(Cells), prev : Seq(Cells)]
        /\ ldec'.pc = "stream" /\ ldec'.key = ldec.key /\ ldec'.pos = 0
        /\ ldec'.pending = <<>> /\ ldec'.prev = <<>>
    BY <1>2, <2>1
  <2>3. temp' = [there |-> TRUE, bytes |-> <<>>]
    BY <2>1 DEF C!NoFile
  <2>4. /\ Padded' = Padded /\ Full' = Full /\ Before(0)' = <<>>
        /\ Full \in Seq(Cells) /\ Padded \in Seq(Nat) /\ 0 \in 0..(Count - 1)
    BY <1>1, Fixed, FullIs, PaddedIs DEF Before
  <2>5. 0 * Block = 0 /\ (0 + 1) * Block = Block /\ Block \in Nat
    BY SizesAssumption
  <2>6. SubSeq(Padded, 1, 0) = <<>> /\ SubSeq(Full, 1, 0) = <<>> /\ Len(Full) \in Nat
    BY <2>4
  <2>9. /\ temp' = [there |-> TRUE, bytes |-> SubSeq(Padded', 1, 0 * Block)]
        /\ ldec'.pending = SubSeq(Full', 0 * Block + 1, ldec'.pos) /\ ldec'.prev = Before(0)'
    <3>1. 0 * Block + 1 = 1
      BY <2>5
    <3> QED
      BY <2>2, <2>3, <2>4, <2>5, <2>6, <3>1, Zenon
  <2>10. /\ 0 * Block <= ldec'.pos /\ ldec'.pos <= Len(Full') /\ ldec'.pos <= (0 + 1) * Block
    BY <2>2, <2>4, <2>5, <2>6
  <2>7. Written(0)'
    BY <2>9, <2>10 DEF Written
  <2>8. \E m \in 0..(Count - 1) : Written(m)'
    BY <2>4, <2>7
  <2> QED
    BY <1>1, <1>5, <2>2, <2>8, StreamSteps
<1>6. CASE ~(lenc.pc = "done" /\ ldec.key = "right")
  <2>1. ldec' = [ldec EXCEPT !.pc = "refused"] /\ temp' = temp
    BY <1>3, <1>6 DEF L!DecVerifies
  <2>2. /\ ldec' \in [pc : {"stream", "ok", "refused", "stopped"}, key : Keys, pos : Nat,
                      pending : Seq(Cells), prev : Seq(Cells)]
        /\ ldec'.pc = "refused" /\ ldec'.key = ldec.key
    BY <1>2, <2>1
  <2> QED
    BY <1>1, <1>2, <1>6, <2>1, <2>2, StreamSteps
<1> QED
  BY <1>5, <1>6

\* A read of the second pass writes every block but the last one it has.
LEMMA DecReadsInv ==
    ASSUME Legacy, LegacyFile, LegacyCall, LegacyPlace, call.pc = "stream",
           UNCHANGED <<fmt, magic, call, dest>>, L!DecReads
    PROVE  LegacyFile' /\ LegacyCall' /\ LegacyPlace'
<1>1. ldec.pc = "stream" /\ UNCHANGED <<plain, lenc, ldisc>> /\ plain \in Seq(Nat)
  BY DEF L!DecReads, L!DecOnly, LegacyFile
<1>2. /\ lenc.pc = "done" /\ ldec.key = "right" /\ ldisc.cipher = Full
      /\ ldec \in [pc : {"idle", "verify", "stream", "ok", "refused", "stopped"}, key : Keys, pos : Nat,
                   pending : Seq(Cells), prev : Seq(Cells)]
  BY <1>1 DEF LegacyCall, LegacyFile
<1>3. PICK m \in 0..(Count - 1) : Written(m)
  BY <1>1 DEF LegacyPlace
<1>4. PICK n \in 1..MaxRead :
         LET buf == ldec.pending \o SubSeq(ldisc.cipher, ldec.pos + 1, ldec.pos + n)
             k   == L!Ready(buf)
         IN
         /\ ldec.pos + n <= Len(ldisc.cipher)
         /\ temp' = [temp EXCEPT !.bytes = @ \o L!DecryptBlocks(buf, ldec.prev, k)]
         /\ ldec' = [ldec EXCEPT !.pos = @ + n, !.pending = L!Rest(buf, k * Block),
                       !.prev = IF k = 0 THEN @ ELSE SubSeq(buf, (k - 1) * Block + 1, k * Block)]
  BY DEF L!DecReads
<1>5. PICK e, pos : e = ldec.pos + n /\ pos = ldec.pos
  OBVIOUS
<1>6. /\ temp = [there |-> TRUE, bytes |-> SubSeq(Padded, 1, m * Block)]
      /\ m * Block <= pos /\ ldec.pending = SubSeq(Full, m * Block + 1, pos) /\ ldec.prev = Before(m)
  BY <1>3, <1>5 DEF Written
<1>7. PICK buf, k :
         /\ buf = SubSeq(Full, m * Block + 1, pos) \o SubSeq(Full, pos + 1, e) /\ k = L!Ready(buf)
  OBVIOUS
<1>8. buf = ldec.pending \o SubSeq(ldisc.cipher, ldec.pos + 1, ldec.pos + n)
  BY <1>2, <1>5, <1>6, <1>7, Zenon
<1>9. /\ e <= Len(Full)
      /\ temp' = [temp EXCEPT !.bytes = @ \o L!DecryptBlocks(buf, Before(m), k)]
      /\ ldec' = [ldec EXCEPT !.pos = e, !.pending = L!Rest(buf, k * Block),
                    !.prev = IF k = 0 THEN Before(m) ELSE SubSeq(buf, (k - 1) * Block + 1, k * Block)]
  BY <1>2, <1>4, <1>5, <1>6, <1>7, <1>8
<1>10. pos \in Nat /\ e \in Nat /\ pos < e /\ m \in Nat /\ m < Count /\ Count \in Nat
  <2>1. n \in Nat /\ n > 0 /\ Count \in Nat
    BY <1>1, SizesAssumption, PaddedIs
  <2> QED
    BY <1>2, <1>5, <2>1
<1>11. /\ k \in Nat /\ m + k < Count /\ (m + k) * Block < e /\ e <= (m + k + 1) * Block
       /\ SubSeq(Padded, 1, m * Block) \o L!DecryptBlocks(buf, Before(m), k)
             = SubSeq(Padded, 1, (m + k) * Block)
       /\ L!Rest(buf, k * Block) = SubSeq(Full, (m + k) * Block + 1, e)
       /\ (IF k = 0 THEN Before(m) ELSE SubSeq(buf, (k - 1) * Block + 1, k * Block)) = Before(m + k)
  <2>1. /\ plain \in Seq(Nat) /\ m \in Nat /\ pos \in Nat /\ e \in Nat
        /\ m < Count /\ m * Block <= pos /\ pos < e /\ e <= Len(Full)
    BY <1>1, <1>6, <1>9, <1>10
  <2>2. LET b == SubSeq(Full, m * Block + 1, pos) \o SubSeq(Full, pos + 1, e)
            j == L!Ready(b)
        IN
        /\ j \in Nat /\ m + j < Count /\ (m + j) * Block < e /\ e <= (m + j + 1) * Block
        /\ SubSeq(Padded, 1, m * Block) \o L!DecryptBlocks(b, Before(m), j)
              = SubSeq(Padded, 1, (m + j) * Block)
        /\ L!Rest(b, j * Block) = SubSeq(Full, (m + j) * Block + 1, e)
        /\ (IF j = 0 THEN Before(m) ELSE SubSeq(b, (j - 1) * Block + 1, j * Block)) = Before(m + j)
    BY <2>1, ReadOpens, Zenon
  <2> QED
    BY <1>7, <2>2
<1>12. PICK c \in 0..(Count - 1) : c = m + k
  BY <1>10, <1>11
<1>13. PICK x \in Nat : x = c * Block /\ x < e /\ e <= (c + 1) * Block
  <2>1. c \in Nat
    BY <1>10
  <2>2. c * Block \in Nat
    BY <2>1, Monotone
  <2> QED
    BY <1>11, <1>12, <2>2
<1>14. SubSeq(Full, x + 1, e) \in Seq(Cells) /\ Before(c) \in Seq(Cells)
  <2>1. Full \in Seq(Cells) /\ x \in Nat /\ e \in Nat /\ x <= e /\ e <= Len(Full)
    BY <1>1, <1>9, <1>10, <1>13, FullIs
  <2>2. SubSeq(Full, x + 1, e) \in Seq(Cells)
    BY <2>1, PartIs
  <2> QED
    BY <1>1, <2>2, BeforeIs
<1>15. ldec' = [ldec EXCEPT !.pos = e, !.pending = SubSeq(Full, x + 1, e), !.prev = Before(c)]
  BY <1>9, <1>11, <1>12, <1>13
<1>16. /\ ldec' \in [pc : {"stream", "ok", "refused", "stopped"}, key : Keys, pos : Nat,
                     pending : Seq(Cells), prev : Seq(Cells)]
       /\ ldec'.pc = "stream" /\ ldec'.key = ldec.key /\ ldec'.pos = e
       /\ ldec'.pending = SubSeq(Full, x + 1, e) /\ ldec'.prev = Before(c)
  BY <1>1, <1>2, <1>10, <1>14, <1>15
<1>17. temp' = [there |-> TRUE, bytes |-> SubSeq(Padded, 1, x)]
  <2>1. SubSeq(Padded, 1, m * Block) \o L!DecryptBlocks(buf, Before(m), k) = SubSeq(Padded, 1, x)
    BY <1>11, <1>12, <1>13, Zenon
  <2> PICK s : s = SubSeq(Padded, 1, m * Block)
    OBVIOUS
  <2>2. temp = [there |-> TRUE, bytes |-> s] /\ s \o L!DecryptBlocks(buf, Before(m), k) = SubSeq(Padded, 1, x)
    BY <1>6, <2>1
  <2> QED
    BY <1>9, <2>2
<1>18. Written(c)'
  <2>1. Padded' = Padded /\ Full' = Full /\ Before(c)' = Before(c)
    BY <1>1, Fixed
  <2>2. temp' = [there |-> TRUE, bytes |-> SubSeq(Padded', 1, c * Block)]
    BY <1>13, <1>17, <2>1
  <2>3. c * Block <= ldec'.pos /\ ldec'.pos <= Len(Full') /\ ldec'.pos <= (c + 1) * Block
        /\ ldec'.pos # c * Block
    BY <1>9, <1>10, <1>13, <1>16, <2>1
  <2>4. ldec'.pending = SubSeq(Full', c * Block + 1, ldec'.pos) /\ ldec'.prev = Before(c)'
    BY <1>13, <1>16, <2>1
  <2> QED
    BY <2>2, <2>3, <2>4 DEF Written
<1>19. \E j \in 0..(Count - 1) : Written(j)'
  BY <1>18
<1> QED
  BY <1>1, <1>2, <1>16, <1>19, StreamSteps

\* The last block is there as a whole and loses its padding.
LEMMA DecUnpadsInv ==
    ASSUME Legacy, LegacyFile, LegacyCall, LegacyPlace, call.pc = "stream",
           UNCHANGED <<fmt, magic, call, dest>>, L!DecUnpads
    PROVE  LegacyFile' /\ LegacyCall' /\ LegacyPlace'
<1>1. /\ ldec.pc = "stream" /\ ldec.pos = Len(ldisc.cipher)
      /\ UNCHANGED <<plain, lenc, ldisc>> /\ plain \in Seq(Nat)
  BY DEF L!DecUnpads, L!DecOnly, LegacyFile
<1>2. /\ lenc.pc = "done" /\ ldec.key = "right" /\ ldisc.cipher = Full
      /\ ldec \in [pc : {"idle", "verify", "stream", "ok", "refused", "stopped"}, key : Keys, pos : Nat,
                   pending : Seq(Cells), prev : Seq(Cells)]
  BY <1>1 DEF LegacyCall, LegacyFile
<1>3. PICK m \in 0..(Count - 1) : Written(m)
  BY <1>1 DEF LegacyPlace
<1>4. /\ temp = [there |-> TRUE, bytes |-> SubSeq(Padded, 1, m * Block)]
      /\ Len(Full) <= (m + 1) * Block
      /\ ldec.pending = SubSeq(Full, m * Block + 1, Len(Full)) /\ ldec.prev = Before(m)
  BY <1>1, <1>2, <1>3 DEF Written
<1>5. m \in Nat /\ m < Count
  <2>1. Count \in Nat
    BY <1>1, PaddedIs
  <2> QED
    BY <2>1
<1>6. PICK p, last : p = ldec.pending /\ last = L!DecryptBlocks(p, Before(m), 1)
  OBVIOUS
<1>7. Len(p) = Block /\ L!IsPadded(last) /\ SubSeq(Padded, 1, m * Block) \o L!Unpad(last) = plain
  <2>1. LET q == SubSeq(Full, m * Block + 1, Len(Full))
            l == L!DecryptBlocks(q, Before(m), 1)
        IN
        /\ Len(q) = Block /\ L!IsPadded(l)
        /\ SubSeq(Padded, 1, m * Block) \o L!Unpad(l) = plain
    BY <1>1, <1>4, <1>5, LastOpens, Zenon
  <2> QED
    BY <1>4, <1>6, <2>1
<1>8. /\ temp' = [temp EXCEPT !.bytes = @ \o L!Unpad(last)]
      /\ ldec' = [ldec EXCEPT !.pc = "ok"]
  BY <1>4, <1>6, <1>7 DEF L!DecUnpads
<1>9. temp' = All
  <2> PICK s : s = SubSeq(Padded, 1, m * Block)
    OBVIOUS
  <2>1. temp = [there |-> TRUE, bytes |-> s] /\ s \o L!Unpad(last) = plain
    BY <1>4, <1>7
  <2> QED
    BY <1>8, <2>1 DEF All
<1>10. /\ ldec' \in [pc : {"stream", "ok", "refused", "stopped"}, key : Keys, pos : Nat,
                     pending : Seq(Cells), prev : Seq(Cells)]
       /\ ldec'.pc = "ok" /\ ldec'.key = ldec.key
  BY <1>2, <1>8
<1> QED
  BY <1>1, <1>2, <1>9, <1>10, StreamSteps

\* A stream that stops removes what it has written.
LEMMA LegacyStreams ==
    ASSUME Legacy, LegacyFile, LegacyCall, LegacyPlace, Streams
    PROVE  LegacyFile' /\ LegacyCall' /\ LegacyPlace'
<1>1. /\ call.pc = "stream" /\ UNCHANGED <<fmt, magic, call, dest>>
      /\ L!DecVerifies \/ L!DecReads \/ L!DecUnpads \/ L!DecStops
  BY DEF Streams, L!Streams
<1>2. CASE L!DecStops
  <2>1. /\ ldec.pc \in {"verify", "stream"} /\ ldec' = [ldec EXCEPT !.pc = "stopped"]
        /\ UNCHANGED <<plain, lenc, ldisc>>
        /\ IF ldec.pc = "stream" THEN temp' = C!NoFile ELSE temp' = temp
    BY <1>2 DEF L!DecStops, L!DecOnly, L!CleanUp, L!NoFile, C!NoFile
  <2>2. ldec.pc = "verify" => temp = C!NoFile
    BY <1>1 DEF LegacyPlace
  <2>3. /\ ldec' \in [pc : {"stream", "ok", "refused", "stopped"}, key : Keys, pos : Nat,
                      pending : Seq(Cells), prev : Seq(Cells)]
        /\ ldec'.pc = "stopped" /\ ldec'.key = ldec.key
    BY <2>1 DEF LegacyCall
  <2> QED
    BY <1>1, <2>1, <2>2, <2>3, StreamSteps
<1> QED
  BY <1>1, <1>2, DecVerifiesInv, DecReadsInv, DecUnpadsInv

\* The call takes the plaintext, or hears that there is none.
LEMMA LegacyStreamEnds ==
    ASSUME Legacy, LegacyFile, LegacyCall, LegacyPlace, StreamEnds
    PROVE  LegacyFile' /\ LegacyCall' /\ LegacyPlace'
<1>1. /\ call.pc = "stream" /\ UNCHANGED <<fmt, magic, temp, dest, plain, lenc, ldisc, ldec>>
  BY DEF StreamEnds, legacy
<1>2. /\ ldec.pc # "idle" /\ magic = fmt /\ call.key = ldec.key /\ call.mode \in {"temp", "copy"}
      /\ call \in [pc : {"idle", "stream", "copying", "ok", "failed"}, mode : Modes, key : Keys]
      /\ ldec.pc = "ok" => lenc.pc = "done" /\ ldec.key = "right"
  BY <1>1 DEF LegacyCall
<1>3. /\ dest = C!NoFile /\ ldec.pc \in {"refused", "stopped"} => temp = C!NoFile
      /\ ldec.pc = "ok" => temp = All
  BY <1>1 DEF LegacyPlace
<1>4. PICK pc \in {"copying", "ok", "failed"} :
         /\ call' = [call EXCEPT !.pc = pc]
         /\ pc # "failed" => ldec.pc = "ok"
         /\ pc = "failed" => ldec.pc \in {"refused", "stopped"}
         /\ pc = "copying" <=> call.mode = "copy" /\ ldec.pc = "ok"
  <2>1. ldec.pc \in {"idle", "verify", "stream", "ok", "refused", "stopped"}
    BY DEF LegacyCall
  <2> QED
    BY <1>2, <2>1 DEF StreamEnds, Goes
<1>5. /\ call' \in [pc : {"idle", "stream", "copying", "ok", "failed"}, mode : Modes, key : Keys]
      /\ call'.pc = pc /\ call'.mode = call.mode /\ call'.key = call.key
  BY <1>2, <1>4
<1>6. LegacyCall'
  BY <1>1, <1>2, <1>4, <1>5 DEF LegacyCall
<1>7. plain' \in Seq(Nat) /\ C!NoFile.bytes = <<>> /\ Outcome(<<>>)'
  <2>1. plain \in Seq(Nat)
    BY DEF LegacyFile
  <2>2. Outcome(<<>>)'
    BY <1>1, <2>1, Outcomes DEF Outcome
  <2> QED
    BY <1>1, <2>1, <2>2 DEF C!NoFile
<1>8. All' = All
  BY <1>1 DEF All
<1>9. LegacyPlace'
  <2>1. CASE pc = "failed"
    BY <1>1, <1>3, <1>4, <1>5, <1>7, <2>1 DEF LegacyPlace
  <2>2. CASE pc = "copying"
    BY <1>1, <1>2, <1>3, <1>4, <1>5, <1>8, <2>2 DEF LegacyPlace
  <2>3. CASE pc = "ok"
    <3>1. call.mode = "temp"
      BY <1>2, <1>4, <2>3
    <3> QED
      BY <1>1, <1>2, <1>3, <1>4, <1>5, <1>8, <2>3, <3>1 DEF LegacyPlace
  <2> QED
    BY <2>1, <2>2, <2>3
<1> QED
  BY <1>1, <1>6, <1>9, LegacyFileStays

\* The copy has what the temporary file had, or a part of it when it fails.
LEMMA LegacyCopies ==
    ASSUME Legacy, LegacyFile, LegacyCall, LegacyPlace, Copies \/ CopyFails
    PROVE  LegacyFile' /\ LegacyCall' /\ LegacyPlace'
<1>1. call.pc = "copying" /\ UNCHANGED <<fmt, magic, plain, lenc, ldisc, ldec>>
  BY DEF Copies, CopyFails, legacy
<1>2. /\ call \in [pc : {"idle", "stream", "copying", "ok", "failed"}, mode : Modes, key : Keys]
      /\ ldec.pc = "ok" => lenc.pc = "done" /\ call.key = "right"
  BY <1>1 DEF LegacyCall
<1>3. /\ dest = C!NoFile /\ call.mode \in {"memory", "copy"}
      /\ magic = fmt => ldec.pc = "ok" /\ temp = All
      /\ magic # fmt => temp = Empty
  BY <1>1 DEF LegacyPlace
<1>4. All' = All /\ plain \in Seq(Nat) /\ C!NoFile.bytes = <<>>
  <2>1. plain \in Seq(Nat)
    BY DEF LegacyFile
  <2> QED
    BY <1>1, <2>1 DEF All, C!NoFile
<1>5. CASE Copies
  <2>1. call' = [call EXCEPT !.pc = "ok"] /\ dest' = temp /\ temp' = C!NoFile
    BY <1>5 DEF Copies, Goes
  <2>2. /\ call' \in [pc : {"idle", "stream", "copying", "ok", "failed"}, mode : Modes, key : Keys]
        /\ call'.pc = "ok" /\ call'.mode = call.mode /\ call'.key = call.key
    BY <1>2, <2>1
  <2>3. LegacyCall'
    BY <1>1, <2>2 DEF LegacyCall
  <2>4. LegacyPlace'
    BY <1>1, <1>2, <1>3, <1>4, <2>1, <2>2 DEF LegacyPlace
  <2> QED
    BY <1>1, <2>3, <2>4, LegacyFileStays
<1>6. CASE CopyFails
  <2>1. /\ call' = [call EXCEPT !.pc = "failed"] /\ temp' = temp
        /\ \/ dest' = C!NoFile
           \/ \E n \in 0..Len(temp.bytes) : dest' = [there |-> TRUE, bytes |-> SubSeq(temp.bytes, 1, n)]
    BY <1>3, <1>6 DEF CopyFails, Goes
  <2>2. /\ call' \in [pc : {"idle", "stream", "copying", "ok", "failed"}, mode : Modes, key : Keys]
        /\ call'.pc = "failed" /\ call'.mode = call.mode /\ call'.key = call.key
    BY <1>2, <2>1
  <2>3. LegacyCall'
    BY <1>1, <2>2 DEF LegacyCall
  <2>4. ASSUME NEW s, Outcome(s) PROVE Outcome(s)'
    BY <1>1, <2>2, <2>4 DEF Outcome
  <2>5. Outcome(<<>>)
    BY <1>4, Outcomes
  <2>6. Outcome(temp.bytes) /\ Outcome(dest'.bytes)
    <3>1. CASE magic = fmt
      <4>1. temp.bytes = plain /\ call.key # "wrong"
        BY <1>2, <1>3, <3>1 DEF All
      <4>2. \A n \in 0..Len(plain) : Outcome(SubSeq(plain, 1, n))
        BY <1>4, <3>1, <4>1, Outcomes
      <4>3. SubSeq(plain, 1, Len(plain)) = plain /\ Len(plain) \in 0..Len(plain)
        BY <1>4
      <4>4. Outcome(plain)
        BY <4>2, <4>3
      <4>5. Outcome(dest'.bytes)
        <5>1. CASE dest' = C!NoFile
          BY <1>4, <2>5, <5>1, Zenon
        <5>2. CASE dest' # C!NoFile
          <6>1. PICK n \in 0..Len(plain) : dest' = [there |-> TRUE, bytes |-> SubSeq(plain, 1, n)]
            BY <2>1, <4>1, <5>2
          <6>2. dest'.bytes = SubSeq(plain, 1, n)
            BY <6>1
          <6> QED
            BY <4>2, <6>2, Zenon
        <5> QED
          BY <5>1, <5>2
      <4> QED
        BY <4>1, <4>4, <4>5
    <3>2. CASE magic # fmt
      <4>1. temp.bytes = <<>>
        BY <1>3, <3>2 DEF Empty
      <4>2. \A n \in 0..Len(<<>>) : SubSeq(<<>>, 1, n) = <<>>
        OBVIOUS
      <4>3. dest'.bytes = <<>>
        BY <1>4, <2>1, <4>1, <4>2
      <4> QED
        BY <2>5, <4>1, <4>3
    <3> QED
      BY <3>1, <3>2
  <2>8. Outcome(temp.bytes)' /\ Outcome(dest.bytes)'
    <3> PICK s, t : s = temp.bytes /\ t = dest'.bytes
      OBVIOUS
    <3>1. Outcome(s)' /\ Outcome(t)'
      BY <2>4, <2>6
    <3>2. temp'.bytes = s /\ dest'.bytes = t
      BY <2>1
    <3> QED
      BY <3>1, <3>2
  <2>9. LegacyPlace'
    BY <1>3, <2>2, <2>8 DEF LegacyPlace
  <2> QED
    BY <1>1, <2>3, <2>9, LegacyFileStays
<1> QED
  BY <1>5, <1>6

-----------------------------------------------------------------------------
\* The steps on a DBENC001 file leave the chunks alone.
LEMMA LegacyStep ==
    ASSUME Legacy, Next PROVE UNCHANGED <<fmt, disc, dec>>
  BY DEF Next, Encrypts, IsHarmed, LosesMagic, Starts, DecryptsBytes, IsRefused, Misreads,
         Streams, StreamEnds, Copies, CopyFails, chunked

\* They keep what the invariant says of it.
LEMMA LegacyKept ==
    ASSUME Legacy, Next, LegacyFile, LegacyCall, LegacyPlace
    PROVE  LegacyFile' /\ LegacyCall' /\ LegacyPlace'
<1>1. CASE Encrypts
  BY <1>1, LegacyFileSteps DEF Encrypts
<1>2. CASE IsHarmed
  BY <1>2, LegacyFileSteps DEF IsHarmed
<1>3. CASE LosesMagic
  <2>1. call.pc = "idle" /\ UNCHANGED <<call, temp, dest, plain, lenc, ldisc, ldec>>
    BY <1>3 DEF LosesMagic, legacy
  <2> QED
    BY <2>1, BeforeCall, LegacyFileStays
<1>4. CASE Starts
  BY <1>4, LegacyStarts
<1>5. CASE DecryptsBytes \/ IsRefused \/ Misreads
  BY <1>5, LegacyBegins
<1>6. CASE Streams
  BY <1>6, LegacyStreams
<1>7. CASE StreamEnds
  BY <1>7, LegacyStreamEnds
<1>8. CASE Copies \/ CopyFails
  BY <1>8, LegacyCopies
<1> QED
  BY <1>1, <1>2, <1>3, <1>4, <1>5, <1>6, <1>7, <1>8 DEF Next

\* So does a step that changes nothing.
LEMMA LegacyStays ==
    ASSUME Legacy, LegacyFile, LegacyCall, LegacyPlace,
           UNCHANGED <<fmt, magic, call, temp, dest, plain, lenc, ldisc, ldec>>
    PROVE  LegacyFile' /\ LegacyCall' /\ LegacyPlace'
<1>1. LegacyFile' /\ Count' = Count /\ Padded' = Padded /\ Full' = Full /\ \A k : Before(k)' = Before(k)
  BY LegacyFileStays, Fixed
<1>2. LegacyCall'
  BY DEF LegacyCall
<1>3. ASSUME NEW m, Written(m) PROVE Written(m)'
  BY <1>1, <1>3 DEF Written
<1>5. Outcome(temp.bytes) /\ Outcome(dest.bytes) => Outcome(temp.bytes)' /\ Outcome(dest.bytes)'
  BY DEF Outcome
<1>6. LegacyPlace'
  BY <1>1, <1>3, <1>5 DEF LegacyPlace, All
<1> QED
  BY <1>1, <1>2, <1>6

\* A step on a chunked file leaves the legacy streams alone.
LEMMA ChunkedLeaves ==
    ASSUME ~Legacy, Next PROVE UNCHANGED ldec
  BY DEF Next, Encrypts, IsHarmed, LosesMagic, Starts, DecryptsBytes, IsRefused, Misreads,
         Streams, StreamEnds, Copies, CopyFails, legacy

-----------------------------------------------------------------------------
(* All formats *)

\* There is no file yet.
LEMMA InitInv == Init => IInv
<1> SUFFICES ASSUME Init PROVE IInv
  OBVIOUS
<1>1. CASE Legacy
  <2>1. fmt \in Formats /\ disc.frames = <<>> /\ disc.tail = "none" /\ dec.pc = "idle"
    BY DEF Init, C!InitChunked
  <2> QED
    BY <1>1, <2>1, LegacyInit DEF IInv
<1>2. CASE ~Legacy
  <2> DEFINE cut == [i \in Nat |-> 0]
  <2>1. cut \in Cuts /\ cut[0] = 0
    BY DEF Cuts
  <2> HIDE DEF cut
  <2>2. size \in Nat
    BY <1>2, SizesAssumption DEF Init
  <2>3. FileInv(cut)
    BY <2>1, <2>2 DEF Init, C!InitChunked, FileInv
  <2>4. Upto(<<>>, 0)
    BY DEF Upto, C!Plaintext
  <2>5. CallInv(cut) /\ PlaceInv(cut)
    BY <2>1, <2>2, <2>4
    DEF Init, C!InitChunked, CallInv, PlaceInv, FileInfo, C!NoFile, Modes, Keys
  <2>6. ldec.pc = "idle" /\ fmt \in Formats
    BY DEF Init, L!InitLegacy
  <2> QED
    BY <1>2, <2>1, <2>3, <2>5, <2>6 DEF IInv
<1> QED
  BY <1>1, <1>2

\* Every step keeps the invariant.
LEMMA StepInv == IInv /\ [Next]_vars => IInv'
<1> SUFFICES ASSUME IInv, [Next]_vars PROVE IInv'
  OBVIOUS
<1>1. CASE UNCHANGED vars
  <2>1. UNCHANGED <<fmt, magic, call, temp, dest, size, enc, disc, harm, dec>>
    BY <1>1 DEF vars, chunked
  <2>2. UNCHANGED <<plain, lenc, ldisc, ldec>>
    BY <1>1 DEF vars, legacy
  <2>3. CASE ~Legacy
    <3>1. ASSUME NEW cut \in Cuts, FileInv(cut), CallInv(cut), PlaceInv(cut)
          PROVE  FileInv(cut)' /\ CallInv(cut)' /\ PlaceInv(cut)'
      BY <2>1, <3>1, FileStays DEF CallInv, PlaceInv, Upto, Holds, C!Out, C!Output
    <3> QED
      BY <2>1, <2>2, <2>3, <3>1 DEF IInv, Legacy
  <2>4. CASE Legacy
    <3>1. LegacyFile /\ LegacyCall /\ LegacyPlace
      BY <2>4 DEF IInv
    <3>2. LegacyFile' /\ LegacyCall' /\ LegacyPlace'
      BY <2>1, <2>2, <2>4, <3>1, LegacyStays
    <3> QED
      BY <2>1, <2>4, <3>2 DEF IInv, Legacy
  <2> QED
    BY <2>3, <2>4
<1>2. CASE Next /\ Legacy
  <2>1. LegacyFile /\ LegacyCall /\ LegacyPlace
    BY <1>2 DEF IInv
  <2>2. LegacyFile' /\ LegacyCall' /\ LegacyPlace' /\ UNCHANGED <<fmt, disc, dec>>
    BY <1>2, <2>1, LegacyKept, LegacyStep
  <2> QED
    BY <1>2, <2>2 DEF IInv, Legacy
<1>3. CASE Next /\ ~Legacy
  <2>1. PICK cut \in Cuts : FileInv(cut) /\ CallInv(cut) /\ PlaceInv(cut)
    BY <1>3 DEF IInv
  <2>2. UNCHANGED fmt /\ \E new \in Cuts : FileInv(new)' /\ CallInv(new)' /\ PlaceInv(new)'
    BY <1>3, <2>1, ChunkedStep DEF IInv
  <2>3. UNCHANGED ldec
    BY <1>3, ChunkedLeaves
  <2> QED
    BY <1>3, <2>2, <2>3 DEF IInv, Legacy
<1> QED
  BY <1>1, <1>2, <1>3

\* The invariant holds in every state, whatever the format.
LEMMA Invariant == Spec => []IInv
  BY InitInv, StepInv, PTL DEF Spec

-----------------------------------------------------------------------------

\* What a state that keeps the invariant says of the beginnings that come out.
LEMMA LegacyPrefix ==
    ASSUME Legacy, LegacyFile, LegacyCall, LegacyPlace
    PROVE  PrefixOnly
<1>1. plain \in Seq(Nat) /\ Original = plain
  BY DEF LegacyFile, Original
<1>2. ASSUME NEW n \in 0..Len(plain) PROVE IsPrefixOfIt(SubSeq(plain, 1, n))
  <2>1. Len(SubSeq(plain, 1, n)) = n /\ n <= Len(plain)
    BY <1>1
  <2> QED
    BY <1>1, <2>1 DEF IsPrefixOfIt
<1>3. IsPrefixOfIt(<<>>) /\ IsPrefixOfIt(plain)
  <2>1. SubSeq(plain, 1, 0) = <<>> /\ SubSeq(plain, 1, Len(plain)) = plain
        /\ 0 \in 0..Len(plain) /\ Len(plain) \in 0..Len(plain)
    BY <1>1
  <2> QED
    BY <1>2, <2>1
<1>4. C!NoFile.bytes = <<>> /\ Empty.bytes = <<>> /\ All.bytes = plain
  BY DEF C!NoFile, Empty, All
<1>5. /\ call \in [pc : {"idle", "stream", "copying", "ok", "failed"}, mode : Modes, key : Keys]
      /\ ldec.pc # "idle" => magic = fmt /\ call.key = ldec.key
      /\ ldec.pc \in {"stream", "ok"} => ldec.key = "right"
      /\ call.pc = "stream" => ldec.pc # "idle"
      /\ ldec.pc \in {"idle", "verify", "stream", "ok", "refused", "stopped"}
  BY DEF LegacyCall
<1>6. CASE call.pc = "idle"
  BY <1>3, <1>4, <1>6 DEF LegacyPlace, PrefixOnly
<1>7. CASE call.pc = "stream"
  <2>1. dest = C!NoFile
    BY <1>7 DEF LegacyPlace
  <2>2. CASE ldec.pc \in {"verify", "refused", "stopped"}
    <3>1. temp = C!NoFile
      BY <1>7, <2>2 DEF LegacyPlace
    <3> QED
      BY <1>3, <1>4, <2>1, <3>1 DEF PrefixOnly
  <2>3. CASE ldec.pc = "stream"
    <3>1. PICK m \in 0..(Count - 1) : Written(m)
      BY <1>7, <2>3 DEF LegacyPlace
    <3>2. Count \in Nat /\ (Count - 1) * Block <= Len(plain) /\ Count - 1 \in Nat
      BY <1>1, PaddedIs
    <3>3. m * Block \in Nat /\ m * Block <= (Count - 1) * Block /\ (Count - 1) * Block \in Nat
      <4>1. m \in Nat /\ m <= Count - 1
        BY <3>2
      <4> QED
        BY <3>2, <4>1, Monotone
    <3>4. PICK x \in 0..Len(plain) : x = m * Block
      BY <1>1, <3>2, <3>3
    <3>5. temp.bytes = SubSeq(Padded, 1, x)
      BY <3>1, <3>4 DEF Written
    <3>6. SubSeq(Padded, 1, x) = SubSeq(plain, 1, x)
      <4>1. PICK z \in Nat : z = 0
        OBVIOUS
      <4>2. x \in Nat /\ z <= x /\ x <= Len(plain) /\ z + 1 = 1
        BY <1>1, <4>1
      <4>3. SubSeq(Padded, z + 1, x) = SubSeq(plain, z + 1, x)
        BY <1>1, <4>2, PlainPart, Zenon
      <4> QED
        BY <4>2, <4>3, Zenon
    <3>7. IsPrefixOfIt(temp.bytes)
      BY <1>2, <3>5, <3>6
    <3>8. call.key # "wrong" /\ magic = fmt
      BY <1>5, <2>3
    <3> QED
      BY <1>3, <1>4, <2>1, <3>7, <3>8 DEF PrefixOnly
  <2>4. CASE ldec.pc = "ok"
    <3>1. temp = All /\ call.key # "wrong" /\ magic = fmt
      BY <1>5, <1>7, <2>4 DEF LegacyPlace
    <3> QED
      BY <1>3, <1>4, <2>1, <3>1 DEF PrefixOnly
  <2> QED
    BY <1>5, <1>7, <2>2, <2>3, <2>4
<1>8. CASE call.pc = "copying"
  <2>1. dest = C!NoFile /\ (magic = fmt => ldec.pc = "ok" /\ temp = All) /\ (magic # fmt => temp = Empty)
    BY <1>8 DEF LegacyPlace
  <2>2. CASE magic = fmt
    BY <1>3, <1>4, <1>5, <2>1, <2>2 DEF PrefixOnly
  <2>3. CASE magic # fmt
    BY <1>3, <1>4, <2>1, <2>3 DEF PrefixOnly
  <2> QED
    BY <2>2, <2>3
<1>9. CASE call.pc = "ok"
  <2>1. CASE magic = fmt
    <3>1. call.key = "right" /\ temp \in {C!NoFile, All} /\ dest \in {C!NoFile, All}
      BY <1>9, <2>1 DEF LegacyPlace
    <3> QED
      BY <1>3, <1>4, <2>1, <3>1 DEF PrefixOnly
  <2>2. CASE magic # fmt
    <3>1. temp \in {C!NoFile, Empty} /\ dest \in {C!NoFile, Empty}
      BY <1>9, <2>2 DEF LegacyPlace
    <3> QED
      BY <1>3, <1>4, <3>1 DEF PrefixOnly
  <2> QED
    BY <2>1, <2>2
<1>10. CASE call.pc = "failed"
  <2>1. Outcome(temp.bytes) /\ Outcome(dest.bytes)
    BY <1>10 DEF LegacyPlace
  <2>2. ASSUME NEW s, Outcome(s) PROVE IsPrefixOfIt(s) /\ (call.key = "wrong" \/ magic # fmt => s = <<>>)
    BY <1>2, <2>2 DEF Outcome
  <2> QED
    BY <2>1, <2>2 DEF PrefixOnly
<1> QED
  BY <1>5, <1>6, <1>7, <1>8, <1>9, <1>10

\* What it says of a call that succeeds.
LEMMA LegacyWhole ==
    ASSUME Legacy, dec.pc = "idle", LegacyFile, LegacyCall, LegacyPlace
    PROVE  RoundTrip /\ WholeOrRefused
<1>1. All.bytes = plain /\ Original = plain
  BY DEF All, Original
<1>2. ASSUME call.pc = "ok", magic = fmt
      PROVE  lenc.pc = "done" /\ call.key = "right" /\ Got = plain
  <2>1. /\ lenc.pc = "done" /\ call.key = "right"
        /\ IF call.mode = "temp" THEN temp = All ELSE dest = All
    BY <1>2 DEF LegacyPlace
  <2> QED
    BY <1>1, <2>1 DEF Got
<1>3. ASSUME magic = fmt, ldec.pc = "refused" PROVE lenc.pc # "done" \/ call.key # "right"
  BY <1>3 DEF LegacyCall
<1>4. RoundTrip
  BY <1>1, <1>2 DEF RoundTrip, Whole
<1> QED
  BY <1>2, <1>3, <1>4 DEF WholeOrRefused

\* What it says of the temporary file.
LEMMA LegacyTemp ==
    ASSUME Legacy, disc.frames = <<>>, disc.tail = "none", LegacyPlace
    PROVE  DamageRefused
<1>1. C!NoFile.there = FALSE /\ Empty.there = TRUE /\ All.there = TRUE
  BY DEF C!NoFile, Empty, All
<1>2. ASSUME call.mode = "temp", call.pc \in {"ok", "failed"} PROVE temp.there <=> call.pc = "ok"
  <2>1. call.pc = "ok" => temp \in {All, Empty}
    BY <1>2 DEF LegacyPlace
  <2>2. call.pc = "failed" => temp = C!NoFile
    BY <1>2 DEF LegacyPlace
  <2> QED
    BY <1>1, <1>2, <2>1, <2>2
<1> QED
  BY <1>2 DEF DamageRefused

\* What it says of the two ways to decrypt.
LEMMA LegacyAgrees ==
    ASSUME IInv PROVE StreamMatchesMemory
<1> SUFFICES ASSUME ldec.pc \in {"ok", "refused"}, call.pc = "stream", L!Verifies(ldec.key)
             PROVE  [ok |-> ldec.pc = "ok", bytes |-> temp.bytes] = L!InMemory(ldisc.cipher)
  BY DEF StreamMatchesMemory
<1>1. LegacyFile /\ LegacyCall /\ LegacyPlace
  BY DEF IInv
<1>2. lenc.pc \in {"done", "failed", "cut"} /\ ldec.key \in Keys
  BY <1>1 DEF LegacyCall
<1>3. lenc.pc = "done" /\ ldec.key = "right"
  BY <1>1, <1>2, VerifiesIs
<1>4. ldec.pc = "ok" /\ ldisc.cipher = Full /\ plain \in Seq(Nat)
  BY <1>1, <1>3 DEF LegacyCall, LegacyFile
<1>5. temp.bytes = plain
  BY <1>1, <1>4 DEF LegacyPlace, All
<1>6. L!InMemory(ldisc.cipher) = [ok |-> TRUE, bytes |-> plain]
  BY <1>4, MemoryOpens
<1> QED
  BY <1>4, <1>5, <1>6

\* What a state that keeps the invariant says of the plaintext.
LEMMA PrefixHolds == ASSUME IInv, ~Legacy PROVE PrefixOnly
<1> PICK cut \in Cuts : FileInv(cut) /\ CallInv(cut) /\ PlaceInv(cut)
  BY DEF IInv
<1>1. /\ cut[dec.index] \in Nat /\ cut[dec.index] <= size /\ size \in Nat /\ cut[0] = 0
      /\ Upto(temp.bytes, cut[dec.index]) /\ Upto(dest.bytes, cut[dec.index])
  BY DEF FileInv, CallInv, Cuts
<1>2. ASSUME NEW s, Upto(s, cut[dec.index]) PROVE IsPrefixOfIt(s)
  <2>1. PICK m \in 0..cut[dec.index] : s = C!Plaintext(m)
    BY <1>2 DEF Upto
  <2>2. m \in 0..size /\ size \in Nat
    BY <1>1, <2>1
  <2>3. Len(s) = m /\ SubSeq(C!Plaintext(size), 1, m) = s
    BY <2>1, <2>2, PlainPrefix
  <2>4. Original = C!Plaintext(size)
    BY DEF Original
  <2>5. Len(s) <= Len(Original)
    BY <2>2, <2>3, <2>4, PlainPrefix
  <2>6. s = SubSeq(Original, 1, Len(s))
    BY <2>3, <2>4, Zenon
  <2> QED
    BY <2>5, <2>6 DEF IsPrefixOfIt
<1>3. call.key = "wrong" \/ magic # fmt => dec.index = 0
  BY DEF CallInv
<1>4. ASSUME NEW s, Upto(s, 0) PROVE s = <<>>
  BY <1>4 DEF Upto, C!Plaintext
<1> QED
  BY <1>1, <1>2, <1>3, <1>4 DEF PrefixOnly

\* What it says of a file that nothing happened to.
LEMMA WholeHolds == ASSUME IInv, ~Legacy PROVE RoundTrip
<1> PICK cut \in Cuts : FileInv(cut) /\ CallInv(cut) /\ PlaceInv(cut)
  BY DEF IInv
<1>1. ASSUME Whole PROVE magic = fmt /\ enc.pc = "done" /\ harm = 0
  BY <1>1 DEF Whole
<1>2. ASSUME Whole, call.pc = "ok" PROVE Got = Original
  <2>1. dec.index = enc.index /\ cut[enc.index] = size
    BY <1>1, <1>2 DEF FileInv, CallInv, PlaceInv
  <2> QED
    BY <1>2, <2>1 DEF PlaceInv, Holds, Got, Original
<1>3. ASSUME Whole, dec.key = "right", dec.index < Len(disc.frames)
      PROVE  C!Opens(disc.frames[dec.index + 1], dec.key, dec.index)
  <2> PICK i, f : i = dec.index + 1 /\ f = disc.frames[i]
    OBVIOUS
  <2>1. i \in 1..Len(disc.frames) /\ dec.index \in Nat /\ i - 1 = dec.index
    BY <1>3 DEF FileInv, CallInv
  <2>2. IsChunk(f, cut) /\ f.nonce = dec.index /\ f.whole
    BY <1>1, <1>3, <2>1 DEF FileInv
  <2> QED
    BY <1>3, <2>2 DEF C!Opens, C!Nonce, IsChunk
<1> QED
  BY <1>2, <1>3 DEF RoundTrip

\* What it says of a file that something happened to.
LEMMA DamageHolds == ASSUME IInv, ~Legacy PROVE DamageRefused
<1> PICK cut \in Cuts : FileInv(cut) /\ CallInv(cut) /\ PlaceInv(cut)
  BY DEF IInv
<1>1. call.pc = "ok" /\ magic = fmt =>
        disc.tail # "body" /\ \A i \in 1..Len(disc.frames) : disc.frames[i].whole
  BY DEF CallInv, PlaceInv
<1>2. call.mode = "temp" /\ call.pc \in {"ok", "failed"} => (temp.there <=> call.pc = "ok")
  BY DEF PlaceInv, Holds, C!NoFile
<1> QED
  BY <1>1, <1>2 DEF DamageRefused

\* make_aead_nonce never seals two chunks of a file alike: the nonce carries the index
\* whole, also where the associated data has wrapped.
THEOREM NoncesFresh == Spec => []NonceFresh
<1>1. IInv => NonceFresh
  <2> SUFFICES ASSUME IInv PROVE NonceFresh
    OBVIOUS
  <2>1. CASE Legacy
    BY <2>1 DEF IInv, NonceFresh
  <2>2. CASE ~Legacy
    <3> PICK cut \in Cuts : FileInv(cut)
      BY <2>2 DEF IInv
    <3> QED
      BY DEF FileInv, NonceFresh
  <2> QED
    BY <2>1, <2>2
<1> QED
  BY <1>1, Invariant, PTL

\* Whatever happens to a file, in any format, and wherever its decryption stops, a beginning
\* of the plaintext comes out, and nothing with a wrong key or as another format.
THEOREM OnlyBeginnings == Spec => []PrefixOnly
<1>1. IInv => PrefixOnly
  BY PrefixHolds, LegacyPrefix DEF IInv
<1> QED
  BY <1>1, Invariant, PTL

\* A file that was encrypted to the end and lay undisturbed decrypts to itself, in every
\* format and by every kind of call, and each of its chunks opens.
THEOREM WholeComesBack == Spec => []RoundTrip
<1>1. IInv => RoundTrip
  BY WholeHolds, LegacyWhole DEF IInv
<1> QED
  BY <1>1, Invariant, PTL

\* A garbled chunk, or one cut in the middle, is never decrypted with success, and the
\* temporary file is there exactly when the call returns it.
THEOREM DamageIsRefused == Spec => []DamageRefused
<1>1. IInv => DamageRefused
  BY DamageHolds, LegacyTemp DEF IInv
<1> QED
  BY <1>1, Invariant, PTL

\* A DBENC001 file comes out whole or not at all, whatever sizes its bytes were read in: the
\* block that decrypt_legacy_ciphertext_to_writer keeps back is always the padded one, and
\* the HMAC refuses a stopped encryption, a cut file and a wrong password, and nothing else.
THEOREM WholeOrNothing == Spec => []WholeOrRefused
<1>1. IInv => WholeOrRefused
  BY LegacyWhole DEF IInv, WholeOrRefused
<1> QED
  BY <1>1, Invariant, PTL

\* Where the HMAC verifies, decrypt_legacy_file_to_temp and decrypt_legacy_bytes agree on the
\* plaintext and on whether there is one.
THEOREM StreamAgrees == Spec => []StreamMatchesMemory
<1>1. IInv => StreamMatchesMemory
  BY LegacyAgrees
<1> QED
  BY <1>1, Invariant, PTL
=============================================================================
