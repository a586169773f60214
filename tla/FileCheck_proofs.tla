-------------------------- MODULE FileCheck_proofs --------------------------
(***************************************************************************)
(* The digests of an unencrypted file and of an ISO image are of the whole *)
(* of it, the progress told is the one planned, and the lines of manifests *)
(* are read back, for every size of the files, the sectors, the buffers    *)
(* and the area, and every set of names.                                   *)
(***************************************************************************)
EXTENDS FileCheck, SequenceTheorems, TLAPS

(***************************************************************************)
(* The inductive invariant.  The argument: each reader has hashed exactly  *)
(* the bytes before its position, the uncached reader starts from nothing  *)
(* and hands nothing on, and the area lies within the sector of the volume *)
(* descriptor, which a driver always reads; so the SCSI commands, whose    *)
(* bytes are hashed as they are, begin behind the area.                    *)
(***************************************************************************)

\* The SHA-256 of the file: what was fed, and what the callback was told.
ShaOK ==
    /\ size \in Nat /\ pos \in 0..size /\ counted \in Nat /\ wasted \in Nat
    /\ fed = Sha!Bytes(0, pos)
    /\ counted = wasted + pos
    /\ reader \in {"idle", "uncached"} => wasted = 0
    /\ reader = "idle" => pos = 0
    /\ reader = "uncached" => pos <= Sha!Aligned
    /\ reader = "ok" => pos = size

\* The disk: its driver reads at least the volume descriptor.
DiskOK ==
    /\ raw \in BOOLEAN /\ total \in Nat /\ readable \in 0..total
    /\ IF raw THEN PvdOffset + Sector <= readable ELSE readable = total

\* The area was not read yet, or it was read as a whole.
AreaOK ==
    /\ pc = "area" => area = <<>> /\ at = Iso!Begin /\ offset = 0
    /\ pc \in {"loop", "scsi", "ok"} => area = Iso!Bytes(AppOffset, Iso!AppEnd)

\* The digest of the image: what was hashed and told is what lies before the
\* position, and the commands continue where the driver ends.
HashOK ==
    /\ pc \in {"area", "loop", "scsi", "ok", "failed"}
    /\ offset \in 0..readable
    /\ pc \in {"area", "loop"} => tail = <<>>
    /\ pc = "scsi" => /\ raw /\ offset = readable
                      /\ Len(tail) \in 0..(total - offset)
                      /\ tail = Iso!Bytes(offset, offset + Len(tail))
    /\ IF pc = "ok" THEN hashed = Iso!Normalized(total) /\ told = total
       ELSE hashed = Iso!Normalized(offset) /\ told = offset

\* The job: which of its parts have been at work.
JobOK ==
    /\ raw => image /\ counted = 0 /\ wasted = 0
    /\ ~raw => total = size
    /\ ~image => told = 0
    /\ stage = "sha" => ~raw /\ pc = "area"
    /\ stage = "iso" => image /\ (~raw => reader = "ok")
    /\ stage = "ok" => (image => pc = "ok") /\ (~raw => reader = "ok")

\* A line that is loaded was parsed as it was written.
LineOK ==
    stage = "loaded" =>
        /\ line \in [form : Forms, name : Names]
        /\ parsed = L!Parse(Written(line))

IInv == ShaOK /\ DiskOK /\ AreaOK /\ HashOK /\ JobOK /\ LineOK

----------------------------------------------------------------------------
(* Numbers, sequences and sectors *)

\* The bytes of a file between two positions: a sequence of their numbers.
LEMMA ShaBytes ==
    ASSUME NEW a \in Nat, NEW b \in Nat, a <= b
    PROVE  /\ Sha!Bytes(a, b) \in Seq(Int) /\ Len(Sha!Bytes(a, b)) = b - a
           /\ \A i \in 1..(b - a) : Sha!Bytes(a, b)[i] = a + i
BY DEF Sha!Bytes

\* Pieces that follow on each other are joined entry by entry.
LEMMA JoinIs ==
    ASSUME NEW s \in Seq(Int), NEW t \in Seq(Int), NEW u \in Seq(Int),
           Len(u) = Len(s) + Len(t),
           \A i \in 1..Len(s) : u[i] = s[i],
           \A i \in 1..Len(t) : u[Len(s) + i] = t[i]
    PROVE  s \o t = u
<1>1. s \o t \in Seq(Int)
  BY ConcatProperties, Zenon
<1>2. Len(s \o t) = Len(s) + Len(t)
  BY ConcatProperties, Zenon
<1>3. ASSUME NEW i \in 1..Len(s \o t)  PROVE (s \o t)[i] = u[i]
  <2>1. i \in 1..(Len(s) + Len(t))
    BY <1>2
  <2>2. (s \o t)[i] = IF i <= Len(s) THEN s[i] ELSE t[i - Len(s)]
    BY <2>1, ConcatProperties, Zenon
  <2>3. CASE i <= Len(s)
    BY <2>1, <2>2, <2>3
  <2>4. CASE ~(i <= Len(s))
    <3>1. Len(s) \in Nat /\ Len(t) \in Nat
      BY LenProperties
    <3>2. i - Len(s) \in 1..Len(t) /\ i = Len(s) + (i - Len(s))
      BY <2>1, <2>4, <3>1
    <3>3. u[i] = t[i - Len(s)]
      BY <3>2
    <3>. QED  BY <3>3, <2>2, <2>4
  <2>. QED  BY <2>3, <2>4
<1>. QED  BY <1>1, <1>2, <1>3, SeqEqual

\* Bytes that follow on each other are hashed as if they were read at once.
LEMMA ShaJoin ==
    ASSUME NEW a \in Nat, NEW b \in Nat, NEW c \in Nat, a <= b, b <= c
    PROVE  Sha!Bytes(a, b) \o Sha!Bytes(b, c) = Sha!Bytes(a, c)
<1>1. /\ Sha!Bytes(a, b) \in Seq(Int) /\ Len(Sha!Bytes(a, b)) = b - a
      /\ \A i \in 1..(b - a) : Sha!Bytes(a, b)[i] = a + i
  BY ShaBytes
<1>2. /\ Sha!Bytes(b, c) \in Seq(Int) /\ Len(Sha!Bytes(b, c)) = c - b
      /\ \A i \in 1..(c - b) : Sha!Bytes(b, c)[i] = b + i
  BY ShaBytes
<1>3. /\ Sha!Bytes(a, c) \in Seq(Int) /\ Len(Sha!Bytes(a, c)) = c - a
      /\ \A i \in 1..(c - a) : Sha!Bytes(a, c)[i] = a + i
  BY ShaBytes, a <= c
<1>4. c - a = (b - a) + (c - b)
  OBVIOUS
<1>5. \A i \in 1..Len(Sha!Bytes(a, b)) : Sha!Bytes(a, c)[i] = Sha!Bytes(a, b)[i]
  BY <1>1, <1>3
<1>6. ASSUME NEW i \in 1..Len(Sha!Bytes(b, c))
      PROVE  Sha!Bytes(a, c)[Len(Sha!Bytes(a, b)) + i] = Sha!Bytes(b, c)[i]
  <2>1. (b - a) + i \in 1..(c - a) /\ i \in 1..(c - b)
    BY <1>2
  <2>2. Sha!Bytes(a, c)[(b - a) + i] = a + ((b - a) + i) /\ Sha!Bytes(b, c)[i] = b + i
    BY <2>1, <1>2, <1>3
  <2>. QED  BY <2>1, <2>2, <1>1
<1>7. Len(Sha!Bytes(a, c)) = Len(Sha!Bytes(a, b)) + Len(Sha!Bytes(b, c))
  BY <1>1, <1>2, <1>3, <1>4
<1>. QED  BY <1>1, <1>2, <1>3, <1>5, <1>6, <1>7, JoinIs, Zenon

\* The aligned part of a file is a part of it.
LEMMA AlignedPart == ASSUME size \in Nat PROVE Sha!Aligned \in 0..size
<1>. Alignment \in Nat \ {0}
  BY SizesAssumption
<1>1. size % Alignment \in Nat /\ size = Alignment * (size \div Alignment) + (size % Alignment)
  OBVIOUS
<1>2. Alignment * (size \div Alignment) \in Nat
  OBVIOUS
<1>. QED  BY <1>1, <1>2 DEF Sha!Aligned

\* The application-use area lies within the sector of the volume descriptor.
LEMMA AreaInSector ==
    /\ Iso!Begin = PvdOffset /\ Iso!End = PvdOffset + Sector
    /\ Iso!Begin \in Nat /\ Sector \in Nat \ {0} /\ AppSize \in Nat \ {0}
    /\ AppOffset \in Nat /\ Iso!AppEnd \in Nat /\ Iso!AppEnd = AppOffset + AppSize
    /\ PvdOffset <= AppOffset /\ Iso!AppEnd <= PvdOffset + Sector
<1>1. /\ Sector \in Nat \ {0} /\ AppSize \in Nat \ {0} /\ PvdOffset \in Nat /\ AppOffset \in Nat
      /\ PvdOffset % Sector = 0
      /\ PvdOffset <= AppOffset /\ AppOffset + AppSize <= PvdOffset + Sector
  BY SizesAssumption
<1>2. PICK q \in Nat : PvdOffset = q * Sector
  <2>1. PvdOffset = Sector * (PvdOffset \div Sector) + (PvdOffset % Sector) /\ PvdOffset \div Sector \in Nat
    BY <1>1
  <2>. QED  BY <2>1, <1>1
<1>3. ASSUME NEW a \in Nat, PvdOffset <= a, a < PvdOffset + Sector  PROVE a \div Sector = q
  <2>1. PICK r \in Nat : a = q * Sector + r /\ r < Sector
    <3>1. a - PvdOffset \in Nat /\ a - PvdOffset < Sector
      BY <1>1, <1>3
    <3>. QED  BY <3>1, <1>1, <1>2
  <2>2. (q * Sector + r) \div Sector = q
    BY <2>1, <1>1
  <2>. QED  BY <2>1, <2>2
<1>4. AppOffset \div Sector = q
  BY <1>1, <1>3
<1>5. (Iso!AppEnd - 1) \div Sector = q
  <2>1. /\ AppOffset + AppSize - 1 \in Nat /\ PvdOffset <= AppOffset + AppSize - 1
        /\ AppOffset + AppSize - 1 < PvdOffset + Sector
    BY <1>1
  <2>2. (AppOffset + AppSize - 1) \div Sector = q
    BY <2>1, <1>3
  <2>3. Iso!AppEnd = AppOffset + AppSize
    BY DEF Iso!AppEnd
  <2>. QED  BY <1>1, <2>2, <2>3
<1>6. Iso!Begin = q * Sector /\ Iso!End = (q + 1) * Sector
  BY <1>4, <1>5 DEF Iso!Begin, Iso!End, Iso!Covering
<1>7. (q + 1) * Sector = q * Sector + Sector
  BY <1>1
<1>. QED
  BY <1>1, <1>2, <1>6, <1>7 DEF Iso!AppEnd

\* Bytes of an image: a sequence of their numbers.
LEMMA IsoBytes ==
    ASSUME NEW a \in Nat, NEW b \in Nat, a <= b
    PROVE  /\ Iso!Bytes(a, b) \in Seq(Int) /\ Len(Iso!Bytes(a, b)) = b - a
           /\ \A i \in 1..(b - a) : Iso!Bytes(a, b)[i] = a + i - 1
BY DEF Iso!Bytes

\* The reference digest: a sequence with the area blanked.
LEMMA NormalizedBytes ==
    ASSUME NEW n \in Nat
    PROVE  /\ Iso!Normalized(n) \in Seq(Int) /\ Len(Iso!Normalized(n)) = n
           /\ \A i \in 1..n : Iso!Normalized(n)[i] =
                 IF i - 1 >= AppOffset /\ i - 1 < Iso!AppEnd THEN -1 ELSE i - 1
<1>1. AppOffset \in Int /\ Iso!AppEnd \in Int
  BY AreaInSector
<1>. QED
  BY <1>1 DEF Iso!Normalized, Iso!Fill

\* A piece as it is hashed: the same bytes blanked as in the reference.
LEMMA PieceBytes ==
    ASSUME NEW a \in Nat, NEW n \in Nat
    PROVE  /\ Iso!Piece(a, a + n) \in Seq(Int) /\ Len(Iso!Piece(a, a + n)) = n
           /\ \A i \in 1..n : Iso!Piece(a, a + n)[i] =
                 IF a + i - 1 >= AppOffset /\ a + i - 1 < Iso!AppEnd THEN -1 ELSE a + i - 1
<1>1. AppOffset \in Int /\ Iso!AppEnd \in Int
  BY AreaInSector
<1>2. ASSUME NEW i \in 1..n
      PROVE  (a + i - 1 \in Iso!Overlap(a, a + n))
                 <=> (a + i - 1 >= AppOffset /\ a + i - 1 < Iso!AppEnd)
  BY <1>1 DEF Iso!Overlap, Iso!Most, Iso!Least
<1>3. (a + n) - a = n
  OBVIOUS
<1>4. Iso!Piece(a, a + n) = [i \in 1..n |-> IF a + i - 1 \in Iso!Overlap(a, a + n) THEN -1 ELSE a + i - 1]
  BY <1>3 DEF Iso!Piece, Iso!Fill
<1>. QED
  BY <1>2, <1>4

\* Hashing the next piece continues the reference digest.
LEMMA PieceJoins ==
    ASSUME NEW a \in Nat, NEW n \in Nat
    PROVE  Iso!Normalized(a) \o Iso!Piece(a, a + n) = Iso!Normalized(a + n)
<1>1. /\ Iso!Normalized(a) \in Seq(Int) /\ Len(Iso!Normalized(a)) = a
      /\ \A i \in 1..a : Iso!Normalized(a)[i] =
            IF i - 1 >= AppOffset /\ i - 1 < Iso!AppEnd THEN -1 ELSE i - 1
  BY NormalizedBytes
<1>2. /\ Iso!Normalized(a + n) \in Seq(Int) /\ Len(Iso!Normalized(a + n)) = a + n
      /\ \A i \in 1..(a + n) : Iso!Normalized(a + n)[i] =
            IF i - 1 >= AppOffset /\ i - 1 < Iso!AppEnd THEN -1 ELSE i - 1
  BY NormalizedBytes, a + n \in Nat
<1>3. /\ Iso!Piece(a, a + n) \in Seq(Int) /\ Len(Iso!Piece(a, a + n)) = n
      /\ \A i \in 1..n : Iso!Piece(a, a + n)[i] =
            IF a + i - 1 >= AppOffset /\ a + i - 1 < Iso!AppEnd THEN -1 ELSE a + i - 1
  BY PieceBytes
<1>4. ASSUME NEW i \in 1..Len(Iso!Normalized(a))
      PROVE  Iso!Normalized(a + n)[i] = Iso!Normalized(a)[i]
  <2>1. i \in 1..a /\ i \in 1..(a + n)
    BY <1>1
  <2>. QED  BY <2>1, <1>1, <1>2
<1>5. ASSUME NEW i \in 1..Len(Iso!Piece(a, a + n))
      PROVE  Iso!Normalized(a + n)[Len(Iso!Normalized(a)) + i] = Iso!Piece(a, a + n)[i]
  <2>1. i \in 1..n /\ a + i \in 1..(a + n)
    BY <1>3
  <2>. QED  BY <2>1, <1>1, <1>2, <1>3
<1>6. Len(Iso!Normalized(a + n)) = Len(Iso!Normalized(a)) + Len(Iso!Piece(a, a + n))
  BY <1>1, <1>2, <1>3
<1>. QED  BY <1>1, <1>2, <1>3, <1>4, <1>5, <1>6, JoinIs, Zenon

\* Behind the area the bytes are hashed as they are.
LEMMA HiddenJoins ==
    ASSUME NEW a \in Nat, NEW b \in Nat, a <= b, Iso!AppEnd <= a
    PROVE  Iso!Normalized(a) \o Iso!Bytes(a, b) = Iso!Normalized(b)
<1>0. Iso!AppEnd \in Int /\ AppOffset \in Int
  BY AreaInSector
<1>1. /\ Iso!Normalized(a) \in Seq(Int) /\ Len(Iso!Normalized(a)) = a
      /\ \A i \in 1..a : Iso!Normalized(a)[i] =
            IF i - 1 >= AppOffset /\ i - 1 < Iso!AppEnd THEN -1 ELSE i - 1
  BY NormalizedBytes
<1>2. /\ Iso!Normalized(b) \in Seq(Int) /\ Len(Iso!Normalized(b)) = b
      /\ \A i \in 1..b : Iso!Normalized(b)[i] =
            IF i - 1 >= AppOffset /\ i - 1 < Iso!AppEnd THEN -1 ELSE i - 1
  BY NormalizedBytes
<1>3. /\ Iso!Bytes(a, b) \in Seq(Int) /\ Len(Iso!Bytes(a, b)) = b - a
      /\ \A i \in 1..(b - a) : Iso!Bytes(a, b)[i] = a + i - 1
  BY IsoBytes
<1>4. \A i \in 1..Len(Iso!Normalized(a)) : Iso!Normalized(b)[i] = Iso!Normalized(a)[i]
  BY <1>1, <1>2
<1>5. ASSUME NEW i \in 1..Len(Iso!Bytes(a, b))
      PROVE  Iso!Normalized(b)[Len(Iso!Normalized(a)) + i] = Iso!Bytes(a, b)[i]
  <2>1. i \in 1..(b - a) /\ a + i \in 1..b
    BY <1>3
  <2>. QED  BY <2>1, <1>0, <1>1, <1>2, <1>3
<1>6. Len(Iso!Normalized(b)) = Len(Iso!Normalized(a)) + Len(Iso!Bytes(a, b))
  BY <1>1, <1>2, <1>3
<1>. QED  BY <1>1, <1>2, <1>3, <1>4, <1>5, <1>6, JoinIs, Zenon

\* What one command reads follows on what was read.
LEMMA IsoJoin ==
    ASSUME NEW a \in Nat, NEW b \in Nat, NEW c \in Nat, a <= b, b <= c
    PROVE  Iso!Bytes(a, b) \o Iso!Bytes(b, c) = Iso!Bytes(a, c)
<1>1. /\ Iso!Bytes(a, b) \in Seq(Int) /\ Len(Iso!Bytes(a, b)) = b - a
      /\ \A i \in 1..(b - a) : Iso!Bytes(a, b)[i] = a + i - 1
  BY IsoBytes
<1>2. /\ Iso!Bytes(b, c) \in Seq(Int) /\ Len(Iso!Bytes(b, c)) = c - b
      /\ \A i \in 1..(c - b) : Iso!Bytes(b, c)[i] = b + i - 1
  BY IsoBytes
<1>3. /\ Iso!Bytes(a, c) \in Seq(Int) /\ Len(Iso!Bytes(a, c)) = c - a
      /\ \A i \in 1..(c - a) : Iso!Bytes(a, c)[i] = a + i - 1
  BY IsoBytes, a <= c
<1>4. \A i \in 1..Len(Iso!Bytes(a, b)) : Iso!Bytes(a, c)[i] = Iso!Bytes(a, b)[i]
  BY <1>1, <1>3
<1>5. ASSUME NEW i \in 1..Len(Iso!Bytes(b, c))
      PROVE  Iso!Bytes(a, c)[Len(Iso!Bytes(a, b)) + i] = Iso!Bytes(b, c)[i]
  <2>1. (b - a) + i \in 1..(c - a) /\ i \in 1..(c - b)
    BY <1>2
  <2>2. Iso!Bytes(a, c)[(b - a) + i] = a + ((b - a) + i) - 1 /\ Iso!Bytes(b, c)[i] = b + i - 1
    BY <2>1, <1>2, <1>3
  <2>. QED  BY <2>1, <2>2, <1>1
<1>6. Len(Iso!Bytes(a, c)) = Len(Iso!Bytes(a, b)) + Len(Iso!Bytes(b, c))
  BY <1>1, <1>2, <1>3
<1>. QED  BY <1>1, <1>2, <1>3, <1>4, <1>5, <1>6, JoinIs, Zenon

----------------------------------------------------------------------------
(* The readers of a file *)

\* A reader that hashes up to a position has hashed all before it.
LEMMA FeedsOK ==
    ASSUME ShaOK, NEW to \in pos..size, Sha!Feeds(to)
    PROVE  /\ pos' = to /\ fed' = Sha!Bytes(0, to)
           /\ counted' = wasted + to /\ wasted' = wasted
<1>1. /\ size \in Nat /\ pos \in 0..size /\ wasted \in Nat
      /\ fed = Sha!Bytes(0, pos) /\ counted = wasted + pos
  BY DEF ShaOK
<1>2. /\ pos' = to /\ fed' = fed \o Sha!Bytes(pos, to)
      /\ counted' = counted + (to - pos) /\ wasted' = wasted
  BY DEF Sha!Feeds
<1>3. /\ pos \in Nat /\ to \in Nat /\ pos <= to
  BY <1>1
<1>4. Sha!Bytes(0, pos) \o Sha!Bytes(pos, to) = Sha!Bytes(0, to)
  BY <1>3, ShaJoin, 0 \in Nat, 0 <= pos
<1>. QED
  BY <1>1, <1>2, <1>3, <1>4

\* Every step of the readers keeps what they have hashed and told.
LEMMA ShaStep == ASSUME ShaOK, Sha!Steps, size' = size PROVE ShaOK'
<1>1. /\ size \in Nat /\ pos \in 0..size /\ counted \in Nat /\ wasted \in Nat
      /\ fed = Sha!Bytes(0, pos) /\ counted = wasted + pos
  BY DEF ShaOK
<1>2. Sha!Aligned \in 0..size /\ Sha!Aligned' = Sha!Aligned
  BY <1>1, AlignedPart DEF Sha!Aligned
<1>3. CASE Sha!Opens
  <2>1. reader = "idle" /\ reader' \in {"uncached", "buffered"} /\ UNCHANGED <<pos, fed, counted, wasted>>
    BY <1>3 DEF Sha!Opens
  <2>2. pos = 0 /\ wasted = 0
    BY <2>1 DEF ShaOK
  <2>. QED  BY <2>1, <2>2, <1>1, <1>2 DEF ShaOK
<1>4. CASE Sha!UncachedReads
  <2>1. PICK to \in (pos + 1)..Sha!Aligned : Sha!Feeds(to)
    BY <1>4 DEF Sha!UncachedReads
  <2>2. to \in pos..size /\ to <= Sha!Aligned
    BY <1>1, <1>2
  <2>3. reader = "uncached" /\ reader' = reader /\ wasted = 0
    BY <1>4 DEF Sha!UncachedReads, ShaOK
  <2>. QED  BY <2>1, <2>2, <2>3, <1>1, <1>2, FeedsOK DEF ShaOK
<1>5. CASE Sha!UncachedEnds
  <2>1. Sha!Feeds(size) /\ reader' = "ok"
    BY <1>5 DEF Sha!UncachedEnds
  <2>2. size \in pos..size
    BY <1>1
  <2>. QED  BY <2>1, <2>2, <1>1, FeedsOK DEF ShaOK
<1>6. CASE Sha!BufferedReads
  <2>1. PICK to \in (pos + 1)..size : Sha!Feeds(to)
    BY <1>6 DEF Sha!BufferedReads
  <2>2. to \in pos..size
    BY <1>1
  <2>3. reader = "buffered" /\ reader' = reader
    BY <1>6 DEF Sha!BufferedReads
  <2>. QED  BY <2>1, <2>2, <2>3, <1>1, FeedsOK DEF ShaOK
<1>7. CASE Sha!BufferedEnds
  BY <1>7, <1>1 DEF Sha!BufferedEnds, ShaOK
<1>8. CASE Sha!UncachedGivesUp
  <2>1. reader' = "buffered" /\ pos' = 0 /\ fed' = <<>> /\ wasted' = counted /\ counted' = counted
    BY <1>8 DEF Sha!UncachedGivesUp
  <2>2. Sha!Bytes(0, 0) = <<>>
    BY DEF Sha!Bytes
  <2>. QED  BY <2>1, <2>2, <1>1 DEF ShaOK
<1>9. CASE Sha!BufferedStops
  <2>1. reader' \in {"aborted", "failed"} /\ UNCHANGED <<pos, fed, counted, wasted>>
    BY <1>9 DEF Sha!BufferedStops
  <2>. QED  BY <2>1, <1>1 DEF ShaOK
<1>. QED
  BY <1>3, <1>4, <1>5, <1>6, <1>7, <1>8, <1>9 DEF Sha!Steps, Sha!Reads

----------------------------------------------------------------------------
(* The digest of an image *)

\* All that is known of the image.
IsoOK == DiskOK /\ AreaOK /\ HashOK

\* The numbers that the steps reckon with.
LEMMA IsoNumbers ==
    ASSUME IsoOK
    PROVE  /\ raw \in BOOLEAN /\ total \in Nat /\ readable \in Nat /\ readable <= total
           /\ raw => Iso!AppEnd <= readable
           /\ ~raw => readable = total
           /\ offset \in Nat /\ offset <= readable
           /\ Sector \in Nat \ {0} /\ ChunkSize \in Nat \ {0} /\ PerCommand \in Nat \ {0}
<1>1. Iso!AppEnd \in Nat /\ Iso!AppEnd <= PvdOffset + Sector /\ PvdOffset + Sector \in Nat
  BY AreaInSector, SizesAssumption
<1>2. Sector \in Nat \ {0} /\ ChunkSize \in Nat \ {0} /\ PerCommand \in Nat \ {0}
  BY SizesAssumption
<1>. QED
  BY <1>1, <1>2 DEF IsoOK, DiskOK, HashOK

\* The area of a file is read at once.
LEMMA ReadsAreaOK == ASSUME IsoOK, Iso!ReadsArea PROVE IsoOK'
<1>1. /\ pc = "area" /\ pc' = "loop" /\ area' = Iso!Bytes(AppOffset, Iso!AppEnd)
      /\ UNCHANGED <<at, offset, tail, hashed, told, raw, total, readable>>
  BY DEF Iso!ReadsArea, Iso!Image
<1>2. DiskOK'
  BY <1>1 DEF IsoOK, DiskOK
<1>3. AreaOK'
  BY <1>1 DEF AreaOK
<1>4. HashOK'
  BY <1>1 DEF IsoOK, HashOK
<1>. QED  BY <1>2, <1>3, <1>4 DEF IsoOK

\* The area of a device is cut out of the one sector that it lies in.
LEMMA ReadsSectorOK == ASSUME IsoOK, Iso!ReadsSector PROVE IsoOK'
<1>. DEFINE s == Iso!Bytes(PvdOffset, PvdOffset + Sector)
            got == area \o Iso!Bytes(at, at + Sector)
            local == AppOffset - Iso!Begin
<1>1. /\ pc = "area" /\ at' = at + Sector
      /\ IF Len(got) = Iso!End - Iso!Begin
         THEN area' = SubSeq(got, local + 1, local + AppSize) /\ pc' = "loop"
         ELSE area' = got /\ UNCHANGED pc
      /\ UNCHANGED <<offset, tail, hashed, told, raw, total, readable>>
  BY DEF Iso!ReadsSector, Iso!Image
<1>2. /\ Iso!Begin = PvdOffset /\ Iso!End = PvdOffset + Sector
      /\ PvdOffset \in Nat /\ Sector \in Nat \ {0} /\ AppSize \in Nat \ {0} /\ AppOffset \in Nat
      /\ Iso!AppEnd = AppOffset + AppSize
      /\ PvdOffset <= AppOffset /\ AppOffset + AppSize <= PvdOffset + Sector
  BY AreaInSector, SizesAssumption
<1>3. s \in Seq(Int) /\ Len(s) = Sector /\ \A i \in 1..Sector : s[i] = PvdOffset + i - 1
  <2>1. PvdOffset + Sector \in Nat /\ PvdOffset <= PvdOffset + Sector
        /\ (PvdOffset + Sector) - PvdOffset = Sector
    BY <1>2
  <2>. QED  BY <2>1, <1>2, IsoBytes
<1>4. got = s
  <2>1. area = <<>> /\ at = PvdOffset
    BY <1>1, <1>2 DEF IsoOK, AreaOK
  <2>2. got = <<>> \o s
    BY <2>1
  <2>. HIDE DEF s, got
  <2>. QED  BY <2>2, <1>3, ConcatEmptySeq
<1>5. /\ area' = SubSeq(s, AppOffset - PvdOffset + 1, AppOffset - PvdOffset + AppSize)
      /\ pc' = "loop"
  <2>. HIDE DEF s, got
  <2>1. Len(got) = Iso!End - Iso!Begin
    BY <1>2, <1>3, <1>4
  <2>2. area' = SubSeq(got, local + 1, local + AppSize) /\ pc' = "loop"
    BY <2>1, <1>1
  <2>3. local = AppOffset - PvdOffset
    BY <1>2
  <2>. HIDE DEF local
  <2>. QED  BY <2>2, <2>3, <1>4
<1>6. SubSeq(s, AppOffset - PvdOffset + 1, AppOffset - PvdOffset + AppSize)
          = Iso!Bytes(AppOffset, Iso!AppEnd)
  <2>. DEFINE m == AppOffset - PvdOffset + 1
              n == AppOffset - PvdOffset + AppSize
              c == SubSeq(s, m, n)
              b == Iso!Bytes(AppOffset, AppOffset + AppSize)
  <2>1. m \in 1..Sector /\ n \in 1..Sector /\ m <= n /\ n - m + 1 = AppSize
    BY <1>2
  <2>. HIDE DEF s
  <2>2. \A i \in m..n : s[i] \in Int
    BY <2>1, <1>3
  <2>3. c \in Seq(Int) /\ Len(c) = AppSize /\ \A i \in 1..AppSize : c[i] = s[m + i - 1]
    <3>. HIDE DEF m, n
    <3>1. c \in Seq(Int) /\ Len(c) = (IF m <= n THEN n - m + 1 ELSE 0)
      BY <2>1, <2>2, SubSeqProperties
    <3>2. \A i \in 1..(n - m + 1) : c[i] = s[m + i - 1]
      BY <2>1, <2>2, SubSeqProperties
    <3>. QED  BY <3>1, <3>2, <2>1
  <2>4. b \in Seq(Int) /\ Len(b) = AppSize /\ \A i \in 1..AppSize : b[i] = AppOffset + i - 1
    <3>1. AppOffset + AppSize \in Nat /\ AppOffset <= AppOffset + AppSize
          /\ (AppOffset + AppSize) - AppOffset = AppSize
      BY <1>2
    <3>. QED  BY <3>1, <1>2, IsoBytes
  <2>. HIDE DEF c, b
  <2>5. ASSUME NEW i \in 1..AppSize  PROVE c[i] = b[i]
    <3>1. m + i - 1 \in 1..Sector
      BY <1>2
    <3>2. s[m + i - 1] = PvdOffset + (m + i - 1) - 1
      <4>. HIDE DEF m
      <4>. QED  BY <3>1, <1>3
    <3>3. PvdOffset + (m + i - 1) - 1 = AppOffset + i - 1
      BY <1>2
    <3>4. c[i] = s[m + i - 1]
      BY <2>3
    <3>5. b[i] = AppOffset + i - 1
      BY <2>4
    <3>. HIDE DEF m
    <3>. QED  BY <3>2, <3>3, <3>4, <3>5
  <2>6. c = b
    BY <2>3, <2>4, <2>5, SeqEqual
  <2>. QED  BY <2>6, <1>2 DEF c, b
<1>7. DiskOK'
  BY <1>1 DEF IsoOK, DiskOK
<1>8. AreaOK'
  BY <1>5, <1>6 DEF AreaOK
<1>9. HashOK'
  BY <1>1, <1>5 DEF IsoOK, HashOK
<1>. QED  BY <1>7, <1>8, <1>9 DEF IsoOK

\* A piece that is read is blanked and hashed.
LEMMA IsoReadsOK == ASSUME IsoOK, Iso!Reads PROVE IsoOK'
<1>1. PICK n \in 1..Iso!Want :
        /\ offset + n <= readable
        /\ hashed' = hashed \o Iso!Piece(offset, offset + n)
        /\ offset' = offset + n /\ told' = told + n
  BY DEF Iso!Reads
<1>2. pc = "loop" /\ UNCHANGED <<pc, at, area, tail, raw, total, readable>>
  BY DEF Iso!Reads, Iso!Image
<1>3. n \in Nat
  <2>1. Iso!Want \in Int
    BY IsoNumbers DEF Iso!Want, Iso!Least
  <2>. QED  BY <2>1
<1>4. offset \in Nat /\ hashed = Iso!Normalized(offset) /\ told = offset
  BY <1>2, IsoNumbers DEF IsoOK, HashOK
<1>5. hashed' = Iso!Normalized(offset + n)
  BY <1>1, <1>3, <1>4, PieceJoins
<1>6. offset' \in 0..readable /\ told' = offset'
  BY <1>1, <1>3, <1>4, IsoNumbers
<1>7. DiskOK'
  BY <1>2 DEF IsoOK, DiskOK
<1>8. AreaOK'
  BY <1>2 DEF IsoOK, AreaOK
<1>9. HashOK'
  BY <1>1, <1>2, <1>5, <1>6 DEF IsoOK, HashOK
<1>. QED  BY <1>7, <1>8, <1>9 DEF IsoOK

\* A read that timed out, that met an error, or an abort.
LEMMA IsoFailsOK ==
    ASSUME IsoOK, Iso!TimesOut \/ Iso!TooShort \/ Iso!Stops \/ Iso!HiddenFails
    PROVE  IsoOK'
<1>1. /\ pc \in {"area", "loop", "scsi"} /\ pc' \in {pc, "failed"}
      /\ area' = area \/ (pc = "area" /\ area' = <<>>)
      /\ pc = "scsi" => pc' = "failed"
      /\ UNCHANGED <<at, offset, tail, hashed, told, raw, total, readable>>
  BY DEF Iso!TimesOut, Iso!TooShort, Iso!Stops, Iso!HiddenFails, Iso!Image
<1>2. DiskOK'
  BY <1>1 DEF IsoOK, DiskOK
<1>3. AreaOK'
  BY <1>1 DEF IsoOK, AreaOK
<1>4. HashOK'
  BY <1>1 DEF IsoOK, HashOK
<1>. QED  BY <1>2, <1>3, <1>4 DEF IsoOK

\* The loop ends with the image, or where the driver ends.
LEMMA EndsLoopOK == ASSUME IsoOK, Iso!EndsLoop PROVE IsoOK'
<1>1. /\ pc = "loop"
      /\ (raw /\ offset >= total) \/ offset = readable
      /\ pc' = IF raw /\ offset < total THEN "scsi" ELSE "ok"
      /\ UNCHANGED <<at, area, offset, tail, hashed, told, raw, total, readable>>
  BY DEF Iso!EndsLoop, Iso!AtTotal, Iso!Image
<1>2. tail = <<>> /\ hashed = Iso!Normalized(offset) /\ told = offset
  BY <1>1 DEF IsoOK, HashOK
<1>3. DiskOK'
  BY <1>1 DEF IsoOK, DiskOK
<1>4. AreaOK'
  BY <1>1 DEF IsoOK, AreaOK
<1>5. CASE raw /\ offset < total
  <2>1. offset = readable /\ pc' = "scsi"
    BY <1>1, <1>5, IsoNumbers
  <2>2. Len(tail) = 0 /\ 0 \in 0..(total - offset)
    BY <1>2, <1>5, IsoNumbers, EmptySeq
  <2>3. Iso!Bytes(offset, offset + Len(tail)) = <<>>
    BY <2>2, IsoNumbers DEF Iso!Bytes
  <2>4. HashOK'
    BY <1>1, <1>2, <1>5, <2>1, <2>2, <2>3, IsoNumbers DEF HashOK
  <2>. QED  BY <2>4, <1>3, <1>4 DEF IsoOK
<1>6. CASE ~(raw /\ offset < total)
  <2>1. offset = total /\ pc' = "ok"
    BY <1>1, <1>6, IsoNumbers
  <2>2. HashOK'
    BY <1>1, <1>2, <2>1, IsoNumbers DEF HashOK
  <2>. QED  BY <2>2, <1>3, <1>4 DEF IsoOK
<1>. QED  BY <1>5, <1>6

\* The commands read on from the driver's end, behind the area, up to the declared end.
LEMMA ReadsHiddenOK == ASSUME IsoOK, Iso!ReadsHidden PROVE IsoOK'
<1>1. PICK n, got :
        /\ n = Iso!Least(PerCommand * Sector, total - offset - Len(tail))
        /\ got = tail \o Iso!Command(n)
        /\ tail' = got
        /\ IF offset + Len(got) = total
           THEN pc' = "ok" /\ hashed' = hashed \o got /\ told' = told + Len(got)
           ELSE UNCHANGED <<pc, hashed, told>>
  BY DEF Iso!ReadsHidden
<1>2. pc = "scsi" /\ UNCHANGED <<at, area, offset, raw, total, readable>>
  BY DEF Iso!ReadsHidden, Iso!Image
<1>3. /\ raw /\ offset = readable /\ Len(tail) \in 0..(total - offset)
      /\ tail = Iso!Bytes(offset, offset + Len(tail))
      /\ hashed = Iso!Normalized(offset) /\ told = offset
  BY <1>2 DEF IsoOK, HashOK
<1>4. /\ offset \in Nat /\ total \in Nat /\ offset <= total /\ Iso!AppEnd <= offset
  BY <1>3, IsoNumbers
<1>5. n \in 0..(total - offset - Len(tail))
  <2>1. PerCommand * Sector \in Nat
    BY IsoNumbers
  <2>. QED  BY <2>1, <1>1, <1>3, <1>4 DEF Iso!Least
<1>6. got = Iso!Bytes(offset, offset + Len(tail) + n)
  <2>1. /\ offset + Len(tail) \in Nat /\ offset + Len(tail) + n \in Nat
        /\ offset <= offset + Len(tail) /\ offset + Len(tail) <= offset + Len(tail) + n
    BY <1>3, <1>4, <1>5
  <2>2. Iso!Bytes(offset, offset + Len(tail)) \o Iso!Bytes(offset + Len(tail), offset + Len(tail) + n)
          = Iso!Bytes(offset, offset + Len(tail) + n)
    BY <2>1, <1>4, IsoJoin
  <2>. QED  BY <2>2, <1>1, <1>3 DEF Iso!Command
<1>7. Len(got) = Len(tail) + n /\ Len(got) \in 0..(total - offset)
  <2>1. offset + Len(tail) + n \in Nat /\ offset <= offset + Len(tail) + n
    BY <1>3, <1>4, <1>5
  <2>2. Len(got) = (offset + Len(tail) + n) - offset
    BY <2>1, <1>4, <1>6, IsoBytes
  <2>. QED  BY <2>2, <1>3, <1>4, <1>5
<1>8. got = Iso!Bytes(offset, offset + Len(got))
  <2>1. offset + Len(got) = offset + Len(tail) + n
    BY <1>3, <1>4, <1>5, <1>7
  <2>. QED  BY <2>1, <1>6
<1>9. DiskOK'
  BY <1>2 DEF IsoOK, DiskOK
<1>10. CASE offset + Len(got) = total
  <2>1. pc' = "ok" /\ hashed' = hashed \o got /\ told' = told + Len(got)
    BY <1>1, <1>10
  <2>2. hashed' = Iso!Normalized(total)
    <3>1. Iso!Normalized(offset) \o Iso!Bytes(offset, total) = Iso!Normalized(total)
      BY <1>4, HiddenJoins
    <3>. QED  BY <3>1, <2>1, <1>3, <1>8, <1>10
  <2>3. HashOK'
    BY <2>1, <2>2, <1>2, <1>3, <1>10, IsoNumbers DEF HashOK
  <2>4. AreaOK'
    BY <2>1, <1>2 DEF IsoOK, AreaOK
  <2>. QED  BY <2>3, <2>4, <1>9 DEF IsoOK
<1>11. CASE offset + Len(got) # total
  <2>1. UNCHANGED <<pc, hashed, told>>
    BY <1>1, <1>11
  <2>2. HashOK'
    <3>1. raw' /\ offset' = readable' /\ pc' = "scsi" /\ offset' \in 0..readable'
      BY <2>1, <1>2, <1>3, IsoNumbers
    <3>2. Len(tail') \in 0..(total' - offset') /\ tail' = Iso!Bytes(offset, offset + Len(tail'))
      BY <1>1, <1>2, <1>7, <1>8
    <3>3. hashed' = Iso!Normalized(offset) /\ told' = offset
      BY <2>1, <1>3
    <3>. QED  BY <3>1, <3>2, <3>3, <1>2 DEF HashOK
  <2>3. AreaOK'
    BY <2>1, <1>2 DEF IsoOK, AreaOK
  <2>. QED  BY <2>2, <2>3, <1>9 DEF IsoOK
<1>. QED  BY <1>10, <1>11

----------------------------------------------------------------------------
(* The job *)

\* Nothing is read yet of what a job is for.
LEMMA BeginsOK ==
    ASSUME size' \in Nat, raw' \in BOOLEAN, total' \in Nat, readable' \in 0..total',
           IF raw' THEN PvdOffset + Sector <= readable' ELSE readable' = total',
           Reset
    PROVE  /\ ShaOK' /\ DiskOK' /\ AreaOK' /\ HashOK'
           /\ counted' = 0 /\ wasted' = 0 /\ told' = 0 /\ pc' = "area"
<1>1. /\ reader' = "idle" /\ pos' = 0 /\ fed' = <<>> /\ counted' = 0 /\ wasted' = 0
      /\ pc' = "area" /\ at' = Iso!Begin /\ area' = <<>>
      /\ offset' = 0 /\ tail' = <<>> /\ hashed' = <<>> /\ told' = 0
  BY DEF Reset
<1>2. Sha!Bytes(0, 0) = <<>> /\ Iso!Normalized(0) = <<>>
  BY DEF Sha!Bytes, Iso!Normalized
<1>3. ShaOK'
  BY <1>1, <1>2 DEF ShaOK
<1>4. DiskOK'
  BY DEF DiskOK
<1>5. AreaOK'
  BY <1>1 DEF AreaOK
<1>6. HashOK'
  BY <1>1, <1>2 DEF HashOK
<1>. QED  BY <1>1, <1>3, <1>4, <1>5, <1>6

\* Before the first line nothing was read.
LEMMA InitOK == Init => IInv
<1>. SUFFICES ASSUME Init PROVE IInv
  OBVIOUS
<1>1. /\ stage = "idle" /\ image = FALSE
      /\ reader = "idle" /\ pos = 0 /\ fed = <<>> /\ counted = 0 /\ wasted = 0 /\ size = 0
      /\ raw = FALSE /\ total = 0 /\ readable = 0
      /\ pc = "area" /\ at = Iso!Begin /\ area = <<>>
      /\ offset = 0 /\ tail = <<>> /\ hashed = <<>> /\ told = 0
  BY DEF Init, Fresh, Iso!InitHash
<1>2. Sha!Bytes(0, 0) = <<>> /\ Iso!Normalized(0) = <<>>
  BY DEF Sha!Bytes, Iso!Normalized
<1>3. ShaOK
  BY <1>1, <1>2 DEF ShaOK
<1>4. DiskOK
  <2>1. raw \in BOOLEAN /\ ~raw
    BY <1>1, Zenon
  <2>2. total \in Nat /\ readable \in 0..total /\ readable = total
    BY <1>1
  <2>. QED  BY <2>1, <2>2, Zenon DEF DiskOK
<1>7. AreaOK
  BY <1>1 DEF AreaOK
<1>5. HashOK
  BY <1>1, <1>2 DEF HashOK
<1>6. JobOK /\ LineOK
  BY <1>1 DEF JobOK, LineOK
<1>. QED  BY <1>3, <1>4, <1>5, <1>6, <1>7 DEF IInv

\* What only changes the job's own state leaves the readers' state as it was.
LEMMA ShaKept ==
    ASSUME ShaOK, UNCHANGED <<fileVars, shaVars>>  PROVE ShaOK'
BY DEF ShaOK, fileVars, shaVars, Sha!Aligned

\* The same for the image.
LEMMA IsoKept ==
    ASSUME IsoOK, UNCHANGED <<diskVars, isoVars>>  PROVE IsoOK'
BY DEF IsoOK, DiskOK, AreaOK, HashOK, diskVars, isoVars

\* A line is read and parsed.
LEMMA LoadsLineOK == ASSUME IInv, LoadsLine PROVE IInv'
<1>1. /\ stage' = "loaded"
      /\ UNCHANGED <<image, fileVars, shaVars, diskVars, isoVars>>
  BY DEF LoadsLine
<1>2. PICK form \in Forms, name \in Names :
         line' = [form |-> form, name |-> name] /\ parsed' = L!Parse(Written(line'))
  BY DEF LoadsLine
<1>3. LineOK'
  BY <1>2 DEF LineOK
<1>4. JobOK'
  BY <1>1 DEF IInv, JobOK, fileVars, shaVars, diskVars, isoVars
<1>5. ShaOK' /\ IsoOK'
  BY <1>1, ShaKept, IsoKept DEF IInv, IsoOK
<1>. QED  BY <1>3, <1>4, <1>5 DEF IInv, IsoOK

\* Steps that end a stage, and the abort flag.
LEMMA StagesOK ==
    ASSUME IInv, NotFound \/ Compares \/ ShaFails \/ IsoEnds \/ Flips
    PROVE  IInv'
<1>1. UNCHANGED <<image, fileVars, shaVars, diskVars, isoVars>>
  BY DEF NotFound, Compares, ShaFails, IsoEnds, Flips, Ends, jobVars
<1>2. ShaOK' /\ IsoOK'
  BY <1>1, ShaKept, IsoKept DEF IInv, IsoOK
<1>3. \/ stage' = stage /\ line' = line /\ parsed' = parsed
      \/ stage' \in {"idle", "bad", "aborted"}
      \/ stage = "sha" /\ stage' = "ok" /\ ~image /\ reader = "ok"
      \/ stage = "sha" /\ stage' = "iso" /\ image /\ reader = "ok"
      \/ stage = "iso" /\ stage' = "ok" /\ pc = "ok"
  BY DEF NotFound, Compares, ShaFails, IsoEnds, Flips, Ends, jobVars
<1>4. LineOK'
  BY <1>3 DEF IInv, LineOK
<1>5. UNCHANGED <<image, reader, counted, wasted, size, raw, total, pc, told>>
  BY <1>1 DEF fileVars, shaVars, diskVars, isoVars
<1>6. JobOK'
  BY <1>3, <1>5 DEF IInv, JobOK
<1>. QED  BY <1>2, <1>4, <1>6 DEF IInv, IsoOK

\* A job is taken, or the last one is forgotten.
LEMMA TakesOK == ASSUME IInv, TakesEntry \/ TakesDrive \/ Forgets PROVE IInv'
<1>1. Reset /\ stage' \in {"sha", "iso", "idle"}
  BY DEF TakesEntry, TakesDrive, Forgets
<1>2. /\ size' \in Nat /\ total' \in Nat /\ readable' \in 0..total' /\ raw' \in BOOLEAN
      /\ IF raw' THEN PvdOffset + Sector <= readable' ELSE readable' = total'
      /\ raw' => image'
      /\ ~raw' => total' = size'
      /\ stage' = "sha" => ~raw'
      /\ stage' = "iso" => raw'
  <2>1. MaxSize \in Nat
    BY SizesAssumption
  <2>2. CASE TakesEntry
    <3>1. PICK n \in 0..MaxSize : size' = n /\ raw' = FALSE /\ total' = n /\ readable' = n
      BY <2>2 DEF TakesEntry, Files
    <3>2. raw' \in BOOLEAN /\ ~raw' /\ stage' = "sha"
      BY <2>2, <3>1, Zenon DEF TakesEntry
    <3>3. size' \in Nat /\ total' \in Nat /\ readable' \in 0..total' /\ readable' = total' /\ total' = size'
      BY <3>1, <2>1
    <3>4. stage' # "iso"
      BY <3>2
    <3>. QED  BY <3>2, <3>3, <3>4, Zenon
  <2>3. CASE TakesDrive
    <3>1. PICK t, upTo \in 0..MaxSize :
             /\ PvdOffset + Sector <= upTo /\ upTo <= t
             /\ size' = 0 /\ raw' = TRUE /\ total' = t /\ readable' = upTo
      BY <2>3 DEF TakesDrive, Files
    <3>2. raw' \in BOOLEAN /\ raw' /\ image' /\ stage' = "iso"
      BY <2>3, <3>1, Zenon DEF TakesDrive
    <3>3. /\ size' \in Nat /\ total' \in Nat /\ readable' \in 0..total'
          /\ PvdOffset + Sector <= readable'
      BY <3>1, <2>1
    <3>4. stage' # "sha"
      BY <3>2
    <3>. QED  BY <3>2, <3>3, <3>4, Zenon
  <2>4. CASE Forgets
    <3>1. size' = 0 /\ raw' = FALSE /\ total' = 0 /\ readable' = 0 /\ stage' = "idle"
      BY <2>4 DEF Forgets, Files
    <3>2. raw' \in BOOLEAN /\ ~raw'
      BY <3>1, Zenon
    <3>3. size' \in Nat /\ total' \in Nat /\ readable' \in 0..total' /\ readable' = total' /\ total' = size'
      BY <3>1
    <3>4. stage' # "sha" /\ stage' # "iso"
      BY <3>1
    <3>. QED  BY <3>2, <3>3, <3>4, Zenon
  <2>. QED  BY <1>1, <2>2, <2>3, <2>4
<1>3. /\ ShaOK' /\ DiskOK' /\ AreaOK' /\ HashOK'
      /\ counted' = 0 /\ wasted' = 0 /\ told' = 0 /\ pc' = "area"
  BY <1>1, <1>2, BeginsOK
<1>4. JobOK'
  BY <1>1, <1>2, <1>3 DEF JobOK
<1>5. LineOK'
  BY <1>1 DEF LineOK
<1>. QED  BY <1>3, <1>4, <1>5 DEF IInv

\* A step of the readers.
LEMMA ReadsForShaOK == ASSUME IInv, ReadsForSha PROVE IInv'
<1>1. /\ stage = "sha" /\ stage' = stage /\ Sha!Steps
      /\ UNCHANGED <<jobVars, fileVars, diskVars, isoVars>>
  BY DEF ReadsForSha
<1>2. ShaOK'
  BY <1>1, ShaStep DEF IInv, fileVars
<1>3. IsoOK'
  BY <1>1, IsoKept DEF IInv, IsoOK
<1>4. UNCHANGED <<image, size, raw, total, pc, told>> /\ stage' = "sha"
  BY <1>1 DEF jobVars, fileVars, diskVars, isoVars
<1>5. JobOK'
  BY <1>1, <1>4 DEF IInv, JobOK
<1>6. LineOK'
  BY <1>4 DEF LineOK
<1>. QED  BY <1>2, <1>3, <1>5, <1>6 DEF IInv, IsoOK

\* A step of the digest of the image.
LEMMA IsoStepOK == ASSUME IInv, GoesOnForIso \/ FailsForIso PROVE IInv'
<1>1. /\ stage = "iso" /\ stage' = stage
      /\ Iso!Goes \/ Iso!Stops \/ Iso!HiddenFails
      /\ UNCHANGED <<jobVars, fileVars, shaVars>>
  BY DEF GoesOnForIso, FailsForIso
<1>2. IsoOK'
  BY <1>1, ReadsAreaOK, ReadsSectorOK, IsoReadsOK, IsoFailsOK, EndsLoopOK, ReadsHiddenOK
     DEF IInv, IsoOK, Iso!Goes
<1>3. ShaOK'
  BY <1>1, ShaKept DEF IInv
<1>4. UNCHANGED <<image, size, reader, counted, wasted>> /\ stage' = "iso"
  BY <1>1 DEF jobVars, fileVars, shaVars
<1>5. UNCHANGED <<raw, total>>
  BY <1>1 DEF Iso!Goes, Iso!ReadsArea, Iso!ReadsSector, Iso!TooShort, Iso!Reads, Iso!TimesOut,
     Iso!EndsLoop, Iso!ReadsHidden, Iso!Stops, Iso!HiddenFails, Iso!Image
<1>6. JobOK'
  BY <1>1, <1>4, <1>5 DEF IInv, JobOK
<1>7. LineOK'
  BY <1>4 DEF LineOK
<1>. QED  BY <1>2, <1>3, <1>6, <1>7 DEF IInv, IsoOK

\* The invariant is inductive.
LEMMA NextOK == IInv /\ [Next]_vars => IInv'
<1>. SUFFICES ASSUME IInv, [Next]_vars PROVE IInv'
  OBVIOUS
<1>1. CASE LoadsLine
  BY <1>1, LoadsLineOK
<1>2. CASE NotFound \/ Compares \/ ShaFails \/ IsoEnds \/ Flips
  BY <1>2, StagesOK
<1>3. CASE TakesEntry \/ TakesDrive \/ Forgets
  BY <1>3, TakesOK
<1>4. CASE ReadsForSha
  BY <1>4, ReadsForShaOK
<1>5. CASE GoesOnForIso \/ FailsForIso
  BY <1>5, IsoStepOK
<1>6. CASE UNCHANGED vars
  <2>1. UNCHANGED <<stage, jobVars, fileVars, shaVars, diskVars, isoVars>>
    BY <1>6 DEF vars
  <2>2. ShaOK' /\ IsoOK'
    BY <2>1, ShaKept, IsoKept DEF IInv, IsoOK
  <2>3. JobOK' /\ LineOK'
    BY <2>1 DEF IInv, JobOK, LineOK, jobVars, fileVars, shaVars, diskVars, isoVars
  <2>. QED  BY <2>2, <2>3 DEF IInv, IsoOK
<1>. QED
  BY <1>1, <1>2, <1>3, <1>4, <1>5, <1>6 DEF Next, Runs

\* The invariant holds in every reachable state.
LEMMA Inductive == Spec => []IInv
<1>1. IInv /\ [Next]_vars => IInv'
  BY NextOK
<1>. QED
  BY InitOK, <1>1, PTL DEF Spec

\* sha256_file: the digest is of the whole file and of nothing else, whichever
\* readers were tried and wherever the first one gave up.
THEOREM WholeFileIsHashed == Spec => []ShaIsWhole
<1>1. IInv => ShaIsWhole
  BY DEF IInv, ShaOK, ShaIsWhole
<1>. QED
  BY Inductive, <1>1, PTL

\* compute_blake3_normalized_with_cancel: the digest of the whole image with a
\* blank area, wherever reads were cut, timed out or handed over to commands.
THEOREM ImageIsNormalized == Spec => []DigestIsNormalized
<1>1. IInv => DigestIsNormalized
  BY DEF IInv, AreaOK, HashOK, DigestIsNormalized
<1>. QED
  BY Inductive, <1>1, PTL

\* The progress callbacks tell what estimated_manifest_target_bytes and
\* estimated_embedded_bytes planned, and what was read in vain.
THEOREM ProgressIsPlanned == Spec => []ProgressMatchesPlan
<1>1. ASSUME IInv  PROVE ProgressMatchesPlan
  <2>1. /\ size \in Nat /\ pos \in 0..size /\ wasted \in Nat /\ counted = wasted + pos
        /\ reader = "ok" => pos = size
    BY <1>1 DEF IInv, ShaOK
  <2>2. /\ raw \in BOOLEAN /\ total \in Nat /\ told \in 0..total
        /\ pc = "ok" => told = total
    BY <1>1 DEF IInv, DiskOK, HashOK
  <2>3. /\ raw => image /\ counted = 0 /\ wasted = 0
        /\ ~raw => total = size
        /\ ~image => told = 0
        /\ stage = "ok" => (image => pc = "ok") /\ (~raw => reader = "ok")
    BY <1>1 DEF IInv, JobOK
  <2>4. CASE raw
    BY <2>1, <2>2, <2>3, <2>4 DEF ProgressMatchesPlan, Planned
  <2>5. CASE ~raw /\ image
    BY <2>1, <2>2, <2>3, <2>5 DEF ProgressMatchesPlan, Planned
  <2>6. CASE ~raw /\ ~image
    BY <2>1, <2>2, <2>3, <2>6 DEF ProgressMatchesPlan, Planned
  <2>. QED  BY <2>4, <2>5, <2>6
<1>. QED
  BY Inductive, <1>1, PTL

----------------------------------------------------------------------------
(* The lines of a manifest *)

\* The first member of a set of positions is the only one before all others.
LEMMA FirstIs ==
    ASSUME NEW P \in SUBSET Nat, NEW i \in P, \A j \in P : i <= j
    PROVE  L!First(P) = i
<1>1. \E k \in P : \A j \in P : k <= j
  OBVIOUS
<1>2. PICK f : f = L!First(P)
  OBVIOUS
<1>3. f \in P /\ \A j \in P : f <= j
  BY <1>1, <1>2, Zenon DEF L!First
<1>4. f <= i /\ i <= f /\ f \in Nat /\ i \in Nat
  BY <1>3
<1>5. f = i
  BY <1>4
<1>. QED  BY <1>2, <1>5

\* Likewise the last one.
LEMMA LastIs ==
    ASSUME NEW P \in SUBSET Nat, NEW i \in P, \A j \in P : i >= j
    PROVE  L!Last(P) = i
<1>1. \E k \in P : \A j \in P : k >= j
  OBVIOUS
<1>2. PICK f : f = L!Last(P)
  OBVIOUS
<1>3. f \in P /\ \A j \in P : f >= j
  BY <1>1, <1>2, Zenon DEF L!Last
<1>4. f >= i /\ i >= f /\ f \in Nat /\ i \in Nat
  BY <1>3
<1>5. f = i
  BY <1>4
<1>. QED  BY <1>2, <1>5

\* What is left of a sequence without its first entries.
LEMMA DropIs ==
    ASSUME NEW s \in Seq(L!Tokens), NEW t \in Seq(L!Tokens), NEW k \in Nat,
           Len(s) = k + Len(t), \A i \in 1..Len(t) : s[k + i] = t[i]
    PROVE  SubSeq(s, k + 1, Len(s)) = t
<1>. DEFINE u == SubSeq(s, k + 1, Len(s))
<1>1. Len(t) \in Nat /\ Len(s) \in Nat
  BY LenProperties
<1>2. \A i \in (k + 1)..Len(s) : s[i] \in L!Tokens
  <2>1. \A i \in 1..Len(s) : s[i] \in L!Tokens
    BY ElementOfSeq
  <2>. QED  BY <2>1, <1>1
<1>3. u \in Seq(L!Tokens) /\ Len(u) = (IF k + 1 <= Len(s) THEN Len(s) - (k + 1) + 1 ELSE 0)
  BY <1>1, <1>2, k + 1 \in Int, SubSeqProperties
<1>4. \A i \in 1..(Len(s) - (k + 1) + 1) : u[i] = s[(k + 1) + i - 1]
  BY <1>1, <1>2, k + 1 \in Int, SubSeqProperties
<1>. HIDE DEF u
<1>5. Len(u) = Len(t)
  BY <1>1, <1>3
<1>6. ASSUME NEW i \in 1..Len(t)  PROVE u[i] = t[i]
  <2>1. i \in 1..(Len(s) - (k + 1) + 1) /\ (k + 1) + i - 1 = k + i
    BY <1>1
  <2>. QED  BY <2>1, <1>4
<1>7. u = t
  BY <1>3, <1>5, <1>6, SeqEqual
<1>. QED  BY <1>7 DEF u

\* A line without blanks at its ends is parsed as it is.
LEMMA TrimWhole ==
    ASSUME NEW s \in Seq(L!Tokens), s # <<>>, s[1] # L!Blank, s[Len(s)] # L!Blank
    PROVE  L!Trim(s) = s
<1>. DEFINE P == {i \in 1..Len(s) : s[i] # L!Blank}
<1>1. Len(s) \in Nat \ {0}
  BY EmptySeq
<1>2. L!Where(s, L!NotBlank) = P
  BY DEF L!Where, L!NotBlank
<1>3. P \in SUBSET Nat /\ 1 \in P /\ Len(s) \in P /\ \A j \in P : 1 <= j /\ Len(s) >= j
  BY <1>1
<1>. HIDE DEF P
<1>4. L!First(P) = 1 /\ L!Last(P) = Len(s) /\ P # {}
  BY <1>3, FirstIs, LastIs
<1>5. L!Trim(s) = SubSeq(s, 1, Len(s))
  BY <1>2, <1>4 DEF L!Trim
<1>. QED  BY <1>5, SubSeqFull

\* Leading blanks are left out.
LEMMA TrimStartIs ==
    ASSUME NEW s \in Seq(L!Tokens), NEW k \in 1..Len(s), s[k] # L!Blank,
           \A i \in 1..(k - 1) : s[i] = L!Blank
    PROVE  L!TrimStart(s) = SubSeq(s, k, Len(s))
<1>. DEFINE P == {i \in 1..Len(s) : s[i] # L!Blank}
<1>1. Len(s) \in Nat
  BY LenProperties
<1>2. L!Where(s, L!NotBlank) = P
  BY DEF L!Where, L!NotBlank
<1>3. P \in SUBSET Nat /\ k \in P /\ \A j \in P : k <= j
  <2>1. ASSUME NEW j \in P  PROVE k <= j
    <3>1. j \in 1..Len(s) /\ ~(j \in 1..(k - 1))
      OBVIOUS
    <3>. QED  BY <3>1, <1>1
  <2>. QED  BY <2>1, <1>1
<1>. HIDE DEF P
<1>4. L!First(P) = k /\ P # {}
  BY <1>3, FirstIs
<1>. QED  BY <1>2, <1>4 DEF L!TrimStart

\* A line with nothing to trim is the entry that one of the two forms makes of it.
LEMMA ParsedAs ==
    ASSUME NEW s, NEW name, L!Trim(s) = s, s # <<>>, Head(s) \notin L!Signs,
           L!Gnu(s) = L!Entry(name)
               \/ (L!Gnu(s) = L!Nothing /\ L!Bsd(s) = L!Entry(name))
    PROVE  L!Parse(s) = [kind |-> "entry", name |-> name]
<1>. DEFINE parsed_ == IF L!Gnu(s).entry THEN L!Gnu(s) ELSE L!Bsd(s)
<1>1. L!Entry(name).entry = TRUE /\ L!Entry(name).name = name /\ L!Nothing.entry = FALSE
  BY DEF L!Entry, L!Nothing
<1>2. parsed_ = L!Entry(name)
  BY <1>1, Zenon
<1>. HIDE DEF parsed_
<1>3. L!Parse(s) = [kind |-> IF parsed_.entry THEN "entry" ELSE "skipped", name |-> parsed_.name]
  BY DEF L!Parse, parsed_
<1>4. parsed_.entry = TRUE /\ parsed_.name = name
  BY <1>1, <1>2
<1>. QED  BY <1>3, <1>4, Zenon

\* sha256sum's text line: a digest, two blanks, a name that begins with
\* neither a blank nor an asterisk and ends without a blank.
LEMMA TextRead ==
    ASSUME NEW name \in Seq(L!Tokens), name # <<>>,
           name[1] # L!Blank, name[1] # L!Star, name[Len(name)] # L!Blank
    PROVE  L!Parse(<<L!Digest, L!Blank, L!Blank>> \o name) = [kind |-> "entry", name |-> name]
<1>. DEFINE raw_ == <<L!Digest, L!Blank, L!Blank>> \o name
            n    == Len(name)
<1>1. n \in Nat \ {0} /\ \A i \in 1..n : name[i] \in L!Tokens
  BY EmptySeq, ElementOfSeq
<1>2. /\ raw_ \in Seq(L!Tokens) /\ Len(raw_) = 3 + n
      /\ raw_[1] = L!Digest /\ raw_[2] = L!Blank /\ raw_[3] = L!Blank
      /\ \A i \in 1..n : raw_[3 + i] = name[i]
  BY DEF L!Tokens
<1>. HIDE DEF raw_
<1>3. L!Digest # L!Blank /\ L!Digest \notin L!Signs
  BY DEF L!Digest, L!Blank, L!Signs
<1>4. raw_ # <<>> /\ raw_[Len(raw_)] # L!Blank
  BY <1>1, <1>2, EmptySeq
<1>5. L!Trim(raw_) = raw_
  BY <1>2, <1>3, <1>4, TrimWhole
<1>6. Head(raw_) = L!Digest
  BY <1>2, <1>4
<1>. DEFINE t == Tail(raw_)
<1>7. /\ t \in Seq(L!Tokens) /\ Len(t) = 2 + n
      /\ \A i \in 1..(2 + n) : t[i] = raw_[i + 1]
  BY <1>1, <1>2, <1>4, HeadTailProperties
<1>. HIDE DEF t
<1>8. t[1] = L!Blank /\ t[2] = L!Blank /\ \A i \in 1..n : t[2 + i] = name[i]
  <2>1. 1 \in 1..(2 + n) /\ 2 \in 1..(2 + n)
    BY <1>1
  <2>2. ASSUME NEW i \in 1..n  PROVE t[2 + i] = name[i]
    <3>1. 2 + i \in 1..(2 + n) /\ (2 + i) + 1 = 3 + i
      BY <1>1
    <3>. QED  BY <3>1, <1>2, <1>7
  <2>. QED  BY <2>1, <2>2, <1>2, <1>7
<1>9. L!TrimStart(t) = SubSeq(t, 3, Len(t))
  <2>1. t[3] = name[1] /\ 3 \in 1..Len(t)
    BY <1>1, <1>7, <1>8
  <2>2. \A i \in 1..(3 - 1) : t[i] = L!Blank
    BY <1>8
  <2>. QED  BY <2>1, <2>2, <1>7, TrimStartIs
<1>10. SubSeq(t, 3, Len(t)) = name
  BY <1>7, <1>8, DropIs, 2 \in Nat
<1>11. Head(name) = name[1]
  OBVIOUS
<1>12. L!Gnu(raw_) = L!Entry(name)
  BY <1>3, <1>4, <1>6, <1>9, <1>10, <1>11 DEF L!Gnu, t
<1>13. L!Parse(raw_) = [kind |-> "entry", name |-> name]
  BY <1>3, <1>4, <1>5, <1>6, <1>12, ParsedAs
<1>. QED  BY <1>13 DEF raw_

\* A binary line: a digest, a blank, an asterisk, a name that ends without a blank.
LEMMA BinaryRead ==
    ASSUME NEW name \in Seq(L!Tokens), name # <<>>, name[Len(name)] # L!Blank
    PROVE  L!Parse(<<L!Digest, L!Blank, L!Star>> \o name) = [kind |-> "entry", name |-> name]
<1>. DEFINE raw_ == <<L!Digest, L!Blank, L!Star>> \o name
            n    == Len(name)
            rest == <<L!Star>> \o name
<1>1. n \in Nat \ {0} /\ \A i \in 1..n : name[i] \in L!Tokens
  BY EmptySeq, ElementOfSeq
<1>2. /\ raw_ \in Seq(L!Tokens) /\ Len(raw_) = 3 + n
      /\ raw_[1] = L!Digest /\ raw_[2] = L!Blank /\ raw_[3] = L!Star
      /\ \A i \in 1..n : raw_[3 + i] = name[i]
  BY DEF L!Tokens
<1>a. /\ rest \in Seq(L!Tokens) /\ Len(rest) = 1 + n /\ rest[1] = L!Star
      /\ \A i \in 1..n : rest[1 + i] = name[i]
  BY DEF L!Tokens
<1>. HIDE DEF raw_, rest
<1>3. L!Digest # L!Blank /\ L!Star # L!Blank /\ L!Digest \notin L!Signs
  BY DEF L!Digest, L!Blank, L!Star, L!Signs
<1>4. raw_ # <<>> /\ raw_[Len(raw_)] # L!Blank
  BY <1>1, <1>2, EmptySeq
<1>5. L!Trim(raw_) = raw_
  BY <1>2, <1>3, <1>4, TrimWhole
<1>6. Head(raw_) = L!Digest
  BY <1>2, <1>4
<1>. DEFINE t == Tail(raw_)
<1>7. /\ t \in Seq(L!Tokens) /\ Len(t) = 2 + n
      /\ \A i \in 1..(2 + n) : t[i] = raw_[i + 1]
  BY <1>1, <1>2, <1>4, HeadTailProperties
<1>. HIDE DEF t
<1>8. t[1] = L!Blank /\ t[2] = L!Star /\ \A i \in 1..n : t[2 + i] = name[i]
  <2>1. 1 \in 1..(2 + n) /\ 2 \in 1..(2 + n)
    BY <1>1
  <2>2. ASSUME NEW i \in 1..n  PROVE t[2 + i] = name[i]
    <3>1. 2 + i \in 1..(2 + n) /\ (2 + i) + 1 = 3 + i
      BY <1>1
    <3>. QED  BY <3>1, <1>2, <1>7
  <2>. QED  BY <2>1, <2>2, <1>2, <1>7
<1>9. L!TrimStart(t) = SubSeq(t, 2, Len(t))
  <2>1. 2 \in 1..Len(t) /\ t[2] # L!Blank
    BY <1>1, <1>3, <1>7, <1>8
  <2>2. \A i \in 1..(2 - 1) : t[i] = L!Blank
    BY <1>8
  <2>. QED  BY <2>1, <2>2, <1>7, TrimStartIs
<1>10. SubSeq(t, 2, Len(t)) = rest
  <2>1. Len(t) = 1 + Len(rest)
    BY <1>1, <1>7, <1>a
  <2>2. ASSUME NEW i \in 1..Len(rest)  PROVE t[1 + i] = rest[i]
    <3>1. CASE i = 1
      BY <3>1, <1>8, <1>a
    <3>2. CASE i # 1
      <4>1. i - 1 \in 1..n /\ 1 + i = 2 + (i - 1) /\ i = 1 + (i - 1)
        BY <3>2, <1>1, <1>a
      <4>. QED  BY <4>1, <1>8, <1>a
    <3>. QED  BY <3>1, <3>2
  <2>. QED  BY <2>1, <2>2, <1>7, <1>a, DropIs, 1 \in Nat
<1>11. rest # <<>> /\ Head(rest) = L!Star /\ Tail(rest) = name
  <2>1. rest # <<>>
    BY <1>1, <1>a, EmptySeq
  <2>2. Tail(rest) = SubSeq(rest, 2, Len(rest))
    BY <2>1, <1>a, TailIsSubSeq
  <2>3. SubSeq(rest, 2, Len(rest)) = name
    BY <1>a, DropIs, 1 \in Nat
  <2>. QED  BY <2>1, <2>2, <2>3, <1>a
<1>12. L!Gnu(raw_) = L!Entry(name)
  BY <1>4, <1>6, <1>9, <1>10, <1>11 DEF L!Gnu, t
<1>13. L!Parse(raw_) = [kind |-> "entry", name |-> name]
  BY <1>3, <1>4, <1>5, <1>6, <1>12, ParsedAs
<1>. QED  BY <1>13 DEF raw_

\* A BSD line: the name stands between the opening and the closing part, and
\* does not hold the closing part itself.
LEMMA BsdRead ==
    ASSUME NEW name \in Seq(L!Tokens), name # <<>>, \A i \in 1..Len(name) : name[i] # L!Close
    PROVE  L!Parse(<<L!Open>> \o name \o <<L!Close, L!Digest>>) = [kind |-> "entry", name |-> name]
<1>. DEFINE raw_ == <<L!Open>> \o name \o <<L!Close, L!Digest>>
            n    == Len(name)
            rest == <<L!Digest>>
            closes == {i \in 1..Len(raw_) : raw_[i] = L!Close}
<1>1. n \in Nat \ {0} /\ \A i \in 1..n : name[i] \in L!Tokens
  BY EmptySeq, ElementOfSeq
<1>2. /\ raw_ \in Seq(L!Tokens) /\ Len(raw_) = n + 3
      /\ raw_[1] = L!Open /\ raw_[n + 2] = L!Close /\ raw_[n + 3] = L!Digest
      /\ \A i \in 1..n : raw_[1 + i] = name[i]
  BY DEF L!Tokens
<1>3. rest \in Seq(L!Tokens) /\ Len(rest) = 1 /\ rest[1] = L!Digest /\ rest # <<>>
  BY DEF L!Tokens
<1>4. /\ L!Open # L!Blank /\ L!Digest # L!Blank /\ L!Open \notin L!Signs /\ L!Open # L!Digest
      /\ L!Open # L!Close /\ L!Digest # L!Close
  BY DEF L!Digest, L!Blank, L!Open, L!Close, L!Signs
<1>. HIDE DEF raw_, rest
<1>5. raw_ # <<>> /\ Head(raw_) = L!Open
  BY <1>1, <1>2, EmptySeq
<1>6. L!Trim(raw_) = raw_
  BY <1>2, <1>4, <1>5, TrimWhole
<1>7. L!Trim(rest) = rest
  BY <1>3, <1>4, TrimWhole
<1>8. L!Where(raw_, LAMBDA token : token = L!Close) = closes
  BY DEF L!Where
<1>9. closes \in SUBSET Nat /\ n + 2 \in closes /\ \A j \in closes : n + 2 <= j
  <2>1. ASSUME NEW j \in closes  PROVE n + 2 <= j
    <3>1. j \in 1..(n + 3) /\ raw_[j] = L!Close
      BY <1>2
    <3>2. SUFFICES ASSUME j < n + 2  PROVE FALSE
      BY <3>1, <1>1
    <3>3. j # 1
      BY <3>1, <1>2, <1>4
    <3>4. j - 1 \in 1..n /\ j = 1 + (j - 1)
      BY <3>1, <3>2, <3>3, <1>1
    <3>. QED  BY <3>1, <3>4, <1>2
  <2>2. n + 2 \in 1..Len(raw_)
    BY <1>1, <1>2
  <2>. QED  BY <2>1, <2>2, <1>1, <1>2
<1>. HIDE DEF closes
<1>10. L!First(closes) = n + 2 /\ closes # {}
  BY <1>9, FirstIs
<1>11. SubSeq(raw_, n + 3, Len(raw_)) = rest
  <2>1. n + 2 \in Nat /\ Len(raw_) = (n + 2) + Len(rest) /\ (n + 2) + 1 = n + 3
    BY <1>1, <1>2, <1>3
  <2>2. \A i \in 1..Len(rest) : raw_[(n + 2) + i] = rest[i]
    <3>1. ASSUME NEW i \in 1..Len(rest)  PROVE raw_[(n + 2) + i] = rest[i]
      <4>1. i = 1 /\ (n + 2) + i = n + 3
        BY <1>1, <1>3
      <4>. QED  BY <4>1, <1>2, <1>3
    <3>. QED  BY <3>1
  <2>. HIDE DEF n
  <2>3. SubSeq(raw_, (n + 2) + 1, Len(raw_)) = rest
    BY <2>1, <2>2, <1>2, <1>3, DropIs, Zenon
  <2>. QED  BY <2>1, <2>3
<1>12. SubSeq(raw_, 2, n + 1) = name
  <2>. DEFINE u == SubSeq(raw_, 2, n + 1)
  <2>1. \A i \in 2..(n + 1) : raw_[i] \in L!Tokens
    <3>1. \A i \in 1..(n + 3) : raw_[i] \in L!Tokens
      BY <1>2, ElementOfSeq
    <3>. QED  BY <3>1, <1>1
  <2>2. u \in Seq(L!Tokens) /\ Len(u) = (IF 2 <= n + 1 THEN n + 1 - 2 + 1 ELSE 0)
    BY <1>1, <2>1, n + 1 \in Int, 2 \in Int, SubSeqProperties
  <2>3. \A i \in 1..(n + 1 - 2 + 1) : u[i] = raw_[2 + i - 1]
    BY <1>1, <2>1, n + 1 \in Int, 2 \in Int, SubSeqProperties
  <2>. HIDE DEF u
  <2>4. Len(u) = n
    BY <1>1, <2>2
  <2>5. ASSUME NEW i \in 1..n  PROVE u[i] = name[i]
    <3>1. i \in 1..(n + 1 - 2 + 1) /\ 2 + i - 1 = 1 + i
      BY <1>1
    <3>. QED  BY <3>1, <2>3, <1>2
  <2>6. u = name
    BY <2>2, <2>4, <2>5, SeqEqual
  <2>. QED  BY <2>6 DEF u
<1>13. L!Gnu(raw_) = L!Nothing
  BY <1>4, <1>5 DEF L!Gnu
<1>14. L!Bsd(raw_) = L!Entry(name)
  <2>. DEFINE at_ == L!First(closes)
  <2>1. at_ + 1 = n + 3 /\ at_ - 1 = n + 1
    BY <1>1, <1>10
  <2>2. L!Trim(SubSeq(raw_, at_ + 1, Len(raw_))) = <<L!Digest>>
    BY <2>1, <1>7, <1>11 DEF rest
  <2>3. SubSeq(raw_, 2, at_ - 1) = name
    BY <2>1, <1>12
  <2>. HIDE DEF at_
  <2>4. L!Bsd(raw_) = L!Entry(SubSeq(raw_, 2, at_ - 1))
    BY <2>2, <1>5, <1>8, <1>10 DEF L!Bsd, at_
  <2>. QED  BY <2>3, <2>4
<1>15. L!Parse(raw_) = [kind |-> "entry", name |-> name]
  BY <1>4, <1>5, <1>6, <1>13, <1>14, ParsedAs
<1>. QED  BY <1>15 DEF raw_

\* parse_sha256_manifest_text: a line that a tool wrote is read back as an entry
\* for its file, unless the forms cannot tell its name.
THEOREM LinesAreRead == Spec => []LinesRead
<1>1. ASSUME IInv  PROVE LinesRead
  <2>. DEFINE name == line.name
  <2>. SUFFICES ASSUME stage = "loaded", line.form \in {"text", "binary", "bsd"}, name # <<>>
                PROVE  \/ parsed = [kind |-> "entry", name |-> name]
                       \/ line.form = "text" /\ Head(name) \in {L!Blank, L!Star}
                       \/ line.form # "bsd" /\ name[Len(name)] = L!Blank
                       \/ line.form = "bsd" /\ \E i \in 1..Len(name) : name[i] = L!Close
    BY Zenon DEF LinesRead
  <2>1. parsed = L!Parse(Written(line)) /\ name \in Names
    BY <1>1 DEF IInv, LineOK
  <2>2. name \in Seq(L!Tokens) /\ Head(name) = name[1]
    BY <2>1, NamesAssumption
  <2>. HIDE DEF name
  <2>3. CASE line.form = "text"
    <3>1. Written(line) = <<L!Digest, L!Blank, L!Blank>> \o name
      BY <2>3 DEF Written, name
    <3>. QED  BY <3>1, <2>1, <2>2, <2>3, TextRead
  <2>4. CASE line.form = "binary"
    <3>1. Written(line) = <<L!Digest, L!Blank, L!Star>> \o name
      BY <2>4 DEF Written, name
    <3>. QED  BY <3>1, <2>1, <2>2, <2>4, BinaryRead
  <2>5. CASE line.form = "bsd"
    <3>1. Written(line) = <<L!Open>> \o name \o <<L!Close, L!Digest>>
      BY <2>5 DEF Written, name
    <3>. QED  BY <3>1, <2>1, <2>2, <2>5, BsdRead
  <2>. QED  BY <2>3, <2>4, <2>5
<1>. QED
  BY Inductive, <1>1, PTL
=============================================================================
