---------------------------- MODULE ChunkedAead ----------------------------
(***************************************************************************)
(* A file in a chunked format, DBENC002 to DBENC005 (dbenc/aead.rs,        *)
(* argon2.rs, pqe.rs): it is encrypted chunk by chunk, lies on a medium    *)
(* that may lose or garble parts of it, and its chunks are decrypted into  *)
(* a temporary file or the destination, with errors and aborts on the way. *)
(* What is called, and what becomes of the temporary file, is in Dbenc.    *)
(*                                                                         *)
(* Byte i of the plaintext is the number i.  The ciphers are ideal: a box  *)
(* opens with the key, nonce and associated data it was sealed with only.  *)
(***************************************************************************)
EXTENDS Integers, Sequences

CONSTANTS
    MaxSize,      \* bound: bytes of plaintext
    ChunkSize,    \* AEAD_CHUNK_SIZE: the most one read returns
    AadModulus,   \* 2^32: the associated data holds the chunk index as a u32
    MaxHarm       \* bound: things that happen to the encrypted file

Formats == {"DBENC002", "DBENC003", "DBENC004", "DBENC005"}

VARIABLES
    fmt, size,    \* the file's format and plaintext length
    enc,          \* the encryption: where it is, next chunk index, bytes read
    disc,         \* the encrypted file: a whole header, the whole frames, what follows them
    harm,         \* things that happened to it since
    dec,          \* the decryption: where it is, its entry point and key, next chunk index
    temp, dest    \* the temporary file and the destination

NoFile == [there |-> FALSE, bytes |-> <<>>]
Plaintext(n) == [i \in 1..n |-> i]

----------------------------------------------------------------------------
(* Chunks *)

\* Mutants: the nonce of a format make_aead_nonce does not know; an index cut to 32 bits.
NonceOfOwnFormat(f, i) == IF f \in {"DBENC002", "DBENC003"} THEN i ELSE 0
NonceOfU32(f, i)       == i % AadModulus

\* make_aead_nonce: the index is mixed into the prefix as a u64.  DBENC004 and DBENC005
\* call it as DBENC003; with their own tags it would leave the prefix as it is.
Nonce(f, i) == i

Aad(f, i, n) == [magic |-> f, len |-> n, index |-> i % AadModulus]

\* Mutant: associated data with the length of the buffer instead of the bytes read.
FrameOfBuffer(i, from, n) ==
    [len |-> n, whole |-> TRUE, nonce |-> Nonce(fmt, i), aad |-> Aad(fmt, i, ChunkSize),
     data |-> [j \in 1..n |-> from + j]]

\* write_aead_chunk: the length and the sealed bytes from+1 .. from+n of chunk i.
Frame(i, from, n) ==
    [len |-> n, whole |-> TRUE, nonce |-> Nonce(fmt, i), aad |-> Aad(fmt, i, n),
     data |-> [j \in 1..n |-> from + j]]

Opens(f, k, i) == /\ f.whole /\ k = "right"
                  /\ f.nonce = Nonce(fmt, i) /\ f.aad = Aad(fmt, i, f.len)

----------------------------------------------------------------------------

InitChunked ==
    /\ enc = [pc |-> "start", index |-> 0, pos |-> 0]
    /\ disc = [header |-> FALSE, frames |-> <<>>, tail |-> "none"]
    /\ harm = 0
    /\ dec = [pc |-> "idle", mode |-> "temp", key |-> "right", index |-> 0]

(* Encryption.  A failure, or the end of the process, leaves what was written. *)

EncOnly == UNCHANGED <<fmt, size, harm, dec, temp, dest>>

EncHeader ==
    /\ enc.pc = "start" /\ enc' = [enc EXCEPT !.pc = "chunks"]
    /\ disc' = [disc EXCEPT !.header = TRUE]
    /\ EncOnly

EncChunk ==
    /\ enc.pc = "chunks"
    /\ \E n \in 1..ChunkSize :
          /\ enc.pos + n <= size
          /\ disc' = [disc EXCEPT !.frames = Append(@, Frame(enc.index, enc.pos, n))]
          /\ enc' = [enc EXCEPT !.index = @ + 1, !.pos = @ + n]
    /\ EncOnly

EncFails ==
    /\ enc.pc \in {"start", "chunks"} /\ enc' = [enc EXCEPT !.pc = "failed"]
    /\ \E t \in {"none", "length", "body"} :
          disc' = [disc EXCEPT !.tail = IF enc.pc = "chunks" THEN t ELSE "none"]
    /\ EncOnly

EncEnds ==
    /\ enc.pc = "chunks" /\ enc.pos = size /\ enc' = [enc EXCEPT !.pc = "done"]
    /\ UNCHANGED disc /\ EncOnly

(* The medium *)

Harms(frames, tail) ==
    /\ enc.pc \in {"done", "failed"} /\ dec.pc = "idle" /\ harm < MaxHarm
    /\ harm' = harm + 1
    /\ disc' = [disc EXCEPT !.frames = frames, !.tail = tail]
    /\ UNCHANGED <<fmt, size, enc, dec, temp, dest>>

LosesFrame == \E i \in 1..Len(disc.frames) :
    Harms(SubSeq(disc.frames, 1, i - 1) \o SubSeq(disc.frames, i + 1, Len(disc.frames)), disc.tail)

\* The file ends within frame i: after at most three bytes of its length, or later.
CutsFrame == \E i \in 1..Len(disc.frames), t \in {"none", "length", "body"} :
    Harms(SubSeq(disc.frames, 1, i - 1), t)

SwapsFrames == \E i, j \in 1..Len(disc.frames) :
    i < j /\ Harms([disc.frames EXCEPT ![i] = disc.frames[j], ![j] = disc.frames[i]], disc.tail)

GarblesFrame == \E i \in 1..Len(disc.frames) :
    Harms([disc.frames EXCEPT ![i].whole = FALSE], disc.tail)

(* Decryption *)

DecOnly == UNCHANGED <<fmt, size, enc, disc, harm>>

To(pc) == dec' = [dec EXCEPT !.pc = pc]

\* Where the stream is written.
Output(mode) == IF mode = "dest" THEN "dest" ELSE "temp"

Put(file, mode) == IF Output(mode) = "dest" THEN dest' = file /\ UNCHANGED temp
                                            ELSE temp' = file /\ UNCHANGED dest
Out(mode) == IF Output(mode) = "dest" THEN dest ELSE temp

\* The header is read, the key derived and the output created.
DecStarts(mode, key) ==
    /\ dec.pc = "idle" /\ disc.header
    /\ dec' = [dec EXCEPT !.pc = "chunks", !.mode = mode, !.key = key]
    /\ Put([NoFile EXCEPT !.there = TRUE], mode)
    /\ DecOnly

\* A stream that fails removes its temporary file; decrypt_file_pqe_to_path removes nothing.
CleanUp == UNCHANGED dest /\ temp' = IF Output(dec.mode) = "temp" THEN NoFile ELSE temp

\* Only the entry point with a temporary file takes a should_abort.
DecAborts ==
    /\ dec.pc = "chunks" /\ dec.mode = "temp"
    /\ To("aborted") /\ CleanUp /\ DecOnly

DecChunk ==
    LET f == disc.frames[dec.index + 1] IN
    /\ dec.pc = "chunks" /\ dec.index < Len(disc.frames)
    /\ Opens(f, dec.key, dec.index)
    /\ Put([there |-> TRUE, bytes |-> Out(dec.mode).bytes \o f.data], dec.mode)
    /\ dec' = [dec EXCEPT !.index = @ + 1]
    /\ DecOnly

\* Mutant: any end of file ends the loop.
AtEndAnywhere == dec.index = Len(disc.frames)

\* An end of file within the length of a frame ends the loop, one within its body is an error.
AtEnd == dec.index = Len(disc.frames) /\ disc.tail # "body"

\* A chunk that does not open, or is cut; or any read or write that fails.
DecFails ==
    /\ dec.pc = "chunks" /\ To("failed") /\ CleanUp /\ DecOnly

DecEnds ==
    /\ dec.pc = "chunks" /\ AtEnd /\ To("ok")
    /\ UNCHANGED <<temp, dest>> /\ DecOnly

Encrypts == EncHeader \/ EncChunk \/ EncFails \/ EncEnds
Medium   == LosesFrame \/ CutsFrame \/ SwapsFrames \/ GarblesFrame
Streams  == DecAborts \/ DecChunk \/ DecFails \/ DecEnds
=============================================================================
