----------------------------- MODULE LegacyCbc -----------------------------
(***************************************************************************)
(* A file in the format DBENC001 (dbenc/legacy.rs): AES-CBC with PKCS#7    *)
(* padding under an HMAC that is patched in last.  The streams keep a      *)
(* buffer of pending bytes across reads of any size; encryption may stop   *)
(* half way, the file may lose bytes, and decryption goes through the file *)
(* twice, once for the HMAC and once for the plaintext.                    *)
(*                                                                         *)
(* The cipher is ideal: a byte of a ciphertext block is the plaintext      *)
(* blocks up to that one and the byte's offset.  The file does not change  *)
(* between the two passes.                                                 *)
(***************************************************************************)
EXTENDS Integers, Sequences

CONSTANTS
    Block,     \* AES_BLOCK_SIZE
    Values,    \* the byte values of plaintexts
    MaxSize,   \* bound: bytes of plaintext
    ChunkSize  \* the most one read returns

VARIABLES
    plain,     \* the plaintext
    enc,       \* the encryption: where it is, bytes read, pending bytes, blocks encrypted
    disc,      \* the encrypted file: header and MAC complete, the MAC, the ciphertext
    dec,       \* the decryption: where it is, key, bytes read, pending, previous block
    temp       \* the temporary file

NoFile      == [there |-> FALSE, bytes |-> <<>>]
Placeholder == <<>>     \* the MAC of zeroes
Strings(n)  == UNION {[1..k -> Values] : k \in 0..n}

----------------------------------------------------------------------------
(* Blocks, chaining and padding *)

BlocksOf(s) == [k \in 1..(Len(s) \div Block) |-> SubSeq(s, (k - 1) * Block + 1, k * Block)]

WholeBytes(s) == (Len(s) \div Block) * Block
Rest(s, n)  == SubSeq(s, n + 1, Len(s))

\* encrypt_legacy_cbc_block for blocks bs that follow the blocks before.
Cipher(before, bs) ==
    [i \in 1..(Len(bs) * Block) |->
        [chain |-> before \o SubSeq(bs, 1, ((i - 1) \div Block) + 1), off |-> (i - 1) % Block]]

\* Mutant: a full last block gets no padding.
PaddingIfNeeded(s) == LET n == (Block - (Len(s) % Block)) % Block IN [i \in 1..n |-> n]

Padding(s) == LET n == Block - (Len(s) % Block) IN [i \in 1..n |-> n]

ChainOf(prev) == IF prev = <<>> THEN <<>> ELSE prev[1].chain

Garbage == [j \in 1..Block |-> 0]

\* decrypt_legacy_cbc_block: prev is the ciphertext block before, or the IV <<>>.
DecryptBlock(b, prev) ==
    LET chain == b[1].chain IN
    IF /\ \A j \in 1..Block : b[j] = [chain |-> chain, off |-> j - 1]
       /\ ChainOf(prev) = SubSeq(chain, 1, Len(chain) - 1)
    THEN chain[Len(chain)] ELSE Garbage

\* The plaintext of the first n blocks of c, the block prev before them.
DecryptBlocks(c, prev, n) ==
    [i \in 1..(n * Block) |->
        LET k == (i - 1) \div Block
            b == SubSeq(c, k * Block + 1, (k + 1) * Block)
            p == IF k = 0 THEN prev ELSE SubSeq(c, (k - 1) * Block + 1, k * Block)
        IN  DecryptBlock(b, p)[((i - 1) % Block) + 1]]

IsPadded(s) == LET n == s[Len(s)] IN
    n \in 1..Block /\ \A i \in (Len(s) - n + 1)..Len(s) : s[i] = n

Unpad(s) == SubSeq(s, 1, Len(s) - s[Len(s)])

\* decrypt_legacy_bytes, after the HMAC: the whole ciphertext at once.
InMemory(c) ==
    LET s == DecryptBlocks(c, <<>>, Len(c) \div Block) IN
    IF c = <<>> \/ Len(c) % Block # 0 \/ ~IsPadded(s) THEN [ok |-> FALSE, bytes |-> <<>>]
    ELSE [ok |-> TRUE, bytes |-> Unpad(s)]

MacOf(key, cipher) == <<key, cipher>>

----------------------------------------------------------------------------

InitLegacy ==
    /\ enc = [pc |-> "start", pos |-> 0, pending |-> <<>>, done |-> <<>>]
    /\ disc = [header |-> FALSE, mac |-> Placeholder, cipher |-> <<>>]
    /\ dec = [pc |-> "idle", key |-> "right", pos |-> 0, pending |-> <<>>, prev |-> <<>>]

(* Encryption *)

EncOnly == UNCHANGED <<plain, dec, temp>>

EncHeader ==
    /\ enc.pc = "start" /\ enc' = [enc EXCEPT !.pc = "stream"]
    /\ disc' = [disc EXCEPT !.header = TRUE]
    /\ EncOnly

\* One read: its bytes join the pending ones and every whole block is encrypted.
EncReads ==
    /\ enc.pc = "stream"
    /\ \E n \in 1..ChunkSize :
          LET buf == enc.pending \o SubSeq(plain, enc.pos + 1, enc.pos + n) IN
          /\ enc.pos + n <= Len(plain)
          /\ disc' = [disc EXCEPT !.cipher = @ \o Cipher(enc.done, BlocksOf(buf))]
          /\ enc' = [enc EXCEPT !.pos = @ + n, !.pending = Rest(buf, WholeBytes(buf)),
                                !.done = @ \o BlocksOf(buf)]
    /\ EncOnly

EncPads ==
    LET buf == enc.pending \o Padding(enc.pending) IN
    /\ enc.pc = "stream" /\ enc.pos = Len(plain)
    /\ disc' = [disc EXCEPT !.cipher = @ \o Cipher(enc.done, BlocksOf(buf))]
    /\ enc' = [enc EXCEPT !.pc = "mac"]
    /\ EncOnly

\* The file is read back for the HMAC, which then replaces the placeholder.
EncPatchesMac ==
    /\ enc.pc = "mac" /\ enc' = [enc EXCEPT !.pc = "done"]
    /\ disc' = [disc EXCEPT !.mac = MacOf("right", disc.cipher)]
    /\ EncOnly

\* An I/O error or the end of the process, at any point.
EncStops ==
    /\ enc.pc \in {"start", "stream", "mac"} /\ enc' = [enc EXCEPT !.pc = "failed"]
    /\ UNCHANGED disc /\ EncOnly

\* The file is cut, once, anywhere behind the MAC.
Cut ==
    /\ enc.pc = "done" /\ dec.pc = "idle"
    /\ \E n \in 0..(Len(disc.cipher) - 1) : disc' = [disc EXCEPT !.cipher = SubSeq(@, 1, n)]
    /\ enc' = [enc EXCEPT !.pc = "cut"]
    /\ EncOnly

(* Decryption *)

DecOnly == UNCHANGED <<plain, enc, disc>>
DecHeader(key) ==
    /\ dec.pc = "idle"
    /\ dec' = [dec EXCEPT !.pc = IF disc.header THEN "verify" ELSE "refused", !.key = key]
    /\ UNCHANGED temp /\ DecOnly

Verifies(key) == disc.header /\ disc.mac = MacOf(key, disc.cipher)

LengthOk == Len(disc.cipher) > 0 /\ Len(disc.cipher) % Block = 0

\* verify_legacy_hmac, and the length check before the temporary file is created.
DecVerifies ==
    /\ dec.pc = "verify"
    /\ IF Verifies(dec.key) /\ LengthOk
       THEN dec' = [dec EXCEPT !.pc = "stream"] /\ temp' = [NoFile EXCEPT !.there = TRUE]
       ELSE dec' = [dec EXCEPT !.pc = "refused"] /\ UNCHANGED temp
    /\ DecOnly

\* Mutant: every whole block is decrypted at once.
ReadyAll(buf) == Len(buf) \div Block

\* The loop keeps one block back, complete or not, for the padding.
Ready(buf) == IF buf = <<>> THEN 0 ELSE (Len(buf) - 1) \div Block

DecReads ==
    /\ dec.pc = "stream"
    /\ \E n \in 1..ChunkSize :
          LET buf == dec.pending \o SubSeq(disc.cipher, dec.pos + 1, dec.pos + n)
              k   == Ready(buf)
          IN
          /\ dec.pos + n <= Len(disc.cipher)
          /\ temp' = [temp EXCEPT !.bytes = @ \o DecryptBlocks(buf, dec.prev, k)]
          /\ dec' = [dec EXCEPT !.pos = @ + n, !.pending = Rest(buf, k * Block),
                       !.prev = IF k = 0 THEN @ ELSE SubSeq(buf, (k - 1) * Block + 1, k * Block)]
    /\ DecOnly

CleanUp == temp' = NoFile

DecUnpads ==
    LET last == DecryptBlocks(dec.pending, dec.prev, 1) IN
    /\ dec.pc = "stream" /\ dec.pos = Len(disc.cipher)
    /\ \/ /\ Len(dec.pending) = Block /\ IsPadded(last)
          /\ temp' = [temp EXCEPT !.bytes = @ \o Unpad(last)]
          /\ dec' = [dec EXCEPT !.pc = "ok"]
       \/ /\ ~(Len(dec.pending) = Block /\ IsPadded(last))
          /\ CleanUp
          /\ dec' = [dec EXCEPT !.pc = "refused"]
    /\ DecOnly

\* An abort or an I/O error, in either pass and between any two blocks.
DecStops ==
    /\ dec.pc \in {"verify", "stream"}
    /\ dec' = [dec EXCEPT !.pc = "stopped"]
    /\ IF dec.pc = "stream" THEN CleanUp ELSE UNCHANGED temp
    /\ DecOnly

Encrypts == EncHeader \/ EncReads \/ EncPads \/ EncPatchesMac \/ EncStops
Streams  == DecVerifies \/ DecReads \/ DecUnpads \/ DecStops
=============================================================================
