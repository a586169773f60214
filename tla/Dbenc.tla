------------------------------- MODULE Dbenc -------------------------------
(***************************************************************************)
(* The encryption library (dbenc/mod.rs): one file, encrypted in any of    *)
(* the five formats, stored, and decrypted by one call of any of the four  *)
(* kinds.  The format is read from the file's magic, which the medium may  *)
(* have changed as anything else; the streams are ChunkedAead's and        *)
(* LegacyCbc's, and what they leave in the temporary file is then handed   *)
(* out here.                                                               *)
(***************************************************************************)
EXTENDS Integers, Sequences

CONSTANTS
    MaxSize, ChunkSize, AadModulus, MaxHarm,      \* ChunkedAead
    Block, Values, MaxPlain, MaxRead              \* LegacyCbc

ASSUME SizesAssumption ==
    /\ {MaxSize, MaxHarm, MaxPlain} \subseteq Nat /\ Values \subseteq Nat
    /\ {ChunkSize, AadModulus, Block, MaxRead} \subseteq Nat \ {0}

VARIABLES
    fmt, magic,                    \* the format it was encrypted in, and the one its magic names
    call,                          \* the decryption: where it is, its kind and key
    temp, dest,                    \* the temporary file; the destination, or the bytes returned
    size, enc, disc, harm, dec,    \* ChunkedAead
    plain, lenc, ldisc, ldec       \* LegacyCbc

C == INSTANCE ChunkedAead
L == INSTANCE LegacyCbc WITH enc <- lenc, disc <- ldisc, dec <- ldec,
                             MaxSize <- MaxPlain, ChunkSize <- MaxRead

chunked == <<size, enc, disc, harm, dec>>
legacy  == <<plain, lenc, ldisc, ldec>>
vars    == <<fmt, magic, call, temp, dest, chunked, legacy>>

Formats == C!Formats \cup {"DBENC001"}
Keys    == {"right", "wrong"}
Modes   == {"temp", "memory", "copy", "dest"}
Legacy  == fmt = "DBENC001"

Init ==
    /\ fmt \in Formats /\ magic = fmt
    /\ IF Legacy THEN plain \in L!Strings(MaxPlain) /\ size = 0
                 ELSE plain = <<>> /\ size \in 0..MaxSize
    /\ C!InitChunked /\ L!InitLegacy
    /\ call = [pc |-> "idle", mode |-> "temp", key |-> "right"]
    /\ temp = C!NoFile /\ dest = C!NoFile

----------------------------------------------------------------------------
(* The file *)

\* encrypt_file_to_path, encrypt_file_pqe
Encrypts ==
    /\ \/ ~Legacy /\ C!Encrypts /\ UNCHANGED legacy
       \/ Legacy /\ L!Encrypts /\ UNCHANGED <<fmt, chunked, dest>>
    /\ UNCHANGED <<magic, call>>

Stored == IF Legacy THEN lenc.pc \in {"done", "failed", "cut"} ELSE enc.pc \in {"done", "failed"}

IsHarmed ==
    /\ Stored /\ call.pc = "idle"
    /\ \/ ~Legacy /\ C!Medium /\ UNCHANGED legacy
       \/ Legacy /\ L!Cut /\ UNCHANGED <<fmt, chunked, dest>>
    /\ UNCHANGED <<magic, call>>

LosesMagic ==
    /\ Stored /\ call.pc = "idle" /\ magic = fmt
    /\ magic' \in (Formats \cup {"none"}) \ {fmt}
    /\ UNCHANGED <<fmt, call, temp, dest, chunked, legacy>>

----------------------------------------------------------------------------
(* The call *)

\* The kinds of call that take a format; the first three refuse DBENC005.
Accepts(mode) == IF magic = "DBENC005" THEN mode \in {"temp", "dest"}
                                       ELSE magic # "none" /\ mode # "dest"

Goes(pc) == call' = [call EXCEPT !.pc = pc]

Takes(pc, mode, key) == call' = [pc |-> pc, mode |-> mode, key |-> key]

\* detect_format, and the streams of the format.
Starts ==
    /\ Stored /\ call.pc = "idle" /\ magic = fmt
    /\ \E mode \in Modes, key \in Keys :
          /\ Accepts(mode) /\ Takes("stream", mode, key)
          /\ \/ ~Legacy /\ C!DecStarts(mode, key) /\ UNCHANGED legacy
             \/ Legacy /\ mode # "memory" /\ L!DecHeader(key) /\ UNCHANGED <<fmt, chunked, dest>>
    /\ UNCHANGED magic

\* decrypt_legacy_bytes decrypts in memory what was read at once.
DecryptsBytes ==
    LET got == L!InMemory(ldisc.cipher) IN
    /\ Stored /\ call.pc = "idle" /\ magic = fmt /\ Legacy
    /\ \E key \in Keys :
          IF L!Verifies(key) /\ got.ok
          THEN Takes("ok", "memory", key) /\ dest' = [there |-> TRUE, bytes |-> got.bytes]
          ELSE Takes("failed", "memory", key) /\ UNCHANGED dest
    /\ UNCHANGED <<fmt, magic, temp, chunked, legacy>>

\* A format the call does not take, no header, or an error before the output is there.
IsRefused ==
    /\ Stored /\ call.pc = "idle"
    /\ \E mode \in Modes, key \in Keys : Takes("failed", mode, key)
    /\ UNCHANGED <<fmt, magic, temp, dest, chunked, legacy>>

\* Taken for another format, a file is refused by the tag in its header, or by the
\* HMAC for DBENC001; DBENC004 and 005 have neither, but no chunk opens.  There is no
\* chunk when the file ends right behind what is taken for the header.
Misreads ==
    LET empty == [C!NoFile EXCEPT !.there = TRUE] IN
    /\ Stored /\ call.pc = "idle" /\ magic \in {"DBENC004", "DBENC005"} /\ fmt # magic
    /\ \E mode \in Modes, key \in Keys :
          /\ Accepts(mode)
          /\ Takes(IF mode \in {"memory", "copy"} THEN "copying" ELSE "ok", mode, key)
          /\ IF mode = "dest" THEN dest' = empty /\ UNCHANGED temp
                              ELSE temp' = empty /\ UNCHANGED dest
    /\ UNCHANGED <<fmt, magic, chunked, legacy>>

Streams ==
    /\ call.pc = "stream"
    /\ \/ ~Legacy /\ C!Streams /\ UNCHANGED legacy
       \/ Legacy /\ L!Streams /\ UNCHANGED <<fmt, chunked, dest>>
    /\ UNCHANGED <<magic, call>>

\* decrypt_file and decrypt_file_to_path take what a stream left in the temporary file.
StreamEnds ==
    LET pc == IF Legacy THEN ldec.pc ELSE dec.pc IN
    /\ call.pc = "stream"
    /\ \/ pc = "ok" /\ Goes(IF call.mode \in {"memory", "copy"} THEN "copying" ELSE "ok")
       \/ pc \in {"failed", "aborted", "refused", "stopped"} /\ Goes("failed")
    /\ UNCHANGED <<fmt, magic, temp, dest, chunked, legacy>>

Copies ==
    /\ call.pc = "copying" /\ Goes("ok")
    /\ dest' = temp /\ temp' = C!NoFile
    /\ UNCHANGED <<fmt, magic, chunked, legacy>>

\* The reading or the copying fails; the ? returns before cleanup_temp_file.
CopyFails ==
    /\ call.pc = "copying" /\ Goes("failed")
    /\ \/ UNCHANGED dest
       \/ /\ call.mode = "copy"
          /\ \E n \in 0..Len(temp.bytes) : dest' = [there |-> TRUE, bytes |-> SubSeq(temp.bytes, 1, n)]
    /\ UNCHANGED <<fmt, magic, temp, chunked, legacy>>

Next ==
    \/ Encrypts \/ IsHarmed \/ LosesMagic
    \/ Starts \/ DecryptsBytes \/ IsRefused \/ Misreads
    \/ Streams \/ StreamEnds \/ Copies \/ CopyFails

Spec == Init /\ [][Next]_vars

----------------------------------------------------------------------------
(* Properties *)

Original == IF Legacy THEN plain ELSE C!Plaintext(size)
Got      == IF call.mode = "temp" THEN temp.bytes ELSE dest.bytes
Whole    == magic = fmt /\ IF Legacy THEN lenc.pc = "done" ELSE enc.pc = "done" /\ harm = 0

IsPrefixOfIt(s) == Len(s) <= Len(Original) /\ s = SubSeq(Original, 1, Len(s))

\* No two chunks of a file are sealed under the same nonce, however many there are.
NonceFresh ==
    harm = 0 => \A i, j \in 1..Len(disc.frames) :
        i # j => disc.frames[i].nonce # disc.frames[j].nonce

\* Whatever was lost, moved, repeated or garbled, and wherever decryption stopped: the bytes
\* handed out are the beginning of the file that was encrypted, and with a wrong key or as
\* another format there are none.
PrefixOnly ==
    /\ IsPrefixOfIt(temp.bytes) /\ IsPrefixOfIt(dest.bytes)
    /\ call.key = "wrong" \/ magic # fmt => temp.bytes = <<>> /\ dest.bytes = <<>>

\* A file that was encrypted to the end and lay undisturbed decrypts to itself, by every kind
\* of call, and no chunk of it is ever refused.
RoundTrip ==
    /\ Whole /\ call.pc = "ok" /\ call.key = "right" => Got = Original
    /\ Whole /\ dec.pc = "chunks" /\ dec.key = "right" /\ dec.index < Len(disc.frames) =>
          C!Opens(disc.frames[dec.index + 1], dec.key, dec.index)

\* A decryption that succeeds met no garbled chunk and no chunk cut in the middle, and one to a
\* temporary file leaves that file behind exactly when it returns it.
DamageRefused ==
    /\ call.pc = "ok" /\ magic = fmt =>
          disc.tail # "body" /\ \A i \in 1..Len(disc.frames) : disc.frames[i].whole
    /\ call.mode = "temp" /\ call.pc \in {"ok", "failed"} => (temp.there <=> call.pc = "ok")

\* The plaintext of a DBENC001 file comes out whole or not at all: an encryption that stopped
\* before the MAC was patched, a cut file and a wrong password are all refused, and nothing
\* else is, whatever the sizes of the reads were.
WholeOrRefused ==
    Legacy /\ magic = fmt =>
        /\ call.pc = "ok" => lenc.pc = "done" /\ call.key = "right" /\ Got = plain
        /\ ldec.pc = "refused" => lenc.pc # "done" \/ call.key # "right"

\* The streaming decryption of DBENC001 and the one in memory agree, on plaintext and refusal.
StreamMatchesMemory ==
    ldec.pc \in {"ok", "refused"} /\ call.pc = "stream" /\ L!Verifies(ldec.key) =>
        [ok |-> ldec.pc = "ok", bytes |-> temp.bytes] = L!InMemory(ldisc.cipher)
=============================================================================
