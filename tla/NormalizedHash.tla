--------------------------- MODULE NormalizedHash ---------------------------
(***************************************************************************)
(* The application-use area and the normalized digest of an ISO image      *)
(* (blake3iso_core/hash.rs, io.rs).  The area is read first, on a raw      *)
(* optical device by whole sectors.  Then the image is read in pieces of   *)
(* any size, from a file or from a device whose driver ends early and      *)
(* sometimes times out, and the area is blanked in each piece before it is *)
(* hashed; the sectors that the driver hides are read by SCSI commands.    *)
(*                                                                         *)
(* Byte i of the image, from 0, is the number i; the hash is the sequence  *)
(* of bytes it was fed.                                                    *)
(***************************************************************************)
EXTENDS Integers, Sequences

CONSTANTS
    Sector,      \* ISO_SECTOR_SIZE
    AppOffset, AppSize, \* the application-use area
    ChunkSize,   \* the buffer
    PerCommand,  \* SECTORS_PER_CMD
    MaxTries     \* READ_RETRY_COUNT

AppEnd == AppOffset + AppSize
Fill == -1

VARIABLES
    raw,      \* a raw device; otherwise a file
    total,    \* the size: of the file, or as the volume descriptor declares it
    readable, \* how far ReadFile gets; the declared size or less, at least the descriptor
    pc,
    at,       \* where the handle that reads the area stands
    area,     \* what was read of it
    offset,
    tries,    \* failed attempts at the current read
    tail,     \* what the SCSI commands have read
    hashed,   \* what the hasher was fed
    told      \* what the progress callback was told

vars == <<raw, total, readable, pc, at, area, offset, tries, tail, hashed, told>>
Image == UNCHANGED <<raw, total, readable>>

Least(a, b) == IF a < b THEN a ELSE b
Most(a, b)  == IF a > b THEN a ELSE b

Bytes(from, to) == [i \in 1..(to - from) |-> from + i - 1]

\* The reference, compute_blake3_normalized_bytes: the whole image at once.
Normalized(n) == [i \in 1..n |-> IF i - 1 \in AppOffset..(AppEnd - 1) THEN Fill ELSE i - 1]

----------------------------------------------------------------------------
(* read_appdata *)

\* Mutant: one sector more than the area touches.
CoveringMore == <<AppOffset \div Sector, (AppEnd - 1) \div Sector + 1>>

\* The first and the last sector that the area touches.
Covering == <<AppOffset \div Sector, (AppEnd - 1) \div Sector>>

Begin == Covering[1] * Sector
End   == (Covering[2] + 1) * Sector

InitHash ==
    /\ pc = "area" /\ at = Begin /\ area = <<>>
    /\ offset = 0 /\ tries = 0 /\ tail = <<>> /\ hashed = <<>> /\ told = 0

\* A file: seek and read_exact.
ReadsArea ==
    /\ pc = "area" /\ ~raw /\ AppEnd <= readable
    /\ area' = Bytes(AppOffset, AppEnd)
    /\ pc' = "loop"
    /\ UNCHANGED <<at, offset, tries, tail, hashed, told>> /\ Image

\* A device: one more sector of read_exact; with the last one the area is cut out.
ReadsSector ==
    LET got   == area \o Bytes(at, at + Sector)
        local == AppOffset - Begin
    IN  /\ pc = "area" /\ raw /\ at + Sector <= readable
        /\ IF Len(got) = End - Begin
           THEN /\ area' = SubSeq(got, local + 1, local + AppSize)
                /\ pc' = "loop" /\ tries' = 0
           ELSE area' = got /\ UNCHANGED <<pc, tries>>
        /\ at' = at + Sector
        /\ UNCHANGED <<offset, tail, hashed, told>> /\ Image

----------------------------------------------------------------------------
(* compute_blake3_normalized_with_cancel *)

\* The bytes of [from, to) that lie in the application-use area.
Overlap(from, to) == Most(from, AppOffset)..(Least(to, AppEnd) - 1)

Piece(from, to) == [i \in 1..(to - from) |->
                        IF from + i - 1 \in Overlap(from, to) THEN Fill ELSE from + i - 1]

Want == IF raw THEN Least(ChunkSize, total - offset) ELSE ChunkSize

AtTotal == raw /\ offset >= total

\* A device returns whole sectors.
Reads ==
    /\ pc = "loop" /\ ~AtTotal
    /\ \E n \in 1..Want :
          /\ offset + n <= readable /\ (raw => n % Sector = 0)
          /\ hashed' = hashed \o Piece(offset, offset + n)
          /\ offset' = offset + n
          /\ told' = told + n
    /\ tries' = 0
    /\ UNCHANGED <<pc, at, area, tail>> /\ Image

\* retry_read: attempt + 1 < READ_RETRY_COUNT
Retries(t) == t + 1 < MaxTries

\* The call is made again as a whole: read_exact fills its buffer anew, from
\* wherever the handle stands by now.
TimesOut ==
    /\ pc \in {"area", "loop"} /\ ~AtTotal /\ raw
    /\ tries' = tries + 1
    /\ area' = IF pc = "area" THEN <<>> ELSE area
    /\ pc' = IF Retries(tries) THEN pc ELSE "failed"
    /\ UNCHANGED <<at, offset, tail, hashed, told>> /\ Image

\* read_exact meets the end of a file that is too short for an area.
TooShort ==
    /\ pc = "area" /\ ~raw /\ readable < AppEnd
    /\ pc' = "failed"
    /\ UNCHANGED <<at, area, offset, tries, tail, hashed, told>> /\ Image

\* Another read error, or an abort, which a read of the area does not see.
Stops ==
    /\ pc \in {"area", "loop"}
    /\ pc' = "failed"
    /\ UNCHANGED <<at, area, offset, tries, tail, hashed, told>> /\ Image

\* Mutant: only the declared size of a device ends the loop, a read of nothing does not.
EndsLoopAtTotal ==
    /\ pc = "loop" /\ AtTotal
    /\ pc' = "ok"
    /\ UNCHANGED <<at, area, offset, tries, tail, hashed, told>> /\ Image

\* The declared end, or a read of nothing; behind the driver's end the SCSI commands follow.
EndsLoop ==
    /\ pc = "loop" /\ (AtTotal \/ offset = readable)
    /\ pc' = IF raw /\ offset < total THEN "scsi" ELSE "ok"
    /\ UNCHANGED <<at, area, offset, tries, tail, hashed, told>> /\ Image

\* READ(10) of n bytes from the next sector on.
Command(n) == Bytes(offset + Len(tail), offset + Len(tail) + n)

\* read_sectors_scsi: one command after the other, and all of the tail is hashed at the end.
ReadsHidden ==
    LET n   == Least(PerCommand * Sector, total - offset - Len(tail))
        got == tail \o Command(n)
    IN  /\ pc = "scsi"
        /\ tail' = got
        /\ IF offset + Len(got) = total
           THEN pc' = "ok" /\ hashed' = hashed \o got /\ told' = told + Len(got)
           ELSE UNCHANGED <<pc, hashed, told>>
        /\ UNCHANGED <<at, area, offset, tries>> /\ Image

\* A command fails, is cut short, or is not to be had on this system.
HiddenFails ==
    /\ pc = "scsi" /\ pc' = "failed"
    /\ UNCHANGED <<at, area, offset, tries, tail, hashed, told>> /\ Image

Goes ==
    ReadsArea \/ ReadsSector \/ TooShort \/ Reads \/ TimesOut \/ EndsLoop \/ ReadsHidden

=============================================================================
