---------------------------- MODULE Sha256Readers ----------------------------
(***************************************************************************)
(* The SHA-256 of a plain file (sha256sum.rs).  On Windows the file is     *)
(* first read without the system's cache, in aligned pieces and with a     *)
(* tail of its own; whatever goes wrong there, an abort included, the file *)
(* is read again from its start through the cache, as everywhere else.     *)
(*                                                                         *)
(* Byte i of the file is the number i, and the digest is the sequence of   *)
(* bytes that were hashed.  The file does not change meanwhile.            *)
(***************************************************************************)
EXTENDS Integers, Sequences

CONSTANTS
    Alignment,     \* UNCACHED_ALIGNMENT
    UncachedChunk, \* UNCACHED_CHUNK_SIZE
    BufferedChunk  \* the buffer of the other reader

VARIABLES
    size,     \* bytes of the file
    windows,  \* the system
    abort,    \* the abort flag
    reader,   \* which reader is at work, or how it ended
    pos, fed, \* how far it is, and what its hasher was fed
    counted,  \* what the progress callback was told
    wasted    \* history: of that, what was read in vain

shaVars == <<reader, pos, fed, counted, wasted>>

Bytes(from, to) == [i \in 1..(to - from) |-> from + i]

Aligned == size - (size % Alignment)

Opens ==
    /\ reader = "idle"
    /\ reader' = IF windows THEN "uncached" ELSE "buffered"
    /\ UNCHANGED <<pos, fed, counted, wasted>>

\* Hashes the bytes up to to and tells the callback.
Feeds(to) ==
    /\ pos' = to
    /\ fed' = fed \o Bytes(pos, to)
    /\ counted' = counted + (to - pos)
    /\ UNCHANGED wasted

UncachedReads ==
    /\ reader = "uncached" /\ ~abort
    /\ \E to \in (pos + 1)..Aligned :
          to - pos <= UncachedChunk /\ to % Alignment = 0 /\ Feeds(to)
    /\ UNCHANGED reader

\* Mutant: the callback is not told of the tail.
UncachedEndsUntold ==
    /\ reader = "uncached" /\ pos = Aligned
    /\ fed' = fed \o Bytes(pos, size) /\ pos' = size
    /\ reader' = "ok"
    /\ UNCHANGED <<counted, wasted>>

\* The tail is read through the cache, without a look at the flag.
UncachedEnds ==
    /\ reader = "uncached" /\ pos = Aligned
    /\ Feeds(size)
    /\ reader' = "ok"

\* Mutant: the other reader goes on with the hasher of this one.
UncachedGivesUpKeeping ==
    /\ reader = "uncached"
    /\ reader' = "buffered"
    /\ pos' = 0 /\ wasted' = counted
    /\ UNCHANGED <<fed, counted>>

\* An error of any call, an early end of the file, or the abort flag.
UncachedGivesUp ==
    /\ reader = "uncached"
    /\ reader' = "buffered"
    /\ pos' = 0 /\ fed' = <<>> /\ wasted' = counted
    /\ UNCHANGED counted

BufferedReads ==
    /\ reader = "buffered" /\ ~abort
    /\ \E to \in (pos + 1)..size : to - pos <= BufferedChunk /\ Feeds(to)
    /\ UNCHANGED reader

BufferedEnds ==
    /\ reader = "buffered" /\ ~abort /\ pos = size
    /\ reader' = "ok"
    /\ UNCHANGED <<pos, fed, counted, wasted>>

\* An error, or the abort flag.
BufferedStops ==
    /\ reader = "buffered"
    /\ reader' = IF abort THEN "aborted" ELSE "failed"
    /\ UNCHANGED <<pos, fed, counted, wasted>>

Reads == Opens \/ UncachedReads \/ UncachedEnds \/ BufferedReads \/ BufferedEnds

Steps == Reads \/ UncachedGivesUp \/ BufferedStops
=============================================================================
