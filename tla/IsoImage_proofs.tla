-------------------------- MODULE IsoImage_proofs --------------------------
(***************************************************************************)
(* The record in an ISO image (blake3iso_core/mod.rs), for any number of   *)
(* implants, removals and edits by any number of processes beside a check. *)
(***************************************************************************)
EXTENDS IsoImage, TLAPS

Foreign == {IsoMd5, Other}

Writer == [pc : {"idle", "blank", "hash", "record", "remove"}, force : BOOLEAN,
           digest : [data : Nat, area : {Blank}]]

CheckInfo == [pc : {"idle", "hash", "fallback"}, stored : [data : Nat, area : {Blank}],
              stale : BOOLEAN]

\* A record holds a digest of an image with a blank area.
Clean(a) == a.kind = "isob3" => \E n \in Nat : a.digest = Hash(n, a)

\* A check whose image is what the record was computed from is still to find it so; and one
\* who may not replace metadata of other programs found none, and none comes back.
IInv ==
    /\ data \in Nat /\ Clean(area)
    /\ writer \in [Writers -> Writer] /\ check \in CheckInfo
    /\ check.pc = "hash" /\ ~check.stale => check.stored = Hash(data, area)
    /\ \A w \in Writers :
          writer[w].pc \in {"blank", "hash", "record"} /\ ~writer[w].force => area \notin Foreign

\* The image begins without a record and without processes.
LEMMA InitInv == Init => IInv
<1> SUFFICES ASSUME Init PROVE IInv
  OBVIOUS
<1>1. AtRest \in Writer /\ NoCheck \in CheckInfo
  BY DEF AtRest, NoCheck, CheckInfo, Writer, NoDigest
<1> QED
  BY <1>1 DEF Init, IInv, Clean, Areas, Blank, IsoMd5, Other, Newer, AtRest, NoCheck

\* Where a process is after its step.
LEMMA WriterMoves ==
    ASSUME IInv, NEW w \in Writers, NEW pc \in {"idle", "blank", "hash", "record", "remove"},
           writer[w].pc # "idle", To(w, pc)
    PROVE  /\ writer' \in [Writers -> Writer]
           /\ pc # "idle" => writer'[w] = [writer[w] EXCEPT !.pc = pc]
           /\ pc = "idle" => writer'[w] = AtRest
           /\ \A v \in Writers : v # w => writer'[v] = writer[v]
<1>1. AtRest \in Writer
  BY DEF AtRest, Writer, NoDigest
<1>2. [writer[w] EXCEPT !.pc = pc] \in Writer
  BY DEF IInv, Writer
<1> QED
  BY <1>1, <1>2 DEF To, IInv

\* Who starts an implant without --force finds no metadata of other programs.
LEMMA StartInv ==
    ASSUME IInv, NEW w \in Writers, ImplantStarts(w) \/ RemoveStarts(w)
    PROVE  IInv'
<1>1. PICK pc \in {"blank", "remove"}, force \in BOOLEAN :
         /\ writer' = [writer EXCEPT ![w] = [AtRest EXCEPT !.pc = pc, !.force = force]]
         /\ pc = "blank" => MayReplace(area, force)
  BY DEF ImplantStarts, RemoveStarts, Begins
<1>2. UNCHANGED <<data, area, check>>
  BY DEF ImplantStarts, RemoveStarts, ImageOnly
<1> DEFINE r == [AtRest EXCEPT !.pc = pc, !.force = force]
<1>3. r \in Writer /\ r.pc = pc /\ (r.force <=> force)
  BY DEF Writer, AtRest, NoDigest
<1>4. pc = "blank" /\ ~force => area \notin Foreign
  BY <1>1 DEF MayReplace, IsOurs, Foreign, IsoMd5, Other, Blank
<1>5. writer' = [writer EXCEPT ![w] = r]
  BY <1>1
<1> HIDE DEF r
<1> QED
  BY <1>2, <1>3, <1>4, <1>5 DEF IInv, Clean, Hash

\* The area is blanked; whose metadata it held, that is gone for good.
LEMMA BlankInv ==
    ASSUME IInv, NEW w \in Writers, ImplantBlanks(w) \/ RemoveBlanks(w)
    PROVE  IInv'
<1>1. area' = Blank /\ UNCHANGED <<data, check>>
  BY DEF ImplantBlanks, RemoveBlanks, Writes, ImageOnly
<1>2. writer' \in [Writers -> Writer]
  <2>1. CASE ImplantBlanks(w)
    <3> DEFINE h == [writer[w].digest EXCEPT !.data = data]
               r == [writer[w] EXCEPT !.pc = "hash", !.digest = h]
    <3>1. writer[w] \in Writer /\ data \in Nat
      BY DEF IInv
    <3>2. h \in [data : Nat, area : {Blank}]
      BY <3>1 DEF Writer
    <3>3. writer' = [writer EXCEPT ![w] = r]
      BY <2>1 DEF ImplantBlanks
    <3> HIDE DEF h
    <3>4. r \in Writer
      BY <3>1, <3>2 DEF Writer
    <3> HIDE DEF r
    <3> QED
      BY <3>3, <3>4 DEF IInv
  <2>2. CASE RemoveBlanks(w)
    BY <2>2, WriterMoves DEF RemoveBlanks, At
  <2> QED
    BY <2>1, <2>2
<1>3. Clean(Blank) /\ Blank \notin Foreign
  BY DEF Clean, Blank, Foreign, IsoMd5, Other
<1> QED
  BY <1>1, <1>2, <1>3 DEF IInv, Clean, Hash

\* A digest is one of an image with a blank area.
LEMMA HashesInv == ASSUME IInv, NEW w \in Writers, ImplantHashes(w) PROVE IInv'
<1>1. PICK n \in Nat : writer' = [writer EXCEPT ![w].pc = "record", ![w].digest = Hash(n, area)]
  <2>1. Mixed \in Nat /\ data \in Nat
    BY IsoAssumption DEF Mixed, IInv
  <2> QED
    BY <2>1 DEF ImplantHashes
<1>2. Hash(n, area) \in [data : Nat, area : {Blank}]
  BY DEF Hash
<1> PICK h \in [data : Nat, area : {Blank}] : h = Hash(n, area)
  BY <1>2
<1> DEFINE r == [writer[w] EXCEPT !.pc = "record", !.digest = h]
<1>3. writer[w] \in Writer /\ writer[w].pc = "hash" /\ UNCHANGED <<data, area, check>>
  BY DEF ImplantHashes, ImageOnly, At, IInv
<1>4. r \in Writer /\ r.pc = "record" /\ r.force = writer[w].force
  BY <1>3 DEF Writer
<1>5. writer' = [writer EXCEPT ![w] = r]
  BY <1>1
<1> HIDE DEF r
<1>6. ~r.force => ~writer[w].force
  BY <1>4, Zenon
<1> QED
  BY <1>3, <1>4, <1>5, <1>6 DEF IInv, Clean, Hash

\* The record written holds such a digest.
LEMMA RecordsInv == ASSUME IInv, NEW w \in Writers, ImplantRecords(w) PROVE IInv'
<1>1. area' = Isob3(writer[w].digest) /\ UNCHANGED <<data, check>> /\ writer[w] \in Writer
  BY DEF ImplantRecords, Writes, ImageOnly, IInv
<1>2. writer' \in [Writers -> Writer]
  BY WriterMoves DEF ImplantRecords, At
<1>3. area'.kind = "isob3" /\ area'.digest = writer[w].digest /\ area' \notin Foreign
  BY <1>1 DEF Isob3, Foreign, IsoMd5, Other
<1>4. writer[w].digest = Hash(writer[w].digest.data, area') /\ writer[w].digest.data \in Nat
  BY <1>1 DEF Writer, Hash
<1>5. Clean(area)'
  BY <1>3, <1>4 DEF Clean, Hash
<1> QED
  BY <1>1, <1>2, <1>3, <1>5 DEF IInv, Hash

\* A process that stops leaves the image as it is.
LEMMA StopsInv == ASSUME IInv, NEW w \in Writers, WriterStops(w) PROVE IInv'
<1>1. /\ writer' \in [Writers -> Writer] /\ writer'[w] = AtRest
      /\ \A v \in Writers : v # w => writer'[v] = writer[v]
  BY WriterMoves DEF WriterStops, At
<1>2. writer'[w].pc = "idle" /\ UNCHANGED <<data, area, check>>
  BY <1>1 DEF AtRest, WriterStops, ImageOnly
<1> QED
  BY <1>1, <1>2 DEF IInv, Clean, Hash

\* An edit of the image makes the check under way a stale one.
LEMMA EditsInv == ASSUME IInv, Edits PROVE IInv'
<1>1. check' = [check EXCEPT !.stale = TRUE] /\ UNCHANGED <<area, writer>> /\ data' \in Nat
  BY DEF Edits, IInv
<1>2. check' \in CheckInfo /\ check'.stale = TRUE
  BY <1>1 DEF IInv, CheckInfo
<1>3. ~(check'.pc = "hash" /\ ~check'.stale)
  BY <1>2
<1>4. Clean(area)' /\ (\A w \in Writers :
          writer'[w].pc \in {"blank", "hash", "record"} /\ ~writer'[w].force => area' \notin Foreign)
  BY <1>1 DEF IInv, Clean, Hash
<1>5. data' \in Nat /\ writer' \in [Writers -> Writer]
  BY <1>1 DEF IInv
<1> QED
  BY <1>2, <1>3, <1>4, <1>5 DEF IInv

\* The check takes the record that is there, and knows at once whether it is out of date.
LEMMA CheckInv ==
    ASSUME IInv, CheckReads \/ CheckHashes \/ CheckFallsBack \/ CheckFails
    PROVE  IInv'
<1>1. UNCHANGED <<data, area, writer>>
  BY DEF CheckReads, CheckHashes, CheckFallsBack, CheckFails, Checked
<1>2. check' \in CheckInfo /\ (check'.pc = "hash" /\ ~check'.stale => check'.stored = Hash(data, area))
  <2>1. CASE CheckReads /\ Readable(area)
    <3>1. PICK n \in Nat : area.digest = Hash(n, area)
      BY <2>1 DEF Readable, IInv, Clean
    <3>2. PICK d \in [data : Nat, area : {Blank}] : d = area.digest
      BY <3>1 DEF Hash
    <3>3. CASE d.data = data
      <4>1. check' = [pc |-> "hash", stored |-> d, stale |-> FALSE]
        BY <2>1, <3>2, <3>3 DEF CheckReads
      <4>2. d = Hash(data, area)
        BY <3>1, <3>2, <3>3 DEF Hash
      <4> QED
        BY <4>1, <4>2 DEF CheckInfo
    <3>4. CASE d.data # data
      <4>1. check' = [pc |-> "hash", stored |-> d, stale |-> TRUE]
        BY <2>1, <3>2, <3>4 DEF CheckReads
      <4> QED
        BY <4>1 DEF CheckInfo
    <3> QED
      BY <3>3, <3>4
  <2>2. CASE CheckReads /\ ~Readable(area)
    <3>1. check' = [pc |-> "fallback", stored |-> NoDigest, stale |-> FALSE]
      BY <2>2 DEF CheckReads, NoCheck
    <3> QED
      BY <3>1 DEF CheckInfo, NoDigest
  <2>3. CASE CheckHashes
    <3>1. check \in CheckInfo /\ check' = [check EXCEPT !.pc = "idle"]
      BY <2>3 DEF CheckHashes, IInv
    <3> QED
      BY <3>1 DEF CheckInfo
  <2>4. CASE CheckFallsBack \/ CheckFails
    <3>1. check' = [pc |-> "idle", stored |-> NoDigest, stale |-> FALSE]
      BY <2>4 DEF CheckFallsBack, CheckFails, NoCheck
    <3> QED
      BY <3>1 DEF CheckInfo, NoDigest
  <2> QED
    BY <2>1, <2>2, <2>3, <2>4
<1> QED
  BY <1>1, <1>2 DEF IInv, Clean, Hash

\* Every step keeps the invariant.
LEMMA StepInv == IInv /\ [Next]_vars => IInv'
<1> SUFFICES ASSUME IInv, [Next]_vars PROVE IInv'
  OBVIOUS
<1>1. CASE UNCHANGED vars
  BY <1>1 DEF vars, IInv, Clean, Hash
<1>2. CASE Next
  BY <1>2, StartInv, BlankInv, HashesInv, RecordsInv, StopsInv, EditsInv, CheckInv DEF Next
<1> QED
  BY <1>1, <1>2

\* check_iso calls no image invalid that is what its record was computed from, whatever
\* implants and removals run, stop and run again beside it.
THEOREM IntactIsNeverInvalid == Spec => IntactNeverInvalid
<1>1. IInv /\ [Next]_vars =>
          [outcome'.result = "invalid" /\ check.pc = "hash" /\ check'.pc = "idle" => check.stale]_vars
  <2> SUFFICES ASSUME IInv, Next, outcome'.result = "invalid", check.pc = "hash", check'.pc = "idle"
               PROVE  check.stale
    BY DEF vars
  <2>1. CASE CheckHashes
    BY <2>1 DEF CheckHashes, IInv
  <2>2. CASE CheckFails
    BY <2>2 DEF CheckFails
  <2>3. CASE UNCHANGED check \/ Edits \/ CheckReads \/ CheckFallsBack
    BY <2>3 DEF Edits, CheckReads, CheckFallsBack, IInv, CheckInfo
  <2> QED
    BY <2>1, <2>2, <2>3 DEF Next, ImplantStarts, ImplantBlanks, ImplantHashes, ImplantRecords,
       RemoveStarts, RemoveBlanks, WriterStops, ImageOnly
<1> QED
  BY InitInv, StepInv, <1>1, PTL DEF Spec, IntactNeverInvalid

\* implant and remove replace metadata of other programs with --force or by a removal only,
\* though the permission is asked for long before the area is written.
THEOREM ForeignIsKept == Spec => ForeignKept
<1>1. IInv /\ [Next]_vars => [area' # area /\ area \in {IsoMd5, Other} => Entitled]_vars
  <2> SUFFICES ASSUME IInv, Next, area' # area, area \in {IsoMd5, Other} PROVE Entitled
    BY DEF vars
  <2>1. PICK w \in Writers : ImplantBlanks(w) \/ ImplantRecords(w) \/ RemoveBlanks(w)
    BY DEF Next, ImplantStarts, ImplantHashes, RemoveStarts, WriterStops, Edits,
       CheckReads, CheckHashes, CheckFallsBack, CheckFails, Checked
  <2>2. writer'[w] # writer[w]
    <3>1. CASE ImplantBlanks(w)
      BY <3>1 DEF ImplantBlanks, At, IInv, Writer
    <3>2. CASE ImplantRecords(w) \/ RemoveBlanks(w)
      <4>1. writer'[w] = AtRest /\ writer[w].pc # "idle"
        BY <3>2, WriterMoves DEF ImplantRecords, RemoveBlanks, At
      <4> QED
        BY <4>1 DEF AtRest
    <3> QED
      BY <2>1, <3>1, <3>2
  <2>3. At(w, "remove") \/ writer[w].force
    BY <2>1 DEF IInv, Foreign, At, ImplantBlanks, ImplantRecords, RemoveBlanks
  <2> QED
    BY <2>2, <2>3 DEF Entitled
<1> QED
  BY InitInv, StepInv, <1>1, PTL DEF Spec, ForeignKept
=============================================================================
