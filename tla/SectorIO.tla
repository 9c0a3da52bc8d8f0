------------------------------ MODULE SectorIO ------------------------------
(***************************************************************************)
(* The sector layer under the CP/M file system: the skew table made by     *)
(* cpmReadSuper, readBlock and writeBlock of cpmfs.c, the device layer of  *)
(* device_libdsk.c with the geometry it sets, and LibDsk's raw driver on   *)
(* an image file that may be too short, read-only or failing.              *)
(*                                                                         *)
(* A sector is the unit of every number here; sectors have one length.     *)
(* The skew table is built one trial at a time, blocks are read and        *)
(* written one sector at a time.                                           *)
(***************************************************************************)
EXTENDS DiskGeometry, Sequences, FiniteSets

CONSTANTS
  Definitions,  \* the disk definitions that may be selected
  Probed,       \* the geometries dsk_getgeom may report of the image
  FileLengths,  \* how long the image file may be
  Tags,         \* what distinguishes the data of one write from another's
  MaxLength     \* bound: how long the image file gets

\* A definition of diskdefs: sectors per track, tracks, skew or an explicit skew
\* table (<<>>: none), where the directory starts (bootsec, or boottrk when it is
\* -1), blksiz / secLength and the offset of the file system in the image.
Definition ==
  [sectrk: Nat \ {0}, tracks: Nat \ {0}, skew: Nat, skewtab: Seq(Nat),
   boottrk: Nat, bootsec: Nat \cup {-1}, blk: Nat \ {0}, offset: Nat]

\* The shipped definitions are of this kind: an explicit table names every sector
\* of a track once.
ASSUME DefinitionAssumption ==
  /\ Definitions \subseteq Definition
  /\ \A d \in Definitions : d.skewtab # <<>> =>
       /\ Len(d.skewtab) = d.sectrk
       /\ \A i \in 1..d.sectrk : d.skewtab[i] < d.sectrk
       /\ \A i, k \in 1..d.sectrk : d.skewtab[i] = d.skewtab[k] => i = k
  /\ Probed \subseteq Geometry
  /\ FileLengths \subseteq Nat
  /\ "absent" \notin Tags
  /\ MaxLength \in Nat

VARIABLES
  def,      \* the disk definition
  phase,    \* "open": Device_open done; "skew": the table is being made; "ready"
  geom,     \* dev.geometry
  skewtab,  \* d->skewtab up to the entry i of the loop
  next,     \* j, the sector the loop tries
  image,    \* the sectors of the image file
  device,   \* "works", "readonly" (px_readonly), or "failing" at any time
  call      \* the readBlock or writeBlock that is running, or its result

vars == <<def, phase, geom, skewtab, next, image, device, call>>

NoCall == [kind |-> "none"]
Refused == [kind |-> "failed"]
Absent == <<"absent", 0, 0>>
Filler == <<"e5", 0, 0>>      \* seekto fills gaps with 0xE5
Unread == <<"unread", 0, 0>>
Old(n) == <<"old", n, 0>>

Contents == ({"e5", "old"} \cup Tags) \X Nat \X Nat
Data == Contents \cup {Unread}

------------------------------------------------------------------------------
\* bootOffset and d->size
BootOffset(d) == IF d.bootsec >= 0 THEN d.bootsec ELSE d.boottrk * d.sectrk

Size(d) == (d.sectrk * d.tracks - BootOffset(d)) \div d.blk

Blocks == 0..(Size(def) - 1)
BlockSectors == 0..(def.blk - 1)

\* Device_readSector and Device_writeSector: the logical sector of a CP/M sector.
Logical(track, sector) == track * def.sectrk + sector + def.offset

\* The n-th sector behind the start of the disk in CP/M's order.
CpmSector(n) == Logical(n \div def.sectrk, skewtab[(n % def.sectrk) + 1])

FirstSector(b) == b * def.blk + BootOffset(def)

SectorOf(b, i) == CpmSector(FirstSector(b) + i)

------------------------------------------------------------------------------
Init ==
  /\ def \in Definitions
  /\ geom \in Probed
  /\ phase = "open"
  /\ skewtab = <<>>
  /\ next = 0
  /\ \E n \in FileLengths : image = [o \in 1..n |-> Old(o - 1)]
  /\ device \in {"works", "readonly", "failing"}
  /\ call = NoCall

\* cpmReadSuper up to the skew table: Device_setGeometry, and the explicit table
\* if the definition has one.
ChooseGeometry ==
  /\ phase = "open"
  /\ geom' = SetGeometry(geom, def.tracks, def.sectrk)
  /\ skewtab' = def.skewtab
  /\ phase' = IF def.skewtab = <<>> THEN "skew" ELSE "ready"
  /\ UNCHANGED <<def, next, image, device, call>>

\* A plausible bug: the search begins at the second entry.
Taken_MUT_FromSecond == \E k \in 2..Len(skewtab) : skewtab[k] = next

Taken == \E k \in 1..Len(skewtab) : skewtab[k] = next

\* A plausible bug: passing over a sector steps by the skew as well.
SkewBump_MUT_BySkew ==
  /\ phase = "skew"
  /\ Taken
  /\ next' = (next + def.skew) % def.sectrk
  /\ UNCHANGED <<def, phase, geom, skewtab, image, device, call>>

\* The inner loop passes over a sector an earlier entry has.
SkewBump ==
  /\ phase = "skew"
  /\ Taken
  /\ next' = (next + 1) % def.sectrk
  /\ UNCHANGED <<def, phase, geom, skewtab, image, device, call>>

SkewTake ==
  /\ phase = "skew"
  /\ ~Taken
  /\ skewtab' = Append(skewtab, next)
  /\ next' = (next + def.skew) % def.sectrk
  /\ phase' = IF Len(skewtab) + 1 = def.sectrk THEN "ready" ELSE "skew"
  /\ UNCHANGED <<def, geom, image, device, call>>

------------------------------------------------------------------------------
Idle == phase = "ready" /\ call = NoCall

Running(kind) == call.kind = kind

\* readBlock and writeBlock work on the sectors from..to of a block, stepping
\* over those before from.
Started(kind, b, from, to, buffer) ==
  [kind |-> kind, block |-> b, at |-> 0, from |-> from, to |-> to,
   sect |-> FirstSector(b) % def.sectrk, track |-> FirstSector(b) \div def.sectrk,
   buffer |-> buffer]

BeginRead(b, from, to) ==
  /\ Idle
  /\ from <= to
  /\ call' = Started("read", b, from, to, [i \in BlockSectors |-> Unread])
  /\ UNCHANGED <<def, phase, geom, skewtab, next, image, device>>

\* "Attempting to access block beyond end of disk"
RefuseBlock(b) ==
  /\ Idle
  /\ b >= Size(def)
  /\ call' = Refused
  /\ UNCHANGED <<def, phase, geom, skewtab, next, image, device>>

BeginWrite(b, from, to, t) ==
  /\ Idle
  /\ from <= to
  /\ call' = Started("write", b, from, to, [i \in BlockSectors |-> <<t, b, i>>])
  /\ UNCHANGED <<def, phase, geom, skewtab, next, image, device>>

\* A plausible bug: the block goes on at the start of the same track.
Advance_MUT_SameTrack(c) ==
  [c EXCEPT !.at = c.at + 1,
            !.sect = IF c.sect + 1 >= def.sectrk THEN 0 ELSE c.sect + 1,
            !.kind = IF c.at = c.to THEN "done" ELSE c.kind]

\* ++counter and ++sect, which goes on with the next track
Advance(c) ==
  [c EXCEPT !.at = c.at + 1,
            !.sect = IF c.sect + 1 >= def.sectrk THEN 0 ELSE c.sect + 1,
            !.track = IF c.sect + 1 >= def.sectrk THEN c.track + 1 ELSE c.track,
            !.kind = IF c.at = c.to THEN "done" ELSE c.kind]

Target == Logical(call.track, skewtab[call.sect + 1])

StepOver ==
  /\ Running("read") \/ Running("write")
  /\ call.at < call.from
  /\ call' = Advance(call)
  /\ UNCHANGED <<def, phase, geom, skewtab, next, image, device>>

\* posix_read: a sector the file does not hold is not found.
CanRead(l) == HasSector(geom, l) /\ Place(geom, l) < Len(image)

ReadSector ==
  /\ Running("read")
  /\ call.at >= call.from
  /\ CanRead(Target)
  /\ call' = Advance([call EXCEPT
       !.buffer[call.at] = image[Place(geom, Target) + 1]])
  /\ UNCHANGED <<def, phase, geom, skewtab, next, image, device>>

Failed == [call EXCEPT !.kind = "failed"]

ReadFails ==
  /\ Running("read")
  /\ call.at >= call.from
  /\ device = "failing" \/ ~CanRead(Target)
  /\ call' = Failed
  /\ UNCHANGED <<def, phase, geom, skewtab, next, image, device>>

------------------------------------------------------------------------------
\* seekto: the image file grows to n sectors of 0xE5.
Filled(n) ==
  [o \in 1..(IF n > Len(image) THEN n ELSE Len(image)) |->
     IF o <= Len(image) THEN image[o] ELSE Filler]

\* posix_write at place p
Stored(p, v) == [Filled(p + 1) EXCEPT ![p + 1] = v]

CanWrite(l) == HasSector(geom, l) /\ device # "readonly"

WriteSector ==
  /\ Running("write")
  /\ call.at >= call.from
  /\ CanWrite(Target)
  /\ Place(geom, Target) < MaxLength
  /\ image' = Stored(Place(geom, Target), call.buffer[call.at])
  /\ call' = Advance(call)
  /\ UNCHANGED <<def, phase, geom, skewtab, next, device>>

\* A failing device may have filled part of a gap.
WriteFails ==
  /\ Running("write")
  /\ call.at >= call.from
  /\ \/ ~CanWrite(Target) /\ image' = image
     \/ /\ device = "failing"
        /\ CanWrite(Target)
        /\ \E n \in Len(image)..Place(geom, Target) :
             n <= MaxLength /\ image' = Filled(n)
     \/ device = "failing" /\ image' = image
  /\ call' = Failed
  /\ UNCHANGED <<def, phase, geom, skewtab, next, device>>

Return ==
  /\ call.kind \in {"done", "failed"}
  /\ call' = NoCall
  /\ UNCHANGED <<def, phase, geom, skewtab, next, image, device>>

Transfer ==
  \/ StepOver
  \/ ReadSector
  \/ ReadFails
  \/ WriteSector
  \/ WriteFails

Next ==
  \/ ChooseGeometry
  \/ SkewBump
  \/ SkewTake
  \/ \E b \in Blocks, from, to \in BlockSectors : BeginRead(b, from, to)
  \/ \E b \in 0..Size(def) : RefuseBlock(b)
  \/ \E b \in Blocks, from, to \in BlockSectors, t \in Tags :
       BeginWrite(b, from, to, t)
  \/ Transfer
  \/ Return

Spec == Init /\ [][Next]_vars

\* The loops run inside one call of the plugin and are never abandoned.
FairSpec ==
  Spec /\ WF_vars(ChooseGeometry \/ SkewBump \/ SkewTake) /\ WF_vars(Transfer)

------------------------------------------------------------------------------
(* What must hold.                                                         *)

Call ==
  [kind: {"read", "write", "done", "failed"}, block: Nat, at: Nat, from: Nat,
   to: Nat, sect: Nat, track: Nat,
   buffer: [BlockSectors -> Data]]

\* Types; the trial sector stays on the track, the table never longer than it.
TypeOK ==
  /\ def \in Definitions
  /\ phase \in {"open", "skew", "ready"}
  /\ geom \in Geometry
  /\ skewtab \in Seq(0..(def.sectrk - 1))
  /\ next \in 0..(def.sectrk - 1)
  /\ image \in Seq(Contents)
  /\ device \in {"works", "readonly", "failing"}
  /\ call \in {NoCall, Refused} \/ call \in Call

\* cpmReadSuper, skew table: whatever the skew, also one that shares a divisor
\* with the sectors per track, every sector of a track is named exactly once.
SkewIsPermutation ==
  phase = "ready" =>
    /\ Len(skewtab) = def.sectrk
    /\ \A s \in 0..(def.sectrk - 1) : \E k \in 1..def.sectrk : skewtab[k] = s

\* What the image holds for a logical sector.
View(l) ==
  IF HasSector(geom, l) /\ Place(geom, l) < Len(image)
  THEN image[Place(geom, l) + 1] ELSE Absent

BlockView ==
  IF phase = "ready"
  THEN [b \in Blocks |-> [i \in BlockSectors |-> View(SectorOf(b, i))]]
  ELSE <<>>

\* What is in front of the directory: the offset and the boot sectors.
BootView ==
  IF phase = "ready"
  THEN [n \in -def.offset..(BootOffset(def) - 1) |->
         View(IF n < 0 THEN n + def.offset ELSE CpmSector(n))]
  ELSE <<>>

Job ==
  IF DOMAIN call = {"kind"} THEN call
  ELSE [kind |-> call.kind, block |-> call.block, at |-> call.at,
        buffer |-> call.buffer]

Promise == INSTANCE BlockArray
             WITH blocks <- BlockView, boot <- BootView, job <- Job

\* readBlock and writeBlock make the image an array of blocks: whatever skew,
\* geometry and offset put where, writing one block changes no other and nothing in
\* front of the directory, also when it fails half way, and reading returns what is
\* stored.
IsBlockArray == Promise!Spec

\* The geometry reaches every sector of the definition.
Fits ==
  /\ LogicalTracks(geom) = def.tracks
  /\ geom.sides = "outback" => geom.heads <= 2
  /\ def.offset = 0

\* Device_setGeometry, readBlock, writeBlock: when the geometry has the tracks of
\* the definition, the image is complete and the device works, no block below
\* d->size fails.
FittingNeverFails ==
  call.kind = "failed" /\ call # Refused =>
    \/ device # "works"
    \/ ~Fits
    \/ Len(image) < def.sectrk * def.tracks

\* cpmReadSuper, readBlock, writeBlock: the loops end; looking for a free sector in
\* the skew table too, which has no bound of its own.
LoopsEnd ==
  /\ <>(phase = "ready")
  /\ Running("read") \/ Running("write") ~> call.kind \in {"done", "failed"}

\* ReadMe.md:199: the image of a definition has "offset + secLength * sectrk *
\* tracks" bytes. On a complete, working image every block below d->size can be
\* read and written.
EveryBlockUsable ==
  call.kind = "failed" /\ call # Refused =>
    \/ device # "works"
    \/ Len(image) < def.offset + def.sectrk * def.tracks

=============================================================================
