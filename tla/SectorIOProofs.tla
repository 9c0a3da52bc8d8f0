--------------------------- MODULE SectorIOProofs ---------------------------
(***************************************************************************)
(* Proofs about SectorIO for every disk definition, geometry and image:    *)
(* the generated skew table is a permutation of the sectors of a track,    *)
(* different logical sectors are different places of the image, and the    *)
(* sector layer implements BlockArray.                                     *)
(***************************************************************************)
EXTENDS SectorIO, FiniteSetTheorems, TLAPS

(***************************************************************************)
(* Quotients and remainders.                                               *)
(***************************************************************************)

\* Division with remainder.
LEMMA DivMod ==
  ASSUME NEW a \in Nat, NEW n \in Nat, n # 0
  PROVE  /\ a \div n \in Nat
         /\ (a % n) \in 0..(n - 1)
         /\ a = (a \div n) * n + (a % n)
  OBVIOUS

\* A product is as large as its factors make it.
LEMMA Monotone ==
  ASSUME NEW p \in Nat, NEW q \in Nat, NEW n \in Nat, p <= q
  PROVE  p * n <= q * n
  OBVIOUS

\* Quotient and remainder determine each other.
LEMMA Unique ==
  ASSUME NEW p \in Nat, NEW q \in Nat, NEW n \in Nat,
         NEW r \in 0..(n - 1), NEW s \in 0..(n - 1),
         p * n + r = q * n + s
  PROVE  p = q /\ r = s
  <1>1. ASSUME NEW x \in Nat, NEW y \in Nat, NEW u \in 0..(n - 1),
               NEW v \in 0..(n - 1), x < y
        PROVE  x * n + u < y * n + v
    <2>1. (x + 1) * n <= y * n  BY <1>1, Monotone
    <2>2. (x + 1) * n = x * n + n  OBVIOUS
    <2>3. x * n \in Nat /\ y * n \in Nat  OBVIOUS
    <2> QED  BY <2>1, <2>2, <2>3
  <1>2. ~(p < q)  BY <1>1
  <1>3. ~(q < p)  BY <1>1
  <1>4. p = q  BY <1>2, <1>3
  <1>5. p * n \in Nat  OBVIOUS
  <1> QED  BY <1>4, <1>5

\* The successor of a number below the end of its row, and at the end of it.
LEMMA SuccDivMod ==
  ASSUME NEW a \in Nat, NEW n \in Nat, n # 0
  PROVE  /\ (a % n) + 1 < n => ((a + 1) % n) = (a % n) + 1 /\ (a + 1) \div n = a \div n
         /\ (a % n) + 1 >= n => ((a + 1) % n) = 0 /\ (a + 1) \div n = a \div n + 1
  <1>1. /\ a \div n \in Nat
        /\ (a % n) \in 0..(n - 1)
        /\ a = (a \div n) * n + (a % n)
    BY DivMod
  <1>2. /\ (a + 1) \div n \in Nat
        /\ ((a + 1) % n) \in 0..(n - 1)
        /\ a + 1 = ((a + 1) \div n) * n + ((a + 1) % n)
    BY DivMod, a + 1 \in Nat
  <1>3. (a \div n) * n \in Nat /\ ((a + 1) \div n) * n \in Nat  BY <1>1, <1>2
  <1>4. CASE (a % n) + 1 < n
    <2>1. (a \div n) * n + ((a % n) + 1) = ((a + 1) \div n) * n + ((a + 1) % n)
      BY <1>1, <1>2, <1>3
    <2>2. (a % n) + 1 \in 0..(n - 1)  BY <1>1, <1>4
    <2> QED  BY <1>1, <1>2, <1>4, <2>1, <2>2, Unique
  <1>5. CASE (a % n) + 1 >= n
    <2>1. (a % n) + 1 = n  BY <1>1, <1>5
    <2>2. (a \div n + 1) * n = (a \div n) * n + n  BY <1>1
    <2>3. (a \div n + 1) * n + 0 = ((a + 1) \div n) * n + ((a + 1) % n)
      BY <1>1, <1>2, <1>3, <2>1, <2>2
    <2>4. 0 \in 0..(n - 1) /\ a \div n + 1 \in Nat  BY <1>1
    <2> QED  BY <1>1, <1>2, <1>5, <2>3, <2>4, Unique
  <1> QED  BY <1>1, <1>4, <1>5

\* A quotient below a bound.
LEMMA DivBelow ==
  ASSUME NEW a \in Nat, NEW n \in Nat, NEW c \in Nat, a < c * n
  PROVE  n # 0 /\ a \div n < c
  <1>1. n # 0  OBVIOUS
  <1>2. a \div n \in Nat /\ (a % n) \in Nat /\ a = (a \div n) * n + (a % n)
    BY <1>1, DivMod
  <1>3. SUFFICES ASSUME c <= a \div n PROVE FALSE  BY <1>1, <1>2
  <1>4. c * n <= (a \div n) * n  BY <1>2, <1>3, Monotone
  <1>5. c * n \in Nat /\ (a \div n) * n \in Nat  BY <1>2
  <1> QED  BY <1>2, <1>4, <1>5

(***************************************************************************)
(* Geometry.                                                               *)
(***************************************************************************)

\* Device_setGeometry settles on a geometry.
LEMMA SetGeometryType ==
  ASSUME NEW g \in Geometry, NEW t \in Nat, NEW n \in Nat
  PROVE  SetGeometry(g, t, n) \in Geometry
  <1>1. t \div 2 \in Nat  OBVIOUS
  <1> QED  BY <1>1 DEF SetGeometry, Geometry, Sides

\* dg_lt2pt: a track of the disk is on one of its heads and cylinders.
LEMMA TrackPlace ==
  ASSUME NEW g \in Geometry, g.heads # 0, NEW t \in Nat, t < LogicalTracks(g),
         g.sides = "outback" => g.heads <= 2
  PROVE  Cylinder(g, t) \in Nat /\ Surface(g, t) \in 0..(g.heads - 1)
  <1>1. g.heads \in Nat /\ g.cylinders \in Nat /\ g.sides \in Sides
    BY DEF Geometry
  <1>2. t < g.cylinders * g.heads  BY DEF LogicalTracks
  <1>3. CASE g.sides = "alt"
    BY <1>1, <1>3, DivMod DEF Cylinder, Surface
  <1>4. CASE g.sides = "outback"
    <2>1. g.heads = 1 \/ g.heads = 2  BY <1>1, <1>4
    <2>2. t < g.cylinders \/ (g.heads = 2 /\ t < 2 * g.cylinders)
      BY <1>1, <1>2, <2>1
    <2> QED  BY <1>1, <1>4, <2>2, <2>1 DEF Cylinder, Surface
  <1>5. CASE g.sides = "outout"
    <2>1. g.cylinders * g.heads = g.heads * g.cylinders  BY <1>1
    <2>2. g.cylinders # 0 /\ t \div g.cylinders < g.heads
      BY <1>1, <1>2, <2>1, DivBelow
    <2>3. t \div g.cylinders \in Nat /\ t % g.cylinders \in Nat
      BY <1>1, <2>2, DivMod
    <2> QED  BY <1>1, <1>5, <2>2, <2>3 DEF Cylinder, Surface
  <1> QED  BY <1>1, <1>3, <1>4, <1>5 DEF Sides

\* dg_lt2pt: different tracks are different places of the disk.
LEMMA TracksApart ==
  ASSUME NEW g \in Geometry, g.heads # 0, g.sides = "outback" => g.heads <= 2,
         NEW t \in Nat, t < LogicalTracks(g),
         NEW u \in Nat, u < LogicalTracks(g),
         Cylinder(g, t) = Cylinder(g, u), Surface(g, t) = Surface(g, u)
  PROVE  t = u
  <1>1. g.heads \in Nat /\ g.cylinders \in Nat /\ g.sides \in Sides
    BY DEF Geometry
  <1>2. t < g.cylinders * g.heads /\ u < g.cylinders * g.heads
    BY DEF LogicalTracks
  <1>3. CASE g.sides = "alt"
    <2>1. t \div g.heads = u \div g.heads /\ t % g.heads = u % g.heads
      BY <1>3 DEF Cylinder, Surface
    <2> QED  BY <1>1, <2>1, DivMod
  <1>4. CASE g.sides = "outback"
    <2>1. g.heads = 1 \/ g.heads = 2  BY <1>1, <1>4
    <2>2. t < 2 * g.cylinders /\ u < 2 * g.cylinders
      BY <1>1, <1>2, <2>1
    <2> QED  BY <1>1, <1>4, <2>2 DEF Cylinder, Surface
  <1>5. CASE g.sides = "outout"
    <2>1. g.cylinders # 0  BY <1>1, <1>2
    <2>2. t \div g.cylinders = u \div g.cylinders /\ t % g.cylinders = u % g.cylinders
      BY <1>5 DEF Cylinder, Surface
    <2> QED  BY <1>1, <2>1, <2>2, DivMod
  <1> QED  BY <1>1, <1>3, <1>4, <1>5 DEF Sides

\* dg_ls2ps: a sector of the disk is on one of its tracks.
LEMMA SectorTrack ==
  ASSUME NEW g \in Geometry, NEW l \in Nat, HasSector(g, l)
  PROVE  /\ g.sectors \in Nat /\ g.sectors # 0
         /\ l \div g.sectors \in Nat
         /\ l \div g.sectors < LogicalTracks(g)
         /\ l % g.sectors \in 0..(g.sectors - 1)
         /\ l = (l \div g.sectors) * g.sectors + (l % g.sectors)
  <1>1. g.heads \in Nat /\ g.cylinders \in Nat /\ g.sectors \in Nat
    BY DEF Geometry
  <1>2. g.sectors # 0 /\ l < LogicalTracks(g) * g.sectors  BY DEF HasSector
  <1>3. LogicalTracks(g) \in Nat  BY <1>1 DEF LogicalTracks
  <1>4. l \div g.sectors < LogicalTracks(g)  BY <1>1, <1>2, <1>3, DivBelow
  <1> QED  BY <1>1, <1>2, <1>4, DivMod

\* The place of a sector in the image file is a number.
LEMMA PlaceType ==
  ASSUME NEW g \in Geometry, NEW l \in Nat, HasSector(g, l)
  PROVE  Place(g, l) \in Nat
  <1> DEFINE t == l \div g.sectors
  <1>1. /\ g.sectors \in Nat
        /\ t \in Nat /\ t < LogicalTracks(g)
        /\ l % g.sectors \in Nat
    BY SectorTrack
  <1>2. Cylinder(g, t) \in Nat /\ Surface(g, t) \in Nat
    BY <1>1, TrackPlace DEF HasSector, Geometry
  <1>3. Cylinder(g, t) * g.heads + Surface(g, t) \in Nat
    BY <1>2 DEF Geometry
  <1>4. (Cylinder(g, t) * g.heads + Surface(g, t)) * g.sectors \in Nat
    BY <1>1, <1>3
  <1> QED  BY <1>1, <1>4 DEF Place, PosixOffset

\* Different sectors of the disk are different places of the image file, whatever
\* sides the geometry has and although the image always alternates them.
THEOREM PlacesApart ==
  ASSUME NEW g \in Geometry, NEW l \in Nat, HasSector(g, l),
         NEW m \in Nat, HasSector(g, m), Place(g, l) = Place(g, m)
  PROVE  l = m
  <1> DEFINE t == l \div g.sectors
             u == m \div g.sectors
             r == l % g.sectors
             s == m % g.sectors
             ct == Cylinder(g, t)
             cu == Cylinder(g, u)
             ht == Surface(g, t)
             hu == Surface(g, u)
  <1>1. /\ g.sectors \in Nat /\ g.heads \in Nat /\ g.heads # 0
        /\ t \in Nat /\ t < LogicalTracks(g) /\ r \in 0..(g.sectors - 1)
        /\ u \in Nat /\ u < LogicalTracks(g) /\ s \in 0..(g.sectors - 1)
        /\ l = t * g.sectors + r /\ m = u * g.sectors + s
    BY SectorTrack DEF HasSector, Geometry
  <1>2. g.sides = "outback" => g.heads <= 2  BY DEF HasSector
  <1>3. ct \in Nat /\ ht \in 0..(g.heads - 1) /\ cu \in Nat /\ hu \in 0..(g.heads - 1)
    BY <1>1, <1>2, TrackPlace
  <1>4. (ct * g.heads + ht) * g.sectors + r = (cu * g.heads + hu) * g.sectors + s
    BY DEF Place, PosixOffset
  <1> HIDE DEF t, u, r, s, ct, cu, ht, hu
  <1> DEFINE p == ct * g.heads + ht
             q == cu * g.heads + hu
  <1>5. p \in Nat /\ q \in Nat
    <2>1. ct * g.heads \in Nat /\ cu * g.heads \in Nat  BY <1>1, <1>3
    <2> QED  BY <1>1, <1>3, <2>1
  <1>6. p = q /\ r = s
    <2> DEFINE n == g.sectors
    <2>1. p * n + r = q * n + s  BY <1>4
    <2>2. n \in Nat /\ r \in 0..(n - 1) /\ s \in 0..(n - 1)  BY <1>1
    <2> HIDE DEF p, q, n
    <2> QED  BY <1>5, <2>1, <2>2, Unique
  <1>7. ct = cu /\ ht = hu  BY <1>1, <1>3, <1>6, Unique
  <1>8. t = u  BY <1>1, <1>2, <1>7, TracksApart DEF ct, cu, ht, hu
  <1> QED  BY <1>1, <1>6, <1>8

(***************************************************************************)
(* The inductive invariant.                                                *)
(***************************************************************************)

TableOK ==
  /\ \A i, k \in 1..Len(skewtab) : skewtab[i] = skewtab[k] => i = k
  /\ phase = "open" => skewtab = <<>>
  /\ phase = "skew" => Len(skewtab) < def.sectrk
  /\ phase = "ready" => Len(skewtab) = def.sectrk

Busy == call.kind \in {"read", "write"}

\* sect and track are where the sector at of the block is.
CallOK ==
  /\ call.kind # "none" => phase = "ready"
  /\ Busy =>
       /\ call \in Call
       /\ call.block \in Blocks
       /\ call.at <= call.to
       /\ call.to \in BlockSectors
       /\ call.sect = (FirstSector(call.block) + call.at) % def.sectrk
       /\ call.track = (FirstSector(call.block) + call.at) \div def.sectrk
  /\ call.kind = "write" => call.buffer \in [BlockSectors -> Contents]

IInv == TypeOK /\ TableOK /\ CallOK

\* What a disk definition is made of.
LEMMA DefinitionType ==
  ASSUME def \in Definitions
  PROVE  /\ def.sectrk \in Nat /\ def.sectrk # 0
         /\ def.tracks \in Nat
         /\ def.skew \in Nat
         /\ def.blk \in Nat /\ def.blk # 0
         /\ def.offset \in Nat
         /\ def.skewtab \in Seq(Nat)
         /\ BootOffset(def) \in Nat
  <1>1. def \in Definition  BY DefinitionAssumption
  <1>2. def.boottrk * def.sectrk \in Nat  BY <1>1 DEF Definition
  <1> QED  BY <1>1, <1>2 DEF Definition, BootOffset

\* A block starts at a numbered sector.
LEMMA FirstSectorType ==
  ASSUME def \in Definitions, NEW b \in Nat
  PROVE  FirstSector(b) \in Nat
  <1>1. b * def.blk \in Nat  BY DefinitionType
  <1> QED  BY <1>1, DefinitionType DEF FirstSector

\* The loop over the sectors of a block goes on at the next sector.
LEMMA AdvanceOK ==
  ASSUME IInv, Busy, NEW STATE c, c \in Call,
         c.kind = call.kind, c.block = call.block, c.at = call.at,
         c.to = call.to, c.sect = call.sect, c.track = call.track,
         c.kind = "write" => c.buffer = call.buffer,
         call' = Advance(c), UNCHANGED <<def, phase>>
  PROVE  /\ call' \in Call'
         /\ CallOK'
  <1> DEFINE n == FirstSector(call.block) + call.at
  <1>1. phase = "ready" /\ call \in Call /\ call.block \in Nat /\ call.at \in Nat
        /\ call.to \in BlockSectors /\ call.at <= call.to
        /\ def \in Definitions /\ call.to \in Nat
    BY DEF IInv, CallOK, Busy, TypeOK, Call, BlockSectors
  <1>2. def.sectrk \in Nat /\ def.sectrk # 0 /\ def.blk \in Nat
    BY <1>1, DefinitionType
  <1>3. FirstSector(call.block) \in Nat /\ n \in Nat  BY <1>1, FirstSectorType
  <1>4. c.sect = n % def.sectrk /\ c.track = n \div def.sectrk
    BY DEF IInv, CallOK
  <1>5. /\ c.sect + 1 >= def.sectrk =>
             (n + 1) % def.sectrk = 0 /\ (n + 1) \div def.sectrk = c.track + 1
        /\ c.sect + 1 < def.sectrk =>
             /\ (n + 1) % def.sectrk = c.sect + 1
             /\ (n + 1) \div def.sectrk = c.track
    <2> DEFINE m == def.sectrk
    <2>1. m \in Nat /\ m # 0 /\ n \in Nat  BY <1>2, <1>3
    <2> HIDE DEF n, m
    <2>2. /\ (n % m) + 1 < m => (n + 1) % m = (n % m) + 1 /\ (n + 1) \div m = n \div m
          /\ (n % m) + 1 >= m => (n + 1) % m = 0 /\ (n + 1) \div m = (n \div m) + 1
      BY <2>1, SuccDivMod
    <2>3. c.sect = n % m /\ c.track = n \div m  BY <1>4 DEF m
    <2>4. /\ c.sect + 1 < m => (n + 1) % m = c.sect + 1 /\ (n + 1) \div m = c.track
          /\ c.sect + 1 >= m => (n + 1) % m = 0 /\ (n + 1) \div m = c.track + 1
      BY <2>2, <2>3
    <2> QED  BY <2>4 DEF m
  <1>6. FirstSector(call.block) + (call.at + 1) = n + 1  BY <1>1, <1>3
  <1> DEFINE wrap == c.sect + 1 >= def.sectrk
             d == [c EXCEPT !.at = c.at + 1,
                            !.sect = IF wrap THEN 0 ELSE c.sect + 1,
                            !.track = IF wrap THEN c.track + 1 ELSE c.track,
                            !.kind = IF c.at = c.to THEN "done" ELSE c.kind]
  <1>7. /\ d.block = c.block /\ d.at = c.at + 1 /\ d.to = c.to
        /\ d.sect = (IF wrap THEN 0 ELSE c.sect + 1)
        /\ d.track = (IF wrap THEN c.track + 1 ELSE c.track)
        /\ d.kind = (IF c.at = c.to THEN "done" ELSE c.kind)
        /\ d \in Call
    <2> DEFINE s == IF wrap THEN 0 ELSE c.sect + 1
               t == IF wrap THEN c.track + 1 ELSE c.track
               k == IF c.at = c.to THEN "done" ELSE c.kind
    <2>1. c \in Call /\ c.kind \in {"read", "write"}  BY DEF Busy
    <2>2. c.at + 1 \in Nat /\ s \in Nat /\ t \in Nat /\ k \in {"read", "write", "done"}
      BY <2>1 DEF Call
    <2> HIDE DEF s, t, k
    <2>3. d = [c EXCEPT !.at = c.at + 1, !.sect = s, !.track = t, !.kind = k]
      BY DEF s, t, k
    <2>4. /\ d.block = c.block /\ d.at = c.at + 1 /\ d.to = c.to
          /\ d.sect = s /\ d.track = t /\ d.kind = k /\ d \in Call
      <3> HIDE DEF d
      <3> QED  BY <2>1, <2>2, <2>3 DEF Call
    <2> QED  BY <2>4 DEF s, t, k
  <1>8. call' = d  BY DEF Advance
  <1> HIDE DEF d
  <1>9. call' \in Call'
    BY <1>7, <1>8 DEF Call, BlockSectors, Data, Contents
  <1>10. d.sect = (n + 1) % def.sectrk /\ d.track = (n + 1) \div def.sectrk
    <2>1. c.sect \in Nat  BY DEF Call
    <2> HIDE DEF n
    <2> QED  BY <1>2, <1>5, <1>7, <2>1
  <1>11. (FirstSector(call.block) + call.at)' = n + 1
    <2>1. FirstSector(call.block)' = FirstSector(call.block)
      BY <1>7, <1>8 DEF FirstSector, BootOffset
    <2>2. call'.at = call.at + 1  BY <1>7, <1>8
    <2> QED  BY <1>6, <2>1, <2>2
  <1>12. Busy' => call'.at <= call'.to
    BY <1>1, <1>7, <1>8 DEF Busy
  <1>13. (call.block \in Blocks)' /\ (call.to \in BlockSectors)'
    BY <1>1, <1>7, <1>8 DEF IInv, CallOK, Blocks, BlockSectors, Size, BootOffset
  <1>14. /\ call'.sect = (FirstSector(call.block) + call.at)' % def'.sectrk
         /\ call'.track = (FirstSector(call.block) + call.at)' \div def'.sectrk
    <2> HIDE DEF n
    <2> QED  BY <1>8, <1>10, <1>11
  <1>15. call'.kind = "write" => (call.buffer \in [BlockSectors -> Contents])'
    <2>1. d.buffer = c.buffer  BY DEF d, Call
    <2>2. d.kind = "write" => c.kind = "write"  BY <1>7
    <2>3. call.kind = "write" => call.buffer \in [BlockSectors -> Contents]
      BY DEF IInv, CallOK
    <2> QED  BY <1>8, <2>1, <2>2, <2>3 DEF BlockSectors, Contents
  <1> QED  BY <1>1, <1>9, <1>12, <1>13, <1>14, <1>15 DEF CallOK

\* The state Device_open leaves satisfies the invariant.
LEMMA InitInv ==
  ASSUME Init
  PROVE  IInv
  <1>1. def \in Definitions /\ 0 \in 0..(def.sectrk - 1)
    BY DefinitionType DEF Init
  <1>2. geom \in Geometry  BY DefinitionAssumption DEF Init
  <1>3. image \in Seq(Contents)
    <2>1. PICK n \in FileLengths : image = [o \in 1..n |-> Old(o - 1)]
      BY DEF Init
    <2>2. n \in Nat  BY DefinitionAssumption
    <2>3. \A o \in 1..n : Old(o - 1) \in Contents
      BY <2>2 DEF Old, Contents
    <2> QED  BY <2>1, <2>2, <2>3
  <1>4. TypeOK  BY <1>1, <1>2, <1>3 DEF Init, TypeOK, NoCall
  <1>5. TableOK  BY DEF Init, TableOK
  <1>6. CallOK  BY DEF Init, CallOK, NoCall, Busy
  <1> QED  BY <1>4, <1>5, <1>6 DEF IInv

\* A type is a type of the next state as well while the definition stays.
LEMMA CallPrime ==
  ASSUME UNCHANGED def
  PROVE  Call' = Call
  BY DEF Call, BlockSectors, Data, Contents

\* Choosing the geometry, and an explicit skew table, keeps the invariant.
LEMMA ChooseGeometryInv ==
  ASSUME IInv, ChooseGeometry
  PROVE  IInv'
  <1>1. /\ def \in Definitions /\ geom \in Geometry /\ phase = "open"
        /\ call.kind = "none" /\ call = NoCall
    BY DEF IInv, TypeOK, CallOK, ChooseGeometry, NoCall, Refused, Call
  <1>2. geom' \in Geometry
    BY <1>1, SetGeometryType, DefinitionType DEF ChooseGeometry
  <1>3. /\ skewtab' \in Seq(0..(def.sectrk - 1))
        /\ \A i, k \in 1..Len(skewtab') : skewtab'[i] = skewtab'[k] => i = k
        /\ def.skewtab = <<>> => Len(skewtab') = 0
        /\ def.skewtab # <<>> => Len(skewtab') = def.sectrk
    <2>1. skewtab' = def.skewtab  BY DEF ChooseGeometry
    <2>2. CASE def.skewtab = <<>>
      BY <2>1, <2>2
    <2>3. CASE def.skewtab # <<>>
      <3>1. /\ Len(def.skewtab) = def.sectrk
            /\ \A i \in 1..def.sectrk : def.skewtab[i] < def.sectrk
            /\ \A i, k \in 1..def.sectrk : def.skewtab[i] = def.skewtab[k] => i = k
        BY <1>1, <2>3, DefinitionAssumption
      <3>2. def.skewtab \in Seq(Nat) /\ def.sectrk \in Nat
        BY <1>1, DefinitionType
      <3>3. def.skewtab \in Seq(0..(def.sectrk - 1))
        <4>1. \A i \in 1..Len(def.skewtab) : def.skewtab[i] \in 0..(def.sectrk - 1)
          BY <3>1, <3>2
        <4> QED  BY <3>2, <4>1
      <3> QED  BY <2>1, <2>3, <3>1, <3>3
    <2> QED  BY <2>2, <2>3
  <1>4. phase' = (IF def.skewtab = <<>> THEN "skew" ELSE "ready")
    BY DEF ChooseGeometry
  <1>5. TypeOK'
    BY <1>1, <1>2, <1>3, <1>4 DEF IInv, TypeOK, ChooseGeometry
  <1>6. TableOK'
    <2>1. def.sectrk \in Nat /\ def.sectrk # 0 /\ def' = def
      BY <1>1, DefinitionType DEF ChooseGeometry
    <2> QED  BY <1>3, <1>4, <2>1 DEF TableOK
  <1>7. CallOK'
    BY <1>1 DEF CallOK, ChooseGeometry, Busy
  <1> QED  BY <1>5, <1>6, <1>7 DEF IInv

\* Trying the next sector keeps it on the track.
LEMMA SkewBumpInv ==
  ASSUME IInv, SkewBump
  PROVE  IInv'
  <1>1. def \in Definitions /\ next \in Nat
    BY DEF IInv, TypeOK
  <1>2. def.sectrk \in Nat /\ def.sectrk # 0  BY <1>1, DefinitionType
  <1>3. next' \in 0..(def.sectrk - 1)
    <2>1. next + 1 \in Nat  BY <1>1
    <2> QED  BY <1>2, <2>1, DivMod DEF SkewBump
  <1>4. TypeOK'
    BY <1>3, CallPrime DEF IInv, TypeOK, SkewBump
  <1>5. TableOK' /\ CallOK'
    BY CallPrime DEF IInv, TableOK, CallOK, SkewBump, Busy, Blocks, BlockSectors,
       FirstSector, Size, BootOffset
  <1> QED  BY <1>4, <1>5 DEF IInv

\* A sector no entry has becomes the next entry: the entries stay different.
LEMMA SkewTakeInv ==
  ASSUME IInv, SkewTake
  PROVE  IInv'
  <1>1. /\ def \in Definitions /\ next \in 0..(def.sectrk - 1) /\ next \in Nat
        /\ skewtab \in Seq(0..(def.sectrk - 1)) /\ phase = "skew"
        /\ Len(skewtab) < def.sectrk
    BY DEF IInv, TypeOK, TableOK, SkewTake
  <1>2. def.sectrk \in Nat /\ def.sectrk # 0 /\ def.skew \in Nat
    BY <1>1, DefinitionType
  <1>3. next' \in 0..(def.sectrk - 1)
    <2>1. next + def.skew \in Nat  BY <1>1, <1>2
    <2> QED  BY <1>2, <2>1, DivMod DEF SkewTake
  <1>4. skewtab' = Append(skewtab, next)  BY DEF SkewTake
  <1>5. /\ skewtab' \in Seq(0..(def.sectrk - 1))
        /\ Len(skewtab') = Len(skewtab) + 1
        /\ \A i \in 1..Len(skewtab) : skewtab'[i] = skewtab[i]
        /\ skewtab'[Len(skewtab) + 1] = next
    BY <1>1, <1>4
  <1>6. ASSUME NEW i \in 1..Len(skewtab'), NEW k \in 1..Len(skewtab'),
               skewtab'[i] = skewtab'[k]
        PROVE  i = k
    <2>1. \A e \in 1..Len(skewtab) : skewtab[e] # next
      BY DEF SkewTake, Taken
    <2>2. Len(skewtab) \in Nat  BY <1>1
    <2>3. \A e, f \in 1..Len(skewtab) : skewtab[e] = skewtab[f] => e = f
      BY DEF IInv, TableOK
    <2> QED  BY <1>5, <1>6, <2>1, <2>2, <2>3
  <1>7. TypeOK'
    BY <1>3, <1>5, CallPrime DEF IInv, TypeOK, SkewTake
  <1>8. TableOK'
    <2>1. /\ def' = def
          /\ phase' = (IF Len(skewtab) + 1 = def.sectrk THEN "ready" ELSE "skew")
      BY DEF SkewTake
    <2>2. Len(skewtab) \in Nat  BY <1>1
    <2> QED  BY <1>1, <1>2, <1>5, <1>6, <2>1, <2>2 DEF TableOK
  <1>9. CallOK'
    <2>1. call.kind = "none" /\ call' = call
      BY <1>1 DEF IInv, CallOK, SkewTake
    <2> QED  BY <2>1 DEF CallOK, Busy
  <1> QED  BY <1>7, <1>8, <1>9 DEF IInv

\* readBlock and writeBlock start at the first sector of the block.
LEMMA StartedInv ==
  ASSUME IInv, Idle, NEW kind \in {"read", "write"}, NEW b \in Blocks,
         NEW from \in BlockSectors, NEW to \in BlockSectors,
         NEW buffer \in [BlockSectors -> Data],
         kind = "write" => buffer \in [BlockSectors -> Contents],
         call' = Started(kind, b, from, to, buffer),
         UNCHANGED <<def, phase, geom, skewtab, next, image, device>>
  PROVE  IInv'
  <1>1. def \in Definitions /\ phase = "ready" /\ b \in Nat /\ to \in Nat /\ from \in Nat
    BY DEF IInv, TypeOK, Idle, Blocks, BlockSectors
  <1>2. def.sectrk \in Nat /\ def.sectrk # 0 /\ FirstSector(b) \in Nat
    BY <1>1, DefinitionType, FirstSectorType
  <1>3. FirstSector(b) % def.sectrk \in Nat /\ FirstSector(b) \div def.sectrk \in Nat
    <2> DEFINE n == FirstSector(b)
               m == def.sectrk
    <2>1. n \in Nat /\ m \in Nat /\ m # 0  BY <1>2
    <2> HIDE DEF n, m
    <2>2. n % m \in Nat /\ n \div m \in Nat  BY <2>1, DivMod
    <2> QED  BY <2>2 DEF n, m
  <1>4. call' \in Call
    BY <1>1, <1>3 DEF Call, Started
  <1>5. TypeOK' /\ TableOK'
    BY <1>4, CallPrime DEF IInv, TypeOK, TableOK
  <1>6. /\ call'.block = b /\ call'.at = 0 /\ call'.to = to
        /\ call'.sect = FirstSector(b) % def.sectrk
        /\ call'.track = FirstSector(b) \div def.sectrk
    BY DEF Started
  <1>7. (FirstSector(call.block) + call.at)' = FirstSector(b)
    <2>1. FirstSector(call.block)' = FirstSector(b)
      BY <1>6 DEF FirstSector, BootOffset
    <2> QED  BY <1>2, <1>6, <2>1
  <1>8. (call.block \in Blocks)' /\ (call.to \in BlockSectors)'
    BY <1>6 DEF Blocks, BlockSectors, Size, BootOffset
  <1>9. CallOK'
    <2>1. call' \in Call'  BY <1>4, CallPrime
    <2>2. /\ call'.sect = (FirstSector(call.block) + call.at)' % def'.sectrk
          /\ call'.track = (FirstSector(call.block) + call.at)' \div def'.sectrk
      BY <1>6, <1>7
    <2>3. call'.at <= call'.to  BY <1>1, <1>6
    <2>4. call'.kind = "write" => (call.buffer \in [BlockSectors -> Contents])'
      BY DEF Started, BlockSectors, Contents
    <2> QED  BY <1>1, <1>8, <2>1, <2>2, <2>3, <2>4 DEF CallOK
  <1> QED  BY <1>5, <1>9 DEF IInv

\* Reading starts with an empty buffer.
LEMMA BeginReadInv ==
  ASSUME IInv, NEW b \in Blocks, NEW from \in BlockSectors, NEW to \in BlockSectors,
         BeginRead(b, from, to)
  PROVE  IInv'
  <1>1. [i \in BlockSectors |-> Unread] \in [BlockSectors -> Data]  BY DEF Data
  <1> QED  BY <1>1, StartedInv DEF BeginRead

\* Writing starts with the data of the block.
LEMMA BeginWriteInv ==
  ASSUME IInv, NEW b \in Blocks, NEW from \in BlockSectors, NEW to \in BlockSectors,
         NEW t \in Tags, BeginWrite(b, from, to, t)
  PROVE  IInv'
  <1>1. b \in Nat /\ BlockSectors \subseteq Nat
    BY DEF Blocks, BlockSectors
  <1>2. /\ [i \in BlockSectors |-> <<t, b, i>>] \in [BlockSectors -> Contents]
        /\ [i \in BlockSectors |-> <<t, b, i>>] \in [BlockSectors -> Data]
    BY <1>1 DEF Data, Contents
  <1> QED  BY <1>2, StartedInv DEF BeginWrite

\* A result and no call at all satisfy the invariant.
LEMMA EndedInv ==
  ASSUME IInv, phase = "ready", ~Busy',
         call' \in Call \/ call' \in {NoCall, Refused}, image' \in Seq(Contents),
         UNCHANGED <<def, phase, geom, skewtab, next, device>>
  PROVE  IInv'
  <1>1. TypeOK'  BY CallPrime DEF IInv, TypeOK
  <1>2. TableOK'  BY DEF IInv, TableOK
  <1>3. CallOK'  BY DEF CallOK, Busy
  <1> QED  BY <1>1, <1>2, <1>3 DEF IInv

\* A call that goes on keeps the invariant, whatever it read or stored.
LEMMA AdvanceInv ==
  ASSUME IInv, Busy, NEW STATE c, c \in Call,
         c.kind = call.kind, c.block = call.block, c.at = call.at,
         c.to = call.to, c.sect = call.sect, c.track = call.track,
         c.kind = "write" => c.buffer = call.buffer,
         call' = Advance(c), image' \in Seq(Contents),
         UNCHANGED <<def, phase, geom, skewtab, next, device>>
  PROVE  IInv'
  <1>1. call' \in Call' /\ CallOK'  BY AdvanceOK
  <1>2. TypeOK'  BY <1>1 DEF IInv, TypeOK
  <1>3. TableOK'  BY DEF IInv, TableOK
  <1> QED  BY <1>1, <1>2, <1>3 DEF IInv

\* The sector a running call is at.
LEMMA TargetType ==
  ASSUME IInv, Busy
  PROVE  /\ Target \in Nat
         /\ Target = SectorOf(call.block, call.at)
         /\ call.at \in BlockSectors
  <1> DEFINE n == FirstSector(call.block) + call.at
             m == def.sectrk
  <1>1. /\ def \in Definitions /\ call.block \in Nat /\ call.at \in Nat
        /\ skewtab \in Seq(0..(def.sectrk - 1)) /\ Len(skewtab) = def.sectrk
        /\ call.sect = n % m /\ call.track = n \div m
        /\ call.at <= call.to /\ call.to \in BlockSectors
    BY DEF IInv, TypeOK, TableOK, CallOK, Busy, Call
  <1>2. m \in Nat /\ m # 0 /\ def.offset \in Nat /\ def.blk \in Nat
    BY <1>1, DefinitionType
  <1>3. n \in Nat
    <2>1. FirstSector(call.block) \in Nat  BY <1>1, FirstSectorType
    <2> QED  BY <1>1, <2>1
  <1>4. n % m \in 0..(m - 1) /\ n \div m \in Nat
    <2> HIDE DEF n, m
    <2> QED  BY <1>2, <1>3, DivMod
  <1>5. skewtab[call.sect + 1] \in Nat
    <2> HIDE DEF n
    <2>1. call.sect + 1 \in 1..Len(skewtab)  BY <1>1, <1>2, <1>4
    <2> QED  BY <1>1, <2>1
  <1>6. call.track * m \in Nat  BY <1>1, <1>2, <1>4
  <1>7. Target \in Nat  BY <1>2, <1>5, <1>6 DEF Target, Logical
  <1>8. Target = SectorOf(call.block, call.at)
    BY <1>1 DEF Target, SectorOf, CpmSector
  <1>9. call.at \in BlockSectors  BY <1>1, <1>2 DEF BlockSectors
  <1> QED  BY <1>7, <1>8, <1>9

\* What seekto and posix_write leave is an image of sectors.
LEMMA FilledType ==
  ASSUME image \in Seq(Contents), NEW n \in Nat
  PROVE  /\ Filled(n) \in Seq(Contents)
         /\ Len(Filled(n)) = (IF n > Len(image) THEN n ELSE Len(image))
         /\ \A o \in 1..Len(Filled(n)) :
              Filled(n)[o] = (IF o <= Len(image) THEN image[o] ELSE Filler)
  <1> DEFINE k == IF n > Len(image) THEN n ELSE Len(image)
  <1>1. k \in Nat /\ Len(image) \in Nat /\ k >= Len(image)  OBVIOUS
  <1> HIDE DEF k
  <1>2. Filled(n) = [o \in 1..k |-> IF o <= Len(image) THEN image[o] ELSE Filler]
    BY DEF Filled, k
  <1>3. \A o \in 1..k : (IF o <= Len(image) THEN image[o] ELSE Filler) \in Contents
    BY <1>1 DEF Filler, Contents
  <1>4. Filled(n) \in Seq(Contents) /\ Len(Filled(n)) = k
    BY <1>1, <1>2, <1>3
  <1> QED  BY <1>2, <1>4 DEF k

\* posix_write changes one sector behind what seekto leaves.
LEMMA StoredType ==
  ASSUME image \in Seq(Contents), NEW p \in Nat, NEW v \in Contents
  PROVE  /\ Stored(p, v) \in Seq(Contents)
         /\ Len(Stored(p, v)) = (IF p + 1 > Len(image) THEN p + 1 ELSE Len(image))
         /\ \A o \in 1..Len(Stored(p, v)) :
              Stored(p, v)[o] = (IF o = p + 1 THEN v
                                 ELSE IF o <= Len(image) THEN image[o] ELSE Filler)
  <1>1. p + 1 \in Nat  OBVIOUS
  <1>2. /\ Filled(p + 1) \in Seq(Contents)
        /\ Len(Filled(p + 1)) = (IF p + 1 > Len(image) THEN p + 1 ELSE Len(image))
        /\ \A o \in 1..Len(Filled(p + 1)) :
             Filled(p + 1)[o] = (IF o <= Len(image) THEN image[o] ELSE Filler)
    BY <1>1, FilledType
  <1> DEFINE f == Filled(p + 1)
  <1> HIDE DEF f
  <1>3. Stored(p, v) = [f EXCEPT ![p + 1] = v]  BY DEF Stored, f
  <1>4. p + 1 \in 1..Len(f)  BY <1>2 DEF f
  <1>5. f \in Seq(Contents) BY <1>2 DEF f
  <1>6. Stored(p, v) \in Seq(Contents) /\ Len(Stored(p, v)) = Len(f)
        /\ \A o \in 1..Len(f) : Stored(p, v)[o] = IF o = p + 1 THEN v ELSE f[o]
    BY <1>3, <1>4, <1>5
  <1> QED  BY <1>2, <1>6 DEF f

\* Reading, storing, giving up and returning keep the invariant.
LEMMA TransferInv ==
  ASSUME IInv, Transfer \/ Return
  PROVE  IInv'
  <1>1. CASE StepOver
    <2>1. Busy /\ call \in Call /\ image \in Seq(Contents)
      BY <1>1 DEF StepOver, Running, Busy, IInv, CallOK, TypeOK
    <2> QED  BY <1>1, <2>1, AdvanceInv DEF StepOver
  <1>2. CASE ReadSector
    <2> DEFINE p == Place(geom, Target)
               c == [call EXCEPT !.buffer[call.at] = image[p + 1]]
    <2>1. Busy /\ call.kind = "read" /\ call \in Call /\ image \in Seq(Contents)
          /\ geom \in Geometry
      BY <1>2 DEF ReadSector, Running, Busy, IInv, CallOK, TypeOK
    <2>2. p \in Nat /\ p < Len(image)
      BY <1>2, <2>1, TargetType, PlaceType DEF ReadSector, CanRead
    <2>3. image[p + 1] \in Data
      <3> HIDE DEF p
      <3> QED  BY <2>1, <2>2 DEF Data
    <2> HIDE DEF p
    <2>4. c \in Call /\ c.kind = call.kind /\ c.block = call.block
          /\ c.at = call.at /\ c.to = call.to /\ c.sect = call.sect
          /\ c.track = call.track
      BY <2>1, <2>3, TargetType DEF Call
    <2>5. call' = Advance(c) /\ image' = image
          /\ UNCHANGED <<def, phase, geom, skewtab, next, device>>
      BY <1>2 DEF ReadSector, p
    <2> HIDE DEF c
    <2> QED  BY <2>1, <2>4, <2>5, AdvanceInv
  <1>3. CASE WriteSector
    <2> DEFINE p == Place(geom, Target)
               v == call.buffer[call.at]
    <2>1. Busy /\ call.kind = "write" /\ call \in Call /\ image \in Seq(Contents)
          /\ geom \in Geometry /\ call.buffer \in [BlockSectors -> Contents]
      BY <1>3 DEF WriteSector, Running, Busy, IInv, CallOK, TypeOK
    <2>2. p \in Nat
      BY <1>3, <2>1, TargetType, PlaceType DEF WriteSector, CanWrite
    <2>3. v \in Contents  BY <2>1, TargetType
    <2>4. image' = Stored(p, v) /\ call' = Advance(call)
          /\ UNCHANGED <<def, phase, geom, skewtab, next, device>>
      BY <1>3 DEF WriteSector
    <2> HIDE DEF p, v
    <2>5. image' \in Seq(Contents)  BY <2>1, <2>2, <2>3, <2>4, StoredType
    <2> QED  BY <2>1, <2>4, <2>5, AdvanceInv
  <1>4. CASE ReadFails \/ WriteFails
    <2>1. Busy /\ call \in Call /\ image \in Seq(Contents) /\ phase = "ready"
          /\ geom \in Geometry
      BY <1>4 DEF ReadFails, WriteFails, Running, Busy, IInv, CallOK, TypeOK
    <2>2. call' \in Call /\ ~Busy'
      BY <1>4, <2>1 DEF ReadFails, WriteFails, Failed, Call, Busy
    <2>3. image' \in Seq(Contents)
      <3>1. CASE image' = image  BY <2>1, <3>1
      <3>2. CASE WriteFails /\ HasSector(geom, Target) /\
                   \E n \in Len(image)..Place(geom, Target) : image' = Filled(n)
        <4>1. Len(image) \in Nat /\ Place(geom, Target) \in Nat
          BY <2>1, <3>2, TargetType, PlaceType
        <4>2. PICK n \in Len(image)..Place(geom, Target) : image' = Filled(n)
          BY <3>2
        <4> QED  BY <2>1, <4>1, <4>2, FilledType
      <3> QED  BY <1>4, <3>1, <3>2 DEF ReadFails, WriteFails, CanWrite
    <2>4. UNCHANGED <<def, phase, geom, skewtab, next, device>>
      BY <1>4 DEF ReadFails, WriteFails
    <2> QED  BY <2>1, <2>2, <2>3, <2>4, EndedInv
  <1>5. CASE Return
    <2>1. image \in Seq(Contents) /\ phase = "ready"
      BY <1>5 DEF Return, IInv, CallOK, TypeOK
    <2>2. call' = NoCall /\ ~Busy'  BY <1>5 DEF Return, Busy, NoCall
    <2> QED  BY <1>5, <2>1, <2>2, EndedInv DEF Return
  <1> QED  BY <1>1, <1>2, <1>3, <1>4, <1>5 DEF Transfer

\* Every step keeps the invariant.
LEMMA NextInv ==
  ASSUME IInv, [Next]_vars
  PROVE  IInv'
  <1>1. CASE ChooseGeometry  BY <1>1, ChooseGeometryInv
  <1>2. CASE SkewBump  BY <1>2, SkewBumpInv
  <1>3. CASE SkewTake  BY <1>3, SkewTakeInv
  <1>4. CASE \E b \in Blocks, from, to \in BlockSectors : BeginRead(b, from, to)
    BY <1>4, BeginReadInv
  <1>5. CASE \E b \in 0..Size(def) : RefuseBlock(b)
    <2>1. phase = "ready" /\ image \in Seq(Contents) /\ call' = Refused /\ ~Busy'
      BY <1>5 DEF RefuseBlock, Idle, IInv, TypeOK, Busy, Refused
    <2> QED  BY <1>5, <2>1, EndedInv DEF RefuseBlock
  <1>6. CASE \E b \in Blocks, from, to \in BlockSectors, t \in Tags :
               BeginWrite(b, from, to, t)
    BY <1>6, BeginWriteInv
  <1>7. CASE Transfer \/ Return  BY <1>7, TransferInv
  <1>8. CASE UNCHANGED vars
    <2>1. TypeOK'  BY <1>8, CallPrime DEF vars, IInv, TypeOK
    <2>2. TableOK'  BY <1>8 DEF vars, IInv, TableOK
    <2>3. CallOK'
      <3>1. def' = def /\ phase' = phase /\ call' = call  BY <1>8 DEF vars
      <3>2. Call' = Call  BY <3>1, CallPrime
      <3> QED
        BY <3>1, <3>2 DEF IInv, CallOK, Busy, Blocks, BlockSectors, Size,
           BootOffset, FirstSector
    <2> QED  BY <2>1, <2>2, <2>3 DEF IInv
  <1> QED
    BY <1>1, <1>2, <1>3, <1>4, <1>5, <1>6, <1>7, <1>8 DEF Next

\* The invariant holds in every reachable state.
THEOREM Invariance == Spec => []IInv
  <1>1. Init => IInv  BY InitInv
  <1>2. IInv /\ [Next]_vars => IInv'  BY NextInv
  <1> QED  BY <1>1, <1>2, PTL DEF Spec

\* cpmReadSuper, readBlock and writeBlock keep their variables in range, whatever
\* the definition, the probed geometry and the image.
THEOREM TypesCorrect == Spec => []TypeOK
  <1>1. IInv => TypeOK  BY DEF IInv
  <1> QED  BY <1>1, Invariance, PTL

\* As many different entries as there are sectors name every sector.
LEMMA FullTable ==
  ASSUME NEW n \in Nat, NEW t \in Seq(0..(n - 1)), Len(t) = n,
         \A i, k \in 1..Len(t) : t[i] = t[k] => i = k,
         NEW s \in 0..(n - 1)
  PROVE  \E k \in 1..n : t[k] = s
  <1> DEFINE S == 1..n
             T == 0..(n - 1)
  <1>1. IsFiniteSet(S) /\ IsFiniteSet(T) /\ Cardinality(S) = n /\ Cardinality(T) = n
    BY FS_Interval
  <1>2. t \in [S -> T] /\ t \in Injection(S, T)
    BY DEF Injection, IsInjective
  <1>3. t \in Surjection(S, T)
    <2> HIDE DEF S, T
    <2> QED  BY <1>1, <1>2, FS_Injection
  <1> QED  BY <1>3 DEF Surjection

\* The skew loop of cpmReadSuper, and an explicit table, give a permutation of the
\* sectors of a track for every skew and every number of sectors.
THEOREM SkewPermutes == Spec => []SkewIsPermutation
  <1>1. ASSUME IInv PROVE SkewIsPermutation
    <2>1. SUFFICES ASSUME phase = "ready"
          PROVE  /\ Len(skewtab) = def.sectrk
                 /\ \A s \in 0..(def.sectrk - 1) :
                      \E k \in 1..def.sectrk : skewtab[k] = s
      BY DEF SkewIsPermutation
    <2>2. /\ skewtab \in Seq(0..(def.sectrk - 1)) /\ Len(skewtab) = def.sectrk
          /\ \A i, k \in 1..Len(skewtab) : skewtab[i] = skewtab[k] => i = k
          /\ def.sectrk \in Nat
      BY <1>1, <2>1, DefinitionType DEF IInv, TypeOK, TableOK
    <2> QED  BY <2>2, FullTable
  <1>2. IInv => SkewIsPermutation  BY <1>1
  <1> QED  BY <1>2, Invariance, PTL

(***************************************************************************)
(* SectorIO implements BlockArray.                                         *)
(***************************************************************************)

\* Skew and tracks map CP/M's sectors to different logical sectors behind the
\* offset.
LEMMA CpmSectorsApart ==
  ASSUME IInv, phase = "ready", NEW n \in Nat
  PROVE  /\ CpmSector(n) \in Nat
         /\ CpmSector(n) >= def.offset
         /\ \A k \in Nat : CpmSector(n) = CpmSector(k) => n = k
  <1> DEFINE m == def.sectrk
             Sk(x) == skewtab[(x % m) + 1]
  <1>1. /\ m \in Nat /\ m # 0 /\ def.offset \in Nat
        /\ skewtab \in Seq(0..(m - 1)) /\ Len(skewtab) = m
        /\ \A i, k \in 1..Len(skewtab) : skewtab[i] = skewtab[k] => i = k
    BY DefinitionType DEF IInv, TypeOK, TableOK
  <1>2. ASSUME NEW x \in Nat
        PROVE  /\ x \div m \in Nat /\ x % m \in 0..(m - 1)
               /\ Sk(x) \in 0..(m - 1)
               /\ CpmSector(x) = ((x \div m) * m + Sk(x)) + def.offset
    <2>1. x \div m \in Nat /\ x % m \in 0..(m - 1)
      <3> HIDE DEF m
      <3> QED  BY <1>1, DivMod
    <2>2. Sk(x) \in 0..(m - 1)
      <3> HIDE DEF m
      <3> QED  BY <1>1, <2>1
    <2>3. CpmSector(x) = ((x \div m) * m + Sk(x)) + def.offset
      BY DEF CpmSector, Logical
    <2> QED  BY <2>1, <2>2, <2>3
  <1>3. \A i, k \in 0..(m - 1) : skewtab[i + 1] = skewtab[k + 1] => i = k
    <2> HIDE DEF m
    <2>1. \A i \in 0..(m - 1) : i + 1 \in 1..Len(skewtab)  BY <1>1
    <2> QED  BY <1>1, <2>1
  <1>4. m \in Nat /\ m # 0 /\ def.offset \in Nat  BY <1>1
  <1> HIDE DEF m
  <1>5. ASSUME NEW x \in Nat
        PROVE  (x \div m) * m + Sk(x) \in Nat
    <2>1. x \div m \in Nat /\ Sk(x) \in 0..(m - 1)  BY <1>2
    <2> HIDE DEF Sk
    <2>2. Sk(x) \in Nat  BY <1>4, <2>1
    <2>3. (x \div m) * m \in Nat  BY <1>4, <2>1
    <2> QED  BY <2>2, <2>3
  <1>6. ASSUME NEW k \in Nat, CpmSector(n) = CpmSector(k)
        PROVE  n = k
    <2> DEFINE q == n \div m
               r == k \div m
               s == Sk(n)
               t == Sk(k)
               a == q * m + s
               c == r * m + t
    <2>1. a \in Nat /\ c \in Nat  BY <1>5
    <2>2. CpmSector(n) = a + def.offset /\ CpmSector(k) = c + def.offset
      BY <1>2
    <2>3. a = c
      <3> DEFINE o == def.offset
      <3>1. o \in Nat /\ a + o = c + o  BY <1>4, <1>6, <2>2
      <3> HIDE DEF a, c, o
      <3> QED  BY <2>1, <3>1
    <2>4. q \in Nat /\ r \in Nat /\ s \in 0..(m - 1) /\ t \in 0..(m - 1)
      BY <1>2
    <2>5. q = r /\ s = t
      <3>1. q * m + s = r * m + t  BY <2>3
      <3> HIDE DEF q, r, s, t
      <3> QED  BY <1>4, <2>4, <3>1, Unique
    <2>6. n % m = k % m
      <3>1. n % m \in 0..(m - 1) /\ k % m \in 0..(m - 1)  BY <1>2
      <3>2. skewtab[(n % m) + 1] = skewtab[(k % m) + 1]  BY <2>5
      <3> QED  BY <1>3, <3>1, <3>2
    <2>7. n = q * m + (n % m) /\ k = r * m + (k % m)
      BY <1>4, DivMod
    <2> QED  BY <2>5, <2>6, <2>7
  <1>7. CpmSector(n) \in Nat /\ CpmSector(n) >= def.offset
    <2> DEFINE a == (n \div m) * m + Sk(n)
    <2>1. a \in Nat /\ CpmSector(n) = a + def.offset  BY <1>2, <1>5
    <2> HIDE DEF a
    <2> QED  BY <1>4, <2>1
  <1> QED  BY <1>6, <1>7

\* The sectors of different blocks are different, and none is in front of the
\* directory.
LEMMA BlocksApart ==
  ASSUME IInv, phase = "ready", NEW b \in Blocks, NEW i \in BlockSectors
  PROVE  /\ SectorOf(b, i) \in Nat
         /\ SectorOf(b, i) >= def.offset
         /\ \A c \in Blocks, k \in BlockSectors :
              SectorOf(b, i) = SectorOf(c, k) => b = c /\ i = k
         /\ \A n \in 0..(BootOffset(def) - 1) : SectorOf(b, i) # CpmSector(n)
  <1> DEFINE B == BootOffset(def)
             w == def.blk
             At(c, k) == FirstSector(c) + k
  <1>1. w \in Nat /\ w # 0 /\ B \in Nat
    BY DefinitionType DEF IInv, TypeOK
  <1>2. ASSUME NEW c \in Blocks, NEW k \in BlockSectors
        PROVE  /\ c \in Nat /\ k \in 0..(w - 1) /\ c * w + k \in Nat
               /\ At(c, k) = (c * w + k) + B
               /\ At(c, k) \in Nat
    <2>1. c \in Nat /\ k \in 0..(w - 1)  BY DEF Blocks, BlockSectors
    <2>2. c * w \in Nat  BY <1>1, <2>1
    <2>3. At(c, k) = (c * w + B) + k  BY DEF FirstSector
    <2> HIDE DEF At, w, B
    <2>4. (c * w + B) + k = (c * w + k) + B  BY <1>1, <2>1, <2>2
    <2>5. c * w + k \in Nat /\ (c * w + k) + B \in Nat  BY <1>1, <2>1, <2>2
    <2> QED  BY <2>1, <2>3, <2>4, <2>5
  <1>3. SectorOf(b, i) = CpmSector(At(b, i))  BY DEF SectorOf
  <1>4. SectorOf(b, i) \in Nat /\ SectorOf(b, i) >= def.offset
    BY <1>2, <1>3, CpmSectorsApart
  <1>5. ASSUME NEW c \in Blocks, NEW k \in BlockSectors, SectorOf(b, i) = SectorOf(c, k)
        PROVE  b = c /\ i = k
    <2>1. At(b, i) = At(c, k)
      <3>1. SectorOf(c, k) = CpmSector(At(c, k))  BY DEF SectorOf
      <3>2. At(b, i) \in Nat /\ At(c, k) \in Nat  BY <1>2
      <3> HIDE DEF At
      <3> QED  BY <1>3, <1>5, <3>1, <3>2, CpmSectorsApart
    <2>2. /\ b \in Nat /\ c \in Nat /\ i \in 0..(w - 1) /\ k \in 0..(w - 1)
          /\ b * w + i \in Nat /\ c * w + k \in Nat
          /\ (b * w + i) + B = (c * w + k) + B
      BY <1>2, <2>1
    <2> HIDE DEF w, B, At
    <2>3. b * w + i = c * w + k  BY <1>1, <2>2
    <2> QED  BY <1>1, <2>2, <2>3, Unique
  <1>6. ASSUME NEW n \in 0..(B - 1), SectorOf(b, i) = CpmSector(n)
        PROVE  FALSE
    <2>1. n \in Nat /\ At(b, i) \in Nat  BY <1>1, <1>2
    <2>2. At(b, i) = n
      <3> HIDE DEF At
      <3> QED  BY <1>3, <1>6, <2>1, CpmSectorsApart
    <2>3. At(b, i) = (b * w + i) + B /\ b * w + i \in Nat  BY <1>2
    <2> HIDE DEF At, w, B
    <2> QED  BY <1>1, <1>6, <2>1, <2>2, <2>3
  <1> QED  BY <1>4, <1>5, <1>6

Mounted == UNCHANGED <<def, phase, geom, skewtab>>

\* What a sector of the image holds is not Absent.
LEMMA NotAbsent ==
  ASSUME NEW x \in Contents
  PROVE  x # Absent
  BY DefinitionAssumption DEF Contents, Absent

\* Without a change of the image the blocks stay as they are.
LEMMA SameView ==
  ASSUME Mounted, UNCHANGED image
  PROVE  UNCHANGED <<BlockView, BootView>>
  BY DEF Mounted, BlockView, BootView, Blocks, BlockSectors, Size, BootOffset,
     View, SectorOf, CpmSector, Logical, FirstSector

\* A step that leaves every other sector as it was keeps the other blocks and the
\* boot area.
LEMMA OthersKeptStep ==
  ASSUME IInv, phase = "ready", Mounted,
         NEW b \in Blocks, NEW i \in BlockSectors,
         \A l \in Nat : l # SectorOf(b, i) => Promise!Kept(View(l), View(l)')
  PROVE  Promise!OthersKept(b, i)
  <1>1. /\ Blocks' = Blocks /\ BlockSectors' = BlockSectors /\ phase' = "ready"
        /\ def' = def
        /\ \A n : CpmSector(n)' = CpmSector(n)
        /\ \A c, k : SectorOf(c, k)' = SectorOf(c, k)
    BY DEF Mounted, Blocks, BlockSectors, Size, BootOffset, SectorOf, CpmSector,
       Logical, FirstSector
  <1>2. \A c \in Blocks, k \in BlockSectors :
          /\ BlockView[c][k] = View(SectorOf(c, k))
          /\ BlockView'[c][k] = View(SectorOf(c, k))'
    BY <1>1 DEF BlockView
  <1>3. /\ DOMAIN BlockView = Blocks /\ DOMAIN BlockView' = Blocks
        /\ \A c \in Blocks : /\ DOMAIN BlockView[c] = BlockSectors
                             /\ DOMAIN BlockView'[c] = BlockSectors
    BY <1>1 DEF BlockView
  <1>4. ASSUME NEW c \in Blocks, NEW k \in BlockSectors, <<c, k>> # <<b, i>>
        PROVE  Promise!Kept(BlockView[c][k], BlockView'[c][k])
    <2> DEFINE l == SectorOf(c, k)
    <2>1. l \in Nat /\ l # SectorOf(b, i)  BY <1>4, BlocksApart
    <2>2. l' = l  BY <1>1
    <2>3. Promise!Kept(View(l), View(l)')
      <3>1. PICK m \in Nat : m = l  BY <2>1
      <3>2. Promise!Kept(View(m), View(m)')  BY <2>1, <3>1
      <3>3. View(l) = View(m) /\ View(l)' = View(m)'
        BY <2>2, <3>1 DEF View
      <3> QED  BY <3>2, <3>3
    <2> QED  BY <1>2, <2>3
  <1>5. Promise!BootKept
    <2> DEFINE D == -def.offset..(BootOffset(def) - 1)
               S(n) == IF n < 0 THEN n + def.offset ELSE CpmSector(n)
    <2>1. BootView = [n \in D |-> View(S(n))]  BY DEF BootView
    <2>2. BootView' = [n \in D |-> View(S(n))']
      BY <1>1 DEF BootView, BootOffset
    <2>3. ASSUME NEW n \in D
          PROVE  Promise!Kept(View(S(n)), View(S(n))')
      <3> DEFINE l == S(n)
      <3>0. def.offset \in Nat /\ BootOffset(def) \in Nat
        BY DefinitionType DEF IInv, TypeOK
      <3>1. l \in Nat /\ l # SectorOf(b, i)
        <4>1. CASE n < 0
          <5>1. l = n + def.offset  BY <4>1
          <5>2. n + def.offset \in Nat /\ n + def.offset < def.offset
            BY <3>0, <4>1
          <5>3. SectorOf(b, i) \in Nat /\ SectorOf(b, i) >= def.offset
            BY BlocksApart
          <5> QED  BY <3>0, <5>1, <5>2, <5>3
        <4>2. CASE ~(n < 0)
          <5>1. n \in 0..(BootOffset(def) - 1) /\ n \in Nat  BY <3>0, <4>2
          <5>2. l = CpmSector(n)  BY <4>2
          <5> QED  BY <5>1, <5>2, BlocksApart, CpmSectorsApart
        <4> QED  BY <4>1, <4>2
      <3>2. l' = l  BY <1>1
      <3>3. PICK m \in Nat : m = l  BY <3>1
      <3>4. Promise!Kept(View(m), View(m)')  BY <3>1, <3>3
      <3>5. View(l) = View(m) /\ View(l)' = View(m)'
        BY <3>2, <3>3 DEF View
      <3> QED  BY <3>4, <3>5
    <2>4. \A n \in D : BootView[n] = View(S(n)) /\ BootView'[n] = View(S(n))'
      BY <2>1, <2>2
    <2>5. DOMAIN BootView = D /\ DOMAIN BootView' = D  BY <2>1, <2>2
    <2> HIDE DEF D, S
    <2> QED  BY <2>3, <2>4, <2>5 DEF Promise!BootKept
  <1> QED  BY <1>3, <1>4, <1>5 DEF Promise!OthersKept

\* A full call, as a job.
LEMMA JobOf ==
  ASSUME NEW STATE c, c \in Call
  PROVE  /\ DOMAIN c # {"kind"}
         /\ c.kind # "none"
  BY DEF Call

LEMMA JobRecord ==
  /\ call \in Call =>
       /\ Job = [kind |-> call.kind, block |-> call.block, at |-> call.at,
                 buffer |-> call.buffer]
       /\ Job.kind = call.kind /\ Job.block = call.block /\ Job.at = call.at
       /\ Job.buffer = call.buffer
  /\ call \in {NoCall, Refused} => Job = call /\ Job.kind = call.kind
  BY JobOf DEF Job, NoCall, Refused

\* The same of the next state.
LEMMA JobRecordPrime ==
  ASSUME UNCHANGED def
  PROVE
  /\ call' \in Call =>
       /\ Job' = [kind |-> call'.kind, block |-> call'.block, at |-> call'.at,
                  buffer |-> call'.buffer]
       /\ Job'.kind = call'.kind
  /\ call' \in {NoCall, Refused} => Job' = call' /\ Job'.kind = call'.kind
  <1>1. call' \in Call => DOMAIN call' # {"kind"}
    BY CallPrime DEF Call
  <1> QED  BY <1>1 DEF Job, NoCall, Refused

\* The view of the sector a call is at.
LEMMA TargetView ==
  ASSUME IInv, Busy
  PROVE  /\ call.block \in DOMAIN BlockView
         /\ BlockView[call.block][call.at] = View(Target)
  <1>1. call.block \in Blocks /\ phase = "ready"  BY DEF IInv, CallOK, Busy
  <1> QED  BY <1>1, TargetType DEF BlockView

\* A job goes on by one sector.
LEMMA JobAdvances ==
  ASSUME IInv, Busy, UNCHANGED def, NEW STATE c, c \in Call,
         c.kind = call.kind, c.block = call.block, c.at = call.at,
         call' = Advance(c)
  PROVE  Promise!Advanced(c.buffer)
  <1>1. call \in Call /\ Job = [kind |-> call.kind, block |-> call.block,
                                at |-> call.at, buffer |-> call.buffer]
    BY JobRecord DEF IInv, CallOK, Busy
  <1> DEFINE d == Advance(c)
  <1>2. /\ DOMAIN d = DOMAIN c /\ d.block = c.block /\ d.at = c.at + 1
        /\ d.buffer = c.buffer
        /\ d.kind = (IF c.at = c.to THEN "done" ELSE c.kind)
    BY DEF Advance, Call
  <1>3. DOMAIN d # {"kind"}  BY <1>2, JobOf
  <1>4. Job' = [kind |-> d.kind, block |-> d.block, at |-> d.at, buffer |-> d.buffer]
    BY <1>3 DEF Job
  <1> HIDE DEF d
  <1>5. Job' = Promise!At("done", Job.at + 1, c.buffer)
        \/ Job' = Promise!At(Job.kind, Job.at + 1, c.buffer)
    BY <1>1, <1>2, <1>4 DEF Promise!At
  <1> QED  BY <1>5 DEF Promise!Advanced

\* Reading: the sector of the block goes into the buffer.
LEMMA ReadRefines ==
  ASSUME IInv, ReadSector
  PROVE  Promise!Read
  <1> DEFINE p == Place(geom, Target)
             c == [call EXCEPT !.buffer[call.at] = image[p + 1]]
  <1>1. /\ Busy /\ call.kind = "read" /\ call \in Call /\ image \in Seq(Contents)
        /\ geom \in Geometry
    BY DEF ReadSector, Running, Busy, IInv, CallOK, TypeOK
  <1>2. p \in Nat /\ p < Len(image) /\ HasSector(geom, Target)
    BY <1>1, TargetType, PlaceType DEF ReadSector, CanRead
  <1>3. View(Target) = image[p + 1] /\ image[p + 1] \in Contents
    <2>1. View(Target) = image[p + 1]  BY <1>2 DEF View
    <2> HIDE DEF p
    <2>2. image[p + 1] \in Contents  BY <1>1, <1>2
    <2> QED  BY <2>1, <2>2
  <1>4. /\ Job.kind = "read" /\ Job.block = call.block /\ Job.at = call.at
        /\ Job.buffer = call.buffer
    BY <1>1, JobRecord
  <1>5. BlockView[Job.block][Job.at] = image[p + 1]
    BY <1>1, <1>3, <1>4, TargetView
  <1>6. BlockView[Job.block][Job.at] # Absent  BY <1>3, <1>5, NotAbsent
  <1>7. /\ c \in Call /\ c.kind = call.kind /\ c.block = call.block
        /\ c.at = call.at
        /\ c.buffer = [call.buffer EXCEPT ![call.at] = image[p + 1]]
    <2>1. image[p + 1] \in Data  BY <1>3 DEF Data
    <2> HIDE DEF p
    <2> QED  BY <1>1, <2>1, TargetType DEF Call
  <1>8. call' = Advance(c) /\ Mounted /\ image' = image /\ def' = def
    BY DEF ReadSector, Mounted
  <1>9. Promise!Advanced(c.buffer)
    <2> HIDE DEF c
    <2> QED  BY <1>1, <1>7, <1>8, JobAdvances
  <1>10. c.buffer = [Job.buffer EXCEPT ![Job.at] = BlockView[Job.block][Job.at]]
    BY <1>4, <1>5, <1>7
  <1>11. UNCHANGED <<BlockView, BootView>>  BY <1>8, SameView
  <1> HIDE DEF c
  <1> QED  BY <1>4, <1>6, <1>9, <1>10, <1>11 DEF Promise!Read

\* Writing: the sector of the block is the one place of the image that changes.
LEMMA WriteRefines ==
  ASSUME IInv, WriteSector
  PROVE  Promise!Write
  <1> DEFINE p == Place(geom, Target)
             v == call.buffer[call.at]
  <1>1. /\ Busy /\ call.kind = "write" /\ call \in Call /\ image \in Seq(Contents)
        /\ geom \in Geometry /\ call.buffer \in [BlockSectors -> Contents]
        /\ phase = "ready" /\ call.block \in Blocks /\ call.at \in BlockSectors
    BY TargetType DEF WriteSector, Running, Busy, IInv, CallOK, TypeOK
  <1>2. /\ HasSector(geom, Target) /\ Target \in Nat /\ p \in Nat
        /\ Target = SectorOf(call.block, call.at)
    BY <1>1, TargetType, PlaceType DEF WriteSector, CanWrite
  <1>3. v \in Contents  BY <1>1
  <1>4. image' = Stored(p, v) /\ call' = Advance(call) /\ Mounted /\ def' = def
        /\ geom' = geom
    BY DEF WriteSector, Mounted
  <1>5. /\ Len(image') = (IF p + 1 > Len(image) THEN p + 1 ELSE Len(image))
        /\ \A o \in 1..Len(image') :
             image'[o] = (IF o = p + 1 THEN v
                          ELSE IF o <= Len(image) THEN image[o] ELSE Filler)
    <2> HIDE DEF p, v
    <2> QED  BY <1>1, <1>2, <1>3, <1>4, StoredType
  <1>6. Len(image) \in Nat  BY <1>1
  <1>7. ASSUME NEW l \in Nat, l # Target
        PROVE  Promise!Kept(View(l), View(l)')
    <2>1. CASE ~HasSector(geom, l)
      BY <1>4, <2>1 DEF View, Promise!Kept
    <2>2. CASE HasSector(geom, l)
      <3> DEFINE q == Place(geom, l)
      <3>1. q \in Nat  BY <1>1, <2>2, PlaceType
      <3>2. q # p  BY <1>1, <1>2, <1>7, <2>2, PlacesApart
      <3>3. /\ View(l) = (IF q < Len(image) THEN image[q + 1] ELSE Absent)
            /\ View(l)' = (IF q < Len(image') THEN image'[q + 1] ELSE Absent)
        BY <1>4, <2>2 DEF View
      <3> HIDE DEF p, q, v
      <3>4. q < Len(image) => View(l)' = image[q + 1]
        BY <1>2, <1>5, <1>6, <3>1, <3>2, <3>3
      <3>5. q >= Len(image) => View(l)' \in {Absent, Filler}
        BY <1>2, <1>5, <1>6, <3>1, <3>2, <3>3
      <3> QED  BY <1>6, <3>1, <3>3, <3>4, <3>5 DEF Promise!Kept
    <2> QED  BY <2>1, <2>2
  <1>8. PICK b \in Blocks, i \in BlockSectors : b = call.block /\ i = call.at
    BY <1>1
  <1>9. PICK l \in Nat : l = Target  BY <1>2
  <1>10. l = SectorOf(b, i)  BY <1>2, <1>8, <1>9
  <1>11. View(l)' = v
    <2> DEFINE q == Place(geom, l)
    <2>1. q = p /\ HasSector(geom, l)  BY <1>2, <1>9
    <2>2. View(l)' = (IF q < Len(image') THEN image'[q + 1] ELSE Absent)
      BY <1>4, <2>1 DEF View
    <2> HIDE DEF p, q, v
    <2>3. q < Len(image') /\ image'[q + 1] = v
      BY <1>2, <1>5, <1>6, <2>1
    <2> QED  BY <2>2, <2>3
  <1>12. BlockView'[b][i] = v
    <2>1. BlockView'[b][i] = View(SectorOf(b, i))'
      BY <1>1, <1>4 DEF Mounted, BlockView, Blocks, BlockSectors, Size, BootOffset
    <2>2. SectorOf(b, i)' = l
      BY <1>4, <1>10 DEF Mounted, SectorOf, CpmSector, Logical, FirstSector,
         BootOffset
    <2>3. View(SectorOf(b, i))' = View(l)'  BY <2>2 DEF View
    <2> QED  BY <1>11, <2>1, <2>3
  <1>13. Promise!OthersKept(b, i)
    BY <1>1, <1>4, <1>7, <1>9, <1>10, OthersKeptStep
  <1>14. /\ Job.kind = "write" /\ Job.block = b /\ Job.at = i
         /\ Job.buffer = call.buffer
    BY <1>1, <1>8, JobRecord
  <1>15. Promise!Advanced(Job.buffer)
    <2>1. Promise!Advanced(call.buffer)  BY <1>1, <1>4, JobAdvances
    <2> QED  BY <1>14, <2>1
  <1> QED
    <2>1. BlockView'[Job.block][Job.at] = Job.buffer[Job.at]
      BY <1>8, <1>12, <1>14
    <2> QED  BY <1>13, <1>14, <1>15, <2>1 DEF Promise!Write

\* Failing: nothing that was stored is lost, whatever part of a gap was filled.
LEMMA FailRefines ==
  ASSUME IInv, ReadFails \/ WriteFails
  PROVE  Promise!Fail
  <1>1. /\ Busy /\ call \in Call /\ image \in Seq(Contents) /\ geom \in Geometry
        /\ phase = "ready" /\ call.block \in Blocks /\ call.at \in BlockSectors
        /\ Target \in Nat /\ Target = SectorOf(call.block, call.at)
    BY TargetType DEF ReadFails, WriteFails, Running, Busy, IInv, CallOK, TypeOK
  <1>2. call' = Failed /\ Mounted /\ geom' = geom /\ def' = def
    BY DEF ReadFails, WriteFails, Mounted
  <1>3. ASSUME NEW l \in Nat
        PROVE  Promise!Kept(View(l), View(l)')
    <2>1. CASE image' = image \/ ~HasSector(geom, l)
      BY <1>2, <2>1 DEF View, Promise!Kept
    <2>2. CASE /\ HasSector(geom, l)
               /\ HasSector(geom, Target)
               /\ \E n \in Len(image)..Place(geom, Target) : image' = Filled(n)
      <3> DEFINE q == Place(geom, l)
      <3>1. Len(image) \in Nat /\ Place(geom, Target) \in Nat /\ q \in Nat
        BY <1>1, <2>2, PlaceType
      <3>2. PICK n \in Len(image)..Place(geom, Target) : image' = Filled(n)
        BY <2>2
      <3>3. n \in Nat  BY <3>1
      <3>4. /\ Len(image') = (IF n > Len(image) THEN n ELSE Len(image))
            /\ \A o \in 1..Len(image') :
                 image'[o] = (IF o <= Len(image) THEN image[o] ELSE Filler)
        BY <1>1, <3>2, <3>3, FilledType
      <3>5. /\ View(l) = (IF q < Len(image) THEN image[q + 1] ELSE Absent)
            /\ View(l)' = (IF q < Len(image') THEN image'[q + 1] ELSE Absent)
        BY <1>2, <2>2 DEF View
      <3> HIDE DEF q
      <3>6. q < Len(image) => View(l)' = image[q + 1]
        BY <3>1, <3>3, <3>4, <3>5
      <3>7. q >= Len(image) => View(l)' \in {Absent, Filler}
        BY <3>1, <3>3, <3>4, <3>5
      <3> QED  BY <3>1, <3>5, <3>6, <3>7 DEF Promise!Kept
    <2> QED  BY <2>1, <2>2 DEF ReadFails, WriteFails, CanWrite
  <1>4. PICK b \in Blocks, i \in BlockSectors : b = call.block /\ i = call.at
    BY <1>1
  <1>5. Promise!OthersKept(b, i)  BY <1>1, <1>2, <1>3, OthersKeptStep
  <1>6. Promise!Kept(BlockView[b][i], BlockView'[b][i])
    <2>1. PICK l \in Nat : l = SectorOf(b, i)  BY <1>1, <1>4
    <2>2. SectorOf(b, i)' = l
      BY <1>2, <2>1 DEF Mounted, SectorOf, CpmSector, Logical, FirstSector,
         BootOffset
    <2>3. BlockView[b][i] = View(SectorOf(b, i)) /\ BlockView'[b][i] = View(SectorOf(b, i))'
      BY <1>1, <1>2 DEF Mounted, BlockView, Blocks, BlockSectors, Size, BootOffset
    <2>4. View(SectorOf(b, i)) = View(l) /\ View(SectorOf(b, i))' = View(l)'
      BY <2>1, <2>2 DEF View
    <2> QED  BY <1>3, <2>3, <2>4
  <1>7. /\ Job.kind \in {"read", "write"} /\ Job.block = b /\ Job.at = i
        /\ Job.buffer = call.buffer
    BY <1>1, <1>4, JobRecord DEF Busy
  <1>8. Job' = Promise!At("failed", Job.at, Job.buffer)
    <2>1. /\ call' \in Call /\ call'.kind = "failed" /\ call'.block = call.block
          /\ call'.at = call.at /\ call'.buffer = call.buffer
      BY <1>1, <1>2 DEF Failed, Call
    <2> QED  BY <1>2, <1>4, <1>7, <2>1, JobRecordPrime DEF Promise!At
  <1> QED  BY <1>4, <1>5, <1>6, <1>7, <1>8 DEF Promise!Fail

\* Every step is a step of the block array or changes nothing of it.
LEMMA StepRefines ==
  ASSUME IInv, [Next]_vars
  PROVE  [Promise!Next]_<<BlockView, BootView, Job>>
  <1>1. CASE ChooseGeometry \/ SkewBump \/ SkewTake
    <2>1. phase # "ready" /\ call' = call
      BY <1>1 DEF ChooseGeometry, SkewBump, SkewTake
    <2>2. call = NoCall
      BY <2>1 DEF IInv, CallOK, TypeOK, Call, NoCall, Refused
    <2>3. Job.kind = "none" /\ Job' = Job
      BY <2>1, <2>2, JobRecord DEF Job, NoCall
    <2>4. BlockView = <<>>  BY <2>1 DEF BlockView
    <2> QED  BY <2>3, <2>4 DEF Promise!Next, Promise!Mount, Promise!Idle
  <1>2. CASE Next /\ Idle
    <2>1. CASE ~(ChooseGeometry \/ SkewBump \/ SkewTake)
      <3>1. /\ Mounted /\ image' = image /\ def' = def /\ call = NoCall
            /\ \/ /\ call'.kind \in {"read", "write"}
                  /\ call' \in Call
               \/ call' = Refused
        <4>1. IInv'  BY <1>2, NextInv
        <4>2. call = NoCall /\ call.kind = "none"  BY <1>2 DEF Idle, NoCall
        <4>3. \/ \E b \in Blocks, from, to \in BlockSectors : BeginRead(b, from, to)
              \/ \E b \in 0..Size(def) : RefuseBlock(b)
              \/ \E b \in Blocks, from, to \in BlockSectors, t \in Tags :
                   BeginWrite(b, from, to, t)
          BY <1>2, <2>1, <4>2 DEF Next, Transfer, StepOver, ReadSector, ReadFails,
             WriteSector, WriteFails, Return, Running
        <4>4. /\ Mounted /\ image' = image /\ def' = def
              /\ call'.kind \in {"read", "write"} \/ call' = Refused
          BY <4>3 DEF BeginRead, RefuseBlock, BeginWrite, Started, Mounted
        <4>5. call'.kind \in {"read", "write"} => call' \in Call
          BY <4>1, <4>4, CallPrime DEF IInv, CallOK, Busy
        <4> QED  BY <4>2, <4>4, <4>5
      <3>2. UNCHANGED <<BlockView, BootView>>  BY <3>1, SameView
      <3>3. Job.kind = "none"  BY <3>1, JobRecord DEF NoCall
      <3>4. Job'.kind \in {"read", "write"} \/ Job'.kind = "failed"
        BY <3>1, JobRecordPrime DEF Refused
      <3> QED
        BY <3>2, <3>3, <3>4 DEF Promise!Next, Promise!Begin, Promise!Refuse,
           Promise!Idle
    <2> QED  BY <1>1, <1>2, <2>1
  <1>3. CASE StepOver
    <2>1. Busy /\ call \in Call  BY <1>3 DEF StepOver, Running, Busy, IInv, CallOK
    <2>2. call' = Advance(call) /\ Mounted /\ image' = image /\ def' = def
      BY <1>3 DEF StepOver, Mounted
    <2>3. Promise!Advanced(call.buffer)  BY <2>1, <2>2, JobAdvances
    <2>4. Job.kind \in {"read", "write"} /\ Job.buffer = call.buffer
      BY <2>1, JobRecord DEF Busy
    <2>5. UNCHANGED <<BlockView, BootView>>  BY <2>2, SameView
    <2> QED  BY <2>3, <2>4, <2>5 DEF Promise!Next, Promise!Skip
  <1>4. CASE ReadSector  BY <1>4, ReadRefines DEF Promise!Next
  <1>5. CASE WriteSector  BY <1>5, WriteRefines DEF Promise!Next
  <1>6. CASE ReadFails \/ WriteFails  BY <1>6, FailRefines DEF Promise!Next
  <1>7. CASE Return
    <2>1. Mounted /\ image' = image /\ def' = def /\ call' = NoCall
          /\ call.kind \in {"done", "failed"}
      BY <1>7 DEF Return, Mounted
    <2>2. Job.kind = call.kind
      BY <2>1, JobRecord DEF IInv, TypeOK
    <2>3. Job'.kind = "none"  BY <2>1, JobRecordPrime DEF NoCall
    <2>4. UNCHANGED <<BlockView, BootView>>  BY <2>1, SameView
    <2> QED  BY <2>1, <2>2, <2>3, <2>4 DEF Promise!Next, Promise!Return
  <1>8. CASE UNCHANGED vars
    <2>1. Mounted /\ image' = image /\ call' = call
      BY <1>8 DEF vars, Mounted
    <2>2. UNCHANGED <<BlockView, BootView>>  BY <2>1, SameView
    <2>3. Job' = Job  BY <2>1 DEF Job
    <2> QED  BY <2>2, <2>3
  <1> QED
    BY <1>1, <1>2, <1>3, <1>4, <1>5, <1>6, <1>7, <1>8
    DEF Next, Transfer, BeginRead, BeginWrite, RefuseBlock

\* readBlock and writeBlock over skew, geometry and raw image implement an array of
\* blocks, for every disk definition and every geometry the probe reports.
THEOREM SectorsAreBlocks == Spec => IsBlockArray
  <1>1. Init => Promise!Init
    BY JobRecord DEF Init, Promise!Init, Promise!Idle, NoCall
  <1>2. IInv /\ [Next]_vars => [Promise!Next]_<<BlockView, BootView, Job>>
    BY StepRefines
  <1> QED
    BY <1>1, <1>2, Invariance, PTL
    DEF Spec, IsBlockArray, Promise!Spec, Promise!vars

(***************************************************************************)
(* On a complete image whose geometry fits, nothing fails.                 *)
(***************************************************************************)

\* A point of a grid is below its size.
LEMMA GridBelow ==
  ASSUME NEW a \in Nat, NEW b \in Nat, NEW n \in Nat, NEW r \in 0..(n - 1), a < b
  PROVE  a * n + r \in Nat /\ a * n + r < b * n
  <1>1. (a + 1) * n <= b * n  BY Monotone
  <1>2. (a + 1) * n = a * n + n  OBVIOUS
  <1>3. a * n \in Nat /\ b * n \in Nat  OBVIOUS
  <1> QED  BY <1>1, <1>2, <1>3

\* dg_lt2pt: a track of the disk is on one of its cylinders.
LEMMA CylinderBelow ==
  ASSUME NEW g \in Geometry, g.heads # 0, NEW t \in Nat, t < LogicalTracks(g),
         g.sides = "outback" => g.heads <= 2
  PROVE  Cylinder(g, t) < g.cylinders
  <1>1. g.heads \in Nat /\ g.cylinders \in Nat /\ g.sides \in Sides
    BY DEF Geometry
  <1>2. t < g.cylinders * g.heads  BY DEF LogicalTracks
  <1>3. CASE g.sides = "alt"
    BY <1>1, <1>2, <1>3, DivBelow DEF Cylinder
  <1>4. CASE g.sides = "outback"
    <2>1. g.heads = 1 \/ g.heads = 2  BY <1>1, <1>4
    <2>2. t < g.cylinders \/ (g.heads = 2 /\ t < 2 * g.cylinders)
      BY <1>1, <1>2, <2>1
    <2> QED  BY <1>1, <1>4, <2>2, <2>1 DEF Cylinder
  <1>5. CASE g.sides = "outout"
    <2>1. g.cylinders # 0  BY <1>1, <1>2
    <2> QED  BY <1>1, <1>5, <2>1, DivMod DEF Cylinder
  <1> QED  BY <1>1, <1>3, <1>4, <1>5 DEF Sides

\* posix_offset: a sector of the disk is in a complete image.
LEMMA PlaceBelow ==
  ASSUME NEW g \in Geometry, NEW l \in Nat, HasSector(g, l)
  PROVE  Place(g, l) < LogicalTracks(g) * g.sectors
  <1> DEFINE t == l \div g.sectors
             r == l % g.sectors
             c == Cylinder(g, t)
             h == Surface(g, t)
             p == c * g.heads + h
  <1>1. /\ g.sectors \in Nat /\ g.heads \in Nat /\ g.cylinders \in Nat /\ g.heads # 0
        /\ t \in Nat /\ t < LogicalTracks(g) /\ r \in 0..(g.sectors - 1)
    BY SectorTrack DEF HasSector, Geometry
  <1>2. g.sides = "outback" => g.heads <= 2  BY DEF HasSector
  <1>3. c \in Nat /\ h \in 0..(g.heads - 1) /\ c < g.cylinders
    BY <1>1, <1>2, TrackPlace, CylinderBelow
  <1>4. Place(g, l) = p * g.sectors + r  BY DEF Place, PosixOffset
  <1> HIDE DEF t, r, c, h
  <1>5. p \in Nat /\ p < g.cylinders * g.heads  BY <1>1, <1>3, GridBelow
  <1>6. g.cylinders * g.heads \in Nat  BY <1>1
  <1> HIDE DEF p
  <1>7. p * g.sectors + r < (g.cylinders * g.heads) * g.sectors
    BY <1>1, <1>5, <1>6, GridBelow
  <1> QED  BY <1>4, <1>7 DEF LogicalTracks

\* A quotient times the divisor is not above what was divided.
LEMMA QuotientBelow ==
  ASSUME NEW a \in Int, NEW n \in Nat, n # 0
  PROVE  a \div n \in Int /\ (a \div n) * n <= a
  OBVIOUS

\* cpmReadSuper: the last block below d->size ends within the tracks of the disk.
LEMMA BlockEnds ==
  ASSUME def \in Definitions, NEW b \in Blocks, NEW i \in BlockSectors
  PROVE  FirstSector(b) + i \in Nat /\ FirstSector(b) + i < def.tracks * def.sectrk
  <1> DEFINE a == def.sectrk * def.tracks - BootOffset(def)
             z == a \div def.blk
  <1>1. /\ def.sectrk \in Nat /\ def.tracks \in Nat /\ def.blk \in Nat /\ def.blk # 0
        /\ BootOffset(def) \in Nat
    BY DefinitionType
  <1>2. def.sectrk * def.tracks \in Nat /\ def.tracks * def.sectrk = def.sectrk * def.tracks
    BY <1>1
  <1>3. a \in Int  BY <1>1, <1>2
  <1>4. b \in Nat /\ i \in 0..(def.blk - 1) /\ b < Size(def)
    <2>1. Size(def) = z  BY DEF Size
    <2>2. z \in Int
      <3> HIDE DEF a
      <3> QED  BY <1>1, <1>3, QuotientBelow
    <2> HIDE DEF z
    <2> QED  BY <1>1, <2>1, <2>2 DEF Blocks, BlockSectors
  <1>5. z \in Int /\ z * def.blk <= a
    <2> HIDE DEF a
    <2> QED  BY <1>1, <1>3, QuotientBelow
  <1>6. z \in Nat /\ b < z  BY <1>4, <1>5 DEF Size
  <1> HIDE DEF z
  <1>7. b * def.blk + i \in Nat /\ b * def.blk + i < z * def.blk
    BY <1>1, <1>4, <1>6, GridBelow
  <1>8. z * def.blk \in Int /\ b * def.blk \in Nat  BY <1>1, <1>4, <1>5
  <1>9. b * def.blk + i + BootOffset(def) < def.sectrk * def.tracks
    BY <1>1, <1>2, <1>4, <1>5, <1>7, <1>8
  <1> QED  BY <1>1, <1>2, <1>4, <1>8, <1>9 DEF FirstSector

\* Device_setGeometry takes the sectors per track from the definition.
GeomOK == phase # "open" => geom.sectors = def.sectrk

\* The sector a running call is at is in the geometry and in a complete image.
LEMMA TargetFits ==
  ASSUME IInv, GeomOK, Busy, Fits, Len(image) >= def.sectrk * def.tracks
  PROVE  CanRead(Target) /\ HasSector(geom, Target)
  <1> DEFINE n == FirstSector(call.block) + call.at
             m == def.sectrk
  <1>1. /\ def \in Definitions /\ call.block \in Blocks /\ call.at \in BlockSectors
        /\ skewtab \in Seq(0..(m - 1)) /\ Len(skewtab) = m
        /\ call.sect = n % m /\ call.track = n \div m
        /\ phase = "ready" /\ geom \in Geometry /\ image \in Seq(Contents)
    BY TargetType DEF IInv, TypeOK, TableOK, CallOK, Busy
  <1>2. /\ m \in Nat /\ m # 0 /\ def.tracks \in Nat /\ def.tracks # 0
        /\ def.offset = 0 /\ LogicalTracks(geom) = def.tracks
        /\ geom.sectors = m
    <2>1. def \in Definition  BY <1>1, DefinitionAssumption
    <2> QED  BY <1>1, <2>1, DefinitionType DEF Definition, Fits, GeomOK
  <1>3. n \in Nat /\ n < def.tracks * m  BY <1>1, BlockEnds
  <1> HIDE DEF n
  <1>4. n % m \in 0..(m - 1) /\ n \div m \in Nat /\ n \div m < def.tracks
    <2> HIDE DEF m
    <2> QED  BY <1>2, <1>3, DivMod, DivBelow
  <1>5. skewtab[call.sect + 1] \in 0..(m - 1)
    <2>1. call.sect + 1 \in 1..Len(skewtab)  BY <1>1, <1>2, <1>4
    <2> QED  BY <1>1, <2>1
  <1>6. call.track * m + skewtab[call.sect + 1] \in Nat
        /\ call.track * m + skewtab[call.sect + 1] < def.tracks * m
    <2> HIDE DEF m
    <2> QED  BY <1>1, <1>2, <1>4, <1>5, GridBelow
  <1>7. Target = call.track * m + skewtab[call.sect + 1]
    BY <1>2, <1>6 DEF Target, Logical
  <1>8. Target \in Nat /\ Target < LogicalTracks(geom) * geom.sectors
    BY <1>2, <1>6, <1>7
  <1>9. geom.heads # 0
    <2>1. geom.cylinders \in Nat /\ geom.cylinders * geom.heads = def.tracks
      BY <1>1, <1>2 DEF LogicalTracks, Geometry
    <2> QED  BY <1>2, <2>1
  <1>10. HasSector(geom, Target)
    BY <1>2, <1>8, <1>9 DEF HasSector, Fits
  <1>11. Place(geom, Target) < def.tracks * def.sectrk
    BY <1>1, <1>2, <1>8, <1>10, PlaceBelow
  <1>12. Place(geom, Target) \in Nat  BY <1>1, <1>8, <1>10, PlaceType
  <1>13. def.tracks * def.sectrk = def.sectrk * def.tracks
         /\ def.sectrk * def.tracks \in Nat /\ Len(image) \in Nat
    BY <1>1, <1>2
  <1>14. Place(geom, Target) < Len(image)
    BY <1>11, <1>12, <1>13
  <1> QED  BY <1>10, <1>14 DEF CanRead

\* Device_setGeometry takes the sectors of the definition, and a call fails only
\* for a reason that lasts until it returns.
LEMMA FitStep ==
  ASSUME IInv, GeomOK, FittingNeverFails, [Next]_vars
  PROVE  GeomOK' /\ FittingNeverFails'
  <1>1. CASE ChooseGeometry
    <2>1. geom' = SetGeometry(geom, def.tracks, def.sectrk) /\ def' = def /\ call' = call
          /\ geom \in Geometry
      BY <1>1 DEF ChooseGeometry, IInv, TypeOK
    <2>2. geom'.sectors = def.sectrk
      BY <2>1 DEF SetGeometry, Geometry
    <2>3. call.kind = "none"
      BY <1>1 DEF IInv, CallOK, ChooseGeometry, TypeOK, NoCall, Refused, Call
    <2> QED  BY <2>1, <2>2, <2>3 DEF GeomOK, FittingNeverFails
  <1>2. CASE ReadFails
    <2>1. Busy /\ call' = Failed /\ (device = "failing" \/ ~CanRead(Target))
          /\ UNCHANGED <<def, phase, geom, skewtab, next, image, device>>
      BY <1>2 DEF ReadFails, Running, Busy
    <2>2. ~Fits \/ ~(Len(image) >= def.sectrk * def.tracks) \/ device # "works"
      BY <2>1, TargetFits
    <2>3. Len(image) \in Nat /\ def.sectrk * def.tracks \in Nat
      BY DefinitionType DEF IInv, TypeOK
    <2>4. device # "works" \/ ~Fits \/ Len(image) < def.sectrk * def.tracks
      BY <2>2, <2>3
    <2>5. Fits' = Fits  BY <2>1 DEF Fits
    <2> QED  BY <2>1, <2>4, <2>5 DEF GeomOK, FittingNeverFails
  <1>3. CASE WriteFails
    <2>1. Busy /\ call' = Failed /\ UNCHANGED <<def, phase, geom, skewtab, next, device>>
          /\ (device = "failing" \/ (~CanWrite(Target) /\ image' = image))
      BY <1>3 DEF WriteFails, Running, Busy
    <2>2. device = "works" /\ Fits => Len(image) < def.sectrk * def.tracks /\ image' = image
      <3>1. Len(image) \in Nat /\ def.sectrk * def.tracks \in Nat
        BY DefinitionType DEF IInv, TypeOK
      <3> QED  BY <2>1, <3>1, TargetFits DEF CanWrite
    <2>3. Fits' = Fits  BY <2>1 DEF Fits
    <2> QED  BY <2>1, <2>2, <2>3 DEF GeomOK, FittingNeverFails
  <1>4. CASE StepOver \/ ReadSector \/ WriteSector
    <2>1. Busy /\ call'.kind # "failed" /\ UNCHANGED <<def, phase, geom>>
      <3>1. Busy /\ call \in Call /\ UNCHANGED <<def, phase, geom>>
        BY <1>4 DEF StepOver, ReadSector, WriteSector, Running, Busy, IInv, CallOK
      <3>2. ASSUME NEW c, c.kind = call.kind, DOMAIN c = DOMAIN call
            PROVE  Advance(c).kind # "failed"
        BY <3>1, <3>2 DEF Advance, Busy, Call
      <3>3. call' = Advance(call) \/ \E v : call' = Advance([call EXCEPT !.buffer[call.at] = v])
        BY <1>4 DEF StepOver, ReadSector, WriteSector
      <3>4. \A v : [call EXCEPT !.buffer[call.at] = v].kind = call.kind
                   /\ DOMAIN [call EXCEPT !.buffer[call.at] = v] = DOMAIN call
        BY <3>1 DEF Call
      <3> QED  BY <3>1, <3>2, <3>3, <3>4
    <2> QED  BY <2>1 DEF GeomOK, FittingNeverFails
  <1>5. CASE SkewBump \/ SkewTake
    <2>1. call.kind = "none"
      BY <1>5 DEF IInv, CallOK, SkewBump, SkewTake, TypeOK, NoCall, Refused, Call
    <2> QED  BY <1>5, <2>1 DEF SkewBump, SkewTake, GeomOK, FittingNeverFails
  <1>6. CASE \E b \in 0..Size(def) : RefuseBlock(b)
    BY <1>6 DEF RefuseBlock, GeomOK, FittingNeverFails
  <1>7. CASE \/ \E b \in Blocks, from, to \in BlockSectors : BeginRead(b, from, to)
             \/ \E b \in Blocks, from, to \in BlockSectors, t \in Tags :
                  BeginWrite(b, from, to, t)
    BY <1>7 DEF BeginRead, BeginWrite, Started, GeomOK, FittingNeverFails
  <1>8. CASE Return
    BY <1>8 DEF Return, NoCall, GeomOK, FittingNeverFails
  <1>9. CASE UNCHANGED vars
    <2>1. Fits' = Fits  BY <1>9 DEF vars, Fits
    <2> QED  BY <1>9, <2>1 DEF vars, GeomOK, FittingNeverFails
  <1> QED
    BY <1>1, <1>2, <1>3, <1>4, <1>5, <1>6, <1>7, <1>8, <1>9 DEF Next, Transfer

\* For every definition, skew and geometry: readBlock and writeBlock fail on a
\* block below d->size only if the device does, the image is too short or the
\* geometry has not the tracks of the definition.
THEOREM FittingBlocksWork == Spec => []FittingNeverFails
  <1>1. Init => GeomOK /\ FittingNeverFails
    BY DEF Init, GeomOK, FittingNeverFails, NoCall
  <1>2. IInv /\ GeomOK /\ FittingNeverFails /\ [Next]_vars => GeomOK' /\ FittingNeverFails'
    BY FitStep
  <1> QED  BY <1>1, <1>2, Invariance, PTL DEF Spec

==============================================================================
