---------------------------- MODULE DiskGeometry ----------------------------
(***************************************************************************)
(* Where LibDsk puts a logical sector: the geometry Device_setGeometry     *)
(* settles on, the conversions between logical and physical sectors of     *)
(* dsklphys.c, and the place of a physical sector in a raw image file      *)
(* (drvposix.c).                                                           *)
(*                                                                         *)
(* Sectors count from 0 on their track: dg_secbase, added by dg_ls2ps and  *)
(* taken off again by posix_offset, is left out.  So is SIDES_EXTSURFACE,  *)
(* which only a user's libdskrc file can give (dsksgeom.c).                *)
(***************************************************************************)
EXTENDS Integers

CONSTANT
  SingleSidedTracks   \* how many tracks Device_setGeometry takes for one side

ASSUME TracksAssumption == SingleSidedTracks \in Nat

Sides == {"alt", "outback", "outout"}

Geometry == [cylinders: Nat, heads: Nat, sectors: Nat, sides: Sides]

LogicalTracks(g) == g.cylinders * g.heads

\* The probed geometry counts only when it has as many tracks as the disk
\* definition; otherwise FMT_180K and a guess from the number of tracks.
SetGeometry(probed, tracks, sectrk) ==
  IF LogicalTracks(probed) = tracks
  THEN [probed EXCEPT !.sectors = sectrk]
  ELSE IF tracks <= SingleSidedTracks
  THEN [cylinders |-> tracks, heads |-> 1, sectors |-> sectrk, sides |-> "alt"]
  ELSE [cylinders |-> tracks \div 2, heads |-> 2, sectors |-> sectrk,
        sides |-> "alt"]

\* A plausible bug: it refuses the last sector.
HasSector_MUT_LastLost(g, logical) ==
  /\ g.sectors # 0
  /\ g.heads # 0
  /\ logical + 1 < LogicalTracks(g) * g.sectors
  /\ g.sides = "outback" => g.heads <= 2

\* dg_ls2ps and dg_lt2pt refuse what the geometry does not have.
HasSector(g, logical) ==
  /\ g.sectors # 0
  /\ g.heads # 0
  /\ logical < LogicalTracks(g) * g.sectors
  /\ g.sides = "outback" => g.heads <= 2

\* dg_lt2pt
Cylinder(g, track) ==
  CASE g.sides = "alt" -> track \div g.heads
    [] g.sides = "outback" ->
         IF track < g.cylinders THEN track ELSE 2 * g.cylinders - (1 + track)
    [] g.sides = "outout" -> track % g.cylinders

Surface(g, track) ==
  CASE g.sides = "alt" -> track % g.heads
    [] g.sides = "outback" -> IF track < g.cylinders THEN 0 ELSE 1
    [] g.sides = "outout" -> track \div g.cylinders

\* posix_offset of the driver "raw", in sectors: the image alternates sides,
\* whatever the sides of the geometry.
PosixOffset(g, cylinder, head, sector) ==
  (cylinder * g.heads + head) * g.sectors + sector

\* Where dsk_lread and dsk_lwrite find a logical sector in the image file.
Place(g, logical) ==
  LET track == logical \div g.sectors
  IN PosixOffset(g, Cylinder(g, track), Surface(g, track), logical % g.sectors)

=============================================================================
