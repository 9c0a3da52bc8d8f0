----------------------------- MODULE MCSectorIO -----------------------------
(***************************************************************************)
(* Small disks for TLC.  Real definitions differ in their numbers only: a  *)
(* skew that shares a divisor with the sectors per track (zen9), blocks    *)
(* that cross a track and a directory in the middle of one, an odd number  *)
(* of tracks (lobo2), an offset with an explicit table (trse).             *)
(***************************************************************************)
EXTENDS SectorIO

SharedDivisor ==
  [sectrk |-> 4, tracks |-> 2, skew |-> 2, skewtab |-> <<>>, boottrk |-> 1,
   bootsec |-> -1, blk |-> 2, offset |-> 0]

AcrossTracks ==
  [sectrk |-> 2, tracks |-> 4, skew |-> 3, skewtab |-> <<>>, boottrk |-> 0,
   bootsec |-> 1, blk |-> 3, offset |-> 0]

OddTracks ==
  [sectrk |-> 2, tracks |-> 3, skew |-> 0, skewtab |-> <<>>, boottrk |-> 0,
   bootsec |-> -1, blk |-> 2, offset |-> 0]

WithOffset ==
  [sectrk |-> 3, tracks |-> 2, skew |-> 1, skewtab |-> <<0, 2, 1>>,
   boottrk |-> 0, bootsec |-> 1, blk |-> 2, offset |-> 1]

AllDefinitions == {SharedDivisor, AcrossTracks, OddTracks, WithOffset}

Probe(cylinders, heads, sides) ==
  [cylinders |-> cylinders, heads |-> heads, sectors |-> 9, sides |-> sides]

\* Nothing recognised, and boot sectors that claim every kind of sides, one of them
\* with three heads.
AllProbes ==
  {Probe(0, 0, "alt"), Probe(2, 2, "outback"), Probe(2, 2, "outout"),
   Probe(1, 2, "alt"), Probe(1, 3, "outback")}

=============================================================================
