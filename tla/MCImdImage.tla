----------------------------- MODULE MCImdImage -----------------------------
(***************************************************************************)
(* Images for the run of ImdImage: one of two cylinders and one of two     *)
(* sides, sectors of the length asked for (128) and of another one (256),  *)
(* whole, packed and with recorded errors, and a plain sector that is not  *)
(* packed.  Files cut off within a track come from closes that fail.       *)
(***************************************************************************)
EXTENDS ImdImage

CONSTANTS p, m, w

S(id, mark, packed, data, len) ==
  [id |-> id, err |-> mark, packed |-> packed, data |-> data, len |-> len]
T(c, h, sectors) == [track |-> <<c, h>>, sectors |-> sectors]

SomeTracks == {<<0, 0>>, <<0, 1>>, <<1, 0>>}
SomeImages == {
  [tracks |-> <<T(0, 0, <<S(1, "none", FALSE, m, 128), S(2, "none", FALSE, p, 128)>>),
                T(1, 0, <<S(1, "none", TRUE, p, 128)>>)>>, torn |-> FALSE],
  [tracks |-> <<T(0, 0, <<S(1, "none", FALSE, m, 256), S(2, "none", TRUE, p, 256)>>),
                T(0, 1, <<S(1, "dataerr", FALSE, w, 128), S(2, "nodata", TRUE, p, 128)>>)>>,
   torn |-> FALSE]}
==============================================================================
