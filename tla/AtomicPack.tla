----------------------------- MODULE AtomicPack -----------------------------
(***************************************************************************)
(* What PackFiles promises about the disk image: in one step every listed  *)
(* file gets its new data and every other file keeps its own, or the image *)
(* stays as it is.  An image that does not exist is created in that step.  *)
(* A replacement that fails may cost the old image, but then the new one   *)
(* is kept aside for the user.  Other programs may change the image at any *)
(* time; an update that began before such a change may undo it, but still  *)
(* makes a good image.                                                     *)
(***************************************************************************)
CONSTANTS Names, Values, Formats, Missing

VARIABLES
  image,
  foreign,  \* another program changed the image after the update began
  rescued   \* new images kept aside because they could not take the image's place

Absent  == "absent"

Images == [fmt: Formats, files: [Names -> Values \cup {Absent}]]

Pending == [Names -> Values \cup {Absent}]

Overlay(files, p) == [n \in Names |-> IF p[n] = Absent THEN files[n] ELSE p[n]]

\* What adding the files p may make: the image with these files over its own, a
\* new image with these files alone, or, when another program's change was
\* missed, some good image that has them.
Results(p) ==
  IF foreign THEN {g \in Images : Overlay(g.files, p) = g.files}
  ELSE IF image = Missing THEN [fmt: Formats, files: {p}]
  ELSE {[image EXCEPT !.files = Overlay(@, p)]}

Init == image \in Images \cup {Missing} /\ foreign = FALSE /\ rescued = {}

Update(p) ==
  /\ image' \in Results(p)
  /\ foreign' = FALSE
  /\ UNCHANGED rescued

\* The image could not be replaced: it is as before or gone, but the new one is
\* there beside it.
KeptAside(p) ==
  /\ image' \in {image, Missing}
  /\ rescued' \in {rescued \cup {g} : g \in Results(p)}
  /\ UNCHANGED foreign

\* The user removes what was kept aside.
Discard == rescued' \subseteq rescued /\ UNCHANGED <<image, foreign>>

\* An update begins: what other programs did before is part of it.
Begin == foreign' = FALSE /\ UNCHANGED <<image, rescued>>

Outside ==
  /\ image' \in Images \cup {Missing}
  /\ foreign' = TRUE
  /\ UNCHANGED rescued

Next ==
  \/ \E p \in Pending : Update(p)
  \/ \E p \in Pending : KeptAside(p)
  \/ Discard
  \/ Begin
  \/ Outside

Spec == Init /\ [][Next]_<<image, foreign, rescued>>
=============================================================================
