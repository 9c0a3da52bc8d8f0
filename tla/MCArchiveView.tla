--------------------------- MODULE MCArchiveView ---------------------------
(* Directories with files of several entries and in several user areas. *)
EXTENDS ArchiveView, TLC

CONSTANTS a0, b0, a1, pw, u0, u1, u17, na, nb, d1, t1, plain

UserOf == (a0 :> u0) @@ (b0 :> u0) @@ (a1 :> u1) @@ (pw :> u17)
ShortOf == (a0 :> na) @@ (b0 :> nb) @@ (a1 :> na) @@ (pw :> na)

E(f, x, n, ptrs) ==
  [owner |-> f, attr |-> NoAttr, extno |-> x, rc |-> n,
   ptr |-> [p \in PtrIdx |-> IF p < Len(ptrs) THEN ptrs[p + 1] ELSE 0]]

Directory(s) == [e \in Entries |-> IF e < Len(s) THEN s[e + 1] ELSE FreeEntry]

Image(s, label, writable) ==
  [dir |-> Directory(s), label |-> label, writable |-> writable]

\* One user area, the second entry of a file before its first.
Plain == Image(<<E(a0, 1, 1, <<4>>), E(b0, 0, 1, <<5>>), E(a0, 0, 2, <<2, 3>>)>>, FALSE, TRUE)

\* The same name in two user areas; one of the files points into the directory.
TwoUsers == Image(<<E(a1, 0, 1, <<3>>), E(a0, 0, 2, <<2, 1>>)>>, FALSE, TRUE)

\* A CP/M 3 disk with a label and a password entry, in a TD0 image.
Cpm3 == Image(<<E(pw, 0, 0, <<>>), E(a0, 0, 1, <<2>>)>>, TRUE, FALSE)

SomeImages == {Plain, TwoUsers, Cpm3}
============================================================================
