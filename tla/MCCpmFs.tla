------------------------------ MODULE MCCpmFs ------------------------------
(* Small disks for CpmFs: the directories found on the opened images. *)
EXTENDS CpmFs, Sequences, TLC

CONSTANTS f1, f2, pw, ro, plain, t1, t2

\* A directory whose first entries are s, the rest free.
DirOf(s) == [e \in Entries |-> IF e < Len(s) THEN s[e + 1] ELSE FreeEntry]

FileEntry(f, x, n, ptrs) ==
  [owner |-> f, attr |-> NoAttr, extno |-> x, rc |-> n,
   ptr |-> [p \in PtrIdx |-> IF p < Len(ptrs) THEN ptrs[p + 1] ELSE 0]]

Special(o) == [FreeEntry EXCEPT !.owner = o]

Empty == DirOf(<<>>)

\* A file that names one block twice and a block of the directory, its entries
\* in an order no first-free allocation gives.
CrossLinked ==
  DirOf(<<FileEntry(f1, 2, 1, <<4>>), FileEntry(f1, 1, 2, <<1, 4>>)>>)

\* A label and a password entry, whose bytes are not block pointers at all.
Labelled ==
  DirOf(<<Special(Other), FileEntry(pw, 2, 2, <<PtrLimit - 1, 3>>)>>)

\* A misread directory, which no mount accepts.
Misread == DirOf(<<Special(Junk), FileEntry(f1, 0, 1, <<2>>)>>)

AnyImage == {Empty, CrossLinked, Labelled, Misread}

EmptyOnly == {Empty}
============================================================================
