---------------------------- MODULE CpmDirectory ----------------------------
(***************************************************************************)
(* The CP/M directory as cpmtools/cpmfs.c keeps it in memory: its entries, *)
(* the allocation vector derived from them, the lookups by name and extent *)
(* number, and the validation a directory must pass to be mounted.         *)
(*                                                                         *)
(* Lengths are counted in 128-byte records, the unit in which CP/M (and    *)
(* the padded data PackFiles writes) measures a file.  A file identity is  *)
(* the pair of user area and 8.3 name: isMatching compares both and        *)
(* ignores the attribute bits, which are a field of their own here.        *)
(***************************************************************************)
EXTENDS Integers, FiniteSets

CONSTANTS
  Files,          \* the (user area, 8.3 name) pairs
  Passwords,      \* those of Files whose user byte is 16..31 on a CP/M 3 disk
  Attrs, NoAttr,  \* attribute bit patterns; NoAttr is all bits clear
  MaxDir,         \* maxdir: number of directory entries
  EntriesPerBlock,\* blksiz / 32
  DirBlks,        \* the optional dirblks field of the diskdef, 0 when absent
  GivenExtents,   \* its optional logicalextents field, 0 when absent
  Size,           \* size: number of allocation blocks of the disk
  Ptrs,           \* block pointers of an entry: 16 one-byte or 8 two-byte ones
  PtrLimit,       \* one more than the largest value a pointer can hold
  RecsPerBlock,   \* blksiz / 128
  RecsPerExtent,  \* 16384 / 128 in the code
  ExtnoLimit      \* 2048 in the code: 5 bits of extnol and 6 of extnoh

Free  == "free"   \* status byte 0xe5
Other == "other"  \* label or time stamp entry (0x20, 0x21) the format knows
Junk  == "junk"   \* any other status byte

Owners  == Files \cup {Free, Other, Junk}
Entries == 0..(MaxDir - 1)
Blocks  == 0..(Size - 1)
PtrIdx  == 0..(Ptrs - 1)

\* The blocks the directory occupies: every loop over (maxdir*32+blksiz-1)/blksiz.
StorageBlks == (MaxDir + EntriesPerBlock - 1) \div EntriesPerBlock

\* dirblks: given in the diskdef, or derived from the directory size.
ReservedBlks == IF DirBlks = 0 THEN StorageBlks ELSE DirBlks

\* Logical 16 KiB extents that fit a directory entry, rounded down but never 0.
DefaultExtents ==
  LET n == (Ptrs * RecsPerBlock) \div RecsPerExtent IN IF n = 0 THEN 1 ELSE n

LogicalExtents == IF GivenExtents = 0 THEN DefaultExtents ELSE GivenExtents

\* Records one directory entry can map.
ExtCap == IF Ptrs * RecsPerBlock > RecsPerExtent
          THEN RecsPerExtent * LogicalExtents
          ELSE Ptrs * RecsPerBlock

ASSUME ConstantsAssumption ==
  /\ {MaxDir, EntriesPerBlock, Size, Ptrs, PtrLimit,
      RecsPerBlock, RecsPerExtent, ExtnoLimit} \subseteq Nat \ {0}
  /\ {DirBlks, GivenExtents} \subseteq Nat
  /\ Passwords \subseteq Files
  /\ {Free, Other, Junk} \cap Files = {}
  /\ NoAttr \in Attrs

\* A pointer can name every block, and the diskdef reserves at least the blocks
\* the directory occupies (the one definition of the shipped diskdefs file with
\* a dirblks field, kpiv, reserves one block more than it needs) and puts no more
\* logical extents into an entry than fit (none has a logicalextents field).
ASSUME GeometryAssumption ==
  /\ Size <= PtrLimit
  /\ StorageBlks <= ReservedBlks
  /\ ReservedBlks <= Size
  /\ GivenExtents <= DefaultExtents

\* struct PhysDirectoryEntry, with extnol/extnoh joined into the extent number
\* and lrc left out (the plugin writes whole records, for which it is 0).
Entry == [owner: Owners, attr: Attrs, extno: 0..(ExtnoLimit - 1),
          ptr: [PtrIdx -> 0..(PtrLimit - 1)], rc: 0..(2 * RecsPerExtent - 1)]

NoPtrs == [p \in PtrIdx |-> 0]

\* A deleted entry keeps its other bytes on disk, but nothing reads them.
FreeEntry ==
  [owner |-> Free, attr |-> NoAttr, extno |-> 0, ptr |-> NoPtrs, rc |-> 0]

IsFirst(x, S) == x \in S /\ \A y \in S : x <= y

------------------------------------------------------------------------------
\* Entries that alvInit and findFileExtent take for files: user byte 0..15, or
\* 0..31 under CPMFS_HI_USER, password entries of a CP/M 3 disk included.
Live(d) == {e \in Entries : d[e].owner \in Files}

Referenced_MUT_AnyValue(d) ==
  {b \in 1..(PtrLimit - 1) : \E e \in Live(d), p \in PtrIdx : d[e].ptr[p] = b}

\* The allocation blocks the live entries name and the disk has.
Referenced(d) ==
  {b \in Blocks \ {0} : \E e \in Live(d), p \in PtrIdx : d[e].ptr[p] = b}

AlvInit_MUT_NoDirectory(d) == Referenced(d)

\* alvInit: the reserved directory blocks and every referenced block.
AlvInit(d) == 0..(ReservedBlks - 1) \cup Referenced(d)

AllEntriesOf(d, f) == {e \in Entries : d[e].owner = f}

\* findFileExtent for logical extent x of f: the entry whose physical extent
\* holds it.  The callers take the first one.
EntriesOf(d, f, x) ==
  {e \in AllEntriesOf(d, f) :
     d[e].extno \div LogicalExtents = x \div LogicalExtents}

\* findFreeExtent searches these from the front.
FreeEntries(d) == {e \in Entries : d[e].owner = Free}

------------------------------------------------------------------------------
\* The pointers of the logical extent an entry's extent number names.
Window(e) ==
  LET w == e.extno % LogicalExtents
  IN  {p \in PtrIdx : /\ p >= (w * Ptrs) \div LogicalExtents
                      /\ p < ((w + 1) * Ptrs) \div LogicalExtents}

\* As many pointers are used in the window as the record count needs.
CountFits(e) ==
  (e.rc + RecsPerBlock - 1) \div RecsPerBlock
    = Cardinality({p \in Window(e) : e.ptr[p] # 0})

\* validateRegularDirectoryEntry: the pointers are within the disk.
RegularEntryValid(e) ==
  /\ \A p \in PtrIdx : e.ptr[p] < Size
  /\ Ptrs % LogicalExtents = 0
  /\ CountFits(e)

\* validateDirectory: deleted entries, labels and stamps pass, password entries
\* are checked for their name only, which a member of Files has.
Valid(d) ==
  \A e \in Entries :
    /\ d[e].owner # Junk
    /\ d[e].owner \in Files \ Passwords => RegularEntryValid(d[e])

------------------------------------------------------------------------------
\* What fsck.cpm complains about in the entries it takes for files.
Checked(d) == {e \in Entries : d[e].owner \in Files \ Passwords}
CheckedSlots(d) == {s \in Checked(d) \X PtrIdx : d[s[1]].ptr[s[2]] # 0}

\* A pointer that leaves the part of the disk that is for files.
BadNumbers(d) ==
  {s \in CheckedSlots(d) : d[s[1]].ptr[s[2]] \notin ReservedBlks..(Size - 1)}

BadCounts(d) == {e \in Checked(d) : ~CountFits(d[e])}

AllocatedTwice(d) ==
  {t \in CheckedSlots(d) \X CheckedSlots(d) :
     t[1] # t[2] /\ d[t[1][1]].ptr[t[1][2]] = d[t[2][1]].ptr[t[2][2]]}

DuplicateExtents(d) ==
  {t \in Checked(d) \X Checked(d) :
     t[1] # t[2] /\ d[t[1]].owner = d[t[2]].owner /\ d[t[1]].extno = d[t[2]].extno}

------------------------------------------------------------------------------
\* The entry with the highest extent number of f, the first one among equals.
HighestEntry(d, f) ==
  CHOOSE e \in AllEntriesOf(d, f) :
    \A x \in AllEntriesOf(d, f) :
      d[x].extno < d[e].extno \/ (d[x].extno = d[e].extno /\ e <= x)

\* The size in records cpmNamei reports for an existing file.
FileSize(d, f) ==
  LET h == d[HighestEntry(d, f)] IN h.extno * RecsPerExtent + h.rc

Zero    == <<"zero", 0>>
Refused == <<"refused", 0>>

\* What cpmRead delivers for record r of f from disk k: zeroes for a hole, an
\* error for a block of the directory or (readBlock) one the disk does not have.
ReadRecord(d, k, f, r) ==
  LET S == EntriesOf(d, f, r \div RecsPerExtent)
  IN  IF S = {} THEN Zero
      ELSE LET e == CHOOSE x \in S : IsFirst(x, S)
               b == d[e].ptr[(r % ExtCap) \div RecsPerBlock]
           IN  IF b = 0 THEN Zero
               ELSE IF b < StorageBlks \/ b >= Size THEN Refused
               ELSE k[b][r % RecsPerBlock]

\* A whole file as cpmNamei and cpmRead present it.
Content(d, k, f) == [r \in 0..(FileSize(d, f) - 1) |-> ReadRecord(d, k, f, r)]

==============================================================================
