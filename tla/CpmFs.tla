-------------------------------- MODULE CpmFs --------------------------------
(***************************************************************************)
(* The file system operations of cpmtools/cpmfs.c on one mounted image:    *)
(* cpmReadSuper, cpmCreat, cpmWrite, cpmAttrSet, cpmUnlink, cpmUmount and  *)
(* cpmDiscardSuper (cpmRename, cpmUtime and cpmChmod have no caller in the *)
(* plugin).  The in-core directory, its allocation vector and the image    *)
(* are separate: data blocks reach the image at once, the directory only   *)
(* in cpmSync.                                                             *)
(*                                                                         *)
(* cpmWrite is a loop over blocks; each pass is a step here (FindExtent    *)
(* for the findext branch, WriteBlock for the rest), so a write can stop   *)
(* half way when the disk or the directory is full.                        *)
(***************************************************************************)
EXTENDS CpmDirectory

CONSTANTS
  Tags,       \* what distinguishes the data of one write from another's
  MaxRecs,    \* bound: the longest file a client writes, in records
  Lengths,    \* the lengths it writes
  Chunk,      \* records a client hands to one cpmWrite call
  EntriesPerSector, \* secLength / 32
  Images,     \* directories found on the images that are opened
  MaxLosses   \* bound: the blocks of one file a failing device loses; 0: it works

VARIABLES
  mounted,    \* whether the superblock describes a mounted image
  dir,        \* dir: the in-core directory
  alv,        \* alv: the blocks marked as allocated
  dirty,      \* dirtyDirectory
  ddir,       \* the directory stored in the image
  disk,       \* the records stored in each block of the image
  file        \* the open cpmFile and the client's progress in writing it

vars == <<mounted, dir, alv, dirty, ddir, disk, file>>

ASSUME ClientAssumption ==
  /\ MaxRecs \in Nat
  /\ MaxRecs <= ExtnoLimit * RecsPerExtent
  /\ Lengths \subseteq 0..MaxRecs
  /\ Chunk \in Nat \ {0}
  /\ EntriesPerSector \in Nat \ {0}
  /\ Images \subseteq [Entries -> Entry]
  /\ MaxLosses \in Nat

Data == ({"zero", "old"} \cup Tags) \X Nat

NoFile == [phase |-> "none"]

\* ino: the first entry of the file; pos of total records are written; extent
\* and extno are the loop's current entry and extent number; lost: the blocks the
\* device failed to store.
OpenFile ==
  [phase: {"extent", "block", "done"}, ino: Entries, pos: 0..MaxRecs,
   total: 0..MaxRecs, extent: Entries, extno: Nat, tag: Tags,
   lost: 0..MaxLosses]

TypeOK ==
  /\ mounted \in BOOLEAN
  /\ dir \in [Entries -> Entry]
  /\ alv \subseteq Blocks
  /\ dirty \in BOOLEAN
  /\ ddir \in [Entries -> Entry]
  /\ disk \in [Blocks -> [0..(RecsPerBlock - 1) -> Data]]
  /\ file \in OpenFile \cup {NoFile}

------------------------------------------------------------------------------
NoDir == [e \in Entries |-> FreeEntry]

OldBlock(b) == [i \in 0..(RecsPerBlock - 1) |-> <<"old", b>>]

\* An image somebody made, not yet opened.
Init ==
  /\ ddir \in Images
  /\ disk = [b \in Blocks |-> OldBlock(b)]
  /\ mounted = FALSE
  /\ dir = NoDir
  /\ alv = {}
  /\ dirty = FALSE
  /\ file = NoFile

Idle == mounted /\ file = NoFile

\* cpmReadSuper: read the directory, refuse it unless it is valid, and derive
\* the allocation vector from it.
ReadSuper ==
  /\ ~mounted
  /\ Valid(ddir)
  /\ mounted' = TRUE
  /\ dir' = ddir
  /\ alv' = AlvInit(ddir)
  /\ dirty' = FALSE
  /\ UNCHANGED <<ddir, disk, file>>

\* cpmReadSuper on a directory it refuses: its allocations are freed again.
RefuseSuper == ~mounted /\ ~Valid(ddir) /\ UNCHANGED vars

FreeSuper ==
  /\ mounted' = FALSE
  /\ dir' = NoDir
  /\ alv' = {}
  /\ dirty' = FALSE
  /\ file' = NoFile

\* The image's directory after cpmSync wrote the first n of its entries.
Synced(n) == [e \in Entries |-> IF e < n THEN dir[e] ELSE ddir[e]]

\* cpmUmount: cpmSync if the directory is dirty, giving up at the first sector
\* that cannot be written, in the middle of a block too, and then free everything
\* either way.
Umount ==
  /\ Idle
  /\ \E n \in 0..MaxDir :
       /\ n < MaxDir => MaxLosses > 0 /\ n % EntriesPerSector = 0
       /\ ddir' = IF dirty THEN Synced(n) ELSE ddir
  /\ FreeSuper
  /\ UNCHANGED disk

\* cpmDiscardSuper, or the process dying at any point: nothing is written.
Discard ==
  /\ mounted
  /\ FreeSuper
  /\ UNCHANGED <<ddir, disk>>

------------------------------------------------------------------------------
Creat_MUT_AnyName(f, n, t) ==
  /\ Idle
  /\ \E e \in FreeEntries(dir) :
       /\ IsFirst(e, FreeEntries(dir))
       /\ dir' = [dir EXCEPT ![e] = [FreeEntry EXCEPT !.owner = f]]
       /\ file' = [phase |-> IF n = 0 THEN "done" ELSE "extent",
                   ino |-> e, pos |-> 0, total |-> n, extent |-> e,
                   extno |-> 0, tag |-> t, lost |-> 0]
  /\ dirty' = TRUE
  /\ UNCHANGED <<mounted, alv, ddir, disk>>

\* cpmCreat: the name must be new and an entry free; the entry is cleared.  The
\* client is about to write n records of data t to the file.
Creat(f, n, t) ==
  /\ Idle
  /\ AllEntriesOf(dir, f) = {}
  /\ \E e \in FreeEntries(dir) :
       /\ IsFirst(e, FreeEntries(dir))
       /\ dir' = [dir EXCEPT ![e] = [FreeEntry EXCEPT !.owner = f]]
       /\ file' = [phase |-> IF n = 0 THEN "done" ELSE "extent",
                   ino |-> e, pos |-> 0, total |-> n, extent |-> e,
                   extno |-> 0, tag |-> t, lost |-> 0]
  /\ dirty' = TRUE
  /\ UNCHANGED <<mounted, alv, ddir, disk>>

Writing(p) == mounted /\ file.phase = p

Owner == dir[file.ino].owner

\* "directory full" or "device full": cpmWrite returns short, the client closes.
GiveUp == file' = NoFile /\ UNCHANGED <<mounted, dir, alv, dirty, ddir, disk>>

UseExtent(e, x) == [file EXCEPT !.phase = "block", !.extent = e, !.extno = x]

\* A further entry for the file: a copy of its first one with no blocks.
NewExtent_MUT_OldBlocks(x) == [dir[file.ino] EXCEPT !.extno = x, !.rc = 0]
NewExtent(x) == [dir[file.ino] EXCEPT !.extno = x, !.ptr = NoPtrs, !.rc = 0]

\* The findext branch: the entry for the current position, or a new one.
FindExtent ==
  /\ Writing("extent")
  /\ LET x == file.pos \div RecsPerExtent
         S == EntriesOf(dir, Owner, x)
     IN  \/ /\ \E e \in S : IsFirst(e, S) /\ file' = UseExtent(e, x)
            /\ UNCHANGED <<mounted, dir, alv, dirty, ddir, disk>>
         \/ /\ S = {}
            /\ \E e \in FreeEntries(dir) :
                 /\ IsFirst(e, FreeEntries(dir))
                 /\ dir' = [dir EXCEPT ![e] = NewExtent(x)]
                 /\ file' = UseExtent(e, x)
            /\ UNCHANGED <<mounted, alv, dirty, ddir, disk>>
         \/ /\ S = {} /\ FreeEntries(dir) = {}
            /\ GiveUp

------------------------------------------------------------------------------
\* The pointer slot of the current position.
Slot == (file.pos % ExtCap) \div RecsPerBlock

BlockEnd_MUT_ThisBlock == (file.pos \div RecsPerBlock) * RecsPerBlock
BlockEnd == ((file.pos \div RecsPerBlock) + 1) * RecsPerBlock
CallEnd  == ((file.pos \div Chunk) + 1) * Chunk

IsLeast(n, S) == n \in S /\ \A m \in S : n <= m

\* Where this pass stops: end of the block, of the data of this cpmWrite call,
\* or of the file.
PassEnd(n) == IsLeast(n, {BlockEnd, CallEnd, file.total})

FreeBlocks_MUT_IgnoreVector == ReservedBlks..(Size - 1)
FreeBlocks == Blocks \ alv

\* q is the last used pointer, 0 when only the first or none is used.
IsLastUsed(q, ptr) ==
  /\ q # 0 => ptr[q] # 0
  /\ \A p \in PtrIdx : p > q => ptr[p] = 0

RecordCount_MUT_Floor(n) == n % RecsPerExtent
\* blkcnt=((pos-1)%16384)/128+1 with n records written.
RecordCount(n) == 1 + ((n - 1) % RecsPerExtent)

Filled_MUT_AlwaysClear(b, fresh, n) ==
  LET base == file.pos - (file.pos % RecsPerBlock)
  IN  [i \in 0..(RecsPerBlock - 1) |->
         IF base + i \in file.pos..(n - 1) THEN <<file.tag, base + i>> ELSE Zero]

\* The block's records after the pass wrote up to n: a fresh block is cleared
\* first, an existing one keeps what the pass does not cover.
Filled(b, fresh, n) ==
  LET base == file.pos - (file.pos % RecsPerBlock)
  IN  [i \in 0..(RecsPerBlock - 1) |->
         IF base + i \in file.pos..(n - 1) THEN <<file.tag, base + i>>
         ELSE IF fresh THEN Zero ELSE disk[b][i]]

\* writeBlock, its result ignored: a failing device stores only the first k
\* records.
StoreBlock(b, new, k) ==
  /\ k < RecsPerBlock => file.lost < MaxLosses
  /\ disk' = [disk EXCEPT ![b] =
               [i \in 0..(RecsPerBlock - 1) |->
                  IF i < k THEN new[i] ELSE disk[b][i]]]

\* Phase after n records: the loop condition, and the two ways findext is set
\* again: the end of this entry's capacity and the next cpmWrite call.
NextPhase(n) ==
  IF n = file.total THEN "done"
  ELSE IF n % ExtCap = 0 \/ n % Chunk = 0 THEN "extent" ELSE "block"

\* One pass after the extent is found, into block b.  The extent number of the
\* entry moves on with the last pointer: extentno+=(last*blocksize)/extcap.
WritePass(b, fresh) ==
  \E n \in 1..MaxRecs, q \in PtrIdx, k \in 0..RecsPerBlock :
    LET ptr == [dir[file.extent].ptr EXCEPT ![Slot] = b]
        x   == file.extno + ((q * RecsPerBlock) \div ExtCap)
    IN  /\ PassEnd(n)
        /\ IsLastUsed(q, ptr)
        /\ StoreBlock(b, Filled(b, fresh, n), k)
        /\ dir' = [dir EXCEPT ![file.extent].ptr = ptr,
                              ![file.extent].extno = x % ExtnoLimit,
                              ![file.extent].rc = RecordCount(n)]
        /\ file' = [file EXCEPT !.pos = n, !.extno = x, !.phase = NextPhase(n),
                                !.lost = IF k < RecsPerBlock THEN file.lost + 1
                                         ELSE file.lost]
        /\ dirty' = TRUE
        /\ UNCHANGED <<mounted, ddir>>

\* The findblock branch with allocBlock, and the write itself.
WriteBlock ==
  /\ Writing("block")
  /\ LET old == dir[file.extent].ptr[Slot]
     IN  \/ /\ old # 0
            /\ WritePass(old, FALSE)
            /\ UNCHANGED alv
         \/ /\ old = 0
            /\ \E b \in FreeBlocks :
                 /\ IsFirst(b, FreeBlocks)
                 /\ WritePass(b, TRUE)
                 /\ alv' = alv \cup {b}
         \/ /\ old = 0 /\ FreeBlocks = {}
            /\ GiveUp

\* cpmClose after a complete write.
Close ==
  /\ Writing("done")
  /\ file' = NoFile
  /\ UNCHANGED <<mounted, dir, alv, dirty, ddir, disk>>

AttrTargets_MUT_FirstOnly == {file.ino}
\* The inode's entry and every later entry of the file.
AttrTargets == {e \in AllEntriesOf(dir, Owner) : e >= file.ino}

\* cpmAttrSet on the inode of the file just written, and cpmClose.
AttrSet(a) ==
  /\ Writing("done")
  /\ dir' = [e \in Entries |->
               IF e \in AttrTargets THEN [dir[e] EXCEPT !.attr = a] ELSE dir[e]]
  /\ dirty' = TRUE
  /\ file' = NoFile
  /\ UNCHANGED <<mounted, alv, ddir, disk>>

------------------------------------------------------------------------------
\* cpmUnlink: free all entries of the file and rebuild the allocation vector.
Unlink(f) ==
  /\ Idle
  /\ AllEntriesOf(dir, f) # {}
  /\ LET d == [e \in Entries |-> IF dir[e].owner = f THEN FreeEntry ELSE dir[e]]
     IN  dir' = d /\ alv' = AlvInit(d)
  /\ dirty' = TRUE
  /\ UNCHANGED <<mounted, ddir, disk, file>>

Next ==
  \/ ReadSuper
  \/ RefuseSuper
  \/ Umount
  \/ Discard
  \/ \E f \in Files, n \in Lengths, t \in Tags : Creat(f, n, t)
  \/ FindExtent
  \/ WriteBlock
  \/ Close
  \/ \E a \in Attrs : AttrSet(a)
  \/ \E f \in Files : Unlink(f)

Spec == Init /\ [][Next]_vars

\* cpmWrite is a loop: once called it runs until it returns.
FairSpec == Spec /\ WF_vars(FindExtent \/ WriteBlock)

------------------------------------------------------------------------------
\* SAFETY

\* While an image is mounted a block counts as allocated exactly when it is
\* reserved for the directory or some live entry names it, so allocBlock hands
\* out no used block and loses none, however creates, partial writes, deletes
\* and remounts were ordered.
AllocationExact ==
  mounted => alv = {b \in Blocks : \/ b < ReservedBlks
                                    \/ \E e \in Entries, p \in PtrIdx :
                                         /\ dir[e].owner \in Files
                                         /\ dir[e].ptr[p] = b /\ b # 0}

\* Two pointer slots of live entries share a block.
Slots == Entries \X PtrIdx
SharedSlots(d) ==
  {s \in Slots \X Slots :
     /\ s[1] # s[2]
     /\ s[1][1] \in Live(d) /\ s[2][1] \in Live(d)
     /\ d[s[1][1]].ptr[s[1][2]] = d[s[2][1]].ptr[s[2][2]]
     /\ d[s[1][1]].ptr[s[1][2]] # 0}

\* No operation ever gives two files, or two places of one file, the same
\* block: sharing exists at most where the opened image already had it (the
\* validation accepts cross-linked images).
NoNewSharing == [][mounted /\ mounted' => SharedSlots(dir') \subseteq SharedSlots(dir)]_vars

\* File data never lands in the blocks that hold the directory, although the
\* validation accepts entries that point there (Kaypro RESERVED.SYS).
DirectoryBlocksKept ==
  [][\A b \in 0..(StorageBlks - 1) : disk'[b] = disk[b]]_vars

\* No step, in the middle of a write or after it fell short, leaves anything in
\* the directory that fsck.cpm would complain about and did not before: files
\* keep to their part of the disk, no block is named twice, no extent number of
\* a file occurs twice, and every entry counts the records its blocks hold.
NothingToRepair ==
  [][mounted /\ mounted' =>
       /\ BadNumbers(dir') \subseteq BadNumbers(dir)
       /\ BadCounts(dir') \subseteq BadCounts(dir)
       /\ AllocatedTwice(dir') \subseteq AllocatedTwice(dir)
       /\ DuplicateExtents(dir') \subseteq DuplicateExtents(dir)]_vars

Present(d) == {f \in Files : AllEntriesOf(d, f) # {}}

\* The file the open handle writes, or none.
BeingWritten == IF file = NoFile THEN {} ELSE {Owner}

\* While the image stays mounted, a step changes the size or the data of no
\* file except the one it creates, writes or deletes.
OthersUntouched ==
  [][mounted /\ mounted' =>
       \A f \in (Present(dir) \cap Present(dir')) \ BeingWritten :
         Content(dir', disk', f) = Content(dir, disk, f)]_vars

\* A completely written file has the length that was written and, unless the
\* device lost some of it, reads back record for record, although the loop may
\* have spread it over several entries and whatever blocks were free.
WrittenReadsBack ==
  mounted /\ file # NoFile /\ file.phase = "done" /\ file.lost = 0 =>
    Content(dir, disk, Owner) =
      [r \in 0..(file.total - 1) |-> <<file.tag, r>>]

\* An image that could be mounted still can be after any session with it:
\* whatever directory cpmSync stores, complete or partial, after complete or
\* interrupted writes, cpmReadSuper accepts again.
StaysMountable == [][Valid(ddir) => Valid(ddir')]_vars

\* All entries of every file carry the same attributes.
Uniform(d) ==
  \A e1, e2 \in Live(d) : d[e1].owner = d[e2].owner => d[e1].attr = d[e2].attr

\* While the image stays mounted, no step makes the attributes of the entries of
\* a file differ: cpmNamei reads them from one entry only, cpmAttrSet reaches
\* only entries behind the inode's.  (A cpmSync that fails half way can mix
\* entries of two sessions.)
AttrsUniform == [][mounted /\ mounted' /\ Uniform(dir) => Uniform(dir')]_vars

\* LIVENESS

\* cpmWrite returns: complete, or short when something is full.
WriteReturns == (file.phase \in {"extent", "block"}) ~> (file.phase \in {"none", "done"})

==============================================================================
