------------------------------ MODULE ImdImage ------------------------------
(***************************************************************************)
(* An IMD image as LibDsk keeps it: imd_open loads the tracks of the file  *)
(* into a block store in memory (drvimd.c), sectors are read and written   *)
(* there through one track header at a time (drvldbs.c), and imd_close     *)
(* makes the file anew.                                                    *)
(*                                                                         *)
(* A track is <<cylinder, head>>.  Sector contents are Plain, one byte     *)
(* repeated, or Mixed.  Left out: the comment of the image, the recording  *)
(* mode (a track of another density behaves as an absent one), the maps of *)
(* cylinder and head numbers, deleted data marks, running out of memory.   *)
(***************************************************************************)
EXTENDS BlockStore

CONSTANTS
  Plain, Mixed,   \* the contents of a sector, disjoint sets
  Unformatted,    \* the filler of a sector without data
  Tracks,         \* the tracks there may be
  SectorIds,
  SectorLength,   \* dg_secsize of the geometry sectors are asked for with
  Images,         \* the image files found
  NoTrack, NoHead, Nothing, InDoubt,
  MaxWrites       \* sectors written while an image is open

Contents == Plain \cup Mixed

ASSUME ContentsAssumption == Plain \cap Mixed = {} /\ Unformatted \in Plain
ASSUME TracksAssumption ==
  /\ Tracks \subseteq (0 .. 255) \X (0 .. 255)
  /\ SectorIds \subseteq Nat
  /\ SectorLength \in Nat \ {0}
  /\ MaxWrites \in Nat

\* A sector of a track header: its data are in a block, or all the filler.
Statuses == {"none", "nodata", "dataerr"}
Entries == [id : SectorIds, err : Statuses, blank : BOOLEAN, filler : Plain,
            block : Nat, len : Nat \ {0}]

ASSUME MarkersAssumption == NoTrack \notin Tracks /\ NoHead \notin Seq(Entries)

\* A file: complete tracks, and whether it goes on after them with part of one.
FileSectors == [id : SectorIds, err : Statuses, packed : BOOLEAN,
                data : Contents, len : Nat \ {0}]
FileTracks == [track : Tracks, sectors : Seq(FileSectors)]
Files == [tracks : Seq(FileTracks), torn : BOOLEAN]

\* What imd_save_track can have written: a sector is packed to its one byte
\* only if it has one, and there is at most one of a track.
Proper(f) ==
  /\ f \in Files
  /\ \A i, j \in DOMAIN f.tracks : f.tracks[i].track = f.tracks[j].track => i = j
  /\ \A i \in DOMAIN f.tracks : \A n \in DOMAIN f.tracks[i].sectors :
       f.tracks[i].sectors[n].packed => f.tracks[i].sectors[n].data \in Plain

ASSUME ImagesAssumption == \A f \in Images : Proper(f)

VARIABLES
  file,       \* the image file
  readonly,   \* ld_readonly
  phase,      \* "closed", "loading", "open" or "saving"
  store,      \* ld_store
  dir,        \* the directory of the store: track -> block of its header
  cur,        \* ld_cur_track, or the track being loaded
  dirty,      \* dr_dirty
  at,         \* the track of the file loaded next
  pos,        \* the cylinder and head saved next
  err,        \* the result of the last track saved
  failed,     \* some write of this close failed
  reply,      \* how the last call of open or close ended
  writes

vars == <<file, readonly, phase, store, dir, cur, dirty, at, pos, err, failed, reply, writes>>

session == <<store, dir, cur, dirty, writes>>

NoCur == [track |-> NoTrack, head |-> NoHead, dirty |-> FALSE]
Start == [cyl |-> 0, head |-> 0]
EmptyDir == [t \in Tracks |-> Null]

HeadLength(n) == 12 + 18 * n          \* ldbs_put_trackhead
HeadType(t) == <<"T", t[1], t[2], 0>>
SectorType(t, id) == <<"S", t[1], t[2], id>>

Init ==
  /\ file \in Images
  /\ readonly \in BOOLEAN
  /\ phase = "closed" /\ reply = "ok"
  /\ store = EmptyStore /\ dir = EmptyDir /\ cur = NoCur
  /\ dirty = FALSE /\ at = 0 /\ pos = Start /\ err = FALSE /\ failed = FALSE /\ writes = 0

\* The store goes: ldbs_close.
Drop ==
  /\ phase' = "closed"
  /\ store' = EmptyStore /\ dir' = EmptyDir /\ cur' = NoCur
  /\ dirty' = FALSE /\ at' = 0 /\ pos' = Start /\ err' = FALSE /\ failed' = FALSE /\ writes' = 0

------------------------------------------------------------------------------
\* ldbs_put_trackhead.
PutHead(st, d, t, head) ==
  LET put == PutBlock(st, d[t], HeadType(t), head, HeadLength(Len(head)))
  IN [store |-> put.store, dir |-> [d EXCEPT ![t] = put.id]]

\* ldbs_get_trackhead.
StoredHead(st, d, t) == IF d[t] = Null THEN NoHead ELSE st.blocks[d[t]].data

\* imd_open up to the first track.
Open ==
  /\ phase = "closed"
  /\ phase' = "loading" /\ at' = 1
  /\ cur' = NoCur
  /\ UNCHANGED <<file, readonly, store, dir, dirty, pos, err, failed, reply, writes>>

BeginTrack ==
  /\ phase = "loading"
  /\ cur.track = NoTrack
  /\ at \in DOMAIN file.tracks
  /\ cur' = [track |-> file.tracks[at].track, head |-> <<>>, dirty |-> TRUE]
  /\ UNCHANGED <<file, readonly, phase, store, dir, dirty, at, pos, err, failed, reply, writes>>

\* One sector of imd_load_track: a block for its data, or only its filler.
LoadSector ==
  /\ phase = "loading"
  /\ cur.track # NoTrack
  /\ LET sectors == file.tracks[at].sectors
         n == Len(cur.head) + 1
         s == sectors[n]
         entry(blank, filler, block) ==
           [id |-> s.id, err |-> s.err, blank |-> blank, filler |-> filler,
            block |-> block, len |-> s.len]
         load(blank, filler, block) ==
           cur' = [cur EXCEPT !.head = Append(@, entry(blank, filler, block))]
     IN /\ n \in DOMAIN sectors
        /\ \/ s.err = "nodata" /\ load(TRUE, Unformatted, Null) /\ store' = store
           \/ s.err # "nodata" /\ s.packed /\ load(TRUE, s.data, Null) /\ store' = store
           \/ /\ s.err # "nodata" /\ ~ s.packed
              /\ LET put == PutBlock(store, Null, SectorType(cur.track, s.id), s.data, s.len)
                 IN store' = put.store /\ load(FALSE, Unformatted, put.id)
  /\ UNCHANGED <<file, readonly, phase, dir, dirty, at, pos, err, failed, reply, writes>>

\* The end of imd_load_track.
EndTrack ==
  /\ phase = "loading"
  /\ cur.track # NoTrack
  /\ Len(cur.head) = Len(file.tracks[at].sectors)
  /\ LET put == PutHead(store, dir, cur.track, cur.head)
     IN store' = put.store /\ dir' = put.dir
  /\ cur' = NoCur
  /\ at' = at + 1
  /\ UNCHANGED <<file, readonly, phase, dirty, pos, err, failed, reply, writes>>

\* The end of the file: between two tracks, ldbsdisk_attach; within one, an error.
Attach ==
  /\ phase = "loading"
  /\ cur.track = NoTrack
  /\ at = Len(file.tracks) + 1
  /\ \/ /\ ~ file.torn
        /\ phase' = "open" /\ reply' = "ok" /\ at' = 0
        /\ UNCHANGED <<session, pos, err, failed>>
     \/ /\ file.torn
        /\ Drop /\ reply' = "error"
  /\ UNCHANGED <<file, readonly>>

------------------------------------------------------------------------------
\* ldbsdisk_flush_cur_track.
Flushed ==
  IF cur.dirty /\ ~ readonly THEN PutHead(store, dir, cur.track, cur.head)
  ELSE [store |-> store, dir |-> dir]

Selected_MUT_NoFlush(t) ==
  IF cur.track = t THEN [store |-> store, dir |-> dir, cur |-> cur]
  ELSE [store |-> store, dir |-> dir,
        cur |-> [track |-> t, head |-> StoredHead(store, dir, t), dirty |-> FALSE]]
\* ldbsdisk_select_track.
Selected(t) ==
  IF cur.track = t THEN [store |-> store, dir |-> dir, cur |-> cur]
  ELSE [store |-> Flushed.store, dir |-> Flushed.dir,
        cur |-> [track |-> t, head |-> StoredHead(Flushed.store, Flushed.dir, t),
                 dirty |-> FALSE]]

\* lookup_sector: the first sector of that number.
Matches(head, id) ==
  IF head = NoHead THEN {}
  ELSE {n \in DOMAIN head : head[n].id = id /\ \A m \in 1 .. n - 1 : head[m].id # id}

Absent == "absent"
Bad == "bad"

\* ldbsdisk_xread: the sector's contents, or how it fails.
ReadOf(st, head, id) ==
  IF Matches(head, id) = {} THEN Absent
  ELSE LET s == head[CHOOSE n \in Matches(head, id) : TRUE]
       IN IF s.len # SectorLength \/ s.err # "none" THEN Bad
          ELSE IF s.blank \/ s.block = Null THEN s.filler
          ELSE st.blocks[s.block].data

\* A read selects the track, whatever it returns.
Read(t) ==
  /\ phase = "open"
  /\ cur.track # t
  /\ LET sel == Selected(t)
     IN store' = sel.store /\ dir' = sel.dir /\ cur' = sel.cur
  /\ UNCHANGED <<file, readonly, phase, dirty, at, pos, err, failed, reply, writes>>

\* ldbsdisk_xwrite of plain contents: the block goes and the filler is noted.
Blanked_MUT_KeepsBlock(sel, n, v) ==
  [store |-> IF sel.cur.head[n].block = Null THEN sel.store
             ELSE DelBlock(sel.store, sel.cur.head[n].block),
   entry |-> [sel.cur.head[n] EXCEPT !.filler = v, !.blank = TRUE]]
Blanked(sel, n, v) ==
  [store |-> IF sel.cur.head[n].block = Null THEN sel.store
             ELSE DelBlock(sel.store, sel.cur.head[n].block),
   entry |-> [sel.cur.head[n] EXCEPT !.filler = v, !.blank = TRUE, !.block = Null]]

\* Of other contents: they go into the sector's block or a new one.
Filled(sel, n, t, id, v) ==
  LET put == PutBlock(sel.store, sel.cur.head[n].block, SectorType(t, id), v, SectorLength)
  IN [store |-> put.store,
      entry |-> [sel.cur.head[n] EXCEPT !.blank = FALSE, !.block = put.id]]

\* The call succeeds even if the sector has another length, except that a
\* sector without a block then keeps the error of the lookup.
Accepted(s, v) ==
  s.len = SectorLength \/ v \in Mixed \/ s.block # Null

\* dsk_pwrite.
Dirtied(s, v) == dirty \/ Accepted(s, v)

Write(t, id, v) ==
  /\ phase = "open"
  /\ ~ readonly
  /\ writes < MaxWrites
  /\ LET sel == Selected(t)
         hits == Matches(sel.cur.head, id)
         n == CHOOSE k \in hits : TRUE
         new == IF v \in Plain THEN Blanked(sel, n, v) ELSE Filled(sel, n, t, id, v)
     IN /\ hits # {}
        /\ store' = new.store
        /\ dir' = sel.dir
        /\ cur' = [track |-> t, head |-> [sel.cur.head EXCEPT ![n] = new.entry],
                   dirty |-> TRUE]
        /\ dirty' = Dirtied(sel.cur.head[n], v)
  /\ writes' = writes + 1
  /\ UNCHANGED <<file, readonly, phase, at, pos, err, failed, reply>>

------------------------------------------------------------------------------
\* imd_close: nothing was written, or the file cannot be written.
CloseUnsaved ==
  /\ phase = "open"
  /\ \/ ~ dirty /\ reply' = "ok"
     \/ dirty /\ reply' = "error"
  /\ Drop
  /\ UNCHANGED <<file, readonly>>

\* The header in memory goes into the store, and the file is made anew.
BeginSave ==
  /\ phase = "open"
  /\ dirty /\ ~ readonly
  /\ store' = Flushed.store /\ dir' = Flushed.dir /\ cur' = NoCur
  /\ phase' = "saving"
  /\ file' = [tracks |-> <<>>, torn |-> FALSE]
  /\ UNCHANGED <<readonly, dirty, at, pos, err, failed, reply, writes>>

\* Its first line cannot be written.
BeginSaveFails ==
  /\ phase = "open"
  /\ dirty /\ ~ readonly
  /\ file' = [tracks |-> <<>>, torn |-> TRUE]
  /\ Drop /\ reply' = "error"
  /\ UNCHANGED readonly

\* ldbs_max_cyl_head.
Held == {t \in Tracks : dir[t] # Null}
Cylinders == IF Held = {} THEN 0 ELSE 1 + Max({t[1] : t \in Held})
Heads == IF Held = {} THEN 0 ELSE 1 + Max({t[2] : t \in Held})

\* The sectors of a track as imd_save_track writes them.
Recorded(st, s) ==
  LET nodata == s.err = "nodata"
      len == IF s.block = Null THEN s.len ELSE st.blocks[s.block].ulen
  IN [id |-> s.id, err |-> s.err, packed |-> nodata \/ s.blank,
      data |-> IF nodata THEN Unformatted
               ELSE IF s.blank THEN s.filler ELSE st.blocks[s.block].data,
      len |-> len]
SavedTrack(t) ==
  LET head == StoredHead(store, dir, t)
  IN [track |-> t, sectors |-> [n \in DOMAIN head |-> Recorded(store, head[n])]]

Here == <<pos.cyl, pos.head>>
Saving == phase = "saving" /\ pos.cyl < Cylinders
NextCylinder == pos' = [cyl |-> pos.cyl + 1, head |-> 0]
Advance ==
  IF pos.head + 1 < Heads THEN pos' = [pos EXCEPT !.head = @ + 1] ELSE NextCylinder

\* One round of ldbs_all_tracks; nothing can be added to a file that is torn.
SaveTrack ==
  /\ Saving
  /\ file' = IF Here \in Held /\ ~ file.torn
             THEN [file EXCEPT !.tracks = Append(@, SavedTrack(Here))] ELSE file
  /\ err' = FALSE
  /\ Advance
  /\ UNCHANGED <<session, readonly, phase, at, failed, reply>>

\* The track, or a part of it, is not written.  The break leaves the loop over
\* the heads, and only that one.
SaveTrackFails ==
  /\ Saving /\ Here \in Held
  /\ \E part \in BOOLEAN : file' = [file EXCEPT !.torn = @ \/ part]
  /\ err' = TRUE /\ failed' = TRUE
  /\ NextCylinder
  /\ UNCHANGED <<session, readonly, phase, at, reply>>

\* The file as it is when its last bytes are lost.
Cut ==
  \E k \in 0 .. Len(file.tracks), part \in BOOLEAN :
    file' = [tracks |-> SubSeq(file.tracks, 1, k), torn |-> part]

\* The end of imd_close.
EndSave ==
  /\ phase = "saving" /\ ~ Saving
  /\ \/ reply' = (IF err THEN "error" ELSE "ok") /\ file' = file
     \/ reply' = "error" /\ Cut
  /\ Drop
  /\ UNCHANGED readonly

------------------------------------------------------------------------------
\* The process dies.
Crash ==
  /\ phase # "closed"
  /\ IF phase = "saving" THEN Cut ELSE file' = file
  /\ Drop /\ reply' = "crashed"
  /\ UNCHANGED readonly

\* The image is replaced while it is closed.
Replace ==
  /\ phase = "closed"
  /\ file' \in Images
  /\ readonly' \in BOOLEAN
  /\ UNCHANGED <<phase, session, at, pos, err, failed, reply>>

Next ==
  \/ Open \/ BeginTrack \/ LoadSector \/ EndTrack \/ Attach
  \/ \E t \in Tracks : Read(t)
  \/ \E t \in Tracks, id \in SectorIds, v \in Contents : Write(t, id, v)
  \/ CloseUnsaved \/ BeginSave \/ BeginSaveFails
  \/ SaveTrack \/ SaveTrackFails \/ EndSave
  \/ Crash \/ Replace

Spec == Init /\ [][Next]_vars

------------------------------------------------------------------------------
(* Properties *)

\* Type correctness.
BlockTypes == {Free} \cup {HeadType(t) : t \in Tracks}
                     \cup {SectorType(t, id) : t \in Tracks, id \in SectorIds}
Payloads == Contents \cup Seq(Entries) \cup {NoData}
TypeOK ==
  /\ file \in Files
  /\ readonly \in BOOLEAN
  /\ phase \in {"closed", "loading", "open", "saving"}
  /\ store \in Stores(BlockTypes, Payloads)
  /\ dir \in [Tracks -> Nat]
  /\ cur \in [track : Tracks \cup {NoTrack}, head : Seq(Entries) \cup {NoHead},
             dirty : BOOLEAN]
  /\ dirty \in BOOLEAN /\ err \in BOOLEAN /\ failed \in BOOLEAN
  /\ at \in Nat /\ pos \in [cyl : Nat, head : Nat]
  /\ reply \in {"ok", "error", "crashed"}
  /\ writes \in 0 .. MaxWrites

\* The header of a track as the next access will see it.
HeadNow(t) == IF cur.track = t THEN cur.head ELSE StoredHead(store, dir, t)

\* Who refers to blocks: the directory to the header of a track, position 0,
\* and the entries of the header to the blocks of the sectors.
Filed(t) == IF HeadNow(t) = NoHead THEN {}
            ELSE {n \in DOMAIN HeadNow(t) : HeadNow(t)[n].block # Null}
Holders == {<<t, 0>> : t \in Held} \cup UNION {{t} \X Filed(t) : t \in Tracks}
BlockOf(h) == IF h[2] = 0 THEN dir[h[1]] ELSE HeadNow(h[1])[h[2]].block

\* Every block of the store is in use or free as its type says, and each one in
\* use belongs to one header or one sector and to no other: ldbs_delblock and
\* ldbs_putblock never lose a block or hand out one that somebody still has,
\* although the stored header is out of date while the one in memory is not.
BlocksHeldOnce ==
  /\ Sound(store)
  /\ \A h \in Holders : BlockOf(h) \in store.used
  /\ \A g, h \in Holders : BlockOf(g) = BlockOf(h) => g = h
  /\ \A b \in store.used : \E h \in Holders : BlockOf(h) = b

\* What reading every sector gives, and would give once the file is reopened.
Sectors == Tracks \X SectorIds
Disk == [s \in Sectors |-> ReadOf(store, HeadNow(s[1]), s[2])]
FoundIn(sectors, id) ==
  LET hits == {n \in DOMAIN sectors :
                 sectors[n].id = id /\ \A m \in 1 .. n - 1 : sectors[m].id # id}
  IN IF hits = {} THEN Absent
     ELSE LET s == sectors[CHOOSE n \in hits : TRUE]
          IN IF s.err # "none" \/ s.len # SectorLength THEN Bad ELSE s.data
Reopened(f) ==
  [s \in Sectors |->
     IF \E i \in DOMAIN f.tracks : f.tracks[i].track = s[1]
     THEN FoundIn(f.tracks[CHOOSE i \in DOMAIN f.tracks : f.tracks[i].track = s[1]].sectors, s[2])
     ELSE Absent]

ASSUME ResultsAssumption ==
  /\ Absent \notin Contents /\ Bad \notin Contents
  /\ Nothing # InDoubt
  /\ {Nothing, InDoubt} \cap [Sectors -> Contents \cup {Absent, Bad}] = {}

\* The disk while there is one, what the file holds, and how far the call has come.
DiskView == IF phase \in {"open", "saving"} THEN Disk ELSE Nothing
SavedView ==
  CASE phase = "saving" -> InDoubt
    [] phase # "saving" /\ file.torn -> Nothing
    [] OTHER -> Reopened(file)
PhaseView == IF phase = "loading" THEN "closed" ELSE phase

Saved == INSTANCE SavedDisk WITH disk <- DiskView, saved <- SavedView, phase <- PhaseView

\* The image is a disk that is in the file again after a successful close:
\* through loading, one header in memory at a time, blocks freed, reused and
\* rewritten, and packing on the way back, every sector reads as it was last
\* written, before and after the file is reopened, unless a write of the file
\* failed or the image records an error for the sector.
IsSavedDisk == Saved!Spec
==============================================================================
