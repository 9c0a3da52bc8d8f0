-------------------------- MODULE SavedDiskProofs --------------------------
(***************************************************************************)
(* Proof that an image in memory, as ImdImage describes it, is the disk    *)
(* that SavedDisk promises, for any images and tracks.                     *)
(***************************************************************************)
EXTENDS ImdImageProofs

------------------------------------------------------------------------------
(* What the headers and the store show *)

\* A block that is kept shows the same.
LEMMA EntryKept ==
  ASSUME NEW st, NEW new, NEW h, NEW u, NEW k, Entry(h, u, k), SectorKept(st, new, h, u, k)
  PROVE  /\ ValueOf(new, h[u][k]) = ValueOf(st, h[u][k])
         /\ Whole(st, h[u][k]) => Whole(new, h[u][k])
<1> QED BY DEF SectorKept, SectorBlock, ValueOf, Whole

\* The first sector of a number is the only first one.
LEMMA OneMatch ==
  ASSUME NEW head \in Seq(Entries), NEW id, NEW n \in Matches(head, id)
  PROVE  Matches(head, id) = {n}
<1>1. n \in Nat /\ n \in DOMAIN head
  BY DEF Matches
<1>2. ASSUME NEW k \in Matches(head, id), k # n PROVE FALSE
  <2>1. k \in Nat /\ k \in DOMAIN head /\ head[k].id = id /\ head[n].id = id
    BY MarkersAssumption DEF Matches
  <2>2. (\A m \in 1 .. k - 1 : head[m].id # id) /\ (\A m \in 1 .. n - 1 : head[m].id # id)
    BY MarkersAssumption DEF Matches
  <2>3. n \in 1 .. k - 1 \/ k \in 1 .. n - 1
    BY <1>1, <1>2, <2>1
  <2> QED BY <2>1, <2>2, <2>3
<1> QED BY <1>2

LEMMA ReadOfMatch ==
  ASSUME NEW head \in Seq(Entries), NEW id, NEW n \in Matches(head, id), NEW st
  PROVE  ReadOf(st, head, id) = ValueOf(st, head[n])
<1>1. Matches(head, id) = {n} /\ (CHOOSE k \in Matches(head, id) : TRUE) = n
  BY OneMatch
<1> QED BY <1>1 DEF ReadOf, ValueOf

\* Two tracks with the same numbers in the same places are searched alike.
LEMMA SameSearch ==
  ASSUME NEW head \in Seq(Entries), NEW sectors, DOMAIN sectors = DOMAIN head,
         \A n \in DOMAIN head : sectors[n].id = head[n].id,
         NEW id, NEW st
  PROVE  \/ ReadOf(st, head, id) = Absent /\ FoundIn(sectors, id) = Absent
         \/ \E n \in DOMAIN head : /\ ReadOf(st, head, id) = ValueOf(st, head[n])
                                   /\ FoundIn(sectors, id) = FileValue(sectors[n])
<1> DEFINE hits == {n \in DOMAIN sectors :
                      sectors[n].id = id /\ \A m \in 1 .. n - 1 : sectors[m].id # id}
<1>1. DOMAIN head = 1 .. Len(head) /\ Len(head) \in Nat
  OBVIOUS
<1>2. hits = Matches(head, id)
  <2>1. \A n \in DOMAIN head : \A m \in 1 .. n - 1 : m \in DOMAIN head
    BY <1>1
  <2> QED BY <2>1, MarkersAssumption DEF Matches
<1>3. FoundIn(sectors, id) = IF hits = {} THEN Absent
                             ELSE FileValue(sectors[CHOOSE n \in hits : TRUE])
  BY DEF FoundIn, FileValue
<1> HIDE DEF hits
<1>4. CASE hits = {}
  BY <1>2, <1>3, <1>4 DEF ReadOf
<1>5. CASE hits # {}
  <2>1. PICK n \in hits : n = CHOOSE k \in hits : TRUE
    BY <1>5
  <2>2. n \in Matches(head, id) /\ n \in DOMAIN head
    BY <1>2, MarkersAssumption DEF Matches
  <2>3. ReadOf(st, head, id) = ValueOf(st, head[n])
    BY <2>2, ReadOfMatch
  <2> QED BY <1>3, <1>5, <2>1, <2>2, <2>3
<1> QED BY <1>4, <1>5

\* What a sector of a header or of a file shows is its contents or an error.
LEMMA ValueTypes ==
  ASSUME IInv
  PROVE  /\ \A t \in Tracks, n \in Nat :
              Entry(HNow, t, n) =>
                LET s == HNow[t][n]
                IN ValueOf(store, s) \in
                     IF s.len # SectorLength \/ s.err # "none" THEN {Bad} ELSE Contents
         /\ \A s \in FileSectors : FileValue(s) \in Contents \cup {Bad}
<1>1. SectorsIn(store, HNow) /\ HNow \in [Tracks -> TrackHeads]
  BY HeldNow DEF Owned, Typed
<1>2. ASSUME NEW t \in Tracks, NEW n \in Nat, Entry(HNow, t, n)
      PROVE  LET s == HNow[t][n]
             IN ValueOf(store, s) \in
                  IF s.len # SectorLength \/ s.err # "none" THEN {Bad} ELSE Contents
  <2> DEFINE s == HNow[t][n]
  <2>1. s \in Entries
    <3>1. HNow[t] \in Seq(Entries) /\ n \in DOMAIN HNow[t]
      BY <1>1, <1>2 DEF Entry, TrackHeads
    <3> QED BY <3>1
  <2>2. s.filler \in Contents
    BY <2>1 DEF Entries, Contents
  <2>3. s.block # Null => store.blocks[s.block].data \in Contents
    BY <1>1, <1>2 DEF SectorsIn, SectorBlock
  <2> QED BY <2>2, <2>3 DEF ValueOf
<1>3. ASSUME NEW s \in FileSectors PROVE FileValue(s) \in Contents \cup {Bad}
  BY DEF FileSectors, FileValue
<1> QED BY <1>2, <1>3

\* The contents of the disk, as the headers in memory and in the store have them.
DiskOf(st, h) == [s \in Sectors |-> ReadOf(st, h[s[1]], s[2])]

LEMMA DiskIs == Disk = DiskOf(store, HNow)
<1>1. ASSUME NEW s \in Sectors PROVE HeadNow(s[1]) = HNow[s[1]]
  <2>1. s[1] \in Tracks
    BY DEF Sectors
  <2> QED BY <2>1 DEF HeadNow, HNow, HeadsOf
<1> QED BY <1>1 DEF Disk, DiskOf

\* A header shows in one place another thing.
LEMMA OtherReadsSame ==
  ASSUME NEW head \in TrackHeads, NEW new \in TrackHeads, NEW st, NEW st2, NEW id,
         Matches(new, id) = Matches(head, id),
         \A n \in Matches(head, id) : ValueOf(st2, new[n]) = ValueOf(st, head[n])
  PROVE  ReadOf(st2, new, id) = ReadOf(st, head, id)
<1>1. CASE Matches(head, id) = {}
  BY <1>1 DEF ReadOf
<1>2. CASE Matches(head, id) # {}
  <2>1. PICK n : n \in Matches(head, id)
    BY <1>2
  <2>2. head \in Seq(Entries) /\ new \in Seq(Entries)
    BY <2>1 DEF Matches, TrackHeads
  <2>3. ReadOf(st, head, id) = ValueOf(st, head[n]) /\ ReadOf(st2, new, id) = ValueOf(st2, new[n])
    BY <2>1, <2>2, ReadOfMatch
  <2> QED BY <2>1, <2>3
<1> QED BY <1>1, <1>2

\* A disk whose headers and blocks stay is the same disk.
LEMMA SameDisk ==
  ASSUME NEW st, NEW new, NEW h \in [Tracks -> TrackHeads], SectorsKept(st, new, h)
  PROVE  DiskOf(new, h) = DiskOf(st, h)
<1> SUFFICES ASSUME NEW s \in Sectors
             PROVE  ReadOf(new, h[s[1]], s[2]) = ReadOf(st, h[s[1]], s[2])
  BY DEF DiskOf
<1>1. s[1] \in Tracks /\ h[s[1]] \in TrackHeads
  BY DEF Sectors
<1>2. ASSUME NEW n \in Matches(h[s[1]], s[2])
      PROVE  ValueOf(new, h[s[1]][n]) = ValueOf(st, h[s[1]][n])
  <2>1. h[s[1]] # NoHead /\ n \in DOMAIN h[s[1]]
    BY <1>2 DEF Matches
  <2>2. n \in Nat
    BY <2>1, <1>1 DEF TrackHeads
  <2>3. Entry(h, s[1], n) /\ SectorKept(st, new, h, s[1], n)
    BY <1>1, <2>1, <2>2 DEF Entry, SectorsKept
  <2> QED BY <2>3, EntryKept
<1> QED BY <1>1, <1>2, OtherReadsSame

------------------------------------------------------------------------------
(* The inductive invariant *)

\* Every block of a sector of the length asked for is of that length; nothing is
\* saved, and nothing has failed, but while saving.
SizesInv == \A t \in Tracks, k \in Nat : Entry(HNow, t, k) => Whole(store, HNow[t][k])
IdleInv == phase # "saving" => pos = Start /\ ~ failed

\* What has been loaded of the file shows what the file does.
Alike(st, h, t, sectors) ==
  \A k \in Nat : Entry(h, t, k) =>
    /\ k \in DOMAIN sectors
    /\ h[t][k].id = sectors[k].id
    /\ ValueOf(st, h[t][k]) = FileValue(sectors[k])
Complete(h, t, sectors) == h[t] # NoHead /\ DOMAIN h[t] = DOMAIN sectors
Begun(i) == i < at \/ (i = at /\ cur.track # NoTrack)
LoadedInv ==
  phase = "loading" =>
    \A i \in DOMAIN file.tracks :
      /\ Begun(i) => Alike(store, HNow, file.tracks[i].track, file.tracks[i].sectors)
      /\ i < at => Complete(HNow, file.tracks[i].track, file.tracks[i].sectors)

\* Until something is written the file holds the disk.
CleanInv == phase = "open" => ~ file.torn /\ (~ dirty => Disk = Reopened(file))

\* Unless a write has failed, the file that is being saved holds the tracks before
\* the next one, and only them.
TrackIn(st, d, t) ==
  LET head == StoredHead(st, d, t)
  IN [track |-> t, sectors |-> [n \in DOMAIN head |-> Recorded(st, head[n])]]
SavedSoFar(st, d, f, p) ==
  /\ ~ f.torn
  /\ \A i \in DOMAIN f.tracks :
       /\ f.tracks[i].track \in Tracks /\ d[f.tracks[i].track] # Null
       /\ f.tracks[i] = TrackIn(st, d, f.tracks[i].track)
  /\ \A t \in Tracks : d[t] # Null /\ Before(t, p) =>
       \E i \in DOMAIN f.tracks : f.tracks[i].track = t
SavedInv == phase = "saving" /\ ~ failed => SavedSoFar(store, dir, file, pos)

DiskInv == SizesInv /\ IdleInv /\ LoadedInv /\ CleanInv /\ SavedInv

\* The headers of the next state.
LEMMA HNext == HNow' = HeadsOf(store', dir', cur')
<1> QED BY DEF HNow, HeadsOf, StoredHead

\* What is to be shown of the next state about the tracks loaded.
LEMMA LoadedNext ==
  ASSUME phase' = "loading" =>
           \A i \in DOMAIN file'.tracks :
             /\ Begun(i)' =>
                  Alike(store', HNow', file'.tracks[i].track, file'.tracks[i].sectors)
             /\ i < at' => Complete(HNow', file'.tracks[i].track, file'.tracks[i].sectors)
  PROVE  LoadedInv'
<1>1. ASSUME NEW i \in DOMAIN file'.tracks
      PROVE  /\ Alike(store, HNow, file.tracks[i].track, file.tracks[i].sectors)'
                  = Alike(store', HNow', file'.tracks[i].track, file'.tracks[i].sectors)
             /\ Complete(HNow, file.tracks[i].track, file.tracks[i].sectors)'
                  = Complete(HNow', file'.tracks[i].track, file'.tracks[i].sectors)
  BY DEF Alike, Complete, Entry, ValueOf
<1> QED BY <1>1 DEF LoadedInv

\* What is to be shown of the next state about the tracks saved.
LEMMA SavedNext == SavedSoFar(store', dir', file', pos') => SavedInv'
<1>1. SavedSoFar(store, dir, file, pos)' = SavedSoFar(store', dir', file', pos')
  BY DEF SavedSoFar, TrackIn, StoredHead, Recorded, Before
<1> QED BY <1>1 DEF SavedInv

LEMMA HTyped == ASSUME IInv PROVE HNow \in [Tracks -> TrackHeads]
<1> QED BY HeldNow DEF Owned, Typed

\* A step that keeps headers and blocks keeps sizes, the disk and what was loaded.
LEMMA HeadsStay ==
  ASSUME IInv, SizesInv, HNow' = HNow, SectorsKept(store, store', HNow)
  PROVE  /\ SizesInv' /\ Disk' = Disk
         /\ \A t \in Tracks : \A sectors :
              Alike(store, HNow, t, sectors) => Alike(store', HNow', t, sectors)
<1>1. ASSUME NEW t \in Tracks, NEW k \in Nat, Entry(HNow, t, k)
      PROVE  /\ ValueOf(store', HNow[t][k]) = ValueOf(store, HNow[t][k])
             /\ Whole(store', HNow[t][k])
  <2>1. SectorKept(store, store', HNow, t, k)
    BY DEF SectorsKept
  <2> QED BY <2>1, <1>1, EntryKept DEF SizesInv
<1>2. SizesInv'
  BY <1>1 DEF SizesInv
<1>3. Disk' = Disk
  <2>1. (Disk = DiskOf(store, HNow))'
    BY DiskIs, PTL
  <2>2. DiskOf(store', HNow) = DiskOf(store, HNow)
    BY HTyped, SameDisk
  <2>3. DiskOf(store, HNow)' = DiskOf(store', HNow')
    BY DEF DiskOf, ReadOf, Matches
  <2> QED BY <2>1, <2>2, <2>3, DiskIs
<1>4. \A t \in Tracks : \A sectors :
        Alike(store, HNow, t, sectors) => Alike(store', HNow', t, sectors)
  BY <1>1 DEF Alike
<1> QED BY <1>2, <1>3, <1>4

\* A step that changes one header in one place keeps sizes and the other places.
Becomes(t, n, head) ==
  /\ head \in Seq(Entries)
  /\ HNow' = [HNow EXCEPT ![t] = head] /\ OthersKept(store, store', HNow, t, n)
  /\ Whole(store', head[n])
  /\ \A k \in Nat \ {n} :
       k \in DOMAIN head => Entry(HNow, t, k) /\ head[k] = HNow[t][k]

LEMMA HeadChanges ==
  ASSUME IInv, SizesInv, NEW t \in Tracks, NEW n \in Nat, NEW head, Becomes(t, n, head)
  PROVE  /\ SizesInv'
         /\ HNow'[t] = head /\ \A u \in Tracks \ {t} : HNow'[u] = HNow[u]
         /\ \A u \in Tracks, k \in Nat : Entry(HNow', u, k) /\ ~ (u = t /\ k = n) =>
              /\ Entry(HNow, u, k) /\ HNow'[u][k] = HNow[u][k]
              /\ ValueOf(store', HNow'[u][k]) = ValueOf(store, HNow[u][k])
<1>0. /\ head \in Seq(Entries)
      /\ HNow' = [HNow EXCEPT ![t] = head] /\ OthersKept(store, store', HNow, t, n)
      /\ Whole(store', head[n])
      /\ \A k \in Nat \ {n} :
           k \in DOMAIN head => Entry(HNow, t, k) /\ head[k] = HNow[t][k]
  BY DEF Becomes
<1>1. HNow'[t] = head /\ \A u \in Tracks \ {t} : HNow'[u] = HNow[u]
  BY <1>0, HTyped
<1>2. ASSUME NEW u \in Tracks, NEW k \in Nat, Entry(HNow', u, k), ~ (u = t /\ k = n)
      PROVE  /\ Entry(HNow, u, k) /\ HNow'[u][k] = HNow[u][k]
             /\ ValueOf(store', HNow'[u][k]) = ValueOf(store, HNow[u][k])
             /\ Whole(store', HNow'[u][k])
  <2>1. Entry(HNow, u, k) /\ HNow'[u][k] = HNow[u][k]
    <3>1. CASE u = t
      BY <3>1, <1>0, <1>1, <1>2 DEF Entry
    <3>2. CASE u # t
      BY <3>2, <1>1, <1>2 DEF Entry
    <3> QED BY <3>1, <3>2
  <2>2. SectorKept(store, store', HNow, u, k)
    BY <1>0, <1>2 DEF OthersKept
  <2> QED BY <2>1, <2>2, EntryKept DEF SizesInv
<1>3. ASSUME NEW u \in Tracks, NEW k \in Nat, Entry(HNow', u, k)
      PROVE  Whole(store', HNow'[u][k])
  <2>1. CASE u = t /\ k = n
    BY <2>1, <1>0, <1>1, <1>3 DEF Entry
  <2> QED BY <2>1, <1>2, <1>3
<1>4. SizesInv'
  BY <1>3 DEF SizesInv
<1> QED BY <1>1, <1>2, <1>4

\* The write of a sector changes what it shows, if that can be read, and nothing
\* else; if it cannot, nothing shows.
LEMMA WriteShows ==
  ASSUME IInv, DiskInv, NEW t \in Tracks, NEW id \in SectorIds, NEW v \in Contents,
         Write(t, id, v)
  PROVE  /\ SizesInv'
         /\ \/ Disk' = Disk
            \/ dirty' /\ Disk[<<t, id>>] \in Contents /\ Disk' = [Disk EXCEPT ![<<t, id>>] = v]
<1>1. PICK n \in Nat, e \in Entries : Writes(t, id, v, n, e)
  BY SectorWritten
<1> DEFINE old == HNow[t]
           s == old[n]
           head == [old EXCEPT ![n] = e]
           good == s.len = SectorLength /\ s.err = "none"
<1>2. /\ old # NoHead /\ old \in Seq(Entries) /\ n \in Matches(old, id)
      /\ HNow' = [HNow EXCEPT ![t] = head]
      /\ OthersKept(store, store', HNow, t, n)
      /\ e.id = s.id /\ Whole(store', e)
      /\ ValueOf(store', e) = IF good THEN v ELSE Bad
      /\ dirty' = Dirtied(s, v)
  BY <1>1, HNext DEF Writes
<1>3. n \in DOMAIN old /\ s.id = id
  BY <1>2 DEF Matches
<1>4. /\ head \in Seq(Entries) /\ DOMAIN head = DOMAIN old /\ head[n] = e
      /\ \A k \in DOMAIN old : k # n => head[k] = old[k]
  BY <1>2, <1>3
<1>5. /\ SizesInv'
      /\ HNow'[t] = head /\ \A u \in Tracks \ {t} : HNow'[u] = HNow[u]
      /\ \A u \in Tracks, k \in Nat : Entry(HNow', u, k) /\ ~ (u = t /\ k = n) =>
           /\ Entry(HNow, u, k) /\ HNow'[u][k] = HNow[u][k]
           /\ ValueOf(store', HNow'[u][k]) = ValueOf(store, HNow[u][k])
  <2>1. \A k \in Nat \ {n} : k \in DOMAIN head => Entry(HNow, t, k) /\ head[k] = old[k]
    BY <1>2, <1>4 DEF Entry
  <2> HIDE DEF head, s
  <2>2. Becomes(t, n, head)
    BY <2>1, <1>2, <1>4 DEF Becomes
  <2> QED BY <2>2, HeadChanges DEF DiskInv
<1>6. ASSUME NEW r \in Sectors, r # <<t, id>>
      PROVE  ReadOf(store', HNow'[r[1]], r[2]) = ReadOf(store, HNow[r[1]], r[2])
  <2> DEFINE u == r[1]
             i == r[2]
  <2>0. u \in Tracks /\ i \in SectorIds /\ r = <<u, i>>
    BY DEF Sectors
  <2>1. HNow[u] \in TrackHeads /\ HNow'[u] \in TrackHeads
    BY <2>0, <1>4, <1>5, HTyped DEF TrackHeads
  <2>2. Matches(HNow'[u], i) = Matches(HNow[u], i)
    <3>1. CASE u # t
      BY <3>1, <2>0, <1>5
    <3>2. CASE u = t
      <4>1. \A k \in DOMAIN old : head[k].id = old[k].id
        BY <1>2, <1>4
      <4>2. DOMAIN old = 1 .. Len(old) /\ Len(old) \in Nat
        BY <1>2
      <4>3. \A k \in DOMAIN old : \A m \in 1 .. k - 1 : m \in DOMAIN old
        BY <4>2
      <4>4. head # NoHead
        BY <1>4, MarkersAssumption
      <4> HIDE DEF head
      <4>5. Matches(head, i) = Matches(old, i)
        BY <4>1, <4>3, <4>4, <1>2, <1>4 DEF Matches
      <4> QED BY <3>2, <4>5, <1>5
    <3> QED BY <3>1, <3>2
  <2>3. ASSUME NEW k \in Matches(HNow[u], i)
        PROVE  ValueOf(store', HNow'[u][k]) = ValueOf(store, HNow[u][k])
    <3>1. /\ HNow[u] # NoHead /\ k \in DOMAIN HNow[u] /\ HNow[u][k].id = i
          /\ HNow'[u] # NoHead /\ k \in DOMAIN HNow'[u]
      BY <2>2, <2>3 DEF Matches
    <3>2. k \in Nat
      BY <3>1, <2>1 DEF TrackHeads
    <3>3. ~ (u = t /\ k = n)
      BY <3>1, <2>0, <1>3, <1>6
    <3> HIDE DEF u, i
    <3> QED BY <3>1, <3>2, <3>3, <2>0, <1>5 DEF Entry
  <2> HIDE DEF u, i
  <2>4. ReadOf(store', HNow'[u], i) = ReadOf(store, HNow[u], i)
    BY <2>1, <2>2, <2>3, OtherReadsSame
  <2> QED BY <2>4 DEF u, i
<1>7. /\ ReadOf(store', HNow'[t], id) = IF good THEN v ELSE Bad
      /\ ReadOf(store, HNow[t], id) = ValueOf(store, s)
      /\ ValueOf(store, s) \in IF good THEN Contents ELSE {Bad}
  <2>1. \A k \in DOMAIN old : head[k].id = old[k].id
    BY <1>2, <1>4
  <2>2. DOMAIN old = 1 .. Len(old) /\ Len(old) \in Nat
    BY <1>2
  <2>3. \A k \in DOMAIN old : \A m \in 1 .. k - 1 : m \in DOMAIN old
    BY <2>2
  <2>4. head # NoHead
    BY <1>4, MarkersAssumption
  <2>5. Entry(HNow, t, n)
    BY <1>2, <1>3 DEF Entry
  <2>6. ValueOf(store, s) \in IF good THEN Contents ELSE {Bad}
    BY <2>5, ValueTypes
  <2>7. ReadOf(store, old, id) = ValueOf(store, s)
    BY <1>2, ReadOfMatch
  <2> HIDE DEF head
  <2>8. n \in Matches(head, id)
    BY <2>1, <2>3, <2>4, <1>2, <1>4 DEF Matches
  <2>9. ReadOf(store', head, id) = ValueOf(store', e)
    BY <2>8, <1>4, ReadOfMatch
  <2> QED BY <2>6, <2>7, <2>9, <1>2, <1>5
<1>8. Disk = DiskOf(store, HNow) /\ Disk' = DiskOf(store', HNow')
  <2>1. (Disk = DiskOf(store, HNow))'
    BY DiskIs, PTL
  <2>2. DiskOf(store, HNow)' = DiskOf(store', HNow')
    BY DEF DiskOf, ReadOf, Matches
  <2> QED BY <2>1, <2>2, DiskIs
<1> DEFINE here == <<t, id>>
<1>9. /\ here \in Sectors /\ here[1] = t /\ here[2] = id
      /\ Disk = [r \in Sectors |-> ReadOf(store, HNow[r[1]], r[2])]
      /\ Disk' = [r \in Sectors |-> ReadOf(store', HNow'[r[1]], r[2])]
  BY <1>8 DEF DiskOf, Sectors
<1>10. /\ \A r \in Sectors : r # here => Disk'[r] = Disk[r]
       /\ Disk'[here] = IF good THEN v ELSE Bad
       /\ Disk[here] \in IF good THEN Contents ELSE {Bad}
  BY <1>6, <1>7, <1>9
<1>11. Disk = [r \in Sectors |-> Disk[r]] /\ Disk' = [r \in Sectors |-> Disk'[r]]
  BY <1>9
<1>12. CASE good
  <2>1. Disk' = [Disk EXCEPT ![here] = v]
    <3> HIDE DEF here, good
    <3> QED BY <1>9, <1>10, <1>11, <1>12
  <2>2. dirty'
    BY <1>2, <1>12 DEF Dirtied, Accepted
  <2> QED BY <2>1, <2>2, <1>5, <1>10, <1>12
<1>13. CASE ~ good
  <2>1. \A r \in Sectors : Disk'[r] = Disk[r]
    <3> HIDE DEF here, good
    <3> QED BY <1>10, <1>13
  <2> QED BY <2>1, <1>5, <1>11
<1> QED BY <1>12, <1>13

\* Nothing is in memory once the image is closed.
LEMMA NothingShown ==
  ASSUME store = EmptyStore, dir = EmptyDir, cur = NoCur
  PROVE  \A t \in Tracks : HNow[t] = NoHead
<1> QED BY MarkersAssumption DEF HNow, HeadsOf, StoredHead, NoCur, EmptyDir

LEMMA ClosedSizes ==
  ASSUME store = EmptyStore, dir = EmptyDir, cur = NoCur
  PROVE  SizesInv
<1> QED BY NothingShown DEF SizesInv, Entry

LEMMA DropDisk == ASSUME Drop PROVE DiskInv'
<1>1. (store = EmptyStore /\ dir = EmptyDir /\ cur = NoCur)'
  BY DEF Drop
<1>2. SizesInv'
  <2>1. (store = EmptyStore /\ dir = EmptyDir /\ cur = NoCur => SizesInv)'
    BY ClosedSizes, PTL
  <2> QED BY <2>1, <1>1
<1> QED BY <1>2 DEF Drop, DiskInv, IdleInv, LoadedInv, CleanInv, SavedInv

LEMMA InitDisk == Init => DiskInv
<1> SUFFICES ASSUME Init PROVE DiskInv
  OBVIOUS
<1>1. SizesInv
  BY ClosedSizes DEF Init
<1> QED BY <1>1 DEF Init, DiskInv, IdleInv, LoadedInv, CleanInv, SavedInv

------------------------------------------------------------------------------
(* Loading *)

LEMMA OpenDisk == ASSUME IInv, DiskInv, Open PROVE DiskInv'
<1>1. /\ phase = "closed" /\ phase' = "loading" /\ at' = 1 /\ cur' = NoCur
      /\ UNCHANGED <<file, readonly, store, dir, dirty, pos, err, failed, reply, writes>>
  BY DEF Open
<1>2. cur = NoCur /\ HNow' = HNow
  BY <1>1, HNext DEF IInv, ClosedInv, HNow
<1>3. SizesInv'
  <2>1. SectorsKept(store, store', HNow)
    BY <1>1 DEF SectorsKept, SectorKept
  <2> QED BY <1>2, <2>1, HeadsStay DEF DiskInv
<1>4. LoadedInv'
  <2>1. ASSUME NEW i \in DOMAIN file.tracks
        PROVE  i \in Nat \ {0}
    BY <2>1, TrackOfFile
  <2>2. ASSUME NEW i \in DOMAIN file.tracks
        PROVE  ~ (i < at') /\ ~ (i = at' /\ cur'.track # NoTrack)
    <3>1. ~ (i < 1)
      BY <2>1
    <3> QED BY <3>1, <1>1 DEF NoCur
  <2> QED BY <2>2, <1>1 DEF LoadedInv, Begun
<1> QED BY <1>1, <1>3, <1>4 DEF DiskInv, IdleInv, CleanInv, SavedInv

\* Tracks that do not change stay as they were loaded.
LEMMA LoadedStays ==
  ASSUME IInv, DiskInv, phase = "loading", NEW t \in Tracks, NEW n \in Nat,
         file' = file,
         \A u \in Tracks \ {t} : HNow'[u] = HNow[u],
         \A u \in Tracks, k \in Nat : Entry(HNow', u, k) /\ ~ (u = t /\ k = n) =>
           /\ Entry(HNow, u, k) /\ HNow'[u][k] = HNow[u][k]
           /\ ValueOf(store', HNow'[u][k]) = ValueOf(store, HNow[u][k]),
         NEW i \in DOMAIN file.tracks, file.tracks[i].track # t
  PROVE  LET u == file.tracks[i].track
             sectors == file.tracks[i].sectors
         IN /\ Begun(i) => Alike(store', HNow', u, sectors)
            /\ i < at => Complete(HNow', u, sectors)
<1> DEFINE u == file.tracks[i].track
           sectors == file.tracks[i].sectors
<1>1. u \in Tracks \ {t}
  BY TrackOfFile
<1>2. Begun(i) => Alike(store, HNow, u, sectors)
  BY DEF DiskInv, LoadedInv
<1>3. i < at => Complete(HNow, u, sectors)
  BY DEF DiskInv, LoadedInv
<1> HIDE DEF u, sectors
<1>4. Begun(i) => Alike(store', HNow', u, sectors)
  BY <1>1, <1>2 DEF Alike
<1>5. i < at => Complete(HNow', u, sectors)
  BY <1>1, <1>3 DEF Complete
<1> QED BY <1>4, <1>5 DEF u, sectors

\* Only the track that is loaded has its number.
LEMMA OtherTrack ==
  ASSUME IInv, NEW i \in DOMAIN file.tracks, NEW j \in DOMAIN file.tracks, i # j
  PROVE  file.tracks[i].track # file.tracks[j].track
<1> QED BY DEF IInv, FileInv, Proper

LEMMA BeginTrackDisk == ASSUME IInv, DiskInv, BeginTrack PROVE DiskInv'
<1> DEFINE t == file.tracks[at].track
<1>1. /\ phase = "loading" /\ cur.track = NoTrack /\ at \in DOMAIN file.tracks /\ t \in Tracks
      /\ cur' = [track |-> t, head |-> <<>>, dirty |-> TRUE]
      /\ UNCHANGED <<file, readonly, phase, store, dir, dirty, at, pos, err, failed, reply, writes>>
  BY TrackBegins
<1>2. HNow' = [HNow EXCEPT ![t] = <<>>]
  <2>1. HeadsOf(store, dir, cur') = [HNow EXCEPT ![t] = <<>>]
    BY TrackBegins
  <2> QED BY <2>1, <1>1, HNext
<1>4. <<>> \in Seq(Entries) /\ DOMAIN <<>> = {}
  OBVIOUS
<1>5. /\ SizesInv'
      /\ HNow'[t] = <<>> /\ \A u \in Tracks \ {t} : HNow'[u] = HNow[u]
      /\ \A u \in Tracks, k \in Nat : Entry(HNow', u, k) /\ ~ (u = t /\ k = 0) =>
           /\ Entry(HNow, u, k) /\ HNow'[u][k] = HNow[u][k]
           /\ ValueOf(store', HNow'[u][k]) = ValueOf(store, HNow[u][k])
  <2>1. HNow'[t] = <<>> /\ \A u \in Tracks \ {t} : HNow'[u] = HNow[u]
    BY <1>1, <1>2, HTyped
  <2>2. ASSUME NEW u \in Tracks, NEW k \in Nat, Entry(HNow', u, k)
        PROVE  Entry(HNow, u, k) /\ HNow'[u][k] = HNow[u][k]
    BY <2>1, <2>2, <1>4 DEF Entry
  <2>3. SizesInv'
    BY <2>2, <1>1 DEF SizesInv, DiskInv, Whole
  <2> QED BY <2>1, <2>2, <2>3, <1>1
<1>6. LoadedInv'
  <2> SUFFICES ASSUME NEW i \in DOMAIN file.tracks
               PROVE  /\ Begun(i)' => Alike(store', HNow', file.tracks[i].track, file.tracks[i].sectors)
                      /\ i < at => Complete(HNow', file.tracks[i].track, file.tracks[i].sectors)
    BY <1>1, LoadedNext
  <2>1. CASE i = at
    <3>1. \A k \in Nat : ~ Entry(HNow', t, k)
      BY <1>4, <1>5 DEF Entry
    <3>2. ~ (i < at)
      BY <2>1, TrackOfFile
    <3> QED BY <2>1, <3>1, <3>2 DEF Alike
  <2>2. CASE i # at
    <3>1. file.tracks[i].track # t
      BY <2>2, <1>1, OtherTrack
    <3>2. Begun(i)' => Begun(i)
      BY <2>2, <1>1 DEF Begun
    <3> HIDE DEF t
    <3> QED BY <3>1, <3>2, <1>1, <1>5, LoadedStays
  <2> QED BY <2>1, <2>2
<1> QED BY <1>1, <1>5, <1>6 DEF DiskInv, IdleInv, CleanInv, SavedInv

LEMMA LoadSectorDisk == ASSUME IInv, DiskInv, LoadSector PROVE DiskInv'
<1> DEFINE sectors == file.tracks[at].sectors
<1>1. /\ phase = "loading"
      /\ UNCHANGED <<file, readonly, phase, dir, dirty, at, pos, err, failed, reply, writes>>
      /\ at \in DOMAIN file.tracks /\ cur.track = file.tracks[at].track
      /\ cur.track \in Tracks /\ cur.track # NoTrack /\ cur.head \in Seq(Entries)
      /\ Len(cur.head) + 1 \in DOMAIN sectors
  BY SectorLoaded
<1>2. PICK t \in Tracks : t = cur.track
  BY <1>1
<1>3. PICK x \in Entries : Loads(x, sectors[Len(cur.head) + 1])
  BY SectorLoaded
<1>4. PICK n \in Nat : n = Len(cur.head) + 1
  BY <1>1
<1>5. PICK head \in Seq(Entries) : head = Append(cur.head, x)
  <2>1. Append(cur.head, x) \in Seq(Entries)
    BY <1>1
  <2> QED BY <2>1
<1>6. HNow[t] = cur.head /\ cur.head # NoHead
  BY <1>1, <1>2, MarkersAssumption DEF HNow, HeadsOf
<1>7. /\ DOMAIN head = 1 .. n /\ DOMAIN cur.head = 1 .. n - 1 /\ n # 0
      /\ head[n] = x /\ \A k \in 1 .. n - 1 : head[k] = cur.head[k]
  BY <1>1, <1>4, <1>5
<1>8. /\ HNow' = [HNow EXCEPT ![t] = head] /\ OthersKept(store, store', HNow, t, n)
      /\ cur'.track = t
  <2>1. /\ HeadsOf(store', dir, cur') = [HNow EXCEPT ![cur.track] = Append(cur.head, x)]
        /\ OthersKept(store, store', HNow, cur.track, Len(cur.head) + 1)
        /\ cur'.track = cur.track
    BY <1>3, HeadGrows
  <2> QED BY <2>1, <1>1, <1>2, <1>4, <1>5, HNext
<1>9. /\ x.id = sectors[n].id /\ ValueOf(store', x) = FileValue(sectors[n]) /\ Whole(store', x)
      /\ n \in DOMAIN sectors
  BY <1>1, <1>3, <1>4 DEF Loads
<1>10. /\ SizesInv'
       /\ HNow'[t] = head /\ \A u \in Tracks \ {t} : HNow'[u] = HNow[u]
       /\ \A u \in Tracks, k \in Nat : Entry(HNow', u, k) /\ ~ (u = t /\ k = n) =>
            /\ Entry(HNow, u, k) /\ HNow'[u][k] = HNow[u][k]
            /\ ValueOf(store', HNow'[u][k]) = ValueOf(store, HNow[u][k])
  <2>1. \A k \in Nat \ {n} : k \in DOMAIN head => Entry(HNow, t, k) /\ head[k] = HNow[t][k]
    BY <1>6, <1>7 DEF Entry
  <2>2. Becomes(t, n, head)
    BY <2>1, <1>7, <1>8, <1>9 DEF Becomes
  <2> QED BY <2>2, HeadChanges DEF DiskInv
<1>11. LoadedInv'
  <2> SUFFICES ASSUME NEW i \in DOMAIN file.tracks
               PROVE  /\ Begun(i)' => Alike(store', HNow', file.tracks[i].track, file.tracks[i].sectors)
                      /\ i < at => Complete(HNow', file.tracks[i].track, file.tracks[i].sectors)
    BY <1>1, LoadedNext
  <2>1. CASE i = at
    <3>1. ~ (i < at)
      BY <2>1, TrackOfFile
    <3>2. Alike(store, HNow, t, sectors)
      BY <1>1, <1>2 DEF DiskInv, LoadedInv, Begun
    <3> HIDE DEF sectors
    <3>3. Alike(store', HNow', t, sectors)
      <4> SUFFICES ASSUME NEW k \in Nat, Entry(HNow', t, k)
                   PROVE  /\ k \in DOMAIN sectors /\ HNow'[t][k].id = sectors[k].id
                          /\ ValueOf(store', HNow'[t][k]) = FileValue(sectors[k])
        BY DEF Alike
      <4>1. CASE k = n
        BY <4>1, <1>7, <1>9, <1>10
      <4>2. CASE k # n
        BY <4>2, <3>2, <1>10 DEF Alike
      <4> QED BY <4>1, <4>2
    <3> QED BY <2>1, <3>1, <3>3, <1>1, <1>2 DEF sectors
  <2>2. CASE i # at
    <3>1. file.tracks[i].track # t
      BY <2>2, <1>1, <1>2, OtherTrack
    <3>2. Begun(i)' => Begun(i)
      BY <2>2, <1>1 DEF Begun
    <3> QED BY <3>1, <3>2, <1>1, <1>10, LoadedStays
  <2> QED BY <2>1, <2>2
<1> QED BY <1>1, <1>10, <1>11 DEF DiskInv, IdleInv, CleanInv, SavedInv

LEMMA EndTrackDisk == ASSUME IInv, DiskInv, EndTrack PROVE DiskInv'
<1>1. /\ phase = "loading" /\ cur.track # NoTrack /\ cur' = NoCur /\ at' = at + 1
      /\ Len(cur.head) = Len(file.tracks[at].sectors)
      /\ UNCHANGED <<file, readonly, phase, dirty, pos, err, failed, reply, writes>>
  BY DEF EndTrack
<1>2. /\ SectorsKept(store, store', HNow) /\ HNow' = HNow /\ HNow[cur.track] = cur.head
      /\ at \in 1 .. Len(file.tracks) /\ Len(file.tracks) \in Nat
      /\ cur.track = file.tracks[at].track /\ cur.track \in Tracks /\ cur.head \in Seq(Entries)
  BY TrackEnds, HNext
<1>3. /\ SizesInv'
      /\ \A t \in Tracks : \A sectors :
           Alike(store, HNow, t, sectors) => Alike(store', HNow', t, sectors)
  BY <1>2, HeadsStay DEF DiskInv
<1>4. LoadedInv'
  <2> SUFFICES ASSUME NEW i \in DOMAIN file.tracks
               PROVE  /\ Begun(i)' => Alike(store', HNow', file.tracks[i].track, file.tracks[i].sectors)
                      /\ i < at' => Complete(HNow', file.tracks[i].track, file.tracks[i].sectors)
    BY <1>1, LoadedNext
  <2>1. i \in Nat /\ file.tracks[i].track \in Tracks /\ file.tracks[i].sectors \in Seq(FileSectors)
    BY TrackOfFile
  <2>2. Begun(i)' => i < at \/ i = at
    BY <2>1, <1>1, <1>2 DEF Begun, NoCur
  <2>3. Begun(i)' => Begun(i)
    BY <2>2, <1>1 DEF Begun
  <2>4. Begun(i)' => Alike(store', HNow', file.tracks[i].track, file.tracks[i].sectors)
    BY <2>1, <2>3, <1>1, <1>3 DEF DiskInv, LoadedInv
  <2>5. i < at' => Complete(HNow', file.tracks[i].track, file.tracks[i].sectors)
    <3>1. CASE i = at
      <4>1. DOMAIN cur.head = DOMAIN file.tracks[i].sectors
        BY <2>1, <3>1, <1>1, <1>2
      <4> QED BY <3>1, <4>1, <1>2, MarkersAssumption DEF Complete
    <3>2. CASE i # at
      <4>1. i < at' => i < at
        BY <2>1, <3>2, <1>1, <1>2
      <4> QED BY <4>1, <1>1, <1>2 DEF DiskInv, LoadedInv
    <3> QED BY <3>1, <3>2
  <2> QED BY <2>4, <2>5
<1> QED BY <1>1, <1>3, <1>4 DEF DiskInv, IdleInv, CleanInv, SavedInv

\* Once every track is loaded, the disk is what the file holds.
LEMMA LoadedIsDisk ==
  ASSUME IInv, DiskInv, phase = "loading", cur.track = NoTrack, at = Len(file.tracks) + 1
  PROVE  Disk = Reopened(file)
<1> SUFFICES ASSUME NEW s \in Sectors
             PROVE  ReadOf(store, HNow[s[1]], s[2]) = Reopened(file)[s]
  BY DiskIs DEF DiskOf, Reopened
<1> DEFINE t == s[1]
           ours == {i \in DOMAIN file.tracks : file.tracks[i].track = t}
<1>1. t \in Tracks /\ HNow[t] \in TrackHeads
  BY HTyped DEF Sectors
<1>2. CASE ours = {}
  <2>1. Reopened(file)[s] = Absent
    BY <1>2 DEF Reopened
  <2>2. dir[t] = Null
    <3>1. ASSUME NEW i \in 1 .. at - 1, file.tracks[i].track = t PROVE FALSE
      <4>1. i \in DOMAIN file.tracks
        BY DEF IInv, TypeOK, Files
      <4> QED BY <3>1, <4>1, <1>2
    <3> QED BY <3>1, <1>1 DEF IInv, LoadingInv
  <2>3. HNow[t] = NoHead
    BY <2>2, <1>1, MarkersAssumption DEF HNow, HeadsOf, StoredHead
  <2> QED BY <2>1, <2>3 DEF ReadOf, Matches
<1>3. CASE ours # {}
  <2>1. PICK i \in DOMAIN file.tracks : i = CHOOSE k \in DOMAIN file.tracks : file.tracks[k].track = t
    BY <1>3
  <2>2. file.tracks[i].track = t
    BY <2>1, <1>3
  <2> DEFINE sectors == file.tracks[i].sectors
             head == HNow[t]
  <2>3. Reopened(file)[s] = FoundIn(sectors, s[2])
    BY <2>1, <2>2 DEF Reopened
  <2>4. i < at
    BY <2>1, TrackOfFile
  <2>5. Complete(HNow, t, sectors) /\ Alike(store, HNow, t, sectors)
    BY <2>2, <2>4 DEF DiskInv, LoadedInv, Begun
  <2>6. head \in Seq(Entries) /\ DOMAIN sectors = DOMAIN head
    BY <2>5, <1>1 DEF Complete, TrackHeads
  <2>7. \A k \in DOMAIN head : sectors[k].id = head[k].id
                               /\ ValueOf(store, head[k]) = FileValue(sectors[k])
    <3>1. \A k \in DOMAIN head : k \in Nat /\ Entry(HNow, t, k)
      BY <2>5, <2>6 DEF Complete, Entry
    <3> QED BY <3>1, <2>5 DEF Alike
  <2> HIDE DEF head, sectors
  <2>8. ReadOf(store, head, s[2]) = FoundIn(sectors, s[2])
    BY <2>6, <2>7, SameSearch
  <2> QED BY <2>3, <2>8 DEF head
<1> QED BY <1>2, <1>3

LEMMA AttachDisk == ASSUME IInv, DiskInv, Attach PROVE DiskInv'
<1>1. CASE file.torn
  BY <1>1, DropDisk DEF Attach
<1>2. CASE ~ file.torn
  <2>1. /\ phase = "loading" /\ cur.track = NoTrack /\ at = Len(file.tracks) + 1
        /\ phase' = "open"
        /\ UNCHANGED <<file, readonly, store, dir, cur, dirty, writes, pos, err, failed>>
    BY <1>2 DEF Attach, session
  <2>2. HNow' = HNow /\ SectorsKept(store, store', HNow)
    BY <2>1, HNext DEF HNow, SectorsKept, SectorKept
  <2>3. SizesInv' /\ Disk' = Disk
    BY <2>2, HeadsStay DEF DiskInv
  <2>4. Disk = Reopened(file)
    BY <2>1, LoadedIsDisk
  <2>5. Reopened(file)' = Reopened(file)
    BY <2>1 DEF Reopened, FoundIn
  <2> QED BY <2>1, <2>3, <2>4, <2>5, <1>2 DEF DiskInv, IdleInv, LoadedInv, CleanInv, SavedInv
<1> QED BY <1>1, <1>2

------------------------------------------------------------------------------
(* Writing and saving *)

LEMMA ReadDisk ==
  ASSUME IInv, DiskInv, NEW t \in Tracks, Read(t)
  PROVE  DiskInv' /\ Disk' = Disk
<1>1. /\ phase = "open"
      /\ store' = Selected(t).store /\ dir' = Selected(t).dir /\ cur' = Selected(t).cur
      /\ UNCHANGED <<file, readonly, phase, dirty, at, pos, err, failed, reply, writes>>
  BY DEF Read
<1>2. HNow' = HNow /\ SectorsKept(store, store', HNow)
  <2>1. /\ HeadsOf(Selected(t).store, Selected(t).dir, Selected(t).cur) = HNow
        /\ SectorsKept(store, Selected(t).store, HNow)
    BY <1>1, SelectKeepsHeads
  <2> QED BY <2>1, <1>1, HNext
<1>3. SizesInv' /\ Disk' = Disk
  BY <1>2, HeadsStay DEF DiskInv
<1>4. Reopened(file)' = Reopened(file)
  BY <1>1 DEF Reopened, FoundIn
<1> QED BY <1>1, <1>3, <1>4 DEF DiskInv, IdleInv, LoadedInv, CleanInv, SavedInv

LEMMA WriteDisk ==
  ASSUME IInv, DiskInv, NEW t \in Tracks, NEW id \in SectorIds, NEW v \in Contents,
         Write(t, id, v)
  PROVE  DiskInv'
<1>1. phase = "open" /\ UNCHANGED <<file, phase, at, pos, failed>>
  BY DEF Write
<1>2. dirty => dirty'
  <2>1. PICK n \in Nat, e \in Entries : Writes(t, id, v, n, e)
    BY SectorWritten
  <2> QED BY <2>1 DEF Writes, Dirtied
<1>3. SizesInv' /\ (Disk' = Disk \/ dirty')
  BY WriteShows
<1>4. Reopened(file)' = Reopened(file)
  BY <1>1 DEF Reopened, FoundIn
<1> QED BY <1>1, <1>2, <1>3, <1>4 DEF DiskInv, IdleInv, LoadedInv, CleanInv, SavedInv

LEMMA BeginSaveDisk ==
  ASSUME IInv, DiskInv, BeginSave
  PROVE  DiskInv' /\ Disk' = Disk
<1>1. /\ phase = "open" /\ phase' = "saving"
      /\ file' = [tracks |-> <<>>, torn |-> FALSE]
      /\ UNCHANGED <<readonly, dirty, at, pos, err, failed, reply, writes>>
  BY DEF BeginSave
<1>2. SizesInv' /\ Disk' = Disk
  BY SaveBegins, HNext, HeadsStay DEF DiskInv
<1>3. SavedInv'
  <2>1. file'.tracks = <<>> /\ ~ file'.torn /\ DOMAIN <<>> = {}
    BY <1>1
  <2>2. ASSUME NEW t \in Tracks PROVE ~ Before(t, pos')
    <3>1. pos' = [cyl |-> 0, head |-> 0]
      BY <1>1 DEF DiskInv, IdleInv, Start
    <3>2. t[1] \in Nat /\ t[2] \in Nat
      BY TracksAssumption
    <3> QED BY <3>1, <3>2 DEF Before
  <2>3. SavedSoFar(store', dir', file', pos')
    BY <2>1, <2>2 DEF SavedSoFar
  <2> QED BY <2>3, SavedNext
<1> QED BY <1>1, <1>2, <1>3 DEF DiskInv, IdleInv, LoadedInv, CleanInv

\* The greatest of some small numbers.
LEMMA MaxOfBytes ==
  ASSUME NEW S, S \subseteq 0 .. 255, NEW x \in S
  PROVE  Max(S) \in S /\ x <= Max(S)
<1> DEFINE T == {n \in 0 .. 255 : 255 - n \in S}
<1>1. 255 - x \in T /\ T \subseteq Nat
  OBVIOUS
<1>2. \E i \in T : \A j \in T : i <= j
  <2> HIDE DEF T
  <2> QED BY <1>1, LeastExists
<1>3. PICK i \in T : \A j \in T : i <= j
  BY <1>2
<1>4. 255 - i \in S /\ i \in 0 .. 255
  BY <1>3
<1>5. ASSUME NEW y \in S PROVE y <= 255 - i
  <2>1. y \in 0 .. 255 /\ 255 - y \in 0 .. 255 /\ 255 - (255 - y) = y
    OBVIOUS
  <2>2. 255 - y \in T
    BY <2>1
  <2>3. i <= 255 - y
    BY <2>2, <1>3
  <2> QED BY <2>1, <2>3, <1>4
<1>6. \E m \in S : \A y \in S : m >= y
  BY <1>4, <1>5
<1>7. Max(S) \in S /\ \A y \in S : Max(S) >= y
  BY <1>6 DEF Max
<1> QED BY <1>7

\* The loops reach every track that is held, and pass none over.
LEMMA HeldIsReached ==
  ASSUME IInv, NEW t \in Held
  PROVE  t[1] < Cylinders /\ t[2] < Heads /\ Cylinders \in Nat /\ Heads \in Nat
<1>1. t \in Tracks /\ Held # {}
  BY DEF Held
<1> DEFINE C == {u[1] : u \in Held}
           H == {u[2] : u \in Held}
<1>2. C \subseteq 0 .. 255 /\ H \subseteq 0 .. 255 /\ t[1] \in C /\ t[2] \in H
  BY TracksAssumption DEF Held
<1>3. Cylinders = 1 + Max(C) /\ Heads = 1 + Max(H)
  BY <1>1 DEF Cylinders, Heads
<1> HIDE DEF C, H
<1>4. t[1] <= Max(C) /\ Max(C) \in 0 .. 255 /\ t[2] <= Max(H) /\ Max(H) \in 0 .. 255
  <2>1. PICK x \in C, y \in H : x = t[1] /\ y = t[2]
    BY <1>2
  <2>2. Max(C) \in C /\ x <= Max(C)
    BY <1>2, MaxOfBytes
  <2>3. Max(H) \in H /\ y <= Max(H)
    BY <1>2, MaxOfBytes
  <2> QED BY <2>1, <2>2, <2>3, <1>2
<1>5. PICK x \in 0 .. 255, y \in 0 .. 255, a \in 0 .. 255, b \in 0 .. 255 :
        x = t[1] /\ y = t[2] /\ a = Max(C) /\ b = Max(H)
  BY <1>2, <1>4
<1>6. x <= a /\ y <= b /\ Cylinders = 1 + a /\ Heads = 1 + b
  BY <1>3, <1>4, <1>5
<1>7. x < Cylinders /\ y < Heads /\ Cylinders \in Nat /\ Heads \in Nat
  BY <1>6
<1> QED BY <1>5, <1>7

LEMMA NonePassed ==
  ASSUME IInv, phase = "saving", Advance, NEW t \in Held, Before(t, pos')
  PROVE  Before(t, pos) \/ t = Here
<1>1. pos \in [cyl : Nat, head : Nat] /\ pos.cyl \in Nat /\ pos.head \in Nat
  BY DEF IInv, TypeOK
<1>2. /\ t \in Tracks /\ t[1] \in Nat /\ t[2] \in Nat /\ t = <<t[1], t[2]>>
  BY TracksAssumption DEF Held
<1>3. t[2] < Heads /\ Heads \in Nat
  BY HeldIsReached
<1>4. CASE pos.head + 1 < Heads
  <2>1. pos' = [cyl |-> pos.cyl, head |-> pos.head + 1]
    BY <1>1, <1>4 DEF Advance
  <2> QED BY <2>1, <1>1, <1>2 DEF Before, Here
<1>5. CASE ~ (pos.head + 1 < Heads)
  <2>1. pos' = [cyl |-> pos.cyl + 1, head |-> 0]
    BY <1>5 DEF Advance, NextCylinder
  <2>2. t[1] < pos.cyl + 1
    BY <2>1, <1>1, <1>2 DEF Before
  <2>3. t[2] < pos.head \/ t[2] = pos.head
    BY <1>1, <1>2, <1>3, <1>5
  <2> QED BY <2>2, <2>3, <1>1, <1>2 DEF Before, Here
<1> QED BY <1>4, <1>5

\* What a step keeps that leaves the store alone.
LEMMA StoreStays ==
  ASSUME IInv, DiskInv, UNCHANGED <<store, dir, cur>>
  PROVE  SizesInv' /\ Disk' = Disk
<1>1. HNow' = HNow /\ SectorsKept(store, store', HNow)
  BY HNext DEF HNow, SectorsKept, SectorKept
<1>2. SizesInv' /\ Disk' = Disk
  BY <1>1, HeadsStay DEF DiskInv
<1> QED BY <1>2

LEMMA SaveTrackDisk ==
  ASSUME IInv, DiskInv, SaveTrack
  PROVE  DiskInv' /\ Disk' = Disk
<1>1. /\ phase = "saving" /\ Advance
      /\ file' = IF Here \in Held /\ ~ file.torn
                 THEN [file EXCEPT !.tracks = Append(@, SavedTrack(Here))] ELSE file
      /\ UNCHANGED <<store, dir, cur, phase, failed>>
  BY DEF SaveTrack, Saving, session
<1>2. SizesInv' /\ Disk' = Disk
  BY <1>1, StoreStays
<1>3. SavedInv'
  <2>0. \A t : SavedTrack(t) = TrackIn(store, dir, t)
    BY DEF SavedTrack, TrackIn
  <2> SUFFICES ASSUME ~ failed
               PROVE  /\ ~ file'.torn
                      /\ \A i \in DOMAIN file'.tracks :
                           /\ file'.tracks[i].track \in Held
                           /\ file'.tracks[i] = SavedTrack(file'.tracks[i].track)
                      /\ \A t \in Held : Before(t, pos') =>
                           \E i \in DOMAIN file'.tracks : file'.tracks[i].track = t
    <3>1. failed => SavedInv'
      BY <1>1 DEF SavedInv
    <3>2. ASSUME /\ ~ file'.torn
                 /\ \A i \in DOMAIN file'.tracks :
                      /\ file'.tracks[i].track \in Held
                      /\ file'.tracks[i] = SavedTrack(file'.tracks[i].track)
                 /\ \A t \in Held : Before(t, pos') =>
                      \E i \in DOMAIN file'.tracks : file'.tracks[i].track = t
          PROVE  SavedSoFar(store', dir', file', pos')
      BY <3>2, <2>0, <1>1 DEF SavedSoFar, Held
    <3> QED BY <3>1, <3>2, SavedNext
  <2>1. /\ ~ file.torn
        /\ \A i \in DOMAIN file.tracks :
             /\ file.tracks[i].track \in Held
             /\ file.tracks[i] = SavedTrack(file.tracks[i].track)
        /\ \A t \in Held : Before(t, pos) => \E i \in DOMAIN file.tracks : file.tracks[i].track = t
    BY <2>0, <1>1 DEF DiskInv, SavedInv, SavedSoFar, Held
  <2>2. CASE Here \notin Held
    <3>1. file' = file
      BY <2>2, <1>1
    <3> QED BY <3>1, <2>1, <2>2, <1>1, NonePassed
  <2>3. CASE Here \in Held
    <3> DEFINE ts == file.tracks
               new == SavedTrack(Here)
               us == Append(ts, new)
    <3>1. file' = [tracks |-> us, torn |-> FALSE] /\ ts \in Seq(FileTracks)
      BY <2>1, <2>3, <1>1 DEF IInv, TypeOK, Files
    <3>2. new \in FileTracks /\ new.track = Here
      BY <2>3, <1>1, SavedIsProper
    <3>3. new = SavedTrack(Here)
      OBVIOUS
    <3> HIDE DEF new
    <3>4. /\ DOMAIN us = 1 .. Len(ts) + 1 /\ DOMAIN ts = 1 .. Len(ts) /\ Len(ts) \in Nat
          /\ us[Len(ts) + 1] = new /\ \A i \in 1 .. Len(ts) : us[i] = ts[i]
      BY <3>1, <3>2
    <3>5. file'.tracks = us /\ ~ file'.torn
      BY <3>1
    <3> HIDE DEF us
    <3>6. ASSUME NEW i \in DOMAIN us
          PROVE  us[i].track \in Held /\ us[i] = SavedTrack(us[i].track)
      <4>1. CASE i \in DOMAIN ts
        BY <4>1, <3>4, <2>1
      <4>2. CASE i \notin DOMAIN ts
        <5>1. us[i] = new
          BY <4>2, <3>4
        <5> QED BY <5>1, <3>2, <3>3, <2>3
      <4> QED BY <4>1, <4>2
    <3>7. ASSUME NEW t \in Held, Before(t, pos')
          PROVE  \E i \in DOMAIN us : us[i].track = t
      <4>1. Before(t, pos) \/ t = Here
        BY <3>7, <1>1, NonePassed
      <4>2. CASE t = Here
        <5>1. Len(ts) + 1 \in DOMAIN us
          BY <3>4
        <5> QED BY <4>2, <5>1, <3>2, <3>4
      <4>3. CASE Before(t, pos)
        <5>1. PICK i \in DOMAIN ts : ts[i].track = t
          BY <4>3, <2>1
        <5> QED BY <5>1, <3>4
      <4> QED BY <4>1, <4>2, <4>3
    <3> QED BY <3>5, <3>6, <3>7
  <2> QED BY <2>2, <2>3
<1> QED BY <1>1, <1>2, <1>3 DEF DiskInv, IdleInv, LoadedInv, CleanInv

LEMMA SaveTrackFailsDisk ==
  ASSUME IInv, DiskInv, SaveTrackFails
  PROVE  DiskInv' /\ Disk' = Disk
<1>1. phase = "saving" /\ failed' = TRUE /\ UNCHANGED <<store, dir, cur, phase>>
  BY DEF SaveTrackFails, Saving, session
<1>2. SizesInv' /\ Disk' = Disk
  BY <1>1, StoreStays
<1> QED BY <1>1, <1>2 DEF DiskInv, IdleInv, LoadedInv, CleanInv, SavedInv

LEMMA ReplaceDisk == ASSUME IInv, DiskInv, Replace PROVE DiskInv'
<1>1. phase = "closed" /\ UNCHANGED <<phase, store, dir, cur, pos, failed>>
  BY DEF Replace, session
<1>2. SizesInv'
  BY <1>1, StoreStays
<1> QED BY <1>1, <1>2 DEF DiskInv, IdleInv, LoadedInv, CleanInv, SavedInv

LEMMA StutterDisk == ASSUME IInv, DiskInv, UNCHANGED vars PROVE DiskInv' /\ Disk' = Disk
<1>1. UNCHANGED <<file, phase, store, dir, cur, dirty, at, pos, failed>>
  BY DEF vars
<1>2. SizesInv' /\ Disk' = Disk
  BY <1>1, StoreStays
<1>3. IdleInv'
  BY <1>1 DEF DiskInv, IdleInv
<1>4. LoadedInv'
  <2>1. HNow' = HNow
    BY <1>1, HNext DEF HNow
  <2>2. \A i : Begun(i)' <=> Begun(i)
    BY <1>1 DEF Begun
  <2>3. LoadedInv
    BY DEF DiskInv
  <2>4. phase' = "loading" =>
          \A i \in DOMAIN file'.tracks :
            /\ Begun(i)' =>
                 Alike(store', HNow', file'.tracks[i].track, file'.tracks[i].sectors)
            /\ i < at' => Complete(HNow', file'.tracks[i].track, file'.tracks[i].sectors)
    BY <2>1, <2>2, <2>3, <1>1 DEF LoadedInv
  <2> QED BY <2>4, LoadedNext
<1>5. CleanInv'
  <2>1. Reopened(file)' = Reopened(file)
    BY <1>1 DEF Reopened, FoundIn
  <2> QED BY <2>1, <1>1, <1>2 DEF DiskInv, CleanInv
<1>6. SavedInv'
  BY <1>1, SavedNext DEF DiskInv, SavedInv
<1> QED BY <1>2, <1>3, <1>4, <1>5, <1>6 DEF DiskInv

LEMMA StepDisk == ASSUME IInv, DiskInv, [Next]_vars PROVE DiskInv'
<1>1. CASE \E t \in Tracks : Read(t)
  BY <1>1, ReadDisk
<1>2. CASE \E t \in Tracks, id \in SectorIds, v \in Contents : Write(t, id, v)
  BY <1>2, WriteDisk
<1>3. CASE Open \/ BeginTrack \/ LoadSector \/ EndTrack \/ Attach
  BY <1>3, OpenDisk, BeginTrackDisk, LoadSectorDisk, EndTrackDisk, AttachDisk
<1>4. CASE BeginSave \/ SaveTrack \/ SaveTrackFails \/ Replace
  BY <1>4, BeginSaveDisk, SaveTrackDisk, SaveTrackFailsDisk, ReplaceDisk
<1>5. CASE CloseUnsaved \/ BeginSaveFails \/ EndSave \/ Crash
  BY <1>5, DropDisk DEF CloseUnsaved, BeginSaveFails, EndSave, Crash
<1>6. CASE UNCHANGED vars
  BY <1>6, StutterDisk
<1> QED BY <1>1, <1>2, <1>3, <1>4, <1>5, <1>6 DEF Next

\* DiskInv is an invariant.
THEOREM DiskInvariance == Spec => []DiskInv
<1>1. Init => DiskInv
  BY InitDisk
<1>2. IInv /\ DiskInv /\ [Next]_vars => DiskInv'
  BY StepDisk
<1> QED BY <1>1, <1>2, Invariance, PTL DEF Spec

------------------------------------------------------------------------------
(* The refinement *)

\* A sector is found with its contents, or it is bad or absent.
LEMMA FoundTypes ==
  ASSUME NEW sectors \in Seq(FileSectors), NEW id
  PROVE  FoundIn(sectors, id) \in Contents \cup {Absent, Bad}
<1> DEFINE hits == {n \in DOMAIN sectors :
                      sectors[n].id = id /\ \A m \in 1 .. n - 1 : sectors[m].id # id}
<1>1. FoundIn(sectors, id) = IF hits = {} THEN Absent
                             ELSE FileValue(sectors[CHOOSE n \in hits : TRUE])
  BY DEF FoundIn, FileValue
<1>2. ASSUME NEW n \in hits PROVE FileValue(sectors[n]) \in Contents \cup {Bad}
  <2>1. sectors[n] \in FileSectors
    BY <1>2
  <2> QED BY <2>1 DEF FileSectors, FileValue
<1> HIDE DEF hits
<1>3. CASE hits # {}
  <2>1. (CHOOSE n \in hits : TRUE) \in hits
    BY <1>3
  <2>2. FileValue(sectors[CHOOSE n \in hits : TRUE]) \in Contents \cup {Bad}
    BY <2>1, <1>2
  <2> QED BY <1>1, <1>3, <2>2
<1> QED BY <1>1, <1>3

\* Opening a file shows of every sector its contents, or that it is bad or absent.
LEMMA ReopenedTypes ==
  ASSUME NEW f, Proper(f)
  PROVE  /\ Reopened(f) \in [Sectors -> Contents \cup {Absent, Bad}]
         /\ Reopened(f) # Nothing /\ Reopened(f) # InDoubt
<1>1. ASSUME NEW i \in DOMAIN f.tracks, NEW id
      PROVE  FoundIn(f.tracks[i].sectors, id) \in Contents \cup {Absent, Bad}
  <2>1. f.tracks \in Seq(FileTracks)
    BY DEF Proper, Files
  <2>2. f.tracks[i] \in FileTracks
    BY <2>1
  <2>3. f.tracks[i].sectors \in Seq(FileSectors)
    BY <2>2 DEF FileTracks
  <2> QED BY <2>3, FoundTypes
<1>2. ASSUME NEW s \in Sectors PROVE Reopened(f)[s] \in Contents \cup {Absent, Bad}
  <2> DEFINE ours == {i \in DOMAIN f.tracks : f.tracks[i].track = s[1]}
  <2>1. CASE ours = {}
    BY <2>1 DEF Reopened
  <2>2. CASE ours # {}
    <3>1. PICK i \in DOMAIN f.tracks : i = CHOOSE k \in DOMAIN f.tracks : f.tracks[k].track = s[1]
      BY <2>2
    <3>2. Reopened(f)[s] = FoundIn(f.tracks[i].sectors, s[2])
      BY <3>1, <2>2 DEF Reopened
    <3> QED BY <3>2, <1>1
  <2> QED BY <2>1, <2>2
<1>3. Reopened(f) = [s \in Sectors |-> Reopened(f)[s]]
  BY DEF Reopened
<1>4. Reopened(f) \in [Sectors -> Contents \cup {Absent, Bad}]
  BY <1>2, <1>3
<1> QED BY <1>4, ResultsAssumption

\* A track that is held is written with every sector that can be read, and
\* without others.
LEMMA RecordedShows ==
  ASSUME IInv, SizesInv, phase = "saving", NEW t \in Held, NEW id
  PROVE  LET old == ReadOf(store, HNow[t], id)
             new == FoundIn(SavedTrack(t).sectors, id)
         IN (old \in Contents => new = old) /\ (old = Absent <=> new = Absent)
<1> DEFINE head == HNow[t]
           sectors == SavedTrack(t).sectors
<1>1. t \in Tracks /\ dir[t] # Null /\ cur = NoCur
  BY DEF Held, IInv, SavingInv
<1>2. head = StoredHead(store, dir, t)
  BY <1>1, MarkersAssumption DEF HNow, HeadsOf, NoCur
<1>3. head \in Seq(Entries) /\ head # NoHead
  <2>1. head \in Seq(Entries)
    BY <1>1, <1>2, HeldNow DEF StoredHead, Owned, HeadersIn
  <2> QED BY <2>1, MarkersAssumption
<1>4. sectors = [n \in DOMAIN head |-> Recorded(store, head[n])]
  BY <1>2 DEF SavedTrack
<1>5. sectors \in Seq(FileSectors)
  BY SavedIsProper DEF FileTracks
<1>6. DOMAIN sectors = DOMAIN head /\ \A n \in DOMAIN head : sectors[n].id = head[n].id
  <2>1. \A e : Recorded(store, e).id = e.id
    BY DEF Recorded
  <2> HIDE DEF sectors, head
  <2>2. DOMAIN sectors = DOMAIN head /\ \A n \in DOMAIN head : sectors[n] = Recorded(store, head[n])
    BY <1>4
  <2> QED BY <2>1, <2>2
<1>7. ASSUME NEW n \in DOMAIN head
      PROVE  /\ ValueOf(store, head[n]) \in Contents =>
                  FileValue(sectors[n]) = ValueOf(store, head[n])
             /\ ValueOf(store, head[n]) # Absent /\ FileValue(sectors[n]) # Absent
  <2> DEFINE e == head[n]
  <2>1. n \in Nat /\ Entry(HNow, t, n)
    BY <1>3 DEF Entry
  <2>2. (e.block = Null => e.blank) /\ Whole(store, e)
    BY <2>1, <1>1, HeldNow DEF Owned, SectorsIn, SectorBlock, SizesInv
  <2>3. sectors[n] = Recorded(store, e) /\ sectors[n] \in FileSectors
    BY <1>4, <1>5, <1>6
  <2>4. FileValue(sectors[n]) \in Contents \cup {Bad}
    BY <2>3, ValueTypes
  <2>5. ValueOf(store, e) \in IF e.len # SectorLength \/ e.err # "none" THEN {Bad} ELSE Contents
    BY <2>1, <1>1, ValueTypes
  <2>6. ASSUME e.len = SectorLength, e.err = "none"
        PROVE  FileValue(sectors[n]) = ValueOf(store, e)
    BY <2>2, <2>3, <2>6 DEF Recorded, FileValue, ValueOf, Whole
  <2> QED BY <2>4, <2>5, <2>6, ResultsAssumption DEF Absent, Bad
<1> HIDE DEF head, sectors
<1>8. \/ ReadOf(store, head, id) = Absent /\ FoundIn(sectors, id) = Absent
      \/ \E n \in DOMAIN head : /\ ReadOf(store, head, id) = ValueOf(store, head[n])
                                /\ FoundIn(sectors, id) = FileValue(sectors[n])
  BY <1>3, <1>6, SameSearch
<1>9. CASE ReadOf(store, head, id) = Absent /\ FoundIn(sectors, id) = Absent
  BY <1>9, ResultsAssumption DEF head, sectors
<1>10. CASE \E n \in DOMAIN head : /\ ReadOf(store, head, id) = ValueOf(store, head[n])
                                   /\ FoundIn(sectors, id) = FileValue(sectors[n])
  <2>1. PICK n \in DOMAIN head : /\ ReadOf(store, head, id) = ValueOf(store, head[n])
                                 /\ FoundIn(sectors, id) = FileValue(sectors[n])
    BY <1>10
  <2> QED BY <2>1, <1>7 DEF head, sectors
<1> QED BY <1>8, <1>9, <1>10

\* When the last track is through and no write has failed, all of the disk is in
\* the file.
LEMMA SavedIsKept ==
  ASSUME IInv, DiskInv, phase = "saving", ~ Saving, ~ failed
  PROVE  Saved!Kept(Disk, Reopened(file))
<1>1. /\ Proper(file) /\ cur = NoCur /\ pos.cyl \in Nat /\ SizesInv
      /\ SavedSoFar(store, dir, file, pos)
  BY DEF IInv, TypeOK, FileInv, SavingInv, DiskInv, SavedInv
<1>2. /\ Reopened(file) # Nothing
      /\ DOMAIN Disk = Sectors /\ DOMAIN Reopened(file) = Sectors
  <2>1. DOMAIN Disk = Sectors
    BY DiskIs DEF DiskOf
  <2>2. Reopened(file) # Nothing /\ Reopened(file) \in [Sectors -> Contents \cup {Absent, Bad}]
    BY <1>1, ReopenedTypes
  <2>3. DOMAIN Reopened(file) = Sectors
    BY <2>2
  <2> QED BY <2>1, <2>2, <2>3
<1>3. ASSUME NEW s \in Sectors
      PROVE  /\ Disk[s] \in Contents => Reopened(file)[s] = Disk[s]
             /\ Disk[s] = Absent <=> Reopened(file)[s] = Absent
  <2> DEFINE t == s[1]
             ours == {i \in DOMAIN file.tracks : file.tracks[i].track = t}
  <2>1. t \in Tracks /\ Disk[s] = ReadOf(store, HNow[t], s[2])
    BY DiskIs DEF Sectors, DiskOf
  <2>2. CASE dir[t] = Null
    <3>1. HNow[t] = NoHead
      BY <1>1, <2>1, <2>2, MarkersAssumption DEF HNow, HeadsOf, NoCur, StoredHead
    <3>2. Disk[s] = Absent
      BY <2>1, <3>1 DEF ReadOf, Matches
    <3>3. \A i \in DOMAIN file.tracks : file.tracks[i].track # t
      BY <1>1, <2>2 DEF SavedSoFar
    <3>4. Reopened(file)[s] = Absent
      BY <3>3 DEF Reopened
    <3> QED BY <3>2, <3>4, ResultsAssumption
  <2>3. CASE dir[t] # Null
    <3>1. t \in Held
      BY <2>1, <2>3 DEF Held
    <3>2. Before(t, pos)
      <4>1. t[1] < Cylinders /\ Cylinders \in Nat /\ t[1] \in Nat
        BY <3>1, <2>1, HeldIsReached, TracksAssumption
      <4>2. ~ (pos.cyl < Cylinders)
        BY DEF Saving
      <4> QED BY <1>1, <4>1, <4>2 DEF Before
    <3>3. ours # {}
      BY <1>1, <2>1, <2>3, <3>2 DEF SavedSoFar
    <3>4. PICK i \in DOMAIN file.tracks :
            i = CHOOSE k \in DOMAIN file.tracks : file.tracks[k].track = t
      BY <3>3
    <3>5. file.tracks[i].track = t /\ Reopened(file)[s] = FoundIn(file.tracks[i].sectors, s[2])
      BY <3>3, <3>4 DEF Reopened
    <3>6. file.tracks[i] = SavedTrack(t)
      BY <1>1, <3>5 DEF SavedSoFar, TrackIn, SavedTrack
    <3>7. LET old == ReadOf(store, HNow[t], s[2])
              new == FoundIn(SavedTrack(t).sectors, s[2])
          IN (old \in Contents => new = old) /\ (old = Absent <=> new = Absent)
      BY <1>1, <3>1, RecordedShows
    <3> QED BY <2>1, <3>5, <3>6, <3>7
  <2> QED BY <2>2, <2>3
<1> QED BY <1>2, <1>3 DEF Saved!Kept

LEMMA ReopenedNext == Reopened(file)' = Reopened(file')
<1> QED BY DEF Reopened, FoundIn

\* What the abstract variables are in each phase.
LEMMA Views ==
  /\ phase \in {"closed", "loading"} => PhaseView = "closed" /\ DiskView = Nothing
  /\ phase \in {"open", "saving"} => PhaseView = phase /\ DiskView = Disk
  /\ phase = "saving" => SavedView = InDoubt
  /\ phase # "saving" => SavedView = IF file.torn THEN Nothing ELSE Reopened(file)
<1> QED BY DEF PhaseView, DiskView, SavedView

LEMMA ViewsNext ==
  /\ phase' \in {"closed", "loading"} => PhaseView' = "closed" /\ DiskView' = Nothing
  /\ phase' \in {"open", "saving"} => PhaseView' = phase' /\ DiskView' = Disk'
  /\ phase' = "saving" => SavedView' = InDoubt
  /\ phase' # "saving" => SavedView' = IF file'.torn THEN Nothing ELSE Reopened(file')
<1> QED BY ReopenedNext DEF PhaseView, DiskView, SavedView

LEMMA NotInDoubt == ASSUME IInv', phase' # "saving" PROVE SavedView' # InDoubt
<1>1. Proper(file)' = Proper(file')
  BY DEF Proper
<1>2. Proper(file')
  BY <1>1 DEF IInv, FileInv
<1> QED BY <1>2, ViewsNext, ReopenedTypes, ResultsAssumption

\* A file left alone holds what it held.
LEMMA SavedStays ==
  ASSUME phase # "saving", phase' # "saving", file' = file
  PROVE  SavedView' = SavedView
<1> QED BY Views, ViewsNext

LEMMA Dropped ==
  ASSUME Drop
  PROVE  phase' = "closed" /\ failed' = FALSE /\ PhaseView' = "closed" /\ DiskView' = Nothing
<1> QED BY ViewsNext DEF Drop

\* A step the abstract disk does not see.
Unseen == UNCHANGED <<PhaseView, reply, failed, SavedView, DiskView>>

\* Nothing has failed but while saving.
LEMMA Unfailed == ASSUME IInv, DiskInv, phase # "saving" PROVE failed = FALSE
<1> QED BY DEF DiskInv, IdleInv, IInv, TypeOK

LEMMA LoadingIsUnseen ==
  ASSUME Open \/ BeginTrack \/ LoadSector \/ EndTrack
  PROVE  Unseen
<1>1. /\ phase \in {"closed", "loading"} /\ phase' \in {"closed", "loading"}
      /\ UNCHANGED <<file, reply, failed>>
  BY DEF Open, BeginTrack, LoadSector, EndTrack
<1>2. UNCHANGED <<PhaseView, DiskView>>
  BY <1>1, Views, ViewsNext
<1>3. UNCHANGED SavedView
  BY <1>1, SavedStays
<1> QED BY <1>1, <1>2, <1>3 DEF Unseen

LEMMA AttachOpens ==
  ASSUME IInv, DiskInv, Attach
  PROVE  Saved!Open \/ Saved!OpenFails
<1>1. phase = "loading" /\ cur.track = NoTrack /\ at = Len(file.tracks) + 1 /\ file' = file
  BY DEF Attach
<1>2. PhaseView = "closed" /\ DiskView = Nothing /\ failed = FALSE
  BY <1>1, Views, Unfailed
<1>3. CASE file.torn
  <2>1. Drop /\ reply' = "error"
    BY <1>3 DEF Attach
  <2>2. phase' = "closed" /\ failed' = FALSE /\ PhaseView' = "closed" /\ DiskView' = Nothing
    BY <2>1, Dropped
  <2>3. SavedView' = SavedView
    BY <1>1, <2>2, SavedStays
  <2> QED BY <1>2, <2>1, <2>2, <2>3 DEF Saved!OpenFails, Saved!Closed
<1>4. CASE ~ file.torn
  <2>1. phase' = "open" /\ reply' = "ok" /\ UNCHANGED <<store, dir, cur, failed>>
    BY <1>4 DEF Attach, session
  <2>2. Disk' = Disk /\ Disk = Reopened(file)
    BY <1>1, <2>1, StoreStays, LoadedIsDisk
  <2>3. SavedView = Reopened(file) /\ SavedView # Nothing
    BY <1>1, <1>4, Views, ReopenedTypes DEF IInv, FileInv
  <2>4. SavedView' = SavedView
    BY <1>1, <2>1, SavedStays
  <2>5. PhaseView' = "open" /\ DiskView' = Disk'
    BY <2>1, ViewsNext
  <2> QED BY <1>2, <2>1, <2>2, <2>3, <2>4, <2>5 DEF Saved!Open, Saved!Closed
<1> QED BY <1>3, <1>4

LEMMA ReadIsUnseen ==
  ASSUME IInv, DiskInv, NEW t \in Tracks, Read(t)
  PROVE  Unseen
<1>1. phase = "open" /\ UNCHANGED <<file, phase, reply, failed>>
  BY DEF Read
<1>2. Disk' = Disk
  BY ReadDisk
<1>3. UNCHANGED SavedView
  BY <1>1, SavedStays
<1> QED BY <1>1, <1>2, <1>3, Views, ViewsNext DEF Unseen

LEMMA WriteWrites ==
  ASSUME IInv, DiskInv, NEW t \in Tracks, NEW id \in SectorIds, NEW v \in Contents,
         Write(t, id, v)
  PROVE  Saved!Write \/ Unseen
<1>1. phase = "open" /\ UNCHANGED <<file, phase, reply, failed>>
  BY DEF Write
<1>2. UNCHANGED SavedView
  BY <1>1, SavedStays
<1>3. PhaseView = "open" /\ PhaseView' = "open" /\ DiskView = Disk /\ DiskView' = Disk'
  BY <1>1, Views, ViewsNext
<1>4. CASE Disk' = Disk
  BY <1>1, <1>2, <1>3, <1>4 DEF Unseen
<1>5. CASE Disk[<<t, id>>] \in Contents /\ Disk' = [Disk EXCEPT ![<<t, id>>] = v]
  <2>1. <<t, id>> \in DOMAIN Disk
    BY DiskIs DEF DiskOf, Sectors
  <2>2. Saved!Written(Disk, Disk')
    <3>1. PICK s \in DOMAIN Disk : s = <<t, id>>
      BY <2>1
    <3>2. Disk'[s] = v
      BY <1>5, <3>1
    <3> QED BY <1>5, <3>1, <3>2 DEF Saved!Written
  <2> QED BY <1>1, <1>2, <1>3, <2>2 DEF Saved!Write
<1> QED BY <1>4, <1>5, WriteShows

LEMMA CloseCloses ==
  ASSUME IInv, DiskInv, CloseUnsaved
  PROVE  Saved!CloseUnsaved
<1>1. phase = "open" /\ Drop /\ file' = file
  BY DEF CloseUnsaved
<1>2. phase' = "closed" /\ failed' = FALSE /\ PhaseView' = "closed" /\ DiskView' = Nothing
  BY <1>1, Dropped
<1>3. PhaseView = "open" /\ DiskView = Disk /\ failed = FALSE /\ SavedView' = SavedView
  BY <1>1, <1>2, Views, Unfailed, SavedStays
<1>4. CASE ~ dirty /\ reply' = "ok"
  <2>1. ~ file.torn /\ Disk = Reopened(file)
    BY <1>1, <1>4 DEF DiskInv, CleanInv
  <2>2. SavedView = Disk /\ Disk # Nothing
    BY <1>1, <2>1, Views, ReopenedTypes DEF IInv, FileInv
  <2>3. Saved!Kept(DiskView, SavedView)
    BY <1>3, <2>2 DEF Saved!Kept
  <2> QED BY <1>2, <1>3, <1>4, <2>3 DEF Saved!CloseUnsaved, Saved!Leave
<1>5. CASE reply' = "error"
  BY <1>2, <1>3, <1>5 DEF Saved!CloseUnsaved, Saved!Leave
<1> QED BY <1>4, <1>5 DEF CloseUnsaved

LEMMA BeginSaveBegins ==
  ASSUME IInv, DiskInv, BeginSave
  PROVE  Saved!BeginSave
<1>1. phase = "open" /\ phase' = "saving" /\ UNCHANGED <<reply, failed>>
  BY DEF BeginSave
<1>2. Disk' = Disk
  BY BeginSaveDisk
<1> QED BY <1>1, <1>2, Views, ViewsNext DEF Saved!BeginSave

LEMMA BeginSaveFailsCloses ==
  ASSUME IInv, DiskInv, BeginSaveFails
  PROVE  Saved!CloseUnsaved
<1>1. phase = "open" /\ file'.torn = TRUE /\ Drop /\ reply' = "error"
  BY DEF BeginSaveFails
<1>2. phase' = "closed" /\ failed' = FALSE /\ PhaseView' = "closed" /\ DiskView' = Nothing
  BY <1>1, Dropped
<1>3. PhaseView = "open" /\ failed = FALSE /\ SavedView' = Nothing
  BY <1>1, <1>2, Views, ViewsNext, Unfailed
<1> QED BY <1>1, <1>2, <1>3 DEF Saved!CloseUnsaved, Saved!Leave

LEMMA SavingRefines ==
  ASSUME IInv, DiskInv, SaveTrack \/ SaveTrackFails
  PROVE  Saved!SaveFails \/ Unseen
<1>1. /\ phase = "saving" /\ phase' = "saving" /\ reply' = reply
      /\ (failed' = failed \/ failed' = TRUE)
  BY DEF SaveTrack, SaveTrackFails, Saving
<1>2. Disk' = Disk
  BY SaveTrackDisk, SaveTrackFailsDisk
<1> QED BY <1>1, <1>2, Views, ViewsNext DEF Saved!SaveFails, Unseen

LEMMA EndSaveEnds ==
  ASSUME IInv, DiskInv, IInv', EndSave
  PROVE  Saved!EndSave
<1>1. phase = "saving" /\ ~ Saving /\ Drop
  BY DEF EndSave
<1>2. phase' = "closed" /\ failed' = FALSE /\ PhaseView' = "closed" /\ DiskView' = Nothing
  BY <1>1, Dropped
<1>3. PhaseView = "saving" /\ DiskView = Disk /\ SavedView' # InDoubt
  BY <1>1, <1>2, Views, NotInDoubt
<1>4. ASSUME ~ failed, reply' = "ok" PROVE Saved!Kept(DiskView, SavedView')
  <2>1. file' = file
    BY <1>4 DEF EndSave
  <2>2. ~ file.torn
    BY <1>1, <1>4 DEF DiskInv, SavedInv, SavedSoFar
  <2>3. SavedView' = Reopened(file)
    BY <1>2, <2>1, <2>2, ViewsNext
  <2> QED BY <1>1, <1>3, <1>4, <2>3, SavedIsKept
<1> QED BY <1>2, <1>3, <1>4 DEF Saved!EndSave, Saved!Leave

LEMMA CrashCrashes ==
  ASSUME IInv, DiskInv, IInv', Crash
  PROVE  Saved!Crash
<1>1. phase # "closed" /\ Drop /\ reply' = "crashed" /\ (phase # "saving" => file' = file)
  BY DEF Crash
<1>2. phase' = "closed" /\ failed' = FALSE /\ PhaseView' = "closed" /\ DiskView' = Nothing
  BY <1>1, Dropped
<1>3. SavedView' # InDoubt /\ (phase # "saving" => SavedView' = SavedView)
  BY <1>1, <1>2, NotInDoubt, SavedStays
<1>4. PhaseView # "saving" => phase # "saving"
  BY Views
<1> QED BY <1>1, <1>2, <1>3, <1>4 DEF Saved!Crash, Saved!Leave

LEMMA ReplaceReplaces ==
  ASSUME IInv, DiskInv, IInv', Replace
  PROVE  Saved!Replace
<1>1. phase = "closed" /\ UNCHANGED <<phase, reply, failed>>
  BY DEF Replace
<1>2. SavedView' # InDoubt
  BY <1>1, NotInDoubt
<1> QED BY <1>1, <1>2, Views, ViewsNext DEF Saved!Replace, Saved!Closed

LEMMA InitRefines == ASSUME Init, IInv PROVE Saved!Init
<1>1. phase = "closed"
  BY DEF Init
<1>2. SavedView # InDoubt
  BY <1>1, Views, ReopenedTypes, ResultsAssumption DEF IInv, FileInv
<1> QED BY <1>1, <1>2, Views DEF Saved!Init, Saved!Closed

LEMMA StepRefines ==
  ASSUME IInv, DiskInv, IInv', [Next]_vars
  PROVE  Saved!Next \/ Unseen
<1>1. CASE Open \/ BeginTrack \/ LoadSector \/ EndTrack
  BY <1>1, LoadingIsUnseen
<1>2. CASE Attach
  BY <1>2, AttachOpens DEF Saved!Next
<1>3. CASE \E t \in Tracks : Read(t)
  BY <1>3, ReadIsUnseen
<1>4. CASE \E t \in Tracks, id \in SectorIds, v \in Contents : Write(t, id, v)
  BY <1>4, WriteWrites DEF Saved!Next
<1>5. CASE CloseUnsaved \/ BeginSave \/ BeginSaveFails
  BY <1>5, CloseCloses, BeginSaveBegins, BeginSaveFailsCloses DEF Saved!Next
<1>6. CASE SaveTrack \/ SaveTrackFails
  BY <1>6, SavingRefines DEF Saved!Next
<1>7. CASE EndSave \/ Crash \/ Replace
  BY <1>7, EndSaveEnds, CrashCrashes, ReplaceReplaces DEF Saved!Next
<1>8. CASE UNCHANGED vars
  <2>1. UNCHANGED <<file, phase, reply, failed>> /\ Disk' = Disk
    BY <1>8, StutterDisk DEF vars
  <2>2. SavedView' = SavedView
    BY <2>1, Views, ViewsNext
  <2>3. UNCHANGED <<PhaseView, DiskView>>
    BY <2>1 DEF PhaseView, DiskView
  <2> QED BY <2>1, <2>2, <2>3 DEF Unseen
<1> QED BY <1>1, <1>2, <1>3, <1>4, <1>5, <1>6, <1>7, <1>8 DEF Next

\* An image in memory is the disk of its file, through loading, headers and blocks
\* that move, and making the file anew, for any images, tracks and sectors.
THEOREM ImageIsSavedDisk == Spec => IsSavedDisk
<1>1. Init => Saved!Init
  BY InitKeeps, InitRefines
<1>2. IInv /\ DiskInv /\ IInv' /\ [Next]_vars
        => [Saved!Next]_<<PhaseView, reply, failed, SavedView, DiskView>>
  BY StepRefines DEF Unseen
<1> QED BY <1>1, <1>2, Invariance, DiskInvariance, PTL DEF Spec, IsSavedDisk, Saved!Spec, Saved!vars

==============================================================================
