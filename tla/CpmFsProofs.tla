----------------------------- MODULE CpmFsProofs -----------------------------
(***************************************************************************)
(* Proofs about CpmFs for a disk of any geometry: its type invariant, that *)
(* the allocation vector is always exact, and what follows for the blocks  *)
(* that are written; and, for disks whose entries map whole extents of     *)
(* whole blocks and calls that end with the extents, that a written file   *)
(* reads back, that fsck finds nothing new to repair and that the image    *)
(* can still be mounted.                                                   *)
(***************************************************************************)
EXTENDS CpmFs, NaturalsInduction, WellFoundedInduction, FiniteSetTheorems, TLAPS

\* The open file is one of the mounted image, its current entry is one of its
\* entries, and every block it has was allocated by this session.
OwnInv ==
  file # NoFile =>
    /\ mounted
    /\ Owner \in Files
    /\ dir[file.extent].owner = Owner
    /\ file.phase # "done" => file.pos < file.total
    /\ \A e \in AllEntriesOf(dir, Owner), p \in PtrIdx :
         dir[e].ptr[p] # 0 => dir[e].ptr[p] \in ReservedBlks..(Size - 1)

AlvInv == mounted => alv = AlvInit(dir)

IInv == TypeOK /\ OwnInv /\ AlvInv

------------------------------------------------------------------------------
\* ARITHMETIC

\* Division and remainder of natural numbers.
LEMMA DivMod ==
  ASSUME NEW m \in Nat, NEW b \in Nat \ {0}
  PROVE  /\ m \div b \in Nat
         /\ m % b \in 0..(b - 1)
  OBVIOUS

\* A number below k*b has fewer than k whole b in it.
LEMMA DivBelow ==
  ASSUME NEW m \in Nat, NEW b \in Nat \ {0}, NEW k \in Nat, m < k * b
  PROVE  m \div b \in 0..(k - 1)
<1> DEFINE q == m \div b
<1>1. q \in Nat /\ q * b <= m
  BY Z3
<1>2. ASSUME q >= k PROVE FALSE
  <2>1. q * b >= k * b
    BY <1>1, <1>2, Z3
  <2> QED
    BY <1>1, <2>1
<1> QED
  BY <1>1, <1>2

\* The directory takes at least one block, so block 0 is always reserved.
LEMMA Geometry ==
  /\ StorageBlks \in Nat \ {0}
  /\ ReservedBlks \in Nat /\ ReservedBlks >= 1
  /\ ReservedBlks <= Size
  /\ StorageBlks <= ReservedBlks
<1>1. StorageBlks \in Nat \ {0}
  BY ConstantsAssumption DEF StorageBlks
<1> QED
  BY <1>1, ConstantsAssumption, GeometryAssumption DEF ReservedBlks

\* An entry maps at most as many records as its pointers reach.
LEMMA Capacity ==
  /\ ExtCap \in Nat \ {0}
  /\ ExtCap <= Ptrs * RecsPerBlock
<1> USE ConstantsAssumption
<1>1. Ptrs * RecsPerBlock \in Nat \ {0}
  OBVIOUS
<1> DEFINE c == Ptrs * RecsPerBlock
           l == c \div RecsPerExtent
<1>2. CASE c > RecsPerExtent
  <2>1. l \in Nat \ {0} /\ RecsPerExtent * l <= c
    BY <1>1, <1>2, Z3
  <2>2. DefaultExtents = l
    BY <2>1 DEF DefaultExtents
  <2>3. LogicalExtents \in Nat \ {0} /\ LogicalExtents <= l
    BY <2>1, <2>2, GeometryAssumption DEF LogicalExtents
  <2>4. PICK x \in Nat \ {0}, g \in Nat \ {0}, m \in Nat \ {0} :
          x = RecsPerExtent /\ g = LogicalExtents /\ m = l
    BY <2>1, <2>3
  <2>5. x * g <= x * m /\ x * g \in Nat \ {0}
    BY <2>3, <2>4, Z3
  <2>6. ExtCap = RecsPerExtent * LogicalExtents
    BY <1>2 DEF ExtCap
  <2> QED
    BY <1>1, <2>1, <2>4, <2>5, <2>6
<1>3. CASE ~(c > RecsPerExtent)
  BY <1>1, <1>3 DEF ExtCap
<1> QED
  BY <1>2, <1>3

LEMMA SlotInRange ==
  ASSUME file.pos \in Nat
  PROVE  Slot \in PtrIdx
<1>1. file.pos % ExtCap \in 0..(ExtCap - 1)
  BY Capacity, DivMod
<1>2. /\ file.pos % ExtCap \in Nat
      /\ file.pos % ExtCap < Ptrs * RecsPerBlock
      /\ Ptrs \in Nat /\ RecsPerBlock \in Nat \ {0}
      /\ Ptrs * RecsPerBlock \in Nat
  BY <1>1, Capacity, ConstantsAssumption
<1>3. (file.pos % ExtCap) \div RecsPerBlock \in 0..(Ptrs - 1)
  BY <1>2, DivBelow
<1> QED
  BY <1>3 DEF Slot, PtrIdx

LEMMA ExtentInRange ==
  ASSUME NEW n \in 0..MaxRecs, NEW t \in 0..MaxRecs, n < t
  PROVE  n \div RecsPerExtent \in 0..(ExtnoLimit - 1)
<1>1. n < ExtnoLimit * RecsPerExtent
  BY ConstantsAssumption, ClientAssumption
<1> QED
  BY <1>1, DivBelow, ConstantsAssumption, ClientAssumption

LEMMA RecordCountInRange ==
  ASSUME NEW n \in 1..MaxRecs
  PROVE  RecordCount(n) \in 0..(2 * RecsPerExtent - 1)
<1>1. n - 1 \in Nat /\ RecsPerExtent \in Nat \ {0}
  BY ConstantsAssumption, ClientAssumption
<1>2. (n - 1) % RecsPerExtent \in 0..(RecsPerExtent - 1)
  BY <1>1, DivMod
<1> QED
  BY <1>1, <1>2 DEF RecordCount

LEMMA FreeEntryType == FreeEntry \in Entry
  BY ConstantsAssumption DEF FreeEntry, Entry, Owners, NoPtrs

LEMMA AlvInitType == ASSUME NEW d PROVE AlvInit(d) \subseteq Blocks
  BY Geometry, ConstantsAssumption DEF AlvInit, Referenced, Blocks

\* The file of a call of cpmWrite at work.
LEMMA RunningFile ==
  ASSUME TypeOK, NEW p \in {"extent", "block"}, Writing(p)
  PROVE  /\ mounted /\ file # NoFile /\ file \in OpenFile
         /\ file.ino \in Entries /\ file.extent \in Entries /\ file.pos \in Nat
         /\ dir[file.ino] \in Entry /\ dir[file.extent] \in Entry
<1>1. mounted /\ file # NoFile
  BY DEF Writing, NoFile
<1>2. file \in OpenFile
  BY <1>1 DEF TypeOK
<1>3. file.ino \in Entries /\ file.extent \in Entries /\ file.pos \in Nat
  BY <1>2, ClientAssumption DEF OpenFile
<1>4. dir \in [Entries -> Entry]
  BY DEF TypeOK
<1> QED
  BY <1>1, <1>2, <1>3, <1>4

LEMMA FilledType ==
  ASSUME TypeOK, file \in OpenFile, NEW b \in Blocks, NEW fresh \in BOOLEAN,
         NEW n \in Nat
  PROVE  Filled(b, fresh, n) \in [0..(RecsPerBlock - 1) -> Data]
<1>1. file.pos \in Nat /\ file.tag \in Tags
  BY ClientAssumption DEF OpenFile
<1>2. file.pos - (file.pos % RecsPerBlock) \in Int
  BY <1>1, ConstantsAssumption, DivMod
<1>3. \A x \in file.pos..(n - 1) : <<file.tag, x>> \in Data
  BY <1>1 DEF Data
<1>4. Zero \in Data
  BY DEF Zero, Data
<1> QED
  BY <1>1, <1>2, <1>3, <1>4 DEF Filled, TypeOK

------------------------------------------------------------------------------
\* QUOTIENTS

LEMMA Division ==
  ASSUME NEW m \in Nat, NEW b \in Nat \ {0}
  PROVE  m \div b \in Nat /\ m % b \in 0..(b - 1) /\ m = (m \div b) * b + (m % b)
  OBVIOUS

LEMMA TimesMonotone ==
  ASSUME NEW p \in Nat, NEW q \in Nat, NEW b \in Nat, p <= q
  PROVE  p * b <= q * b
  OBVIOUS

\* Quotient and remainder are the only ones.
LEMMA DivUnique ==
  ASSUME NEW m \in Nat, NEW b \in Nat \ {0}, NEW q \in Nat, NEW s \in 0..(b - 1),
         m = q * b + s
  PROVE  m \div b = q /\ m % b = s
<1> DEFINE d == m \div b
           c == m % b
<1>1. d \in Nat /\ c \in 0..(b - 1) /\ m = d * b + c
  BY Division
<1> HIDE DEF d, c
<1>2. d <= q
  <2> SUFFICES ASSUME d >= q + 1 PROVE FALSE
    BY <1>1
  <2>1. (q + 1) * b <= d * b
    BY <1>1, TimesMonotone
  <2>2. (q + 1) * b = q * b + b
    BY Z3
  <2>3. PICK x \in Nat, y \in Nat : x = d * b /\ y = q * b
    BY <1>1
  <2> QED BY <1>1, <2>1, <2>2, <2>3
<1>3. q <= d
  <2> SUFFICES ASSUME q >= d + 1 PROVE FALSE
    BY <1>1
  <2>1. (d + 1) * b <= q * b
    BY <1>1, TimesMonotone
  <2>2. (d + 1) * b = d * b + b
    BY <1>1, Z3
  <2>3. PICK x \in Nat, y \in Nat : x = d * b /\ y = q * b
    BY <1>1
  <2> QED BY <1>1, <2>1, <2>2, <2>3
<1>4. d = q
  BY <1>1, <1>2, <1>3
<1>5. PICK x \in Nat : x = q * b
  OBVIOUS
<1>6. c = s
  BY <1>1, <1>4, <1>5
<1> QED BY <1>4, <1>6 DEF d, c

\* A number smaller than the divisor.
LEMMA SmallQuotient ==
  ASSUME NEW b \in Nat \ {0}, NEW m \in 0..(b - 1)
  PROVE  m \div b = 0 /\ m % b = m
<1>1. PICK n \in Nat, q \in Nat : n = m /\ q = 0
  OBVIOUS
<1>2. n = q * b + m
  BY <1>1
<1>3. n \div b = q /\ n % b = m
  BY <1>2, DivUnique
<1> QED BY <1>1, <1>3

\* Dividing by c is dividing twice.
Twice(r, b, k, c) ==
  /\ r \div c = (r \div b) \div k
  /\ (r % c) \div b = (r \div b) % k

LEMMA DivDiv ==
  ASSUME NEW r \in Nat, NEW b \in Nat \ {0}, NEW k \in Nat \ {0}, NEW c \in Nat \ {0},
         c = b * k
  PROVE  Twice(r, b, k, c)
<1>2. PICK u \in Nat, s \in 0..(b - 1) : u = r \div b /\ s = r % b /\ r = u * b + s
  BY Division
<1>3. PICK v \in Nat, t \in 0..(k - 1) : v = u \div k /\ t = u % k /\ u = v * k + t
  BY Division
<1>4. t * b + s \in 0..(c - 1)
  <2>1. t + 1 <= k
    OBVIOUS
  <2>2. (t + 1) * b <= k * b
    BY <2>1, Z3
  <2>3. (t + 1) * b = t * b + b /\ k * b = b * k /\ t * b \in Nat
    BY Z3
  <2>4. PICK x \in Nat : x = t * b
    BY <2>3
  <2> QED BY <2>2, <2>3, <2>4
<1>5. r = v * c + (t * b + s)
  <2>1. (v * k + t) * b = v * (b * k) + t * b
    BY Z3
  <2>2. u * b = v * (b * k) + t * b
    BY <1>3, <2>1
  <2>3. PICK x \in Nat, y \in Nat, z \in Nat : x = u * b /\ y = v * c /\ z = t * b
    OBVIOUS
  <2> QED BY <1>2, <2>2, <2>3
<1>6. r \div c = v /\ r % c = t * b + s
  BY <1>4, <1>5, DivUnique
<1>7. t * b + s \in Nat /\ (t * b + s) \div b = t /\ (t * b + s) % b = s
  <2>1. t * b + s \in Nat
    BY <1>4
  <2>2. PICK m \in Nat : m = t * b + s
    BY <2>1
  <2> QED BY <2>2, DivUnique
<1> QED BY <1>2, <1>3, <1>6, <1>7 DEF Twice

\* A larger number has at least as large a quotient.
LEMMA DivMonotone ==
  ASSUME NEW r \in Nat, NEW s \in Nat, r <= s, NEW b \in Nat \ {0}
  PROVE  r \div b <= s \div b
<1>1. PICK u \in Nat, x \in 0..(b - 1) : u = r \div b /\ r = u * b + x
  BY Division
<1>2. PICK v \in Nat, y \in 0..(b - 1) : v = s \div b /\ s = v * b + y
  BY Division
<1> SUFFICES ASSUME v + 1 <= u PROVE FALSE
  BY <1>1, <1>2
<1>3. (v + 1) * b <= u * b /\ (v + 1) * b = v * b + b
  BY TimesMonotone
<1>4. PICK m \in Nat, n \in Nat : m = u * b /\ n = v * b
  OBVIOUS
<1> QED BY <1>1, <1>2, <1>3, <1>4

\* A multiple of b is at most r when its factor is at most the quotient.
LEMMA DivBounds ==
  ASSUME NEW r \in Nat, NEW b \in Nat \ {0}, NEW u \in Nat
  PROVE  /\ u * b <= r <=> u <= r \div b
         /\ u * b \in Nat
<1>1. PICK q \in Nat, s \in 0..(b - 1) : q = r \div b /\ r = q * b + s
  BY Division
<1>2. PICK m \in Nat, n \in Nat : m = u * b /\ n = q * b
  OBVIOUS
<1>3. CASE u <= q
  <2>1. m <= n
    BY <1>2, <1>3, TimesMonotone
  <2> QED BY <1>1, <1>2, <1>3, <2>1
<1>4. CASE q + 1 <= u
  <2>1. (q + 1) * b <= u * b
    BY <1>4, TimesMonotone
  <2>2. (q + 1) * b = q * b + b
    OBVIOUS
  <2>3. n + b <= m
    BY <1>2, <2>1, <2>2
  <2> QED BY <1>1, <1>2, <1>4, <2>3
<1> QED BY <1>1, <1>3, <1>4

------------------------------------------------------------------------------
\* LOOKING UP RECORDS

\* A nonempty set of natural numbers has a least element.
LEMMA LeastNat ==
  ASSUME NEW S, S \subseteq Nat, S # {}
  PROVE  \E x \in S : IsFirst(x, S)
<1> DEFINE less == {p \in Nat \X Nat : p[1] < p[2]}
<1>1. IsWellFoundedOn(less, Nat)
  BY NatLessThanWellFounded DEF OpToRel
<1>2. PICK x \in S : \A y \in S : <<y, x>> \notin less
  <2> HIDE DEF less
  <2> QED
    BY <1>1, WFMin
<1>3. ASSUME NEW y \in S PROVE x <= y
  <2>1. x \in Nat /\ y \in Nat /\ <<y, x>> \in Nat \X Nat
    OBVIOUS
  <2>2. ~ (<<y, x>>[1] < <<y, x>>[2])
    BY <2>1, <1>2
  <2> QED
    BY <2>1, <2>2
<1> QED
  BY <1>3 DEF IsFirst

\* cpmNamei finds an entry with the highest extent number of a file that has
\* entries, and the first such entry.
LEMMA HighestIsEntry ==
  ASSUME NEW d \in [Entries -> Entry], NEW f, AllEntriesOf(d, f) # {}
  PROVE  LET h == HighestEntry(d, f)
         IN  /\ h \in AllEntriesOf(d, f)
             /\ \A x \in AllEntriesOf(d, f) :
                  d[x].extno < d[h].extno \/ (d[x].extno = d[h].extno /\ h <= x)
<1> USE ConstantsAssumption
<1> DEFINE A == AllEntriesOf(d, f)
           below(e) == ExtnoLimit - d[e].extno
           M == {below(e) : e \in A}
<1>1. \A e \in A : e \in Nat /\ d[e].extno \in 0..(ExtnoLimit - 1)
  <2>1. \A e \in A : e \in Entries /\ e \in Nat
    BY DEF AllEntriesOf, Entries
  <2>2. \A e \in Entries : d[e] \in Entry
    OBVIOUS
  <2>3. \A e \in Entries : d[e].extno \in 0..(ExtnoLimit - 1)
    BY <2>2 DEF Entry
  <2> QED
    BY <2>1, <2>3
<1>2. M \subseteq Nat /\ M # {}
  BY <1>1
<1>3. PICK m \in M : IsFirst(m, M)
  BY <1>2, LeastNat
<1> DEFINE T == {e \in A : below(e) = m}
<1>4. T \subseteq Nat /\ T # {}
  BY <1>1, <1>3
<1>5. PICK h \in T : IsFirst(h, T)
  BY <1>4, LeastNat
<1>6. ASSUME NEW x \in A
      PROVE  d[x].extno < d[h].extno \/ (d[x].extno = d[h].extno /\ h <= x)
  <2>1. below(h) = m /\ h \in A /\ m <= below(x)
    BY <1>3, <1>5 DEF IsFirst
  <2>2. below(x) = m => h <= x
    BY <1>5, <1>6 DEF IsFirst
  <2> QED
    BY <1>1, <1>6, <2>1, <2>2
<1> QED
  BY <1>5, <1>6 DEF HighestEntry

\* cpmRead looks a record up in one of the pointers of the file.
LEMMA RecordSlot ==
  ASSUME NEW r \in Nat
  PROVE  (r % ExtCap) \div RecsPerBlock \in PtrIdx
<1>1. r % ExtCap \in 0..(ExtCap - 1)
  BY Capacity, DivMod
<1>2. /\ r % ExtCap \in Nat
      /\ r % ExtCap < Ptrs * RecsPerBlock
      /\ Ptrs \in Nat /\ RecsPerBlock \in Nat \ {0}
      /\ Ptrs * RecsPerBlock \in Nat
  BY <1>1, Capacity, ConstantsAssumption
<1>3. (r % ExtCap) \div RecsPerBlock \in 0..(Ptrs - 1)
  BY <1>2, DivBelow
<1> QED
  BY <1>3 DEF PtrIdx

\* The entry that maps record r, the first that matches, and what cpmRead delivers
\* for a pointer of it.
MapperOf(d, f, r) ==
  CHOOSE x \in EntriesOf(d, f, r \div RecsPerExtent) :
    IsFirst(x, EntriesOf(d, f, r \div RecsPerExtent))
Delivered(k, b, r) ==
  IF b = 0 THEN Zero
  ELSE IF b < StorageBlks \/ b >= Size THEN Refused
  ELSE k[b][r % RecsPerBlock]

\* Which record cpmRead delivers when an entry maps it.
LEMMA RecordFound ==
  ASSUME NEW d, NEW k, NEW f, NEW r, EntriesOf(d, f, r \div RecsPerExtent) # {}
  PROVE  ReadRecord(d, k, f, r) =
           Delivered(k, d[MapperOf(d, f, r)].ptr[(r % ExtCap) \div RecsPerBlock], r)
BY DEF ReadRecord, MapperOf, Delivered

------------------------------------------------------------------------------
\* WHAT ENTRIES MAP

\* Disks whose entries map whole logical extents, each of whole blocks.
WholeExtents ==
  /\ Ptrs * RecsPerBlock = RecsPerExtent * LogicalExtents
  /\ RecsPerExtent % RecsPerBlock = 0

BlocksPerExtent == RecsPerExtent \div RecsPerBlock

LEMMA Constants ==
  /\ Ptrs \in Nat \ {0} /\ RecsPerBlock \in Nat \ {0} /\ RecsPerExtent \in Nat \ {0}
  /\ ExtnoLimit \in Nat \ {0}
  BY ConstantsAssumption

LEMMA LogicalExtentsType == LogicalExtents \in Nat \ {0}
<1>1. PICK c \in Nat : c = Ptrs * RecsPerBlock
  BY Constants
<1>2. c \div RecsPerExtent \in Nat
  BY Constants, Division
<1>3. DefaultExtents \in Nat \ {0}
  BY <1>1, <1>2 DEF DefaultExtents
<1> QED BY <1>3, ConstantsAssumption DEF LogicalExtents

LEMMA Layout ==
  ASSUME WholeExtents
  PROVE  /\ BlocksPerExtent \in Nat \ {0}
         /\ RecsPerExtent = RecsPerBlock * BlocksPerExtent
         /\ Ptrs = BlocksPerExtent * LogicalExtents
         /\ ExtCap = RecsPerBlock * Ptrs
         /\ ExtCap = RecsPerExtent * LogicalExtents
<1>1. PICK b \in Nat \ {0}, x \in Nat \ {0}, p \in Nat \ {0}, l \in Nat \ {0} :
        b = RecsPerBlock /\ x = RecsPerExtent /\ p = Ptrs /\ l = LogicalExtents
  BY Constants, LogicalExtentsType
<1>2. PICK k \in Nat : k = BlocksPerExtent /\ k = x \div b
  BY <1>1, Division DEF BlocksPerExtent
<1>3. x = k * b
  <2>1. x = (x \div b) * b + (x % b) /\ x % b = 0
    BY <1>1, Division DEF WholeExtents
  <2>2. PICK m \in Nat : m = k * b
    OBVIOUS
  <2> QED BY <1>2, <2>1, <2>2
<1>4. k # 0 /\ x = b * k
  BY <1>3
<1>5. p = k * l
  <2>1. p * b = x * l
    BY <1>1 DEF WholeExtents
  <2>2. p * b = (k * l) * b
    BY <1>3, <2>1
  <2>3. PICK m \in Nat, n \in Nat : m = p * b /\ n = k * l
    OBVIOUS
  <2>4. m = p * b + 0 /\ m = n * b + 0
    <3>1. n * b \in Nat
      OBVIOUS
    <3> QED BY <2>2, <2>3, <3>1
  <2>5. 0 \in 0..(b - 1)
    OBVIOUS
  <2>6. m \div b = p /\ m \div b = n
    BY <2>4, <2>5, DivUnique
  <2> QED BY <2>3, <2>6
<1>6. ExtCap = b * p /\ ExtCap = x * l
  <2>1. p * b = x * l /\ p * b = b * p
    BY <1>1 DEF WholeExtents
  <2> QED BY <1>1, <2>1 DEF ExtCap
<1> QED BY <1>1, <1>2, <1>4, <1>5, <1>6

\* The part of its file an entry maps, as far as its extent number tells, and the
\* block of the file behind one of its pointers.
Group(x) == x.extno \div LogicalExtents
FileBlock(x, p) == Group(x) * Ptrs + p

LEMMA FileBlockOf ==
  ASSUME NEW x \in Entry, NEW p \in PtrIdx
  PROVE  /\ Group(x) \in Nat /\ FileBlock(x, p) \in Nat
         /\ FileBlock(x, p) \div Ptrs = Group(x) /\ FileBlock(x, p) % Ptrs = p
<1>1. Group(x) \in Nat
  <2>1. x.extno \in Nat
    BY Constants DEF Entry
  <2> QED BY <2>1, LogicalExtentsType, Division DEF Group
<1>2. PICK g \in Nat, c \in Nat \ {0} : g = Group(x) /\ c = Ptrs
  BY <1>1, Constants
<1>3. p \in 0..(c - 1) /\ g * c + p \in Nat
  BY <1>2 DEF PtrIdx
<1>4. PICK m \in Nat : m = g * c + p
  BY <1>3
<1>5. m \div c = g /\ m % c = p
  BY <1>3, <1>4, DivUnique
<1> QED BY <1>1, <1>2, <1>4, <1>5 DEF FileBlock

\* The records an entry can map.
LEMMA GroupBounds ==
  ASSUME WholeExtents, NEW x \in Entry, NEW p \in PtrIdx
  PROVE  /\ Group(x) * ExtCap \in Nat /\ (Group(x) + 1) * ExtCap \in Nat
         /\ (Group(x) + 1) * ExtCap = Group(x) * ExtCap + ExtCap
         /\ FileBlock(x, p) * RecsPerBlock \in Nat
         /\ Group(x) * ExtCap <= FileBlock(x, p) * RecsPerBlock
         /\ FileBlock(x, p) * RecsPerBlock + RecsPerBlock <= (Group(x) + 1) * ExtCap
<1>1. PICK g \in Nat, c \in Nat \ {0}, b \in Nat \ {0} :
        g = Group(x) /\ c = Ptrs /\ b = RecsPerBlock
  BY FileBlockOf, Constants
<1>2. PICK e \in Nat \ {0} : e = ExtCap /\ e = b * c
  <2>1. ExtCap = b * c
    BY <1>1, Layout
  <2> QED BY <2>1
<1>3. p \in 0..(c - 1)
  BY <1>1 DEF PtrIdx
<1>4. PICK m \in Nat : m = FileBlock(x, p) /\ m = g * c + p
  BY <1>1, <1>3, FileBlockOf DEF FileBlock
<1>5. g * c <= m /\ m + 1 <= (g + 1) * c
  <2>1. (g + 1) * c = g * c + c
    OBVIOUS
  <2>2. PICK n \in Nat : n = g * c
    OBVIOUS
  <2> QED BY <1>3, <1>4, <2>1, <2>2
<1>6. (g * c) * b <= m * b /\ (m + 1) * b <= ((g + 1) * c) * b
  <2>1. g * c \in Nat /\ (g + 1) * c \in Nat
    OBVIOUS
  <2> QED BY <1>5, <2>1, TimesMonotone
<1>7. (g * c) * b = g * e /\ ((g + 1) * c) * b = (g + 1) * e /\ (m + 1) * b = m * b + b
  BY <1>2
<1>8. (g + 1) * e = g * e + e /\ g * e \in Nat /\ (g + 1) * e \in Nat /\ m * b \in Nat
  OBVIOUS
<1> QED BY <1>1, <1>2, <1>4, <1>6, <1>7, <1>8

\* Entry, logical extent and pointer of a record are those of its block.
LEMMA Places ==
  ASSUME WholeExtents, NEW r \in Nat
  PROVE  /\ r \div RecsPerBlock \in Nat /\ r \div RecsPerExtent \in Nat
         /\ r \div ExtCap \in Nat
         /\ (r \div RecsPerBlock) \div Ptrs = r \div ExtCap
         /\ (r \div RecsPerBlock) % Ptrs = (r % ExtCap) \div RecsPerBlock
         /\ (r \div RecsPerExtent) \div LogicalExtents = r \div ExtCap
         /\ (r \div RecsPerBlock) \div BlocksPerExtent = r \div RecsPerExtent
         /\ (r \div RecsPerBlock) % BlocksPerExtent = (r % RecsPerExtent) \div RecsPerBlock
<1>1. PICK b \in Nat \ {0}, x \in Nat \ {0}, p \in Nat \ {0}, l \in Nat \ {0},
           k \in Nat \ {0}, c \in Nat \ {0} :
        /\ b = RecsPerBlock /\ x = RecsPerExtent /\ p = Ptrs /\ l = LogicalExtents
        /\ k = BlocksPerExtent /\ c = ExtCap
  BY Constants, LogicalExtentsType, Layout, Capacity
<1>2. c = b * p /\ c = x * l /\ x = b * k
  BY <1>1, Layout
<1>3. r \div b \in Nat /\ r \div x \in Nat /\ r \div c \in Nat
  BY Division
<1>4. Twice(r, b, p, c) /\ Twice(r, x, l, c) /\ Twice(r, b, k, x)
  BY <1>2, DivDiv
<1>5. r \div c = (r \div b) \div p /\ (r % c) \div b = (r \div b) % p
  BY <1>4 DEF Twice
<1>6. r \div c = (r \div x) \div l
  BY <1>4 DEF Twice
<1>7. r \div x = (r \div b) \div k /\ (r % x) \div b = (r \div b) % k
  BY <1>4 DEF Twice
<1> QED BY <1>1, <1>3, <1>5, <1>6, <1>7

------------------------------------------------------------------------------
\* THE ENTRIES OF A FILE OF n RECORDS

\* Whether entry x maps a record of it, and how far the records go that it and the
\* entries before it map.
Begun(x, n) == Group(x) * ExtCap < n
Reach(x, n) == IF n <= (Group(x) + 1) * ExtCap THEN n ELSE (Group(x) + 1) * ExtCap

\* The pointers of the written blocks are set, and extent number and count are those
\* of the last record the entry maps; or it was just added for the next one.
WrittenEntry(x, n) ==
  /\ \A p \in PtrIdx : x.ptr[p] # 0 <=> FileBlock(x, p) * RecsPerBlock < n
  /\ IF Begun(x, n)
     THEN /\ x.extno = (Reach(x, n) - 1) \div RecsPerExtent
          /\ x.rc = RecordCount(Reach(x, n))
     ELSE x.extno = n \div RecsPerExtent /\ x.rc = 0

LEMMA ReachOf ==
  ASSUME WholeExtents, NEW x \in Entry, NEW n \in Nat, Begun(x, n), NEW p \in PtrIdx
  PROVE  /\ Reach(x, n) \in Nat \ {0}
         /\ FileBlock(x, p) * RecsPerBlock < n
              <=> FileBlock(x, p) <= (Reach(x, n) - 1) \div RecsPerBlock
<1>1. PICK b \in Nat \ {0}, f \in Nat : b = RecsPerBlock /\ f = FileBlock(x, p)
  BY Constants, FileBlockOf
<1>2. PICK s \in Nat, t \in Nat, m \in Nat :
        /\ s = Group(x) * ExtCap /\ t = (Group(x) + 1) * ExtCap /\ m = f * b
        /\ s <= m /\ m + b <= t
  BY <1>1, GroupBounds
<1>3. s < n
  BY <1>2 DEF Begun
<1>4. CASE n <= t
  <2>1. Reach(x, n) = n
    BY <1>2, <1>4 DEF Reach
  <2>2. n - 1 \in Nat
    BY <1>3
  <2>3. f * b <= n - 1 <=> f <= (n - 1) \div b
    BY <2>2, DivBounds
  <2>4. m < n <=> m <= n - 1
    OBVIOUS
  <2> QED BY <1>1, <1>2, <2>1, <2>2, <2>3, <2>4
<1>5. CASE ~(n <= t)
  <2>1. Reach(x, n) = t
    BY <1>2, <1>5 DEF Reach
  <2>2. t - 1 \in Nat /\ m <= t - 1 /\ m < n
    BY <1>2, <1>5
  <2>3. f * b <= t - 1 <=> f <= (t - 1) \div b
    BY <2>2, DivBounds
  <2> QED BY <1>1, <1>2, <2>1, <2>2, <2>3
<1> QED BY <1>4, <1>5

LEMMA NotBegun ==
  ASSUME WholeExtents, NEW x \in Entry, NEW n \in Nat, ~Begun(x, n), NEW p \in PtrIdx
  PROVE  ~ (FileBlock(x, p) * RecsPerBlock < n)
<1>1. PICK s \in Nat, m \in Nat :
        s = Group(x) * ExtCap /\ m = FileBlock(x, p) * RecsPerBlock /\ s <= m
  BY GroupBounds
<1>2. ~ (s < n)
  BY <1>1 DEF Begun
<1> QED BY <1>1, <1>2

\* The window of an entry, and the whole blocks in front of it.
LEMMA WindowOf ==
  ASSUME WholeExtents, NEW x \in Entry, NEW k \in Nat, k = BlocksPerExtent,
         NEW w \in Nat, w = x.extno % LogicalExtents
  PROVE  /\ Window(x) = (w * k)..(w * k + k - 1)
         /\ w * k \in Nat
         /\ \A p \in PtrIdx : FileBlock(x, p) + w * k = x.extno * k + p
<1>1. PICK l \in Nat \ {0}, c \in Nat \ {0}, y \in Nat, g \in Nat :
        l = LogicalExtents /\ c = Ptrs /\ y = x.extno /\ g = Group(x)
  <2>1. x.extno \in Nat
    BY Constants DEF Entry
  <2>2. x.extno \div LogicalExtents \in Nat
    BY <2>1, LogicalExtentsType, Division
  <2> QED BY <2>1, <2>2, LogicalExtentsType, Constants DEF Group
<1>2. k # 0 /\ c = k * l
  BY <1>1, Layout
<1>3. y = g * l + w /\ w \in 0..(l - 1)
  <2>1. y = (y \div l) * l + (y % l) /\ y % l \in 0..(l - 1)
    BY Division
  <2> QED BY <1>1, <2>1 DEF Group
<1>4. (w * c) \div l = w * k /\ ((w + 1) * c) \div l = (w + 1) * k
  <2>1. w * c = (w * k) * l + 0 /\ (w + 1) * c = ((w + 1) * k) * l + 0
    BY <1>2
  <2>2. PICK m \in Nat, n \in Nat, i \in Nat, j \in Nat :
          m = w * c /\ n = (w + 1) * c /\ i = w * k /\ j = (w + 1) * k
    OBVIOUS
  <2>3. m = i * l + 0 /\ n = j * l + 0 /\ 0 \in 0..(l - 1)
    BY <2>1, <2>2
  <2>4. m \div l = i /\ n \div l = j
    BY <2>3, DivUnique
  <2> QED BY <2>2, <2>4
<1>5. PICK a \in Nat : a = w * k /\ (w + 1) * k = a + k /\ a + k <= c
  <2>1. (w + 1) * k <= l * k
    BY <1>3, TimesMonotone
  <2>2. (w + 1) * k = w * k + k /\ l * k = k * l /\ w * k \in Nat
    OBVIOUS
  <2>3. PICK a \in Nat : a = w * k
    BY <2>2
  <2> QED BY <1>2, <2>1, <2>2, <2>3
<1>6. Window(x) = a..(a + k - 1)
  <2>1. Window(x) = {p \in PtrIdx : p >= a /\ p < a + k}
    BY <1>1, <1>4, <1>5 DEF Window
  <2> QED BY <1>1, <1>5, <2>1 DEF PtrIdx
<1>7. ASSUME NEW p \in PtrIdx PROVE FileBlock(x, p) + a = y * k + p
  <2>1. p \in Nat
    BY <1>1 DEF PtrIdx
  <2>2. y * k = g * c + w * k
    BY <1>2, <1>3
  <2>3. PICK m \in Nat : m = g * c
    OBVIOUS
  <2>4. FileBlock(x, p) = m + p
    BY <1>1, <2>3 DEF FileBlock
  <2> QED BY <1>5, <2>1, <2>2, <2>3, <2>4
<1> QED BY <1>1, <1>5, <1>6, <1>7

\* cpmReadSuper and fsck.cpm accept the record count.
LEMMA CountRight ==
  ASSUME WholeExtents, NEW x \in Entry, NEW n \in Nat, WrittenEntry(x, n)
  PROVE  CountFits(x)
<1> DEFINE U == {p \in Window(x) : x.ptr[p] # 0}
<1>1. PICK b \in Nat \ {0} : b = RecsPerBlock
  BY Constants
<1>2. Window(x) \subseteq PtrIdx
  BY DEF Window
<1>3. CASE ~Begun(x, n)
  <2>1. x.rc = 0 /\ U = {}
    BY <1>2, <1>3, NotBegun DEF WrittenEntry
  <2>2. Cardinality(U) = 0
    BY <2>1, FS_EmptySet
  <2>3. (0 + b - 1) \div b = 0
    <3>1. PICK m \in 0..(b - 1) : m = b - 1
      OBVIOUS
    <3>2. m \div b = 0
      BY SmallQuotient
    <3>3. 0 + b - 1 = m
      BY <3>1
    <3> QED BY <3>2, <3>3
  <2> QED BY <1>1, <2>1, <2>2, <2>3 DEF CountFits
<1>4. CASE Begun(x, n)
  <2>1. Reach(x, n) \in Nat \ {0}
    <3>1. 0 \in PtrIdx
      BY Constants DEF PtrIdx
    <3> QED BY <1>4, <3>1, ReachOf
  <2>2. PICK r \in Nat : r = Reach(x, n) - 1 /\ Reach(x, n) = r + 1
    BY <2>1
  <2>3. PICK u \in Nat, k \in Nat \ {0}, e \in Nat \ {0} :
          u = r \div b /\ k = BlocksPerExtent /\ e = RecsPerExtent
    BY <1>1, Layout, Division, Constants
  <2>4. PICK y \in Nat, j \in 0..(k - 1) : y = u \div k /\ j = u % k /\ u = y * k + j
    <3>1. u \div k \in Nat /\ u % k \in 0..(k - 1) /\ u = (u \div k) * k + (u % k)
      BY Division
    <3> QED BY <3>1
  <2>5. x.extno = y /\ x.rc = 1 + (r % e) /\ j = (r % e) \div b
    <3>1. x.extno = r \div e /\ x.rc = RecordCount(r + 1)
      BY <1>4, <2>2, <2>3 DEF WrittenEntry
    <3>2. RecordCount(r + 1) = 1 + (r % e)
      BY <2>3 DEF RecordCount
    <3>3. y = r \div e /\ j = (r % e) \div b
      BY <1>1, <2>3, <2>4, Places
    <3> QED BY <3>1, <3>2, <3>3
  <2>6. (x.rc + b - 1) \div b = j + 1
    <3>1. PICK c \in Nat, s \in 0..(b - 1) : c = r % e /\ c = j * b + s
      <4>1. r % e \in Nat
        BY Division
      <4>2. PICK c \in Nat : c = r % e
        BY <4>1
      <4>3. c = (c \div b) * b + (c % b) /\ c % b \in 0..(b - 1)
        BY Division
      <4> QED BY <2>5, <4>2, <4>3
    <3>2. (j + 1) * b = j * b + b /\ j * b \in Nat
      OBVIOUS
    <3>3. PICK m \in Nat : m = c + b
      OBVIOUS
    <3>4. m = (j + 1) * b + s
      BY <3>1, <3>2, <3>3
    <3>5. m \div b = j + 1
      BY <3>4, DivUnique
    <3>6. x.rc + b - 1 = m
      BY <2>5, <3>1, <3>3
    <3> QED BY <3>5, <3>6
  <2>7. PICK w \in Nat : w = x.extno % LogicalExtents
    <3>1. PICK l \in Nat \ {0} : l = LogicalExtents
      BY LogicalExtentsType
    <3>2. y % l \in Nat
      BY Division
    <3> QED BY <2>5, <3>1, <3>2
  <2>8. PICK a \in Nat :
          /\ a = w * k /\ Window(x) = a..(a + k - 1)
          /\ \A p \in PtrIdx : FileBlock(x, p) + a = y * k + p
    BY <2>3, <2>5, <2>7, WindowOf
  <2>9. U = a..(a + j)
    <3>1. ASSUME NEW p \in a..(a + k - 1)
          PROVE  x.ptr[p] # 0 <=> p <= a + j
      <4>1. p \in PtrIdx /\ p \in Nat
        BY <1>2, <2>8
      <4>2. x.ptr[p] # 0 <=> FileBlock(x, p) <= u
        BY <1>1, <1>4, <2>2, <2>3, <4>1, ReachOf DEF WrittenEntry
      <4>3. PICK z \in Nat : z = y * k
        OBVIOUS
      <4>4. FileBlock(x, p) \in Nat /\ FileBlock(x, p) + a = z + p
        BY <2>8, <4>1, <4>3, FileBlockOf
      <4>5. u = z + j
        BY <2>4, <4>3
      <4> QED BY <4>1, <4>2, <4>4, <4>5
    <3>2. U = {p \in a..(a + k - 1) : p <= a + j}
      BY <2>8, <3>1
    <3> QED BY <3>2
  <2>10. Cardinality(U) = j + 1
    <3>1. PICK v \in Nat : v = a + j
      OBVIOUS
    <3>2. a \in Int /\ v \in Int
      OBVIOUS
    <3>3. Cardinality(a..v) = IF a > v THEN 0 ELSE v - a + 1
      BY <3>2, FS_Interval
    <3>4. Cardinality(U) = Cardinality(a..v)
      BY <2>9, <3>1
    <3> QED BY <3>1, <3>3, <3>4
  <2> QED BY <1>1, <2>6, <2>10 DEF CountFits
<1> QED BY <1>3, <1>4

\* What changing only the attributes of an entry leaves.
LEMMA WrittenSame ==
  ASSUME NEW x, NEW y, NEW n, y.extno = x.extno, y.ptr = x.ptr, y.rc = x.rc
  PROVE  /\ Group(y) = Group(x) /\ \A p : FileBlock(y, p) = FileBlock(x, p)
         /\ WrittenEntry(y, n) <=> WrittenEntry(x, n)
         /\ CountFits(y) <=> CountFits(x)
<1>1. Group(y) = Group(x) /\ \A p : FileBlock(y, p) = FileBlock(x, p)
  BY DEF Group, FileBlock
<1>2. Begun(y, n) <=> Begun(x, n)
  BY <1>1 DEF Begun
<1>3. Reach(y, n) = Reach(x, n)
  BY <1>1 DEF Reach
<1>4. WrittenEntry(y, n) <=> WrittenEntry(x, n)
  BY <1>1, <1>2, <1>3 DEF WrittenEntry
<1>5. Window(y) = Window(x)
  BY DEF Window
<1>6. CountFits(y) <=> CountFits(x)
  BY <1>5 DEF CountFits
<1> QED BY <1>1, <1>4, <1>6

\* An entry at or behind the one of the last record maps up to it.
LEMMA ReachEnd ==
  ASSUME WholeExtents, NEW x \in Entry, NEW n \in Nat \ {0},
         (n - 1) \div ExtCap <= Group(x)
  PROVE  Reach(x, n) = n
<1>1. PICK g \in Nat, c \in Nat \ {0}, m \in Nat :
        g = Group(x) /\ c = ExtCap /\ m = n - 1 /\ n = m + 1
  <2>1. 0 \in PtrIdx
    BY Constants DEF PtrIdx
  <2>2. Group(x) \in Nat
    BY <2>1, FileBlockOf
  <2> QED BY <2>2, Capacity
<1>2. PICK t \in Nat : t = (g + 1) * c
  OBVIOUS
<1>3. t <= m <=> g + 1 <= m \div c
  BY <1>2, DivBounds
<1>4. m \div c \in Nat
  BY Division
<1>5. n <= t
  BY <1>1, <1>2, <1>3, <1>4
<1> QED BY <1>1, <1>2, <1>5 DEF Reach

\* The entries of file f on d are those of a file of which n records are written:
\* one for each part of it, and at most one that was just added.
WrittenEntries(d, f, n) ==
  /\ \A e \in AllEntriesOf(d, f) : WrittenEntry(d[e], n)
  /\ \A e1, e2 \in AllEntriesOf(d, f) : Group(d[e1]) = Group(d[e2]) => e1 = e2
  /\ \A r \in 0..(n - 1) : \E e \in AllEntriesOf(d, f) : Group(d[e]) = r \div ExtCap

AllBegun(d, f, n) == \A e \in AllEntriesOf(d, f) : Begun(d[e], n)

\* cpmNamei reports the number of records written.
LEMMA SizeWritten ==
  ASSUME WholeExtents, NEW d \in [Entries -> Entry], NEW f, NEW n \in Nat,
         AllEntriesOf(d, f) # {}, WrittenEntries(d, f, n),
         n > 0 => AllBegun(d, f, n)
  PROVE  FileSize(d, f) = n
<1> DEFINE h == HighestEntry(d, f)
<1>1. /\ h \in AllEntriesOf(d, f)
      /\ \A y \in AllEntriesOf(d, f) :
           d[y].extno < d[h].extno \/ (d[y].extno = d[h].extno /\ h <= y)
  BY HighestIsEntry
<1> HIDE DEF h
<1>2. FileSize(d, f) = d[h].extno * RecsPerExtent + d[h].rc
  BY DEF FileSize, h
<1>3. \A y \in AllEntriesOf(d, f) : d[y] \in Entry /\ d[y].extno \in Nat
  <2>1. \A y \in AllEntriesOf(d, f) : d[y] \in Entry
    BY DEF AllEntriesOf
  <2> QED BY <2>1, Constants DEF Entry
<1>4. PICK x \in Entry : x = d[h]
  BY <1>1, <1>3
<1>5. PICK e \in Nat \ {0} : e = RecsPerExtent
  BY Constants
<1>6. CASE n = 0
  <2>1. ~ Begun(x, n)
    <3>1. 0 \in PtrIdx
      BY Constants DEF PtrIdx
    <3>2. Group(x) * ExtCap \in Nat
      BY <3>1, GroupBounds
    <3> QED BY <1>6, <3>2 DEF Begun
  <2>2. x.extno = 0 \div e /\ x.rc = 0
    BY <1>1, <1>4, <1>5, <1>6, <2>1 DEF WrittenEntries, WrittenEntry
  <2>3. 0 \div e = 0
    <3>1. 0 \in 0..(e - 1)
      OBVIOUS
    <3> QED BY <3>1, SmallQuotient
  <2> QED BY <1>2, <1>4, <1>5, <1>6, <2>2, <2>3
<1>7. CASE n # 0
  <2>1. PICK m \in Nat : m = n - 1 /\ n = m + 1 /\ m \in 0..(n - 1)
    BY <1>7
  <2>2. PICK a \in AllEntriesOf(d, f) : Group(d[a]) = m \div ExtCap
    BY <2>1 DEF WrittenEntries
  <2>3. m \div ExtCap \in Nat
    BY Capacity, Division
  <2>4. Group(d[a]) <= Group(x)
    <3>1. d[a].extno <= x.extno /\ d[a].extno \in Nat /\ x.extno \in Nat
      BY <1>1, <1>3, <1>4, <2>2
    <3> QED BY <3>1, LogicalExtentsType, DivMonotone DEF Group
  <2>5. Reach(x, n) = n
    BY <1>7, <2>1, <2>2, <2>4, ReachEnd
  <2>6. x.extno = m \div e /\ x.rc = RecordCount(n)
    <3>1. Begun(x, n) /\ WrittenEntry(x, n)
      BY <1>1, <1>4, <1>7 DEF WrittenEntries, AllBegun
    <3> QED BY <1>5, <2>1, <2>5, <3>1 DEF WrittenEntry
  <2>7. x.rc = 1 + (m % e)
    BY <1>5, <2>1, <2>6 DEF RecordCount
  <2>8. PICK q \in Nat, s \in 0..(e - 1) : q = m \div e /\ s = m % e /\ m = q * e + s
    BY Division
  <2>9. PICK z \in Nat : z = q * e
    OBVIOUS
  <2>10. FileSize(d, f) = q * e + (1 + s)
    BY <1>2, <1>4, <1>5, <2>6, <2>7, <2>8
  <2>11. m = z + s /\ FileSize(d, f) = z + (1 + s)
    BY <2>8, <2>9, <2>10
  <2> QED BY <2>1, <2>11
<1> QED BY <1>6, <1>7

\* The blocks behind the pointers hold the first n records of t.
Holds(d, k, f, n, t) ==
  \A e \in AllEntriesOf(d, f), p \in PtrIdx, i \in 0..(RecsPerBlock - 1) :
    FileBlock(d[e], p) * RecsPerBlock + i < n =>
      k[d[e].ptr[p]][i] = <<t, FileBlock(d[e], p) * RecsPerBlock + i>>

\* The pointer of a record.
LEMMA PointerOf ==
  ASSUME WholeExtents, NEW x \in Entry, NEW r \in Nat, Group(x) = r \div ExtCap,
         NEW p, p = (r % ExtCap) \div RecsPerBlock
  PROVE  p \in PtrIdx /\ FileBlock(x, p) = r \div RecsPerBlock
<1>1. p \in PtrIdx
  BY RecordSlot
<1>2. PICK u \in Nat, c \in Nat \ {0} : u = r \div RecsPerBlock /\ c = Ptrs
  BY Places, Constants
<1>3. u = (u \div c) * c + (u % c)
  BY Division
<1>4. u \div c = Group(x) /\ u % c = p
  BY <1>2, Places
<1> QED BY <1>1, <1>2, <1>3, <1>4 DEF FileBlock

\* cpmRead delivers the records written.
LEMMA ReadsBack ==
  ASSUME WholeExtents, NEW d \in [Entries -> Entry], NEW k, NEW f, NEW n \in Nat, NEW t,
         WrittenEntries(d, f, n), Holds(d, k, f, n, t),
         \A e \in AllEntriesOf(d, f), p \in PtrIdx :
           d[e].ptr[p] # 0 => d[e].ptr[p] \in ReservedBlks..(Size - 1),
         NEW r \in 0..(n - 1)
  PROVE  ReadRecord(d, k, f, r) = <<t, r>>
<1> DEFINE S == EntriesOf(d, f, r \div RecsPerExtent)
           p == (r % ExtCap) \div RecsPerBlock
<1>1. r \in Nat /\ r < n
  OBVIOUS
<1>2. PICK e \in AllEntriesOf(d, f) : Group(d[e]) = r \div ExtCap
  BY DEF WrittenEntries
<1>3. S = {e}
  <2>1. S = {y \in AllEntriesOf(d, f) : Group(d[y]) = r \div ExtCap}
    BY <1>1, Places DEF EntriesOf, Group
  <2> QED BY <1>2, <2>1 DEF WrittenEntries
<1>4. d[e] \in Entry /\ e \in Nat
  BY DEF AllEntriesOf, Entries
<1>5. MapperOf(d, f, r) = e
  <2>1. IsFirst(e, S)
    BY <1>3, <1>4 DEF IsFirst
  <2> QED BY <1>3, <2>1 DEF MapperOf
<1>6. p \in PtrIdx /\ FileBlock(d[e], p) = r \div RecsPerBlock
  BY <1>1, <1>2, <1>4, PointerOf
<1>7. ReadRecord(d, k, f, r) = Delivered(k, d[e].ptr[p], r)
  BY <1>3, <1>5, RecordFound
<1> HIDE DEF S, p
<1>13. PICK b \in Nat \ {0} : b = RecsPerBlock
  BY Constants
<1>8. PICK u \in Nat, i \in 0..(b - 1) : u = r \div b /\ i = r % b /\ r = u * b + i
  BY <1>1, Division
<1>9. u * b \in Nat /\ u * b <= r
  BY <1>1, <1>8, DivBounds
<1>10. d[e].ptr[p] # 0
  <2>1. u * b < n
    BY <1>1, <1>9
  <2>2. WrittenEntry(d[e], n)
    BY DEF WrittenEntries
  <2> QED BY <1>6, <1>8, <1>13, <2>1, <2>2 DEF WrittenEntry
<1>11. k[d[e].ptr[p]][r % RecsPerBlock] = <<t, r>>
  BY <1>1, <1>6, <1>8, <1>13 DEF Holds
<1>12. d[e].ptr[p] \in ReservedBlks..(Size - 1)
  BY <1>6, <1>10
<1>14. ReservedBlks \in Nat /\ StorageBlks \in Nat /\ StorageBlks <= ReservedBlks
       /\ Size \in Nat
  BY Geometry, ConstantsAssumption
<1>15. PICK c \in Nat : c = d[e].ptr[p] /\ c # 0 /\ ~(c < StorageBlks) /\ ~(c >= Size)
  BY <1>10, <1>12, <1>14
<1> QED BY <1>7, <1>11, <1>15 DEF Delivered

------------------------------------------------------------------------------
\* ONE PASS OF cpmWrite

\* The records from pos up to n are in one block.
Within(pos, n) ==
  /\ pos \in Nat /\ n \in Nat /\ pos < n
  /\ n <= ((pos \div RecsPerBlock) + 1) * RecsPerBlock

LEMMA SameBlock ==
  ASSUME NEW pos, NEW n, Within(pos, n), NEW r \in pos..(n - 1)
  PROVE  r \in Nat /\ r \div RecsPerBlock = pos \div RecsPerBlock
<1>1. PICK b \in Nat \ {0} : b = RecsPerBlock
  BY Constants
<1>2. PICK p \in Nat, m \in Nat : p = pos /\ m = n /\ p < m /\ m <= ((p \div b) + 1) * b
  BY <1>1 DEF Within
<1>3. PICK u \in Nat : u = p \div b /\ u * b <= p
  <2>1. p \div b \in Nat
    BY Division
  <2>2. PICK u \in Nat : u = p \div b
    BY <2>1
  <2> QED BY <2>2, DivBounds
<1>4. r \in Nat /\ p <= r /\ r < m
  BY <1>2
<1>5. r \div b \in Nat
  BY <1>4, Division
<1>6. u <= r \div b
  <2>1. u * b \in Nat /\ u * b <= r
    BY <1>3, <1>4
  <2> QED BY <1>4, <2>1, DivBounds
<1>7. ~ (u + 1 <= r \div b)
  <2>1. PICK z \in Nat : z = (u + 1) * b
    OBVIOUS
  <2>2. ~ (z <= r)
    BY <1>2, <1>3, <1>4, <2>1
  <2> QED BY <1>4, <2>1, <2>2, DivBounds
<1> QED BY <1>1, <1>2, <1>3, <1>4, <1>5, <1>6, <1>7

\* It leaves the records of all other blocks as they were.
LEMMA OtherBlock ==
  ASSUME NEW pos, NEW n, Within(pos, n), NEW v \in Nat, v # pos \div RecsPerBlock,
         NEW i \in 0..(RecsPerBlock - 1)
  PROVE  v * RecsPerBlock + i < n <=> v * RecsPerBlock + i < pos
<1>1. PICK b \in Nat \ {0} : b = RecsPerBlock
  BY Constants
<1>2. pos \in Nat /\ n \in Nat /\ pos < n
  BY DEF Within
<1>3. PICK r \in Nat : r = v * b + i
  BY <1>1
<1>4. r \div b = v
  BY <1>1, <1>3, DivUnique
<1>5. ~ (r \in pos..(n - 1))
  BY <1>1, <1>4, SameBlock
<1> QED BY <1>1, <1>2, <1>3, <1>5

\* A place that begins at the next record begins at a multiple of its size.
LEMMA NextSame ==
  ASSUME NEW m \in Nat, NEW c \in Nat \ {0}, (m + 1) % c # 0
  PROVE  (m + 1) \div c = m \div c
<1>1. PICK q \in Nat, s \in 0..(c - 1) : q = m \div c /\ m = q * c + s
  BY Division
<1>2. PICK z \in Nat, r \in Nat : z = q * c /\ r = m + 1
  OBVIOUS
<1>3. CASE s + 1 = c
  <2>1. (q + 1) * c = q * c + c
    OBVIOUS
  <2>2. r = (q + 1) * c + 0 /\ 0 \in 0..(c - 1)
    BY <1>1, <1>2, <1>3, <2>1
  <2>3. r % c = 0
    BY <2>2, DivUnique
  <2> QED BY <1>2, <2>3
<1>4. CASE s + 1 # c
  <2>1. s + 1 \in 0..(c - 1) /\ r = q * c + (s + 1)
    BY <1>1, <1>2, <1>4
  <2>2. PICK t \in 0..(c - 1) : t = s + 1 /\ r = q * c + t
    BY <2>1
  <2>3. r \div c = q
    BY <2>2, DivUnique
  <2> QED BY <1>1, <1>2, <2>3
<1> QED BY <1>3, <1>4

\* An entry that maps other records is still right afterwards.
LEMMA OtherEntryWritten ==
  ASSUME WholeExtents, NEW pos, NEW n, Within(pos, n), NEW x \in Entry,
         WrittenEntry(x, pos), Group(x) # pos \div ExtCap
  PROVE  WrittenEntry(x, n) /\ Begun(x, n)
<1>1. PICK b \in Nat \ {0}, c \in Nat \ {0}, g \in Nat, p0 \in Nat, m \in Nat :
        b = RecsPerBlock /\ c = ExtCap /\ g = Group(x) /\ p0 = pos /\ m = n /\ p0 < m
  <2>1. 0 \in PtrIdx
    BY Constants DEF PtrIdx
  <2>2. Group(x) \in Nat
    BY <2>1, FileBlockOf
  <2> QED BY <2>2, Constants, Capacity DEF Within
<1>2. \A p \in PtrIdx : x.ptr[p] # 0 <=> FileBlock(x, p) * RecsPerBlock < n
  <2> SUFFICES ASSUME NEW p \in PtrIdx
               PROVE  x.ptr[p] # 0 <=> FileBlock(x, p) * RecsPerBlock < n
    OBVIOUS
  <2>1. FileBlock(x, p) \in Nat /\ FileBlock(x, p) \div Ptrs = Group(x)
    BY FileBlockOf
  <2>2. (pos \div RecsPerBlock) \div Ptrs = pos \div ExtCap
    BY <1>1, Places
  <2>3. FileBlock(x, p) # pos \div RecsPerBlock
    BY <2>1, <2>2
  <2>4. PICK v \in Nat : v = FileBlock(x, p)
    BY <2>1
  <2>5. 0 \in 0..(b - 1) /\ v * b + 0 = v * b
    OBVIOUS
  <2>6. v * b + 0 < n <=> v * b + 0 < pos
    BY <1>1, <2>3, <2>4, <2>5, OtherBlock
  <2> QED BY <1>1, <2>4, <2>5, <2>6 DEF WrittenEntry
<1>3. Begun(x, pos)
  <2>1. ASSUME ~ Begun(x, pos) PROVE Group(x) = pos \div ExtCap
    <3>1. x.extno = pos \div RecsPerExtent
      BY <2>1 DEF WrittenEntry
    <3> QED BY <1>1, <3>1, Places DEF Group
  <2> QED BY <2>1
<1>4. PICK s \in Nat : s = g * c /\ s < p0
  <2>1. g * c \in Nat
    OBVIOUS
  <2> QED BY <1>1, <1>3, <2>1 DEF Begun
<1>5. PICK t \in Nat : t = (g + 1) * c /\ t <= p0
  <2>1. p0 \div c \in Nat
    BY Division
  <2>2. g <= p0 \div c
    BY <1>4, DivBounds
  <2>3. g + 1 <= p0 \div c
    BY <1>1, <2>1, <2>2
  <2>4. (g + 1) * c <= p0 /\ (g + 1) * c \in Nat
    BY <2>3, DivBounds
  <2> QED BY <2>4
<1>6. Begun(x, n)
  <2>1. s < m
    <3>1. s < p0
      BY <1>4
    <3> QED BY <1>1, <3>1
  <2>2. Group(x) * ExtCap = s
    BY <1>1, <1>4
  <2> QED BY <1>1, <2>1, <2>2 DEF Begun
<1>7. Reach(x, pos) = t /\ Reach(x, n) = t
  BY <1>1, <1>5 DEF Reach
<1> QED BY <1>2, <1>3, <1>6, <1>7 DEF WrittenEntry

\* The entry x that maps them gets block k in pointer z, an extent number and a
\* count, and becomes y.
EntryPassed(x, y, pos, n, z, k) ==
  /\ WrittenEntry(x, pos) /\ Group(x) = pos \div ExtCap
  /\ z = (pos % ExtCap) \div RecsPerBlock /\ k # 0
  /\ y.ptr = [x.ptr EXCEPT ![z] = k]
  /\ y.extno = pos \div RecsPerExtent /\ y.rc = RecordCount(n)

LEMMA ThisEntryWritten ==
  ASSUME WholeExtents, NEW pos, NEW n, Within(pos, n), NEW x \in Entry, NEW y \in Entry,
         NEW z, NEW k, EntryPassed(x, y, pos, n, z, k)
  PROVE  /\ WrittenEntry(y, n) /\ Begun(y, n)
         /\ Group(y) = Group(x) /\ \A p : FileBlock(y, p) = FileBlock(x, p)
<1>0. /\ WrittenEntry(x, pos) /\ Group(x) = pos \div ExtCap
      /\ z = (pos % ExtCap) \div RecsPerBlock /\ k # 0
      /\ y.ptr = [x.ptr EXCEPT ![z] = k]
      /\ y.extno = pos \div RecsPerExtent /\ y.rc = RecordCount(n)
  BY DEF EntryPassed
<1>1. PICK b \in Nat \ {0}, c \in Nat \ {0}, g \in Nat, p0 \in Nat, m \in Nat :
        b = RecsPerBlock /\ c = ExtCap /\ g = Group(x) /\ p0 = pos /\ n = m + 1 /\ p0 <= m
  <2>1. 0 \in PtrIdx
    BY Constants DEF PtrIdx
  <2>2. Group(x) \in Nat
    BY <2>1, FileBlockOf
  <2>3. pos \in Nat /\ n \in Nat /\ pos < n
    BY DEF Within
  <2>4. n - 1 \in Nat /\ n = (n - 1) + 1 /\ pos <= n - 1
    BY <2>3
  <2> QED BY <2>2, <2>3, <2>4, Constants, Capacity
<1>2. Group(y) = Group(x)
  BY <1>0, <1>1, Places DEF Group
<1>3. \A p : FileBlock(y, p) = FileBlock(x, p)
  BY <1>2 DEF FileBlock
<1>4. z \in PtrIdx /\ FileBlock(x, z) = pos \div RecsPerBlock
  BY <1>0, <1>1, PointerOf
<1>5. m \div RecsPerBlock = pos \div RecsPerBlock /\ m = n - 1
  <2>1. m \in pos..(n - 1)
    BY <1>1
  <2> QED BY <1>1, <2>1, SameBlock
<1>6. m \div ExtCap = g /\ m \div RecsPerExtent = pos \div RecsPerExtent
  <2>1. m \div ExtCap = (m \div RecsPerBlock) \div Ptrs
        /\ pos \div ExtCap = (pos \div RecsPerBlock) \div Ptrs
    BY <1>1, Places
  <2>2. m \div RecsPerExtent = (m \div RecsPerBlock) \div BlocksPerExtent
        /\ pos \div RecsPerExtent = (pos \div RecsPerBlock) \div BlocksPerExtent
    BY <1>1, Places
  <2> QED BY <1>0, <1>1, <1>5, <2>1, <2>2
<1>7. \A p \in PtrIdx : y.ptr[p] # 0 <=> FileBlock(y, p) * RecsPerBlock < n
  <2> SUFFICES ASSUME NEW p \in PtrIdx
               PROVE  y.ptr[p] # 0 <=> FileBlock(x, p) * RecsPerBlock < n
    BY <1>3
  <2>1. x.ptr \in [PtrIdx -> 0..(PtrLimit - 1)]
    BY DEF Entry
  <2>2. CASE p = z
    <3>1. y.ptr[p] # 0
      BY <1>0, <1>4, <2>1, <2>2
    <3>2. PICK u \in Nat : u = p0 \div b
      BY Division
    <3>3. u * b <= p0 /\ u * b \in Nat
      BY <3>2, DivBounds
    <3> QED BY <1>1, <1>4, <2>2, <3>1, <3>2, <3>3
  <2>3. CASE p # z
    <3>1. y.ptr[p] = x.ptr[p]
      BY <1>0, <1>4, <2>1, <2>3
    <3>2. PICK v \in Nat : v = FileBlock(x, p) /\ v # pos \div RecsPerBlock
      <4>1. FileBlock(x, p) \in Nat /\ FileBlock(x, p) % Ptrs = p
            /\ FileBlock(x, z) % Ptrs = z
        BY <1>4, FileBlockOf
      <4> QED BY <1>4, <2>3, <4>1
    <3>3. 0 \in 0..(b - 1) /\ v * b + 0 = v * b
      OBVIOUS
    <3>4. v * b + 0 < n <=> v * b + 0 < pos
      BY <1>1, <3>2, <3>3, OtherBlock
    <3> QED BY <1>0, <1>1, <3>1, <3>2, <3>3, <3>4 DEF WrittenEntry
  <2> QED BY <2>2, <2>3
<1>8. Begun(y, n)
  <2>1. g * c <= p0 /\ g * c \in Nat
    BY <1>0, <1>1, DivBounds
  <2> QED BY <1>1, <1>2, <2>1 DEF Begun
<1>9. Reach(y, n) = n
  <2>1. n \in Nat \ {0} /\ (n - 1) \div ExtCap <= Group(y)
    BY <1>1, <1>2, <1>5, <1>6
  <2> QED BY <2>1, ReachEnd
<1>10. y.extno = (n - 1) \div RecsPerExtent
  BY <1>0, <1>5, <1>6
<1> QED BY <1>0, <1>2, <1>3, <1>7, <1>8, <1>9, <1>10 DEF WrittenEntry

\* An entry that was just added has no block and no record.
LEMMA NewEntryWritten ==
  ASSUME WholeExtents, NEW x \in Entry, NEW n \in Nat, x.ptr = NoPtrs, x.rc = 0,
         x.extno = n \div RecsPerExtent, ~ Begun(x, n)
  PROVE  WrittenEntry(x, n)
<1>1. \A p \in PtrIdx : x.ptr[p] = 0
  BY DEF NoPtrs
<1>2. \A p \in PtrIdx : ~ (FileBlock(x, p) * RecsPerBlock < n)
  BY NotBegun
<1> QED BY <1>1, <1>2 DEF WrittenEntry

\* The end of the place a record is in.
LEMMA PlaceEnd ==
  ASSUME NEW p \in Nat, NEW s \in Nat \ {0}
  PROVE  p < ((p \div s) + 1) * s
<1>1. PICK u \in Nat, o \in 0..(s - 1) : u = p \div s /\ p = u * s + o
  BY Division
<1>2. (u + 1) * s = u * s + s
  OBVIOUS
<1>3. PICK w \in Nat : w = u * s
  OBVIOUS
<1> QED BY <1>1, <1>2, <1>3

\* Every call of cpmWrite that ends inside an entry ends inside a logical extent,
\* or the two are the same.  (cpmcp writes 4096 bytes per call.)
SmallCalls == RecsPerExtent % Chunk = 0 \/ LogicalExtents = 1

\* A call that ends inside an entry ends inside a logical extent.
LEMMA InsideExtent ==
  ASSUME WholeExtents, SmallCalls, NEW n \in Nat, n % ExtCap # 0, n % Chunk # 0
  PROVE  n % RecsPerExtent # 0
<1>1. PICK x \in Nat \ {0}, l \in Nat \ {0}, c \in Nat \ {0} :
        x = RecsPerExtent /\ l = LogicalExtents /\ c = Chunk
  BY Constants, LogicalExtentsType, ClientAssumption
<1>2. CASE l = 1
  <2>1. ExtCap = x * 1 /\ x * 1 = x
    BY <1>1, <1>2, Layout
  <2> QED BY <1>1, <2>1
<1>3. CASE x % c = 0
  <2> SUFFICES ASSUME n % x = 0 PROVE FALSE
    BY <1>1
  <2>1. PICK a \in Nat : n = a * x + 0
    <3>1. n = (n \div x) * x + (n % x) /\ n \div x \in Nat
      BY Division
    <3> QED BY <3>1
  <2>2. PICK k \in Nat : x = k * c + 0
    <3>1. x = (x \div c) * c + (x % c) /\ x \div c \in Nat
      BY Division
    <3> QED BY <1>3, <3>1
  <2>3. PICK u \in Nat : u = a * k /\ a * x = u * c
    <3>1. k * c \in Nat /\ x = k * c
      BY <2>2
    <3>2. a * (k * c) = (a * k) * c /\ a * k \in Nat
      OBVIOUS
    <3> QED BY <3>1, <3>2
  <2>4. PICK w \in Nat : w = u * c
    OBVIOUS
  <2>5. n = u * c + 0 /\ 0 \in 0..(c - 1)
    BY <2>1, <2>3, <2>4
  <2>6. n % c = 0
    BY <2>5, DivUnique
  <2> QED BY <1>1, <2>6
<1> QED BY <1>1, <1>2, <1>3 DEF SmallCalls

\* The first record of the block a record is in.
LEMMA BlockBase ==
  ASSUME NEW p \in Nat
  PROVE  (p \div RecsPerBlock) * RecsPerBlock = p - (p % RecsPerBlock)
<1>1. PICK b \in Nat \ {0} : b = RecsPerBlock
  BY Constants
<1>2. PICK u \in Nat, s \in 0..(b - 1) : u = p \div b /\ s = p % b /\ p = u * b + s
  BY Division
<1>3. PICK w \in Nat : w = u * b
  OBVIOUS
<1>4. p - s = w
  BY <1>2, <1>3
<1> QED BY <1>1, <1>2, <1>3, <1>4

------------------------------------------------------------------------------
\* REFERENCED BLOCKS

\* What alvInit computes depends on the owners and pointers of the live entries.
LEMMA ReferencedSame ==
  ASSUME NEW d, NEW c,
         \A e \in Entries :
           /\ c[e].owner \in Files <=> d[e].owner \in Files
           /\ d[e].owner \in Files => c[e].ptr = d[e].ptr
  PROVE  AlvInit(c) = AlvInit(d)
  BY DEF AlvInit, Referenced, Live

\* An entry without blocks adds none.
LEMMA ReferencedNewEntry ==
  ASSUME NEW d \in [Entries -> Entry], NEW e \in Entries, NEW r \in Entry,
         d[e].owner \notin Files, r.ptr = NoPtrs
  PROVE  AlvInit([d EXCEPT ![e] = r]) = AlvInit(d)
<1> DEFINE c == [d EXCEPT ![e] = r]
<1>1. \A x \in Entries, p \in PtrIdx, b \in Blocks \ {0} :
        (x \in Live(c) /\ c[x].ptr[p] = b) <=> (x \in Live(d) /\ d[x].ptr[p] = b)
  BY DEF Live, NoPtrs
<1>2. ASSUME NEW y \in Blocks \ {0}
      PROVE  y \in Referenced(c) <=> y \in Referenced(d)
  <2> HIDE DEF c
  <2>1. Live(c) \subseteq Entries /\ Live(d) \subseteq Entries
    BY DEF Live
  <2>2. y \in Referenced(c) <=> \E x \in Live(c), p \in PtrIdx : c[x].ptr[p] = y
    BY DEF Referenced
  <2>3. y \in Referenced(d) <=> \E x \in Live(d), p \in PtrIdx : d[x].ptr[p] = y
    BY DEF Referenced
  <2> QED
    BY <1>1, <2>1, <2>2, <2>3
<1>3. Referenced(c) = Referenced(d)
  BY <1>2 DEF Referenced
<1> QED
  BY <1>3 DEF AlvInit

\* A block set in an unused pointer of a live entry is added and nothing else.
LEMMA ReferencedNewBlock ==
  ASSUME NEW d \in [Entries -> Entry], NEW c \in [Entries -> Entry],
         NEW e \in Live(d), NEW s \in PtrIdx, NEW b \in Blocks \ {0},
         d[e].ptr[s] = 0,
         c[e].owner = d[e].owner,
         c[e].ptr = [d[e].ptr EXCEPT ![s] = b],
         \A x \in Entries \ {e} : c[x] = d[x]
  PROVE  AlvInit(c) = AlvInit(d) \cup {b}
<1>1. Live(c) = Live(d) /\ e \in Entries
  BY DEF Live
<1>2. d[e].ptr \in [PtrIdx -> 0..(PtrLimit - 1)]
  BY <1>1 DEF Entry
<1>3. c[e].ptr[s] = b /\ \A p \in PtrIdx \ {s} : c[e].ptr[p] = d[e].ptr[p]
  BY <1>2
<1>4. ASSUME NEW y \in Blocks \ {0}
      PROVE  y \in Referenced(c) <=> y \in Referenced(d) \cup {b}
  <2>1. ASSUME y \in Referenced(c) PROVE y \in Referenced(d) \cup {b}
    <3>1. PICK x \in Live(c), p \in PtrIdx : c[x].ptr[p] = y
      BY <2>1 DEF Referenced
    <3>2. CASE x = e /\ p = s
      BY <1>3, <3>1, <3>2
    <3>3. CASE x = e /\ p # s
      <4>1. d[x].ptr[p] = y
        BY <1>3, <3>1, <3>3
      <4> QED
        BY <1>1, <3>1, <4>1 DEF Referenced
    <3>4. CASE x # e
      <4>1. d[x].ptr[p] = y
        BY <3>1, <3>4 DEF Live
      <4> QED
        BY <1>1, <3>1, <4>1 DEF Referenced
    <3> QED
      BY <3>2, <3>3, <3>4
  <2>2. ASSUME y \in Referenced(d) \cup {b} PROVE y \in Referenced(c)
    <3>1. CASE y = b
      BY <1>1, <1>3, <3>1 DEF Referenced
    <3>2. CASE y # b
      <4>1. PICK x \in Live(d), p \in PtrIdx : d[x].ptr[p] = y
        BY <2>2, <3>2 DEF Referenced
      <4>2. c[x].ptr[p] = y
        BY <1>3, <4>1 DEF Live
      <4> QED
        BY <1>1, <4>2 DEF Referenced
    <3> QED
      BY <3>1, <3>2
  <2> QED
    BY <2>1, <2>2
<1>5. Referenced(c) = Referenced(d) \cup {b}
  BY <1>4 DEF Referenced
<1> QED
  BY <1>5 DEF AlvInit

------------------------------------------------------------------------------
\* THE INVARIANT

\* Before the last record is written there is something left to write.
LEMMA PhaseAfter ==
  ASSUME NEW n \in Int, file.total \in Int, n <= file.total
  PROVE  /\ NextPhase(n) \in {"extent", "block", "done"}
         /\ NextPhase(n) # "done" => n < file.total
<1>1. CASE n = file.total
  <2>1. NextPhase(n) = "done"
    BY <1>1 DEF NextPhase
  <2> QED BY <2>1
<1>2. CASE n # file.total
  <2>1. NextPhase(n) \in {"extent", "block"}
    BY <1>2, Zenon DEF NextPhase
  <2>2. n < file.total
    BY <1>2
  <2> QED BY <2>1, <2>2
<1> QED BY <1>1, <1>2

USE ConstantsAssumption, ClientAssumption

LEMMA InitInv == Init => IInv
<1> SUFFICES ASSUME Init PROVE IInv
  OBVIOUS
<1>1. \A b \in Blocks : OldBlock(b) \in [0..(RecsPerBlock - 1) -> Data]
  BY DEF OldBlock, Blocks, Data
<1>2. NoDir \in [Entries -> Entry]
  BY FreeEntryType DEF NoDir
<1> QED
  BY <1>1, <1>2 DEF Init, IInv, TypeOK, OwnInv, AlvInv

\* The steps that only open or close an image or a file.
LEMMA SuperInv ==
  ASSUME IInv, ReadSuper \/ RefuseSuper \/ Umount \/ Discard \/ Close \/ GiveUp
  PROVE  IInv'
<1> USE DEF IInv
<1>1. NoDir \in [Entries -> Entry]
  BY FreeEntryType DEF NoDir
<1>2. CASE ReadSuper
  <2>1. AlvInit(ddir) \subseteq Blocks
    BY AlvInitType
  <2> QED
    BY <1>2, <2>1 DEF ReadSuper, TypeOK, OwnInv, AlvInv
<1>3. CASE RefuseSuper
  BY <1>3 DEF RefuseSuper, vars, TypeOK, OwnInv, AlvInv, Owner, AllEntriesOf
<1>4. CASE Umount
  <2>1. \A n : Synced(n) \in [Entries -> Entry]
    BY DEF Synced, TypeOK
  <2> QED
    BY <1>1, <1>4, <2>1 DEF Umount, FreeSuper, TypeOK, OwnInv, AlvInv
<1>5. CASE Discard
  BY <1>1, <1>5 DEF Discard, FreeSuper, TypeOK, OwnInv, AlvInv
<1>6. CASE Close \/ GiveUp
  BY <1>6 DEF Close, GiveUp, TypeOK, OwnInv, AlvInv
<1> QED
  BY <1>2, <1>3, <1>4, <1>5, <1>6

LEMMA CreatInv ==
  ASSUME IInv, NEW f \in Files, NEW n \in Lengths, NEW t \in Tags, Creat(f, n, t)
  PROVE  IInv'
<1> USE DEF IInv
<1>1. PICK e \in FreeEntries(dir) :
        /\ dir' = [dir EXCEPT ![e] = [FreeEntry EXCEPT !.owner = f]]
        /\ file' = [phase |-> IF n = 0 THEN "done" ELSE "extent",
                    ino |-> e, pos |-> 0, total |-> n, extent |-> e,
                    extno |-> 0, tag |-> t, lost |-> 0]
  BY DEF Creat
<1> DEFINE r == [FreeEntry EXCEPT !.owner = f]
<1>2. /\ r \in Entry /\ r.ptr = NoPtrs /\ r.owner = f
      /\ e \in Entries /\ dir[e].owner = Free
  BY FreeEntryType DEF Entry, Owners, FreeEntry, FreeEntries
<1>3. /\ dir' \in [Entries -> Entry] /\ dir'[e] = r
      /\ \A x \in Entries \ {e} : dir'[x] = dir[x]
  BY <1>1, <1>2 DEF TypeOK
<1>4. TypeOK'
  <2>1. file' \in OpenFile
    BY <1>1, <1>2 DEF OpenFile
  <2>2. dirty' = TRUE /\ UNCHANGED <<mounted, alv, ddir, disk>>
    BY DEF Creat
  <2> QED
    BY <1>3, <2>1, <2>2 DEF TypeOK
<1>5. OwnInv'
  <2>1. Owner' = f
    BY <1>1, <1>2, <1>3 DEF Owner
  <2>2. AllEntriesOf(dir', f) = {e}
    <3>1. \A x \in Entries : dir[x].owner # f
      BY DEF Creat, AllEntriesOf
    <3> QED
      BY <1>2, <1>3, <3>1 DEF AllEntriesOf
  <2>3. \A p \in PtrIdx : dir'[e].ptr[p] = 0
    BY <1>2, <1>3 DEF NoPtrs
  <2>4. file'.phase # "done" => file'.pos < file'.total
    BY <1>1
  <2>5. mounted' /\ file'.extent = e
    BY <1>1 DEF Creat, Idle
  <2> QED
    BY <1>2, <1>3, <2>1, <2>2, <2>3, <2>4, <2>5 DEF OwnInv
<1>6. AlvInv'
  <2>1. AlvInit(dir') = AlvInit(dir)
    BY <1>1, <1>2, ReferencedNewEntry DEF TypeOK
  <2> QED
    BY <2>1 DEF Creat, Idle, AlvInv
<1> QED
  BY <1>4, <1>5, <1>6

LEMMA NewExtentType ==
  ASSUME NEW x \in 0..(ExtnoLimit - 1), dir[file.ino] \in Entry
  PROVE  NewExtent(x) \in Entry
<1>1. NoPtrs \in [PtrIdx -> 0..(PtrLimit - 1)] /\ 0 \in 0..(2 * RecsPerExtent - 1)
  BY DEF NoPtrs
<1> QED
  BY <1>1 DEF NewExtent, Entry

LEMMA FindExtentInv ==
  ASSUME IInv, FindExtent
  PROVE  IInv'
<1> USE DEF IInv
<1> DEFINE x == file.pos \div RecsPerExtent
           S == EntriesOf(dir, Owner, x)
<1>1. /\ file \in OpenFile /\ file # NoFile /\ mounted
      /\ file.phase = "extent" /\ file.pos < file.total
  BY DEF FindExtent, Writing, TypeOK, NoFile, OwnInv
<1>2. x \in 0..(ExtnoLimit - 1) /\ x \in Nat
  BY <1>1, ExtentInRange DEF OpenFile
<1>3. \A e \in Entries : UseExtent(e, x) \in OpenFile
  BY <1>1, <1>2 DEF UseExtent, OpenFile
<1>4. CASE GiveUp
  BY <1>4, SuperInv
<1>5. ASSUME NEW e \in S, file' = UseExtent(e, x),
             UNCHANGED <<mounted, dir, alv, dirty, ddir, disk>>
      PROVE  IInv'
  <2>1. e \in Entries /\ dir[e].owner = Owner
    BY DEF EntriesOf, AllEntriesOf
  <2>2. /\ file' \in OpenFile /\ file'.ino = file.ino /\ file'.extent = e
        /\ file'.pos = file.pos /\ file'.total = file.total
    BY <1>1, <1>3, <1>5, <2>1 DEF UseExtent, OpenFile
  <2>3. Owner' = Owner
    BY <1>5, <2>2 DEF Owner
  <2> QED
    BY <1>1, <1>5, <2>1, <2>2, <2>3 DEF TypeOK, OwnInv, AlvInv, AllEntriesOf
<1>6. ASSUME NEW e \in FreeEntries(dir), file' = UseExtent(e, x),
             dir' = [dir EXCEPT ![e] = NewExtent(x)],
             UNCHANGED <<mounted, alv, dirty, ddir, disk>>
      PROVE  IInv'
  <2>1. e \in Entries /\ dir[e].owner = Free /\ Owner \in Files
        /\ file.ino \in Entries /\ dir[file.ino] \in Entry
    BY <1>1 DEF FreeEntries, OwnInv, OpenFile, TypeOK
  <2>2. NewExtent(x) \in Entry
    BY <1>2, <2>1, NewExtentType
  <2>3. NewExtent(x).ptr = NoPtrs /\ NewExtent(x).owner = Owner
    BY <2>1 DEF NewExtent, Entry, Owner
  <2>4. /\ dir' \in [Entries -> Entry] /\ dir'[e] = NewExtent(x)
        /\ \A y \in Entries \ {e} : dir'[y] = dir[y]
    BY <1>6, <2>1, <2>2 DEF TypeOK
  <2>5. /\ file' \in OpenFile /\ file'.ino = file.ino /\ file'.extent = e
        /\ file'.pos = file.pos /\ file'.total = file.total
    BY <1>1, <1>3, <1>6, <2>1 DEF UseExtent, OpenFile
  <2>6. Owner' = Owner
    BY <2>1, <2>4, <2>5 DEF Owner
  <2>7. OwnInv'
    <3>1. \A p \in PtrIdx : dir'[e].ptr[p] = 0
      BY <2>3, <2>4 DEF NoPtrs
    <3>2. dir'[e].owner = Owner /\ mounted'
      BY <1>1, <1>6, <2>3, <2>4 DEF OwnInv
    <3> QED
      BY <1>1, <2>1, <2>4, <2>5, <2>6, <3>1, <3>2 DEF OwnInv, AllEntriesOf
  <2>8. AlvInit(dir') = AlvInit(dir)
    BY <1>6, <2>1, <2>2, <2>3, ReferencedNewEntry DEF TypeOK
  <2>9. TypeOK'
    <3>1. UNCHANGED <<mounted, alv, dirty, ddir, disk>>
      BY <1>6
    <3> QED
      BY <2>4, <2>5, <3>1 DEF TypeOK
  <2>10. AlvInv'
    BY <1>6, <2>8 DEF AlvInv
  <2> QED
    BY <2>7, <2>9, <2>10
<1> QED
  BY <1>4, <1>5, <1>6 DEF FindExtent

\* What a pass of cpmWrite into block b does to the current entry and the file.
LEMMA PassEffect ==
  ASSUME IInv, Writing("block"), NEW b, b \in 0..(PtrLimit - 1),
         NEW fresh \in BOOLEAN, WritePass(b, fresh)
  PROVE  /\ file.extent \in Entries /\ Slot \in PtrIdx
         /\ dir' \in [Entries -> Entry]
         /\ dir'[file.extent].owner = dir[file.extent].owner
         /\ dir'[file.extent].ptr = [dir[file.extent].ptr EXCEPT ![Slot] = b]
         /\ \A y \in Entries \ {file.extent} : dir'[y] = dir[y]
         /\ file' \in OpenFile
         /\ file'.ino = file.ino /\ file'.extent = file.extent
         /\ file'.phase # "done" => file'.pos < file'.total
         /\ UNCHANGED <<mounted, ddir>> /\ dirty' = TRUE
<1> USE DEF IInv
<1> DEFINE ptr == [dir[file.extent].ptr EXCEPT ![Slot] = b]
           more(q) == (q * RecsPerBlock) \div ExtCap
           x(q) == file.extno + more(q)
<1>1. /\ file \in OpenFile /\ file.extent \in Entries /\ file.pos \in Nat
      /\ file.extno \in Nat /\ dir[file.extent] \in Entry
  <2>1. file \in OpenFile
    BY DEF Writing, TypeOK, NoFile
  <2> QED
    BY <2>1 DEF TypeOK, OpenFile
<1>2. PICK n \in 1..MaxRecs, q \in PtrIdx, k \in 0..RecsPerBlock :
        /\ PassEnd(n)
        /\ dir' = [dir EXCEPT ![file.extent].ptr = ptr,
                              ![file.extent].extno = x(q) % ExtnoLimit,
                              ![file.extent].rc = RecordCount(n)]
        /\ file' = [file EXCEPT !.pos = n, !.extno = x(q), !.phase = NextPhase(n),
                                !.lost = IF k < RecsPerBlock THEN file.lost + 1
                                         ELSE file.lost]
        /\ k < RecsPerBlock => file.lost < MaxLosses
  BY DEF WritePass, StoreBlock
<1>3. Slot \in PtrIdx
  BY <1>1, SlotInRange
<1>4. x(q) \in Nat /\ x(q) % ExtnoLimit \in 0..(ExtnoLimit - 1)
  <2>1. q * RecsPerBlock \in Nat
    BY DEF PtrIdx
  <2>2. more(q) \in Nat
    BY <2>1, Capacity, DivMod
  <2>3. x(q) \in Nat
    BY <1>1, <2>2
  <2> HIDE DEF x
  <2> QED
    BY <2>3, DivMod
<1>5. ptr \in [PtrIdx -> 0..(PtrLimit - 1)]
  BY <1>1, <1>3 DEF Entry
<1>6. RecordCount(n) \in 0..(2 * RecsPerExtent - 1)
  BY RecordCountInRange
<1>7. n <= file.total /\ file.total \in 0..MaxRecs
  <2>1. file.total \in 0..MaxRecs
    BY <1>1 DEF OpenFile
  <2>2. PassEnd(n)
    BY <1>2
  <2> QED
    BY <2>1, <2>2 DEF PassEnd, IsLeast
<1>8. /\ NextPhase(n) \in {"extent", "block", "done"}
      /\ NextPhase(n) # "done" => n < file.total
  BY <1>2, <1>7, PhaseAfter
<1> HIDE DEF ptr, x, more
<1>9. /\ file' \in OpenFile
      /\ file'.ino = file.ino /\ file'.extent = file.extent
      /\ file'.phase # "done" => file'.pos < file'.total
  <2>1. file' = [phase |-> NextPhase(n), ino |-> file.ino, pos |-> n,
                 total |-> file.total, extent |-> file.extent, extno |-> x(q),
                 tag |-> file.tag,
                 lost |-> IF k < RecsPerBlock THEN file.lost + 1 ELSE file.lost]
    BY <1>1, <1>2 DEF OpenFile
  <2>2. file.ino \in Entries /\ file.tag \in Tags /\ n \in 0..MaxRecs
    BY <1>1 DEF OpenFile
  <2>3. (IF k < RecsPerBlock THEN file.lost + 1 ELSE file.lost) \in 0..MaxLosses
    BY <1>1, <1>2, ClientAssumption DEF OpenFile
  <2> QED
    BY <1>1, <1>4, <1>7, <1>8, <2>1, <2>2, <2>3 DEF OpenFile
<1>10. /\ dir' \in [Entries -> Entry]
       /\ dir'[file.extent].owner = dir[file.extent].owner
       /\ dir'[file.extent].ptr = ptr
       /\ \A y \in Entries \ {file.extent} : dir'[y] = dir[y]
  BY <1>1, <1>2, <1>4, <1>5, <1>6 DEF TypeOK, Entry
<1> QED
  BY <1>1, <1>3, <1>9, <1>10 DEF WritePass, ptr

LEMMA DiskType ==
  ASSUME IInv, Writing("block"), NEW b, NEW fresh \in BOOLEAN, WritePass(b, fresh)
  PROVE  disk' \in [Blocks -> [0..(RecsPerBlock - 1) -> Data]]
<1> USE DEF IInv
<1>1. PICK n \in 1..MaxRecs, k \in 0..RecsPerBlock :
        StoreBlock(b, Filled(b, fresh, n), k)
  BY DEF WritePass
<1>2. CASE b \in Blocks
  <2>1. file \in OpenFile /\ n \in Nat
    BY RunningFile, ClientAssumption
  <2>2. Filled(b, fresh, n) \in [0..(RecsPerBlock - 1) -> Data]
    BY <1>2, <2>1, FilledType
  <2> QED
    BY <1>1, <1>2, <2>2 DEF StoreBlock, TypeOK
<1>3. CASE b \notin Blocks
  BY <1>1, <1>3 DEF StoreBlock, TypeOK
<1> QED
  BY <1>2, <1>3

\* The block a pass allocates is none of the reserved ones.
LEMMA FreshBlock ==
  ASSUME IInv, mounted, NEW b \in FreeBlocks
  PROVE  /\ b \in Blocks \ {0} /\ b \in ReservedBlks..(Size - 1)
         /\ b \in 0..(PtrLimit - 1) /\ b \notin Referenced(dir)
  BY Geometry, GeometryAssumption DEF IInv, AlvInv, FreeBlocks, Blocks, AlvInit

LEMMA WriteBlockInv ==
  ASSUME IInv, WriteBlock
  PROVE  IInv'
<1> USE DEF IInv
<1> DEFINE old == dir[file.extent].ptr[Slot]
<1>1. /\ file \in OpenFile /\ file # NoFile /\ mounted /\ Writing("block")
      /\ file.extent \in Entries /\ dir[file.extent] \in Entry
      /\ dir[file.extent].owner = Owner /\ Owner \in Files /\ Slot \in PtrIdx
      /\ file.ino \in Entries
  <2>1. Writing("block")
    BY DEF WriteBlock
  <2>2. /\ file \in OpenFile /\ file # NoFile /\ mounted /\ file.pos \in Nat
        /\ file.extent \in Entries /\ file.ino \in Entries /\ dir[file.extent] \in Entry
    BY <2>1, RunningFile
  <2>3. dir[file.extent].owner = Owner /\ Owner \in Files
    BY <2>1, <2>2 DEF OwnInv, Writing
  <2> QED
    BY <2>1, <2>2, <2>3, SlotInRange
<1>2. old \in 0..(PtrLimit - 1)
  BY <1>1 DEF Entry
<1>3. CASE old # 0 /\ WritePass(old, FALSE) /\ UNCHANGED alv
  <2>1. dir'[file.extent].ptr = dir[file.extent].ptr
    <3>1. dir'[file.extent].ptr = [dir[file.extent].ptr EXCEPT ![Slot] = old]
      BY <1>1, <1>2, <1>3, PassEffect
    <3>2. dir[file.extent].ptr \in [PtrIdx -> 0..(PtrLimit - 1)]
      BY <1>1 DEF Entry
    <3> QED
      BY <1>1, <3>1, <3>2
  <2>2. /\ dir' \in [Entries -> Entry] /\ file' \in OpenFile
        /\ \A y \in Entries : dir'[y].owner = dir[y].owner /\ dir'[y].ptr = dir[y].ptr
        /\ file'.ino = file.ino /\ file'.extent = file.extent
        /\ file'.phase # "done" => file'.pos < file'.total
        /\ UNCHANGED <<mounted, ddir>> /\ dirty' = TRUE
    BY <1>1, <1>2, <1>3, <2>1, PassEffect
  <2>3. AlvInit(dir') = AlvInit(dir)
    BY <2>2, ReferencedSame
  <2>4. TypeOK'
    BY <1>1, <1>3, <2>2, DiskType DEF TypeOK
  <2>5. Owner' = Owner /\ AllEntriesOf(dir', Owner) = AllEntriesOf(dir, Owner)
    BY <1>1, <2>2 DEF Owner, AllEntriesOf
  <2>6. OwnInv'
    BY <1>1, <2>2, <2>5 DEF OwnInv, AllEntriesOf
  <2> QED
    BY <1>3, <2>2, <2>3, <2>4, <2>6 DEF AlvInv
<1>4. ASSUME old = 0, NEW b \in FreeBlocks, WritePass(b, TRUE), alv' = alv \cup {b}
      PROVE  IInv'
  <2>1. b \in Blocks \ {0} /\ b \in ReservedBlks..(Size - 1) /\ b \in 0..(PtrLimit - 1)
    BY <1>1, FreshBlock
  <2>2. /\ dir' \in [Entries -> Entry] /\ file' \in OpenFile
        /\ dir'[file.extent].owner = dir[file.extent].owner
        /\ dir'[file.extent].ptr = [dir[file.extent].ptr EXCEPT ![Slot] = b]
        /\ \A y \in Entries \ {file.extent} : dir'[y] = dir[y]
        /\ file'.ino = file.ino /\ file'.extent = file.extent
        /\ file'.phase # "done" => file'.pos < file'.total
        /\ UNCHANGED <<mounted, ddir>> /\ dirty' = TRUE
    BY <1>1, <1>4, <2>1, PassEffect
  <2>3. AlvInit(dir') = AlvInit(dir) \cup {b}
    <3>1. file.extent \in Live(dir) /\ dir \in [Entries -> Entry]
      BY <1>1 DEF Live, TypeOK
    <3> QED
      BY <1>1, <1>4, <2>1, <2>2, <3>1, ReferencedNewBlock
  <2>4. TypeOK'
    BY <1>1, <1>4, <2>1, <2>2, DiskType DEF TypeOK
  <2>5. Owner' = Owner /\ AllEntriesOf(dir', Owner) = AllEntriesOf(dir, Owner)
    BY <1>1, <2>2 DEF Owner, AllEntriesOf
  <2>6. ASSUME NEW e \in AllEntriesOf(dir, Owner), NEW p \in PtrIdx, dir'[e].ptr[p] # 0
        PROVE  dir'[e].ptr[p] \in ReservedBlks..(Size - 1)
    <3>1. CASE e = file.extent
      BY <1>1, <2>1, <2>2, <2>6, <3>1 DEF OwnInv, AllEntriesOf, Entry
    <3>2. CASE e # file.extent
      BY <1>1, <2>2, <2>6, <3>2 DEF OwnInv, AllEntriesOf
    <3> QED
      BY <3>1, <3>2
  <2>7. OwnInv'
    BY <1>1, <2>2, <2>5, <2>6 DEF OwnInv
  <2> QED
    BY <1>1, <1>4, <2>2, <2>3, <2>4, <2>7 DEF AlvInv
<1>5. CASE GiveUp
  BY <1>5, SuperInv
<1> QED
  BY <1>3, <1>4, <1>5 DEF WriteBlock

LEMMA AttrSetInv ==
  ASSUME IInv, NEW a \in Attrs, AttrSet(a)
  PROVE  IInv'
<1> USE DEF IInv
<1>1. /\ dir' \in [Entries -> Entry]
      /\ \A e \in Entries : dir'[e].owner = dir[e].owner /\ dir'[e].ptr = dir[e].ptr
  <2>1. ASSUME NEW e \in Entries
        PROVE  /\ [dir[e] EXCEPT !.attr = a] \in Entry
               /\ [dir[e] EXCEPT !.attr = a].owner = dir[e].owner
               /\ [dir[e] EXCEPT !.attr = a].ptr = dir[e].ptr
    <3>1. dir[e] \in Entry
      BY <2>1 DEF TypeOK
    <3> QED
      BY <3>1 DEF Entry
  <2>2. ASSUME NEW e \in Entries
        PROVE  dir'[e] = dir[e] \/ dir'[e] = [dir[e] EXCEPT !.attr = a]
    BY <2>2 DEF AttrSet
  <2>3. ASSUME NEW e \in Entries
        PROVE  /\ dir'[e] \in Entry
               /\ dir'[e].owner = dir[e].owner
               /\ dir'[e].ptr = dir[e].ptr
    <3>1. dir[e] \in Entry
      BY <2>3 DEF TypeOK
    <3>2. CASE dir'[e] = dir[e]
      BY <3>1, <3>2
    <3>3. CASE dir'[e] = [dir[e] EXCEPT !.attr = a]
      BY <2>1, <2>3, <3>3
    <3> QED
      BY <2>2, <2>3, <3>2, <3>3
  <2>4. dir' = [e \in Entries |-> dir'[e]]
    BY DEF AttrSet
  <2> QED
    BY <2>3, <2>4
<1>2. AlvInit(dir') = AlvInit(dir)
  BY <1>1, ReferencedSame
<1> QED
  BY <1>1, <1>2 DEF AttrSet, TypeOK, OwnInv, AlvInv

LEMMA UnlinkInv ==
  ASSUME IInv, NEW f \in Files, Unlink(f)
  PROVE  IInv'
<1> USE DEF IInv
<1>1. dir' \in [Entries -> Entry]
  BY FreeEntryType DEF Unlink, TypeOK
<1>2. alv' = AlvInit(dir') /\ alv' \subseteq Blocks
  BY AlvInitType DEF Unlink
<1> QED
  BY <1>1, <1>2 DEF Unlink, Idle, TypeOK, OwnInv, AlvInv

LEMMA NextInv ==
  ASSUME IInv, [Next]_vars
  PROVE  IInv'
<1>1. CASE ReadSuper \/ RefuseSuper \/ Umount \/ Discard \/ Close
  BY <1>1, SuperInv
<1>2. CASE \E f \in Files, n \in Lengths, t \in Tags : Creat(f, n, t)
  BY <1>2, CreatInv
<1>3. CASE FindExtent
  BY <1>3, FindExtentInv
<1>4. CASE WriteBlock
  BY <1>4, WriteBlockInv
<1>5. CASE \E a \in Attrs : AttrSet(a)
  BY <1>5, AttrSetInv
<1>6. CASE \E f \in Files : Unlink(f)
  BY <1>6, UnlinkInv
<1>7. CASE UNCHANGED vars
  BY <1>7 DEF vars, IInv, TypeOK, OwnInv, AlvInv, Owner, AllEntriesOf
<1> QED
  BY <1>1, <1>2, <1>3, <1>4, <1>5, <1>6, <1>7 DEF Next

\* The strengthened invariant holds in every reachable state.
THEOREM InductiveInvariant == Spec => []IInv
<1>1. Init => IInv
  BY InitInv
<1>2. IInv /\ [Next]_vars => IInv'
  BY NextInv
<1> QED
  BY <1>1, <1>2, PTL DEF Spec

\* On a disk of any geometry the directory entries cpmfs.c builds stay well
\* formed: extent numbers, record counts and block numbers fit their fields.
THEOREM TypeCorrect == Spec => []TypeOK
<1>1. IInv => TypeOK
  BY DEF IInv
<1> QED
  BY <1>1, InductiveInvariant, PTL

\* The allocation vector marks exactly the directory and the blocks live entries
\* name, after any sequence of operations on a disk of any geometry.
THEOREM AllocationIsExact == Spec => []AllocationExact
<1>1. ASSUME IInv PROVE AllocationExact
  <2>1. \A b \in Blocks : b < ReservedBlks <=> b \in 0..(ReservedBlks - 1)
    BY Geometry DEF Blocks
  <2>2. 0..(ReservedBlks - 1) \subseteq Blocks
    BY Geometry DEF Blocks
  <2>3. \A b \in Blocks : b # 0 =>
          (b \in Referenced(dir) <=>
             \E e \in Entries, p \in PtrIdx :
               dir[e].owner \in Files /\ dir[e].ptr[p] = b)
    BY DEF Referenced, Live
  <2>4. 0 \in 0..(ReservedBlks - 1) /\ Referenced(dir) \subseteq Blocks
    BY Geometry DEF Referenced
  <2> QED
    BY <1>1, <2>1, <2>2, <2>3, <2>4 DEF IInv, AlvInv, AllocationExact, AlvInit
<1> QED
  BY <1>1, InductiveInvariant, PTL

------------------------------------------------------------------------------
\* Every block cpmWrite stores into lies behind the directory.
LEMMA StoredBlock ==
  ASSUME IInv, WriteBlock
  PROVE  \/ disk' = disk
         \/ \E b \in ReservedBlks..(Size - 1) : \E n, k : StoreBlock(b, n, k)
<1> USE DEF IInv
<1> DEFINE old == dir[file.extent].ptr[Slot]
<1>1. /\ file \in OpenFile /\ file # NoFile /\ mounted
      /\ file.extent \in AllEntriesOf(dir, Owner) /\ Slot \in PtrIdx
  BY SlotInRange, ClientAssumption
     DEF WriteBlock, Writing, TypeOK, NoFile, OwnInv, OpenFile, AllEntriesOf
<1>2. CASE old # 0 /\ WritePass(old, FALSE)
  <2>1. old \in ReservedBlks..(Size - 1)
    BY <1>1, <1>2 DEF OwnInv
  <2> QED
    BY <1>2, <2>1 DEF WritePass
<1>3. ASSUME NEW b \in FreeBlocks, WritePass(b, TRUE)
      PROVE  \E c \in ReservedBlks..(Size - 1) : \E n, k : StoreBlock(c, n, k)
  <2>1. b \in ReservedBlks..(Size - 1)
    BY <1>1, <1>3, FreshBlock
  <2> QED
    BY <1>3, <2>1 DEF WritePass
<1>4. CASE GiveUp
  BY <1>4 DEF GiveUp
<1> QED
  BY <1>2, <1>3, <1>4 DEF WriteBlock

\* File data never overwrites a block of the directory, on a disk of any geometry
\* and whatever directory the opened image had.
THEOREM DirectoryNeverOverwritten == Spec => DirectoryBlocksKept
<1> DEFINE Kept == \A b \in 0..(StorageBlks - 1) : disk'[b] = disk[b]
<1>1. ASSUME IInv, WriteBlock PROVE Kept
  <2>1. CASE disk' = disk
    BY <2>1
  <2>2. ASSUME NEW c \in ReservedBlks..(Size - 1), NEW n, NEW k, StoreBlock(c, n, k)
        PROVE  Kept
    <3>1. \A b \in 0..(StorageBlks - 1) : b \in Blocks /\ b # c
      BY Geometry DEF Blocks
    <3> QED
      BY <1>1, <2>2, <3>1 DEF StoreBlock, IInv, TypeOK
  <2> QED
    BY <1>1, <2>1, <2>2, StoredBlock
<1>2. ASSUME IInv, [Next]_vars PROVE [Kept]_vars
  <2>1. CASE WriteBlock
    BY <1>1, <1>2, <2>1
  <2>2. CASE ~WriteBlock
    BY <1>2, <2>2 DEF Next, ReadSuper, RefuseSuper, Umount, Discard, Creat,
                      FindExtent, GiveUp, Close, AttrSet, Unlink, vars
  <2> QED
    BY <2>1, <2>2
<1> QED
  BY <1>2, InductiveInvariant, PTL DEF Spec, DirectoryBlocksKept

------------------------------------------------------------------------------
\* Whether a pointer slot is in use, and the block it names.
Uses(d, s, b) == s[1] \in Live(d) /\ d[s[1]].ptr[s[2]] = b /\ b # 0

LEMMA SharedUses ==
  ASSUME NEW d, NEW s \in Slots, NEW t \in Slots
  PROVE  <<s, t>> \in SharedSlots(d) <=>
           s # t /\ \E b : Uses(d, s, b) /\ Uses(d, t, b)
  BY DEF SharedSlots, Uses

\* If every slot in use was in use before with the same block, or is the only
\* one to name a block that no slot named, no sharing is added.
LEMMA NoSharingStep ==
  ASSUME NEW d, NEW c, NEW z \in Slots, NEW n,
         \A s \in Slots : \A b : Uses(c, s, b) => Uses(d, s, b) \/ (s = z /\ b = n),
         \A s \in Slots : ~Uses(d, s, n)
  PROVE  SharedSlots(c) \subseteq SharedSlots(d)
<1>1. ASSUME NEW s \in Slots, NEW t \in Slots, <<s, t>> \in SharedSlots(c)
      PROVE  <<s, t>> \in SharedSlots(d)
  <2>1. s # t /\ \E b : Uses(c, s, b) /\ Uses(c, t, b)
    BY <1>1, SharedUses
  <2>2. s # t /\ \E b : Uses(d, s, b) /\ Uses(d, t, b)
    BY <2>1
  <2> QED
    BY <2>2, SharedUses
<1>2. SharedSlots(c) \subseteq Slots \X Slots
  BY DEF SharedSlots
<1> QED
  BY <1>1, <1>2

LEMMA NoSharingSame ==
  ASSUME NEW d, NEW c, \A s \in Slots : \A b : Uses(c, s, b) => Uses(d, s, b)
  PROVE  SharedSlots(c) \subseteq SharedSlots(d)
<1>1. ASSUME NEW s \in Slots, NEW t \in Slots, <<s, t>> \in SharedSlots(c)
      PROVE  <<s, t>> \in SharedSlots(d)
  <2>1. s # t /\ \E b : Uses(c, s, b) /\ Uses(c, t, b)
    BY <1>1, SharedUses
  <2>2. s # t /\ \E b : Uses(d, s, b) /\ Uses(d, t, b)
    BY <2>1
  <2> QED
    BY <2>2, SharedUses
<1>2. SharedSlots(c) \subseteq Slots \X Slots
  BY DEF SharedSlots
<1> QED
  BY <1>1, <1>2

\* Creating a file, taking a further entry, changing attributes or deleting uses
\* no block that was not used in the same place before.
LEMMA OtherStepsShareNothing ==
  ASSUME IInv, mounted, mounted', [Next]_vars, ~WriteBlock
  PROVE  SharedSlots(dir') \subseteq SharedSlots(dir)
<1> USE DEF IInv
<1>1. ASSUME NEW e \in Entries, NEW r, r.ptr = NoPtrs, dir' = [dir EXCEPT ![e] = r]
      PROVE  SharedSlots(dir') \subseteq SharedSlots(dir)
  <2>1. ASSUME NEW s \in Slots, NEW b, Uses(dir', s, b) PROVE Uses(dir, s, b)
    BY <1>1, <2>1 DEF Uses, Live, Slots, NoPtrs, TypeOK
  <2> QED
    BY <2>1, NoSharingSame
<1>2. ASSUME NEW f \in Files, NEW n \in Lengths, NEW t \in Tags, Creat(f, n, t)
      PROVE  SharedSlots(dir') \subseteq SharedSlots(dir)
  <2>1. PICK e \in FreeEntries(dir) :
          dir' = [dir EXCEPT ![e] = [FreeEntry EXCEPT !.owner = f]]
    BY <1>2 DEF Creat
  <2>2. e \in Entries /\ [FreeEntry EXCEPT !.owner = f].ptr = NoPtrs
    BY DEF FreeEntries, FreeEntry
  <2> QED
    BY <1>1, <2>1, <2>2
<1>3. CASE FindExtent
  <2> DEFINE x == file.pos \div RecsPerExtent
  <2>1. CASE dir' = dir
    BY <2>1
  <2>2. ASSUME NEW e \in FreeEntries(dir), dir' = [dir EXCEPT ![e] = NewExtent(x)]
        PROVE  SharedSlots(dir') \subseteq SharedSlots(dir)
    <3>1. dir[file.ino] \in Entry
      BY <1>3 DEF FindExtent, Writing, TypeOK, NoFile, OpenFile
    <3>2. NewExtent(x).ptr = NoPtrs
      BY <3>1 DEF NewExtent, Entry
    <3> QED
      BY <1>1, <2>2, <3>2 DEF FreeEntries
  <2> QED
    BY <1>3, <2>1, <2>2 DEF FindExtent, GiveUp
<1>4. ASSUME NEW a \in Attrs, AttrSet(a)
      PROVE  SharedSlots(dir') \subseteq SharedSlots(dir)
  <2>1. \A e \in Entries : dir'[e].owner = dir[e].owner /\ dir'[e].ptr = dir[e].ptr
    <3>1. \A e \in Entries : dir[e] \in Entry
      BY DEF TypeOK
    <3>2. ASSUME NEW e \in Entries
          PROVE  /\ [dir[e] EXCEPT !.attr = a].owner = dir[e].owner
                 /\ [dir[e] EXCEPT !.attr = a].ptr = dir[e].ptr
      BY <3>1, <3>2 DEF Entry
    <3> QED
      BY <1>4, <3>2 DEF AttrSet
  <2>2. \A s \in Slots : \A b : Uses(dir', s, b) => Uses(dir, s, b)
    BY <2>1 DEF Uses, Live, Slots
  <2> QED
    BY <2>2, NoSharingSame
<1>5. ASSUME NEW f \in Files, Unlink(f)
      PROVE  SharedSlots(dir') \subseteq SharedSlots(dir)
  <2>1. ASSUME NEW e \in Entries, dir'[e].owner \in Files PROVE dir'[e] = dir[e]
    BY <1>5, <2>1 DEF Unlink, FreeEntry
  <2>2. \A s \in Slots : \A b : Uses(dir', s, b) => Uses(dir, s, b)
    BY <2>1 DEF Uses, Live, Slots
  <2> QED
    BY <2>2, NoSharingSame
<1>6. CASE UNCHANGED dir
  BY <1>6
<1>7. ~ReadSuper /\ ~Umount /\ ~Discard
  BY DEF ReadSuper, Umount, Discard, FreeSuper
<1> QED
  BY <1>2, <1>3, <1>4, <1>5, <1>6, <1>7 DEF Next, RefuseSuper, Close, vars

LEMMA WriteBlockSharesNothing ==
  ASSUME IInv, WriteBlock
  PROVE  SharedSlots(dir') \subseteq SharedSlots(dir)
<1> USE DEF IInv
<1> DEFINE old == dir[file.extent].ptr[Slot]
           z == <<file.extent, Slot>>
<1>1. /\ mounted /\ Writing("block")
      /\ file.extent \in Entries /\ dir[file.extent] \in Entry /\ Slot \in PtrIdx
      /\ z \in Slots
  BY SlotInRange, ClientAssumption
     DEF WriteBlock, Writing, TypeOK, NoFile, OwnInv, OpenFile, Slots
<1>2. old \in 0..(PtrLimit - 1) /\ dir[file.extent].ptr \in [PtrIdx -> 0..(PtrLimit - 1)]
  BY <1>1 DEF Entry
<1>3. ASSUME NEW b \in 0..(PtrLimit - 1), NEW fresh \in BOOLEAN, WritePass(b, fresh)
      PROVE  \A s \in Slots : \A n : Uses(dir', s, n) => Uses(dir, s, n) \/ (s = z /\ n = b)
  <2>1. /\ dir'[file.extent].owner = dir[file.extent].owner
        /\ dir'[file.extent].ptr = [dir[file.extent].ptr EXCEPT ![Slot] = b]
        /\ \A y \in Entries \ {file.extent} : dir'[y] = dir[y]
    BY <1>1, <1>3, PassEffect
  <2> SUFFICES ASSUME NEW s \in Slots, NEW n, Uses(dir', s, n)
               PROVE  Uses(dir, s, n) \/ (s = z /\ n = b)
    OBVIOUS
  <2>2. s[1] \in Entries /\ s[2] \in PtrIdx /\ s = <<s[1], s[2]>>
    BY DEF Slots
  <2>3. CASE s[1] = file.extent /\ s[2] = Slot
    BY <1>2, <2>1, <2>2, <2>3 DEF Uses
  <2>4. CASE s[1] = file.extent /\ s[2] # Slot
    BY <1>2, <2>1, <2>2, <2>4 DEF Uses, Live
  <2>5. CASE s[1] # file.extent
    BY <2>1, <2>2, <2>5 DEF Uses, Live
  <2> QED
    BY <2>3, <2>4, <2>5
<1>4. CASE old # 0 /\ WritePass(old, FALSE)
  <2>1. Uses(dir, z, old)
    BY <1>1, <1>4 DEF Uses, Live, OwnInv, WriteBlock, Writing, NoFile
  <2>2. \A s \in Slots : \A n : Uses(dir', s, n) => Uses(dir, s, n)
    BY <1>2, <1>3, <1>4, <2>1
  <2> QED
    BY <2>2, NoSharingSame
<1>5. ASSUME NEW b \in FreeBlocks, WritePass(b, TRUE)
      PROVE  SharedSlots(dir') \subseteq SharedSlots(dir)
  <2>1. b \in 0..(PtrLimit - 1) /\ b \in Blocks \ {0} /\ b \notin Referenced(dir)
    BY <1>1, <1>5, FreshBlock
  <2>2. \A s \in Slots : ~Uses(dir, s, b)
    BY <2>1 DEF Uses, Referenced, Slots
  <2>3. \A s \in Slots : \A n : Uses(dir', s, n) => Uses(dir, s, n) \/ (s = z /\ n = b)
    BY <1>3, <1>5, <2>1
  <2> QED
    BY <1>1, <2>2, <2>3, NoSharingStep
<1>6. CASE GiveUp
  BY <1>6 DEF GiveUp
<1> QED
  BY <1>4, <1>5, <1>6 DEF WriteBlock

\* No operation on a mounted image makes two pointers of live entries name the
\* same block, on a disk of any geometry.
THEOREM NoSharingAdded == Spec => NoNewSharing
<1>1. ASSUME IInv, [Next]_vars
      PROVE  [mounted /\ mounted' => SharedSlots(dir') \subseteq SharedSlots(dir)]_vars
  BY <1>1, OtherStepsShareNothing, WriteBlockSharesNothing
<1> QED
  BY <1>1, InductiveInvariant, PTL DEF Spec, NoNewSharing

------------------------------------------------------------------------------
\* The inode of the file being written is its first entry, and no entry before
\* it is free: cpmCreat took the first free one and nothing is deleted meanwhile.
InoFirst ==
  file # NoFile =>
    \A e \in Entries : dir[e].owner \in {Owner, Free} => e >= file.ino

LEMMA InoFirstStep ==
  ASSUME IInv, InoFirst, [Next]_vars
  PROVE  InoFirst'
<1> USE DEF IInv
<1>1. CASE file' = NoFile
  BY <1>1 DEF InoFirst
<1>2. CASE UNCHANGED <<dir, file>>
  BY <1>2 DEF InoFirst, Owner
<1>3. ASSUME NEW f \in Files, NEW n \in Lengths, NEW t \in Tags, Creat(f, n, t)
      PROVE  InoFirst'
  <2>1. PICK e \in FreeEntries(dir) :
          /\ IsFirst(e, FreeEntries(dir))
          /\ dir' = [dir EXCEPT ![e] = [FreeEntry EXCEPT !.owner = f]]
          /\ file' = [phase |-> IF n = 0 THEN "done" ELSE "extent",
                      ino |-> e, pos |-> 0, total |-> n, extent |-> e,
                      extno |-> 0, tag |-> t, lost |-> 0]
    BY <1>3 DEF Creat
  <2>2. e \in Entries /\ dir'[e].owner = f
    BY <2>1 DEF FreeEntries, FreeEntry, TypeOK
  <2>3. Owner' = f
    BY <2>1, <2>2 DEF Owner
  <2>4. ASSUME NEW x \in Entries, dir'[x].owner \in {f, Free} PROVE x >= e
    <3>1. CASE x = e
      BY <2>2, <3>1 DEF Entries
    <3>2. CASE x # e
      <4>1. dir'[x] = dir[x]
        BY <2>1, <3>2 DEF TypeOK
      <4>2. x \in FreeEntries(dir)
        BY <1>3, <2>4, <4>1 DEF Creat, AllEntriesOf, FreeEntries
      <4> QED
        BY <2>1, <4>2 DEF IsFirst
    <3> QED
      BY <3>1, <3>2
  <2> QED
    BY <2>1, <2>3, <2>4 DEF InoFirst
<1>4. CASE FindExtent
  <2>1. CASE GiveUp
    BY <1>1, <2>1 DEF GiveUp
  <2>2. CASE dir' = dir /\ file'.ino = file.ino
    BY <1>4, <2>2 DEF InoFirst, Owner, FindExtent, Writing, NoFile
  <2>3. ASSUME NEW x, NEW e \in FreeEntries(dir), dir' = [dir EXCEPT ![e] = NewExtent(x)],
               file'.ino = file.ino
        PROVE  InoFirst'
    <3>1. file # NoFile /\ file.ino \in Entries /\ dir[file.ino] \in Entry
      BY <1>4, RunningFile DEF FindExtent
    <3>2. NewExtent(x).owner = Owner
      BY <3>1 DEF NewExtent, Entry, Owner
    <3>3. \A y \in Entries : dir'[y].owner \in {dir[y].owner, Owner}
      BY <2>3, <3>2 DEF FreeEntries, TypeOK
    <3>4. e \in Entries /\ dir[e].owner = Free /\ e >= file.ino
      BY <2>3, <3>1 DEF FreeEntries, InoFirst
    <3>5. Owner' = Owner
      BY <2>3, <3>1, <3>2 DEF Owner, TypeOK
    <3>6. \A y \in Entries \ {e} : dir'[y] = dir[y]
      BY <2>3 DEF FreeEntries, TypeOK
    <3> QED
      BY <2>3, <3>1, <3>4, <3>5, <3>6 DEF InoFirst
  <2>4. ASSUME NEW e, NEW x, file' = UseExtent(e, x) PROVE file'.ino = file.ino
    <3>1. file \in OpenFile
      BY <1>4 DEF FindExtent, Writing, NoFile, TypeOK
    <3> QED
      BY <2>4, <3>1 DEF UseExtent, OpenFile
  <2> QED
    BY <1>4, <2>1, <2>2, <2>3, <2>4 DEF FindExtent
<1>5. CASE WriteBlock
  <2>1. CASE GiveUp
    BY <1>1, <2>1 DEF GiveUp
  <2>2. ASSUME NEW b \in 0..(PtrLimit - 1), NEW fresh \in BOOLEAN, WritePass(b, fresh)
        PROVE  InoFirst'
    <3>1. /\ file # NoFile /\ file.ino \in Entries
          /\ \A y \in Entries : dir'[y].owner = dir[y].owner
          /\ file'.ino = file.ino
      <4>1. Writing("block")
        BY <1>5 DEF WriteBlock
      <4>2. /\ \A y \in Entries \ {file.extent} : dir'[y] = dir[y]
            /\ dir'[file.extent].owner = dir[file.extent].owner
            /\ file'.ino = file.ino
        BY <2>2, <4>1, PassEffect
      <4>3. file # NoFile /\ file.ino \in Entries
        BY <4>1 DEF Writing, NoFile, TypeOK, OpenFile
      <4> QED
        BY <4>2, <4>3
    <3> QED
      BY <3>1 DEF InoFirst, Owner
  <2>3. dir[file.extent].ptr[Slot] \in 0..(PtrLimit - 1)
    <3>1. file.extent \in Entries /\ file.pos \in Nat
      <4>1. file \in OpenFile
        BY <1>5 DEF WriteBlock, Writing, TypeOK, NoFile
      <4> QED
        BY <4>1, ClientAssumption DEF OpenFile
    <3>2. dir[file.extent] \in Entry
      BY <3>1 DEF TypeOK
    <3> QED
      BY <3>1, <3>2, SlotInRange DEF Entry
  <2>4. \A b \in FreeBlocks : b \in 0..(PtrLimit - 1)
    BY <1>5, FreshBlock DEF WriteBlock, Writing
  <2> QED
    BY <1>5, <2>1, <2>2, <2>3, <2>4 DEF WriteBlock
<1>6. ASSUME NEW f \in Files, Unlink(f) PROVE InoFirst'
  BY <1>6 DEF Unlink, Idle, InoFirst
<1>7. CASE ReadSuper \/ RefuseSuper
  <2>1. (file' = file /\ file' = NoFile) \/ UNCHANGED <<dir, file>>
    BY <1>7 DEF ReadSuper, RefuseSuper, vars, OwnInv
  <2> QED
    BY <1>1, <1>2, <2>1
<1>8. CASE Umount \/ Discard \/ Close \/ \E a \in Attrs : AttrSet(a)
  BY <1>1, <1>8 DEF Umount, Discard, FreeSuper, Close, AttrSet
<1>9. CASE UNCHANGED vars
  BY <1>2, <1>9 DEF vars
<1> QED
  BY <1>3, <1>4, <1>5, <1>6, <1>7, <1>8, <1>9 DEF Next

LEMMA UniformStep ==
  ASSUME IInv, InoFirst, [Next]_vars, mounted, mounted', Uniform(dir)
  PROVE  Uniform(dir')
<1> USE DEF IInv
<1>1. ASSUME \A e \in Entries : dir'[e].owner \in Files =>
               dir'[e].owner = dir[e].owner /\ dir'[e].attr = dir[e].attr
      PROVE  Uniform(dir')
  BY <1>1 DEF Uniform, Live
<1>2. ASSUME NEW f \in Files, NEW n \in Lengths, NEW t \in Tags, Creat(f, n, t)
      PROVE  Uniform(dir')
  <2>1. PICK e \in Entries : dir' = [dir EXCEPT ![e] = [FreeEntry EXCEPT !.owner = f]]
    BY <1>2 DEF Creat, FreeEntries
  <2>2. \A x \in Entries \ {e} : dir'[x] = dir[x]
    BY <2>1 DEF TypeOK
  <2>3. dir'[e].owner = f
    BY <2>1 DEF TypeOK, FreeEntry
  <2>4. \A x \in Entries : dir[x].owner # f
    BY <1>2 DEF Creat, AllEntriesOf
  <2> QED
    BY <2>2, <2>3, <2>4 DEF Uniform, Live
<1>3. CASE FindExtent
  <2>1. CASE dir' = dir
    BY <2>1
  <2>2. ASSUME NEW x, NEW e \in FreeEntries(dir), dir' = [dir EXCEPT ![e] = NewExtent(x)]
        PROVE  Uniform(dir')
    <3>1. file.ino \in Entries /\ dir[file.ino] \in Entry /\ Owner \in Files
      <4>1. file # NoFile /\ file.ino \in Entries /\ dir[file.ino] \in Entry
        BY <1>3, RunningFile DEF FindExtent
      <4> QED
        BY <4>1 DEF OwnInv
    <3>2. NewExtent(x).owner = Owner /\ NewExtent(x).attr = dir[file.ino].attr
      BY <3>1 DEF NewExtent, Entry, Owner
    <3>3. /\ dir'[e] = NewExtent(x) /\ e \in Entries
          /\ \A y \in Entries \ {e} : dir'[y] = dir[y]
      BY <2>2 DEF FreeEntries, TypeOK
    <3>4. \A y \in Entries :
            dir[y].owner = Owner => dir[y].attr = dir[file.ino].attr
      BY <3>1 DEF Uniform, Live, Owner
    <3> QED
      BY <3>2, <3>3, <3>4 DEF Uniform, Live
  <2> QED
    BY <1>3, <2>1, <2>2 DEF FindExtent, GiveUp
<1>4. CASE WriteBlock
  <2>1. ASSUME NEW b, WritePass(b, TRUE) \/ WritePass(b, FALSE)
        PROVE  \A e \in Entries : /\ dir'[e].owner = dir[e].owner
                                  /\ dir'[e].attr = dir[e].attr
    <3>1. \A e \in Entries : dir[e] \in Entry
      BY DEF TypeOK
    <3>2. PICK n, q : dir' =
            [dir EXCEPT ![file.extent].ptr = [dir[file.extent].ptr EXCEPT ![Slot] = b],
                        ![file.extent].extno =
                          (file.extno + ((q * RecsPerBlock) \div ExtCap)) % ExtnoLimit,
                        ![file.extent].rc = RecordCount(n)]
      BY <2>1 DEF WritePass
    <3> SUFFICES ASSUME NEW e \in Entries
                 PROVE  dir'[e].owner = dir[e].owner /\ dir'[e].attr = dir[e].attr
      OBVIOUS
    <3>3. dir \in [Entries -> Entry]
      BY DEF TypeOK
    <3>4. CASE e # file.extent
      BY <3>2, <3>3, <3>4
    <3>5. CASE e = file.extent
      BY <3>1, <3>2, <3>3, <3>5 DEF Entry
    <3> QED
      BY <3>4, <3>5
  <2> QED
    BY <1>1, <1>4, <2>1 DEF WriteBlock, GiveUp
<1>5. ASSUME NEW a \in Attrs, AttrSet(a) PROVE Uniform(dir')
  <2>1. file # NoFile /\ file.ino \in Entries /\ Owner \in Files
    BY <1>5 DEF AttrSet, Writing, NoFile, TypeOK, OpenFile, OwnInv
  <2>2. AttrTargets = AllEntriesOf(dir, Owner)
    BY <2>1 DEF AttrTargets, AllEntriesOf, InoFirst
  <2>3. ASSUME NEW e \in Entries
        PROVE  /\ dir'[e].owner = dir[e].owner
               /\ dir'[e].attr = IF dir[e].owner = Owner THEN a ELSE dir[e].attr
    <3>1. dir[e] \in Entry
      BY DEF TypeOK
    <3> QED
      BY <1>5, <2>2, <3>1 DEF AttrSet, AllEntriesOf, Entry
  <2> QED
    BY <2>3 DEF Uniform, Live
<1>6. ASSUME NEW f \in Files, Unlink(f) PROVE Uniform(dir')
  <2>1. \A e \in Entries : dir'[e] \in {dir[e], FreeEntry}
    BY <1>6 DEF Unlink
  <2> QED
    BY <1>1, <2>1, ConstantsAssumption DEF FreeEntry
<1>7. CASE UNCHANGED dir
  BY <1>7
<1>8. ~ReadSuper /\ ~Umount /\ ~Discard
  BY DEF ReadSuper, Umount, Discard, FreeSuper
<1> QED
  BY <1>2, <1>3, <1>4, <1>5, <1>6, <1>7, <1>8 DEF Next, RefuseSuper, Close, vars

\* While an image is mounted no step makes the attributes of a file's entries
\* differ, on a disk of any geometry.
THEOREM AttributesStayUniform == Spec => AttrsUniform
<1>1. Init => InoFirst
  BY DEF Init, InoFirst
<1>2. Spec => []InoFirst
  BY <1>1, InoFirstStep, InductiveInvariant, PTL DEF Spec
<1>3. ASSUME IInv, InoFirst, [Next]_vars
      PROVE  [mounted /\ mounted' /\ Uniform(dir) => Uniform(dir')]_vars
  BY <1>3, UniformStep
<1> QED
  BY <1>2, <1>3, InductiveInvariant, PTL DEF Spec, AttrsUniform

------------------------------------------------------------------------------
\* WHAT OTHER FILES HOLD

\* A file whose entries, and the blocks they name, stay as they are keeps its
\* size and its data.
LEMMA ContentSame ==
  ASSUME NEW d \in [Entries -> Entry], NEW c, NEW k, NEW m, NEW f,
         AllEntriesOf(d, f) # {},
         AllEntriesOf(c, f) = AllEntriesOf(d, f),
         \A e \in AllEntriesOf(d, f) : c[e] = d[e],
         \A e \in AllEntriesOf(d, f), p \in PtrIdx :
           d[e].ptr[p] \in StorageBlks..(Size - 1) => m[d[e].ptr[p]] = k[d[e].ptr[p]]
  PROVE  Content(c, m, f) = Content(d, k, f)
<1>1. HighestEntry(c, f) = HighestEntry(d, f)
  BY DEF HighestEntry
<1>2. FileSize(c, f) = FileSize(d, f)
  BY <1>1, HighestIsEntry DEF FileSize
<1>3. ASSUME NEW r \in Nat
      PROVE  ReadRecord(c, m, f, r) = ReadRecord(d, k, f, r)
  <2> DEFINE x == r \div RecsPerExtent
             S == EntriesOf(d, f, x)
             p == (r % ExtCap) \div RecsPerBlock
             e == MapperOf(d, f, r)
             b == d[e].ptr[p]
  <2>1. EntriesOf(c, f, x) = S
    BY DEF EntriesOf
  <2>2. CASE S = {}
    BY <2>1, <2>2 DEF ReadRecord
  <2>3. CASE S # {}
    <3>1. S \subseteq AllEntriesOf(d, f) /\ S \subseteq Nat
      BY DEF EntriesOf, AllEntriesOf, Entries
    <3>2. e \in AllEntriesOf(d, f)
      BY <2>3, <3>1, LeastNat DEF MapperOf
    <3>3. p \in PtrIdx
      BY RecordSlot
    <3>4. b \in 0..(PtrLimit - 1)
      BY <3>2, <3>3 DEF AllEntriesOf, Entry
    <3>5. c[e].ptr[p] = b
      BY <3>2
    <3>6. MapperOf(c, f, r) = e
      BY <2>1 DEF MapperOf
    <3>7. b \in StorageBlks..(Size - 1) => m[b] = k[b]
      BY <3>2, <3>3
    <3>8. ReadRecord(d, k, f, r) = Delivered(k, b, r)
      BY <2>3, RecordFound
    <3>9. ReadRecord(c, m, f, r) = Delivered(m, c[e].ptr[p], r)
      BY <2>1, <2>3, <3>6, RecordFound
    <3> HIDE DEF b, e, p
    <3> QED
      BY <3>4, <3>5, <3>7, <3>8, <3>9, Geometry DEF Delivered
  <2> QED
    BY <2>2, <2>3
<1> QED
  BY <1>2, <1>3 DEF Content

\* While a file is open, no other pointer names a block of it: it had none when
\* it was created, and gets only blocks nothing names.
PrivateInv ==
  file # NoFile =>
    \A s, t \in Slots :
      <<s, t>> \in SharedSlots(dir) => dir[s[1]].owner # Owner

\* An open file stays the same file until it is closed.
LEMMA OwnerKept ==
  ASSUME IInv, FindExtent \/ WriteBlock, file' # NoFile
  PROVE  /\ Owner' = Owner
         /\ \A e \in Entries : dir[e].owner \in Files => dir'[e].owner = dir[e].owner
<1> USE DEF IInv
<1>1. file \in OpenFile /\ file # NoFile /\ mounted /\ file.ino \in Entries
      /\ Owner \in Files
  <2>1. file # NoFile
    <3>1. CASE FindExtent
      BY <3>1 DEF FindExtent, Writing, NoFile
    <3>2. CASE WriteBlock
      BY <3>2 DEF WriteBlock, Writing, NoFile
    <3> QED
      BY <3>1, <3>2
  <2> QED
    BY <2>1 DEF TypeOK, OwnInv, OpenFile
<1>2. ~GiveUp
  BY DEF GiveUp
<1>3. CASE FindExtent
  <2>1. \A e, x : UseExtent(e, x).ino = file.ino
    BY <1>1 DEF UseExtent, OpenFile
  <2>2. file'.ino = file.ino
    BY <1>2, <1>3, <2>1 DEF FindExtent
  <2>3. \/ dir' = dir
        \/ \E e \in FreeEntries(dir) : \E x : dir' = [dir EXCEPT ![e] = NewExtent(x)]
    BY <1>2, <1>3 DEF FindExtent
  <2>4. \A e \in Entries : dir[e].owner \in Files => dir'[e] = dir[e]
    BY <2>3 DEF FreeEntries, TypeOK
  <2> QED
    BY <1>1, <2>2, <2>4 DEF Owner
<1>4. CASE WriteBlock
  <2>1. dir[file.extent].ptr[Slot] \in 0..(PtrLimit - 1)
    <3>1. file.extent \in Entries /\ file.pos \in Nat
      BY <1>1 DEF OpenFile
    <3>2. dir[file.extent] \in Entry
      BY <3>1 DEF TypeOK
    <3> QED
      BY <3>1, <3>2, SlotInRange DEF Entry
  <2>2. \A b \in FreeBlocks : b \in 0..(PtrLimit - 1)
    BY <1>1, FreshBlock
  <2>3. PICK b \in 0..(PtrLimit - 1), fresh \in BOOLEAN : WritePass(b, fresh)
    BY <1>2, <1>4, <2>1, <2>2 DEF WriteBlock
  <2>4. /\ file'.ino = file.ino
        /\ dir'[file.extent].owner = dir[file.extent].owner
        /\ \A y \in Entries \ {file.extent} : dir'[y] = dir[y]
    BY <1>4, <2>3, PassEffect DEF WriteBlock
  <2> QED
    BY <1>1, <2>4 DEF Owner
<1> QED
  BY <1>3, <1>4

LEMMA PrivateStep ==
  ASSUME IInv, IInv', PrivateInv, [Next]_vars
  PROVE  PrivateInv'
<1> USE DEF IInv
<1> SUFFICES ASSUME file' # NoFile, NEW s \in Slots, NEW t \in Slots,
                    <<s, t>> \in SharedSlots(dir')
             PROVE  dir'[s[1]].owner # Owner'
  BY DEF PrivateInv, Slots
<1>1. mounted'
  BY DEF OwnInv
<1>2. ASSUME NEW f \in Files, NEW n \in Lengths, NEW g \in Tags, Creat(f, n, g)
      PROVE  dir'[s[1]].owner # Owner'
  <2>1. PICK e \in FreeEntries(dir) :
          /\ dir' = [dir EXCEPT ![e] = [FreeEntry EXCEPT !.owner = f]]
          /\ file' = [phase |-> IF n = 0 THEN "done" ELSE "extent",
                      ino |-> e, pos |-> 0, total |-> n, extent |-> e,
                      extno |-> 0, tag |-> g, lost |-> 0]
    BY <1>2 DEF Creat
  <2>2. e \in Entries /\ dir'[e].owner = f /\ dir'[e].ptr = NoPtrs
        /\ \A x \in Entries \ {e} : dir'[x] = dir[x]
    BY <2>1 DEF FreeEntries, FreeEntry, TypeOK
  <2>3. Owner' = f
    BY <2>1, <2>2 DEF Owner
  <2>4. s[1] \in Entries /\ s[2] \in PtrIdx /\ dir'[s[1]].ptr[s[2]] # 0
    BY DEF SharedSlots, Slots
  <2>5. s[1] # e
    BY <2>2, <2>4 DEF NoPtrs
  <2> QED
    BY <1>2, <2>2, <2>3, <2>4, <2>5 DEF Creat, AllEntriesOf
<1>3. CASE FindExtent \/ WriteBlock
  <2>1. mounted /\ file # NoFile
    <3>1. CASE FindExtent
      BY <3>1 DEF FindExtent, Writing, NoFile
    <3>2. CASE WriteBlock
      BY <3>2 DEF WriteBlock, Writing, NoFile
    <3> QED
      BY <1>3, <3>1, <3>2
  <2>2. <<s, t>> \in SharedSlots(dir)
    BY <1>1, <2>1, OtherStepsShareNothing, WriteBlockSharesNothing
  <2>3. s[1] \in Entries /\ dir[s[1]].owner \in Files
    BY <2>2 DEF SharedSlots, Live, Slots
  <2> QED
    BY <1>3, <2>1, <2>2, <2>3, OwnerKept DEF PrivateInv
<1>4. CASE UNCHANGED <<dir, file>>
  BY <1>4 DEF PrivateInv, Owner
<1>5. ~Umount /\ ~Discard /\ ~Close /\ ~(\E a \in Attrs : AttrSet(a))
  BY DEF Umount, Discard, FreeSuper, Close, AttrSet
<1>6. ~ReadSuper /\ ~(\E f \in Files : Unlink(f))
  BY DEF ReadSuper, Unlink, Idle, OwnInv
<1> QED
  BY <1>2, <1>3, <1>4, <1>5, <1>6 DEF Next, RefuseSuper, vars

LEMMA PrivateAlways == Spec => []PrivateInv
<1>1. Init => PrivateInv
  BY DEF Init, PrivateInv
<1> QED
  BY <1>1, PrivateStep, InductiveInvariant, PTL DEF Spec

\* A pass of cpmWrite leaves the other files' entries and blocks alone.
LEMMA PassLeavesOthers ==
  ASSUME IInv, PrivateInv, Writing("block"), NEW f \in Files, f # Owner,
         NEW b \in 0..(PtrLimit - 1), NEW fresh \in BOOLEAN, WritePass(b, fresh),
         fresh => b \notin Referenced(dir) /\ b \in Blocks \ {0},
         ~fresh => b = dir[file.extent].ptr[Slot] /\ b # 0
  PROVE  /\ AllEntriesOf(dir', f) = AllEntriesOf(dir, f)
         /\ \A e \in AllEntriesOf(dir, f) : dir'[e] = dir[e]
         /\ \A e \in AllEntriesOf(dir, f), p \in PtrIdx :
              dir[e].ptr[p] \in StorageBlks..(Size - 1)
                => disk'[dir[e].ptr[p]] = disk[dir[e].ptr[p]]
<1> USE DEF IInv
<1>1. /\ file # NoFile /\ file.extent \in Entries /\ Slot \in PtrIdx
      /\ dir'[file.extent].owner = dir[file.extent].owner
      /\ \A y \in Entries \ {file.extent} : dir'[y] = dir[y]
      /\ dir[file.extent].owner = Owner /\ Owner \in Files
  <2>1. file # NoFile
    BY DEF Writing, NoFile
  <2>2. dir[file.extent].owner = Owner /\ Owner \in Files
    BY <2>1 DEF OwnInv
  <2>3. /\ file.extent \in Entries /\ Slot \in PtrIdx
        /\ dir'[file.extent].owner = dir[file.extent].owner
        /\ \A y \in Entries \ {file.extent} : dir'[y] = dir[y]
    BY PassEffect
  <2> QED
    BY <2>1, <2>2, <2>3
<1>2. AllEntriesOf(dir', f) = AllEntriesOf(dir, f)
  BY <1>1 DEF AllEntriesOf
<1>3. \A e \in AllEntriesOf(dir, f) : dir'[e] = dir[e]
  BY <1>1 DEF AllEntriesOf
<1>4. ASSUME NEW e \in AllEntriesOf(dir, f), NEW p \in PtrIdx,
             dir[e].ptr[p] \in StorageBlks..(Size - 1)
      PROVE  disk'[dir[e].ptr[p]] = disk[dir[e].ptr[p]]
  <2> DEFINE y == dir[e].ptr[p]
  <2>1. y \in Blocks \ {0} /\ e \in Live(dir) /\ e # file.extent
    BY <1>1, <1>4, Geometry DEF Blocks, Live, AllEntriesOf
  <2>2. y # b
    <3>1. CASE fresh
      BY <2>1, <3>1 DEF Referenced
    <3>2. CASE ~fresh
      <4> DEFINE s == <<file.extent, Slot>>
                 t == <<e, p>>
      <4>1. s \in Slots /\ t \in Slots /\ s # t
        BY <1>1, <2>1 DEF Slots, Live
      <4>2. y = b => <<s, t>> \in SharedSlots(dir)
        BY <1>1, <2>1, <3>2, <4>1 DEF SharedSlots, Live
      <4> QED
        BY <1>1, <4>1, <4>2 DEF PrivateInv
    <3> QED
      BY <3>1, <3>2
  <2>3. PICK n, k : StoreBlock(b, n, k)
    BY DEF WritePass
  <2> QED
    BY <2>1, <2>2, <2>3 DEF StoreBlock, TypeOK
<1> QED
  BY <1>2, <1>3, <1>4

\* No step changes an entry or a block of a file it is not about.
LEMMA OthersKept ==
  ASSUME IInv, PrivateInv, mounted, mounted', [Next]_vars,
         NEW f \in (Present(dir) \cap Present(dir')) \ BeingWritten
  PROVE  Content(dir', disk', f) = Content(dir, disk, f)
<1> USE DEF IInv
<1>1. /\ f \in Files /\ AllEntriesOf(dir, f) # {} /\ AllEntriesOf(dir', f) # {}
      /\ file # NoFile => f # Owner
      /\ dir \in [Entries -> Entry]
  BY DEF Present, BeingWritten, TypeOK
<1>2. ASSUME AllEntriesOf(dir', f) = AllEntriesOf(dir, f),
             \A e \in AllEntriesOf(dir, f) : dir'[e] = dir[e],
             \A e \in AllEntriesOf(dir, f), p \in PtrIdx :
               dir[e].ptr[p] \in StorageBlks..(Size - 1)
                 => disk'[dir[e].ptr[p]] = disk[dir[e].ptr[p]]
      PROVE  Content(dir', disk', f) = Content(dir, disk, f)
  BY <1>1, <1>2, ContentSame
<1>3. ASSUME NEW e \in FreeEntries(dir), NEW r, r.owner # f, disk' = disk,
             dir' = [dir EXCEPT ![e] = r]
      PROVE  Content(dir', disk', f) = Content(dir, disk, f)
  <2>1. /\ e \in Entries /\ dir[e].owner # f /\ dir'[e].owner # f
        /\ \A x \in Entries \ {e} : dir'[x] = dir[x]
    BY <1>1, <1>3, ConstantsAssumption DEF FreeEntries
  <2>2. AllEntriesOf(dir', f) = AllEntriesOf(dir, f)
        /\ \A x \in AllEntriesOf(dir, f) : dir'[x] = dir[x]
    BY <2>1 DEF AllEntriesOf
  <2> QED
    BY <1>2, <1>3, <2>2
<1>4. ASSUME NEW g \in Files, NEW n \in Lengths, NEW t \in Tags, Creat(g, n, t)
      PROVE  Content(dir', disk', f) = Content(dir, disk, f)
  <2>1. f # g
    BY <1>1, <1>4 DEF Creat
  <2>2. [FreeEntry EXCEPT !.owner = g].owner = g
    BY DEF FreeEntry
  <2> QED
    BY <1>3, <1>4, <2>1, <2>2 DEF Creat
<1>5. CASE FindExtent
  <2>1. file # NoFile /\ file.ino \in Entries /\ dir[file.ino] \in Entry
    BY <1>5, RunningFile DEF FindExtent
  <2>2. \A x : NewExtent(x).owner = Owner
    BY <2>1 DEF NewExtent, Entry, Owner
  <2>3. CASE UNCHANGED <<dir, disk>>
    BY <2>3
  <2>4. ASSUME NEW e \in FreeEntries(dir), NEW x, dir' = [dir EXCEPT ![e] = NewExtent(x)],
               disk' = disk
        PROVE  Content(dir', disk', f) = Content(dir, disk, f)
    BY <1>1, <1>3, <2>1, <2>2, <2>4
  <2> QED
    BY <1>5, <2>3, <2>4 DEF FindExtent, GiveUp
<1>6. CASE WriteBlock
  <2> DEFINE old == dir[file.extent].ptr[Slot]
  <2>1. Writing("block") /\ file # NoFile /\ f # Owner
    BY <1>1, <1>6 DEF WriteBlock, Writing, NoFile
  <2>2. old \in 0..(PtrLimit - 1)
    <3>1. file.extent \in Entries /\ file.pos \in Nat
      BY <2>1, RunningFile
    <3>2. dir[file.extent] \in Entry
      BY <3>1 DEF TypeOK
    <3> QED
      BY <3>1, <3>2, SlotInRange DEF Entry
  <2>3. CASE old # 0 /\ WritePass(old, FALSE)
    BY <1>1, <1>2, <2>1, <2>2, <2>3, PassLeavesOthers
  <2>4. ASSUME NEW b \in FreeBlocks, WritePass(b, TRUE)
        PROVE  Content(dir', disk', f) = Content(dir, disk, f)
    <3>1. b \in Blocks \ {0} /\ b \in 0..(PtrLimit - 1) /\ b \notin Referenced(dir)
      BY FreshBlock
    <3> QED
      BY <1>1, <1>2, <2>1, <2>4, <3>1, PassLeavesOthers
  <2>5. CASE GiveUp
    BY <2>5 DEF GiveUp
  <2> QED
    BY <1>6, <2>3, <2>4, <2>5 DEF WriteBlock
<1>7. ASSUME NEW a \in Attrs, AttrSet(a)
      PROVE  Content(dir', disk', f) = Content(dir, disk, f)
  <2>1. file # NoFile /\ f # Owner
    BY <1>1, <1>7 DEF AttrSet, Writing, NoFile
  <2>2. \A e \in Entries : dir'[e] = IF e \in AttrTargets THEN [dir[e] EXCEPT !.attr = a]
                                   ELSE dir[e]
    BY <1>7 DEF AttrSet
  <2>3. \A e \in Entries : [dir[e] EXCEPT !.attr = a].owner = dir[e].owner
    BY DEF TypeOK, Entry
  <2>4. AllEntriesOf(dir', f) = AllEntriesOf(dir, f)
    BY <2>2, <2>3 DEF AllEntriesOf
  <2>5. \A e \in AllEntriesOf(dir, f) : dir'[e] = dir[e]
    BY <2>1, <2>2 DEF AllEntriesOf, AttrTargets
  <2> QED
    BY <1>2, <1>7, <2>4, <2>5 DEF AttrSet
<1>8. ASSUME NEW g \in Files, Unlink(g)
      PROVE  Content(dir', disk', f) = Content(dir, disk, f)
  <2>1. \A e \in Entries : dir'[e] = IF dir[e].owner = g THEN FreeEntry ELSE dir[e]
    BY <1>8 DEF Unlink
  <2>2. FreeEntry.owner # f
    BY <1>1, ConstantsAssumption DEF FreeEntry
  <2>3. f # g
    BY <1>1, <2>1, <2>2 DEF AllEntriesOf
  <2>4. /\ AllEntriesOf(dir', f) = AllEntriesOf(dir, f)
        /\ \A e \in AllEntriesOf(dir, f) : dir'[e] = dir[e]
    BY <2>1, <2>2, <2>3 DEF AllEntriesOf
  <2> QED
    BY <1>2, <1>8, <2>4 DEF Unlink
<1>9. CASE UNCHANGED <<dir, disk>>
  BY <1>9
<1>10. ~ReadSuper /\ ~Umount /\ ~Discard
  BY DEF ReadSuper, Umount, Discard, FreeSuper
<1> QED
  BY <1>4, <1>5, <1>6, <1>7, <1>8, <1>9, <1>10 DEF Next, RefuseSuper, Close, vars

\* While an image is mounted, no step changes the size or a record of a file
\* except the one it creates, writes or deletes, on a disk of any geometry.
THEOREM OtherFilesUntouched == Spec => OthersUntouched
<1>1. ASSUME IInv, PrivateInv, [Next]_vars
      PROVE  [mounted /\ mounted' =>
                \A f \in (Present(dir) \cap Present(dir')) \ BeingWritten :
                  Content(dir', disk', f) = Content(dir, disk, f)]_vars
  BY <1>1, OthersKept
<1> QED
  BY <1>1, InductiveInvariant, PrivateAlways, PTL DEF Spec, OthersUntouched

------------------------------------------------------------------------------
\* THE FILE BEING WRITTEN

\* Its entries are those of the records written so far, the current entry and
\* extent number those of the next record, and at the end every entry is in use.
WrittenInv ==
  file # NoFile =>
    /\ WrittenEntries(dir, Owner, file.pos)
    /\ file.phase = "block" =>
         /\ Group(dir[file.extent]) = file.pos \div ExtCap
         /\ file.extno = file.pos \div RecsPerExtent
    /\ file.phase = "done" =>
         /\ file.pos = file.total
         /\ file.pos > 0 => AllBegun(dir, Owner, file.pos)

\* Unless the device lost a block, its blocks hold the records written.
DataInv ==
  file # NoFile /\ file.lost = 0 => Holds(dir, disk, Owner, file.pos, file.tag)

\* A file gets the one entry e in addition, one it has no block of yet.
LEMMA EntryAdded ==
  ASSUME WholeExtents, NEW d \in [Entries -> Entry], NEW c \in [Entries -> Entry],
         NEW f, NEW e \in Entries, d[e].owner # f, c[e].owner = f,
         \A y \in Entries \ {e} : c[y] = d[y],
         NEW n \in Nat, WrittenEntries(d, f, n),
         c[e].ptr = NoPtrs, c[e].rc = 0, c[e].extno = n \div RecsPerExtent,
         \A y \in AllEntriesOf(d, f) : Group(d[y]) # n \div ExtCap
  PROVE  /\ WrittenEntries(c, f, n)
         /\ Group(c[e]) = n \div ExtCap
         /\ \A k, t : Holds(d, k, f, n, t) => Holds(c, k, f, n, t)
<1>1. AllEntriesOf(c, f) = AllEntriesOf(d, f) \cup {e} /\ e \notin AllEntriesOf(d, f)
  BY DEF AllEntriesOf
<1>2. \A y \in AllEntriesOf(d, f) : c[y] = d[y]
  BY DEF AllEntriesOf
<1>3. Group(c[e]) = n \div ExtCap
  BY Places DEF Group
<1>4. ~ Begun(c[e], n)
  <2>1. PICK g \in Nat, x \in Nat \ {0} : g = n \div ExtCap /\ x = ExtCap
    BY Places, Capacity
  <2>2. PICK s \in Nat : s = g * x
    OBVIOUS
  <2>3. ASSUME s < n PROVE FALSE
    <3>1. s = g * x + 0 /\ 0 \in 0..(x - 1)
      BY <2>2
    <3>2. s \div x = g
      BY <3>1, DivUnique
    <3>3. s \in 0..(n - 1)
      BY <2>3
    <3>4. PICK y \in AllEntriesOf(d, f) : Group(d[y]) = s \div ExtCap
      BY <3>3 DEF WrittenEntries
    <3> QED BY <2>1, <3>2, <3>4
  <2> QED BY <1>3, <2>1, <2>2, <2>3 DEF Begun
<1>5. WrittenEntry(c[e], n)
  BY <1>4, NewEntryWritten
<1>6. WrittenEntries(c, f, n)
  <2>1. \A y \in AllEntriesOf(c, f) : WrittenEntry(c[y], n)
    BY <1>1, <1>2, <1>5 DEF WrittenEntries
  <2>2. \A y, z \in AllEntriesOf(c, f) : Group(c[y]) = Group(c[z]) => y = z
    BY <1>1, <1>2, <1>3 DEF WrittenEntries
  <2>3. \A r \in 0..(n - 1) : \E y \in AllEntriesOf(c, f) : Group(c[y]) = r \div ExtCap
    BY <1>1, <1>2 DEF WrittenEntries
  <2> QED BY <2>1, <2>2, <2>3 DEF WrittenEntries
<1>7. ASSUME NEW k, NEW t, Holds(d, k, f, n, t) PROVE Holds(c, k, f, n, t)
  <2> SUFFICES ASSUME NEW y \in AllEntriesOf(c, f), NEW p \in PtrIdx,
                      NEW i \in 0..(RecsPerBlock - 1),
                      FileBlock(c[y], p) * RecsPerBlock + i < n
               PROVE  k[c[y].ptr[p]][i] = <<t, FileBlock(c[y], p) * RecsPerBlock + i>>
    BY DEF Holds
  <2>1. CASE y = e
    <3>1. ~ (FileBlock(c[e], p) * RecsPerBlock < n)
      BY <1>4, NotBegun
    <3>2. PICK m \in Nat : m = FileBlock(c[e], p) * RecsPerBlock
      BY GroupBounds
    <3> QED BY <2>1, <3>1, <3>2, Constants
  <2>2. CASE y # e
    <3>1. y \in AllEntriesOf(d, f) /\ c[y] = d[y]
      BY <1>1, <1>2, <2>2
    <3> QED BY <1>7, <3>1 DEF Holds
  <2> QED BY <2>1, <2>2
<1> QED BY <1>3, <1>6, <1>7

LEMMA NothingWritten ==
  ASSUME NEW d, NEW f, AllEntriesOf(d, f) = {}
  PROVE  WrittenEntries(d, f, 0) /\ \A k, t : Holds(d, k, f, 0, t)
<1>1. 0..(0 - 1) = {}
  OBVIOUS
<1> QED BY <1>1 DEF WrittenEntries, Holds

LEMMA CreatWritten ==
  ASSUME WholeExtents, IInv, NEW f \in Files, NEW n \in Lengths, NEW t \in Tags,
         Creat(f, n, t)
  PROVE  WrittenInv' /\ DataInv'
<1>1. PICK e \in FreeEntries(dir) :
        /\ dir' = [dir EXCEPT ![e] = [FreeEntry EXCEPT !.owner = f]]
        /\ file' = [phase |-> IF n = 0 THEN "done" ELSE "extent",
                    ino |-> e, pos |-> 0, total |-> n, extent |-> e,
                    extno |-> 0, tag |-> t, lost |-> 0]
  BY DEF Creat
<1> DEFINE r == [FreeEntry EXCEPT !.owner = f]
<1>2. /\ r \in Entry /\ r.ptr = NoPtrs /\ r.owner = f /\ r.extno = 0 /\ r.rc = 0
      /\ e \in Entries /\ dir[e].owner = Free /\ dir[e].owner # f
  BY FreeEntryType DEF Entry, Owners, FreeEntry, FreeEntries
<1>3. /\ dir \in [Entries -> Entry] /\ dir' \in [Entries -> Entry] /\ dir'[e] = r
      /\ \A x \in Entries \ {e} : dir'[x] = dir[x]
  BY <1>1, <1>2 DEF IInv, TypeOK
<1>4. Owner' = f
  BY <1>1, <1>2, <1>3 DEF Owner
<1>5. AllEntriesOf(dir, f) = {}
  BY DEF Creat
<1>6. 0 \div RecsPerExtent = 0
  <2>1. PICK b \in Nat \ {0} : b = RecsPerExtent
    BY Constants
  <2>2. 0 \in 0..(b - 1)
    OBVIOUS
  <2> QED BY <2>1, <2>2, SmallQuotient
<1>7. WrittenEntries(dir, f, 0) /\ \A k, g : Holds(dir, k, f, 0, g)
  BY <1>5, NothingWritten
<1>8. WrittenEntries(dir', f, 0) /\ \A k, g : Holds(dir', k, f, 0, g)
  <2>1. 0 \in Nat /\ dir'[e].owner = f /\ dir'[e].ptr = NoPtrs /\ dir'[e].rc = 0
        /\ dir'[e].extno = 0 \div RecsPerExtent
    BY <1>2, <1>3, <1>6
  <2>2. \A y \in AllEntriesOf(dir, f) : Group(dir[y]) # 0 \div ExtCap
    BY <1>5
  <2>3. e \in Entries /\ dir[e].owner # f /\ \A y \in Entries \ {e} : dir'[y] = dir[y]
    BY <1>2, <1>3
  <2> HIDE DEF r
  <2>4. PICK d \in [Entries -> Entry], c \in [Entries -> Entry] : d = dir /\ c = dir'
    BY <1>3
  <2>5. /\ d[e].owner # f /\ c[e].owner = f /\ \A y \in Entries \ {e} : c[y] = d[y]
        /\ c[e].ptr = NoPtrs /\ c[e].rc = 0 /\ c[e].extno = 0 \div RecsPerExtent
    BY <2>1, <2>3, <2>4
  <2>6. /\ WrittenEntries(d, f, 0)
        /\ \A y \in AllEntriesOf(d, f) : Group(d[y]) # 0 \div ExtCap
    BY <1>7, <2>2, <2>4
  <2>7. /\ WrittenEntries(c, f, 0)
        /\ \A k, g : Holds(d, k, f, 0, g) => Holds(c, k, f, 0, g)
    BY <2>1, <2>3, <2>5, <2>6, EntryAdded
  <2> QED BY <1>7, <2>4, <2>7
<1>9. WrittenInv'
  <2>1. file'.pos = 0 /\ file'.total = n /\ file'.phase = IF n = 0 THEN "done" ELSE "extent"
    BY <1>1
  <2>2. WrittenEntries(dir', Owner', file'.pos)
    BY <1>4, <1>8, <2>1
  <2> QED BY <2>1, <2>2 DEF WrittenInv
<1>10. DataInv'
  BY <1>1, <1>4, <1>8 DEF DataInv
<1> QED BY <1>9, <1>10

LEMMA FindExtentWritten ==
  ASSUME WholeExtents, IInv, WrittenInv, DataInv, FindExtent
  PROVE  WrittenInv' /\ DataInv'
<1> USE DEF IInv
<1> DEFINE x == file.pos \div RecsPerExtent
           S == EntriesOf(dir, Owner, x)
<1>1. /\ file \in OpenFile /\ file # NoFile /\ file.phase = "extent"
      /\ file.pos \in Nat /\ file.pos < file.total
      /\ WrittenEntries(dir, Owner, file.pos)
      /\ file.lost = 0 => Holds(dir, disk, Owner, file.pos, file.tag)
  <2>1. /\ file \in OpenFile /\ file # NoFile /\ file.phase = "extent"
        /\ file.pos < file.total
    BY DEF FindExtent, Writing, TypeOK, NoFile, OwnInv
  <2>2. file.pos \in Nat
    BY <2>1 DEF OpenFile
  <2> QED BY <2>1, <2>2 DEF WrittenInv, DataInv
<1>2. x \div LogicalExtents = file.pos \div ExtCap /\ x \in Nat
  BY <1>1, Places
<1>3. \A e \in Entries :
        /\ UseExtent(e, x).ino = file.ino /\ UseExtent(e, x).extent = e
        /\ UseExtent(e, x).pos = file.pos /\ UseExtent(e, x).extno = x
        /\ UseExtent(e, x).phase = "block" /\ UseExtent(e, x).tag = file.tag
        /\ UseExtent(e, x).lost = file.lost
  BY <1>1 DEF UseExtent, OpenFile
<1>4. CASE GiveUp
  BY <1>4 DEF GiveUp, WrittenInv, DataInv
<1>5. ASSUME NEW e \in Entries, file' = UseExtent(e, x), Owner' = Owner, disk' = disk,
             Group(dir'[e]) = x \div LogicalExtents,
             WrittenEntries(dir', Owner, file.pos),
             file.lost = 0 => Holds(dir', disk, Owner, file.pos, file.tag)
      PROVE  WrittenInv' /\ DataInv'
  <2>1. /\ file'.pos = file.pos /\ file'.tag = file.tag /\ file'.lost = file.lost
        /\ file'.extent = e /\ file'.extno = x /\ file'.phase = "block"
    BY <1>3, <1>5
  <2>2. WrittenInv'
    BY <1>2, <1>5, <2>1 DEF WrittenInv
  <2>3. DataInv'
    BY <1>5, <2>1 DEF DataInv
  <2> QED BY <2>2, <2>3
<1>6. ASSUME NEW e \in S, file' = UseExtent(e, x), UNCHANGED <<dir, disk>>
      PROVE  WrittenInv' /\ DataInv'
  <2>1. e \in Entries /\ Group(dir[e]) = x \div LogicalExtents
    BY DEF EntriesOf, AllEntriesOf, Group
  <2>2. Owner' = Owner
    BY <1>3, <1>6, <2>1 DEF Owner
  <2> QED BY <1>1, <1>5, <1>6, <2>1, <2>2
<1>7. ASSUME S = {}, NEW e \in FreeEntries(dir), file' = UseExtent(e, x),
             dir' = [dir EXCEPT ![e] = NewExtent(x)], disk' = disk, dir' \in [Entries -> Entry]
      PROVE  WrittenInv' /\ DataInv'
  <2>1. e \in Entries /\ dir[e].owner # Owner /\ file.ino \in Entries
        /\ dir[file.ino] \in Entry /\ dir[file.ino].owner = Owner /\ file.ino # e
    <3>1. Free \notin Files
      BY ConstantsAssumption
    <3> QED BY <1>1, <3>1 DEF FreeEntries, OwnInv, OpenFile, TypeOK, Owner
  <2>2. /\ NewExtent(x).owner = Owner /\ NewExtent(x).ptr = NoPtrs
        /\ NewExtent(x).rc = 0 /\ NewExtent(x).extno = x
    BY <2>1 DEF NewExtent, Entry
  <2>3. /\ dir \in [Entries -> Entry] /\ dir'[e] = NewExtent(x)
        /\ \A y \in Entries \ {e} : dir'[y] = dir[y]
    BY <1>7, <2>1 DEF TypeOK
  <2>4. Owner' = Owner
    BY <1>3, <1>7, <2>1, <2>3 DEF Owner
  <2>5. \A y \in AllEntriesOf(dir, Owner) : Group(dir[y]) # file.pos \div ExtCap
    BY <1>2, <1>7 DEF EntriesOf, Group
  <2>6. /\ dir'[e].owner = Owner /\ dir'[e].ptr = NoPtrs
        /\ dir'[e].rc = 0 /\ dir'[e].extno = file.pos \div RecsPerExtent
    BY <2>2, <2>3
  <2>7. /\ WrittenEntries(dir', Owner, file.pos)
        /\ Group(dir'[e]) = file.pos \div ExtCap
        /\ \A k, t : Holds(dir, k, Owner, file.pos, t) => Holds(dir', k, Owner, file.pos, t)
    <3>1. PICK d \in [Entries -> Entry], c \in [Entries -> Entry], n \in Nat :
            d = dir /\ c = dir' /\ n = file.pos
      BY <1>1, <1>7, <2>3
    <3>2. /\ \A y \in Entries \ {e} : c[y] = d[y]
          /\ \A y \in AllEntriesOf(d, Owner) : Group(d[y]) # n \div ExtCap
          /\ d[e].owner # Owner /\ c[e].owner = Owner /\ c[e].ptr = NoPtrs
          /\ c[e].rc = 0 /\ c[e].extno = n \div RecsPerExtent
          /\ WrittenEntries(d, Owner, n)
      BY <1>1, <2>1, <2>3, <2>5, <2>6, <3>1
    <3>3. /\ WrittenEntries(c, Owner, n)
          /\ Group(c[e]) = n \div ExtCap
          /\ \A k, t : Holds(d, k, Owner, n, t) => Holds(c, k, Owner, n, t)
      BY <2>1, <3>2, EntryAdded
    <3> QED BY <3>1, <3>3
  <2> QED BY <1>1, <1>2, <1>5, <1>7, <2>1, <2>4, <2>7
<1>8. dir' \in [Entries -> Entry]
  BY FindExtentInv DEF TypeOK
<1> QED BY <1>4, <1>6, <1>7, <1>8 DEF FindExtent

------------------------------------------------------------------------------
\* A pass of cpmWrite: it stays in its block, and the extent number it stores is
\* that of the block, for the last pointer of an entry never leads past it.
LEMMA PassNumbers ==
  ASSUME WholeExtents, IInv, WrittenInv, Writing("block"), NEW b \in 0..(PtrLimit - 1),
         NEW fresh \in BOOLEAN, WritePass(b, fresh)
  PROVE  \E n \in 1..MaxRecs, k \in 0..RecsPerBlock :
           /\ Within(file.pos, n) /\ n <= file.total
           /\ dir'[file.extent].extno = file.pos \div RecsPerExtent
           /\ dir'[file.extent].rc = RecordCount(n)
           /\ StoreBlock(b, Filled(b, fresh, n), k)
           /\ file'.pos = n /\ file'.total = file.total /\ file'.tag = file.tag
           /\ file'.extno = file.pos \div RecsPerExtent
           /\ file'.phase = NextPhase(n)
           /\ file'.lost = IF k < RecsPerBlock THEN file.lost + 1 ELSE file.lost
<1> USE DEF IInv
<1> DEFINE ptr == [dir[file.extent].ptr EXCEPT ![Slot] = b]
<1>1. /\ file \in OpenFile /\ file # NoFile /\ file.extent \in Entries
      /\ file.pos \in 0..MaxRecs /\ file.total \in 0..MaxRecs /\ file.pos < file.total
      /\ dir \in [Entries -> Entry] /\ dir[file.extent] \in Entry
      /\ file.extno = file.pos \div RecsPerExtent
  <2>1. file \in OpenFile /\ file # NoFile /\ file.phase = "block"
    BY DEF Writing, TypeOK, NoFile
  <2>2. file.extno = file.pos \div RecsPerExtent /\ file.pos < file.total
    BY <2>1 DEF WrittenInv, OwnInv
  <2> QED BY <2>1, <2>2 DEF TypeOK, OpenFile
<1>2. PICK n \in 1..MaxRecs, q \in PtrIdx, k \in 0..RecsPerBlock :
        LET x == file.extno + ((q * RecsPerBlock) \div ExtCap)
        IN  /\ PassEnd(n)
            /\ StoreBlock(b, Filled(b, fresh, n), k)
            /\ dir' = [dir EXCEPT ![file.extent].ptr = ptr,
                                  ![file.extent].extno = x % ExtnoLimit,
                                  ![file.extent].rc = RecordCount(n)]
            /\ file' = [file EXCEPT !.pos = n, !.extno = x, !.phase = NextPhase(n),
                                    !.lost = IF k < RecsPerBlock THEN file.lost + 1
                                             ELSE file.lost]
  BY DEF WritePass
<1>3. (q * RecsPerBlock) \div ExtCap = 0
  <2>1. PICK r \in Nat \ {0}, p \in Nat \ {0}, c \in Nat \ {0} :
          r = RecsPerBlock /\ p = Ptrs /\ c = ExtCap /\ c = r * p
    <3>1. PICK r \in Nat \ {0}, p \in Nat \ {0} : r = RecsPerBlock /\ p = Ptrs
      BY Constants
    <3>2. ExtCap = r * p
      BY <3>1, Layout
    <3> QED BY <3>1, <3>2, Capacity
  <2>2. q \in Nat /\ q + 1 <= p
    BY <2>1 DEF PtrIdx
  <2>3. (q + 1) * r <= p * r /\ (q + 1) * r = q * r + r /\ p * r = c
    BY <2>1, <2>2, TimesMonotone
  <2>4. PICK m \in Nat : m = q * r
    BY <2>2
  <2>5. m \in 0..(c - 1)
    <3>1. PICK a \in Nat : a = (q + 1) * r /\ a <= c /\ a = m + r
      BY <2>3, <2>4
    <3>2. m + 1 <= c
      BY <3>1
    <3> QED BY <3>2
  <2>6. m \div c = 0
    BY <2>5, SmallQuotient
  <2> QED BY <2>1, <2>4, <2>6
<1>4. PICK x \in 0..(ExtnoLimit - 1) : x = file.pos \div RecsPerExtent
  BY <1>1, ExtentInRange
<1>5. x % ExtnoLimit = x /\ file.extno + ((q * RecsPerBlock) \div ExtCap) = x
  <2>1. PICK l \in Nat \ {0} : l = ExtnoLimit
    BY Constants
  <2>2. x \in 0..(l - 1)
    BY <2>1
  <2>3. x % l = x
    BY <2>2, SmallQuotient
  <2> QED BY <1>1, <1>3, <1>4, <2>1, <2>2, <2>3
<1> HIDE DEF ptr
<1>6. /\ dir' = [dir EXCEPT ![file.extent].ptr = ptr, ![file.extent].extno = x,
                            ![file.extent].rc = RecordCount(n)]
      /\ file' = [file EXCEPT !.pos = n, !.extno = x, !.phase = NextPhase(n),
                              !.lost = IF k < RecsPerBlock THEN file.lost + 1
                                       ELSE file.lost]
  BY <1>2, <1>5
<1>7. dir'[file.extent].extno = x /\ dir'[file.extent].rc = RecordCount(n)
  BY <1>1, <1>6 DEF Entry
<1>8. /\ file'.pos = n /\ file'.total = file.total /\ file'.tag = file.tag
      /\ file'.extno = x /\ file'.phase = NextPhase(n)
      /\ file'.lost = IF k < RecsPerBlock THEN file.lost + 1 ELSE file.lost
  BY <1>1, <1>6 DEF OpenFile
<1>9. Within(file.pos, n) /\ n <= file.total
  <2>1. PICK p \in Nat, t \in Nat, r \in Nat \ {0}, c \in Nat \ {0} :
          p = file.pos /\ t = file.total /\ p < t /\ r = RecsPerBlock /\ c = Chunk
    BY <1>1, Constants, ClientAssumption
  <2>2. n \in {BlockEnd, CallEnd, file.total}
        /\ \A m \in {BlockEnd, CallEnd, file.total} : n <= m
    BY <1>2 DEF PassEnd, IsLeast
  <2>3. n <= BlockEnd /\ n <= file.total
    BY <2>2
  <2>4. BlockEnd = (p \div r + 1) * r /\ CallEnd = (p \div c + 1) * c
    BY <2>1 DEF BlockEnd, CallEnd
  <2>5. p < (p \div r + 1) * r /\ p < (p \div c + 1) * c
    BY PlaceEnd
  <2>6. p < n
    BY <2>1, <2>2, <2>4, <2>5
  <2> QED BY <1>2, <2>1, <2>3, <2>6 DEF Within, BlockEnd
<1> QED BY <1>2, <1>4, <1>7, <1>8, <1>9

\* What a pass does to the entries of file f: entry e gets block b in pointer z,
\* and n records are written after it.
FilePassed(d, c, f, e, pos, n, z, b) ==
  /\ e \in AllEntriesOf(d, f) /\ c[e].owner = f /\ \A y \in Entries \ {e} : c[y] = d[y]
  /\ Within(pos, n) /\ WrittenEntries(d, f, pos) /\ EntryPassed(d[e], c[e], pos, n, z, b)

LEMMA PassEntries ==
  ASSUME WholeExtents, NEW d \in [Entries -> Entry], NEW c \in [Entries -> Entry],
         NEW f, NEW e, NEW pos, NEW n, NEW z, NEW b, FilePassed(d, c, f, e, pos, n, z, b)
  PROVE  /\ WrittenEntries(c, f, n) /\ AllBegun(c, f, n)
         /\ Group(c[e]) = pos \div ExtCap
         /\ AllEntriesOf(c, f) = AllEntriesOf(d, f)
<1>0. /\ e \in AllEntriesOf(d, f) /\ c[e].owner = f /\ \A y \in Entries \ {e} : c[y] = d[y]
      /\ Within(pos, n) /\ WrittenEntries(d, f, pos)
      /\ EntryPassed(d[e], c[e], pos, n, z, b)
      /\ Group(d[e]) = pos \div ExtCap
  BY DEF FilePassed, EntryPassed
<1>1. AllEntriesOf(c, f) = AllEntriesOf(d, f) /\ e \in Entries
  BY <1>0 DEF AllEntriesOf
<1>2. pos \in Nat /\ n \in Nat /\ pos < n
  BY <1>0 DEF Within
<1>3. \A y \in AllEntriesOf(d, f) : d[y] \in Entry /\ c[y] \in Entry /\ y \in Entries
  BY DEF AllEntriesOf
<1>4. /\ WrittenEntry(c[e], n) /\ Begun(c[e], n)
      /\ Group(c[e]) = Group(d[e])
  <2>1. PICK x \in Entry, w \in Entry : x = d[e] /\ w = c[e]
    BY <1>0, <1>3
  <2>2. EntryPassed(x, w, pos, n, z, b) /\ Within(pos, n)
    BY <1>0, <2>1
  <2>3. WrittenEntry(w, n) /\ Begun(w, n) /\ Group(w) = Group(x)
    BY <2>2, ThisEntryWritten
  <2> QED BY <2>1, <2>3
<1>5. ASSUME NEW y \in AllEntriesOf(d, f), y # e
      PROVE  c[y] = d[y] /\ WrittenEntry(c[y], n) /\ Begun(c[y], n)
  <2>1. c[y] = d[y] /\ d[y] \in Entry
    BY <1>0, <1>3, <1>5
  <2>2. Group(d[y]) # pos \div ExtCap /\ WrittenEntry(d[y], pos)
    BY <1>0, <1>5 DEF WrittenEntries
  <2> QED BY <1>0, <2>1, <2>2, OtherEntryWritten
<1>6. \A y \in AllEntriesOf(d, f) : Group(c[y]) = Group(d[y])
  BY <1>4, <1>5
<1>7. \A y \in AllEntriesOf(c, f) : WrittenEntry(c[y], n) /\ Begun(c[y], n)
  BY <1>1, <1>4, <1>5
<1>8. \A y, v \in AllEntriesOf(c, f) : Group(c[y]) = Group(c[v]) => y = v
  BY <1>0, <1>1, <1>6 DEF WrittenEntries
<1>9. ASSUME NEW r \in 0..(n - 1)
      PROVE  \E y \in AllEntriesOf(c, f) : Group(c[y]) = r \div ExtCap
  <2>1. r \in Nat
    OBVIOUS
  <2>2. CASE r \in 0..(pos - 1)
    BY <1>0, <1>1, <1>6, <2>2 DEF WrittenEntries
  <2>3. CASE r \in pos..(n - 1)
    <3>1. r \div RecsPerBlock = pos \div RecsPerBlock
      BY <1>0, <2>3, SameBlock
    <3>2. r \div ExtCap = (r \div RecsPerBlock) \div Ptrs
          /\ pos \div ExtCap = (pos \div RecsPerBlock) \div Ptrs
      BY <1>2, <2>1, Places
    <3> QED BY <1>0, <1>1, <1>4, <3>1, <3>2
  <2> QED BY <1>2, <2>2, <2>3
<1> QED BY <1>0, <1>1, <1>4, <1>7, <1>8, <1>9 DEF WrittenEntries, AllBegun

\* What it does to their blocks: block b gets the records from pos up to n and
\* keeps the others it had, and no other pointer of the file names it.
BlocksPassed(d, c, f, e, pos, n, z, b, k, m, t) ==
  /\ \A y \in AllEntriesOf(c, f), p \in PtrIdx :
       <<y, p>> # <<e, z>> /\ c[y].ptr[p] # 0 => m[c[y].ptr[p]] = k[c[y].ptr[p]]
  /\ \A u \in Nat, i \in 0..(RecsPerBlock - 1) : u = pos \div RecsPerBlock =>
       /\ u * RecsPerBlock + i \in pos..(n - 1) => m[b][i] = <<t, u * RecsPerBlock + i>>
       /\ u * RecsPerBlock + i < pos /\ d[e].ptr[z] # 0 =>
            b = d[e].ptr[z] /\ m[b][i] = k[b][i]

LEMMA PassData ==
  ASSUME WholeExtents, NEW d \in [Entries -> Entry], NEW c \in [Entries -> Entry],
         NEW f, NEW e, NEW pos, NEW n, NEW z, NEW b, FilePassed(d, c, f, e, pos, n, z, b),
         NEW k, NEW m, NEW t, Holds(d, k, f, pos, t),
         BlocksPassed(d, c, f, e, pos, n, z, b, k, m, t)
  PROVE  Holds(c, m, f, n, t)
<1>1. /\ WrittenEntries(c, f, n) /\ Group(c[e]) = pos \div ExtCap
      /\ AllEntriesOf(c, f) = AllEntriesOf(d, f)
  BY PassEntries
<1>2. /\ e \in AllEntriesOf(d, f) /\ \A y \in Entries \ {e} : c[y] = d[y]
      /\ Within(pos, n) /\ WrittenEntries(d, f, pos)
      /\ Group(d[e]) = pos \div ExtCap /\ z = (pos % ExtCap) \div RecsPerBlock
      /\ c[e].ptr = [d[e].ptr EXCEPT ![z] = b]
  BY DEF FilePassed, EntryPassed
<1>3. PICK u \in Nat : u = pos \div RecsPerBlock
  BY <1>2, Places DEF Within
<1>4. \A i \in 0..(RecsPerBlock - 1) :
        /\ u * RecsPerBlock + i \in pos..(n - 1) => m[b][i] = <<t, u * RecsPerBlock + i>>
        /\ u * RecsPerBlock + i < pos /\ d[e].ptr[z] # 0 =>
             b = d[e].ptr[z] /\ m[b][i] = k[b][i]
  BY <1>3 DEF BlocksPassed
<1>5. \A y \in AllEntriesOf(c, f), p \in PtrIdx :
        <<y, p>> # <<e, z>> /\ c[y].ptr[p] # 0 => m[c[y].ptr[p]] = k[c[y].ptr[p]]
  BY DEF BlocksPassed
<1>owned. e \in AllEntriesOf(d, f)
  BY <1>2
<1>held. \A q \in PtrIdx, i \in 0..(RecsPerBlock - 1) :
        FileBlock(d[e], q) * RecsPerBlock + i < pos =>
          k[d[e].ptr[q]][i] = <<t, FileBlock(d[e], q) * RecsPerBlock + i>>
  BY <1>owned DEF Holds
<1> USE <1>1, <1>2, <1>3, <1>4, <1>5
<1> SUFFICES ASSUME NEW y \in AllEntriesOf(c, f), NEW p \in PtrIdx,
                    NEW i \in 0..(RecsPerBlock - 1),
                    FileBlock(c[y], p) * RecsPerBlock + i < n
             PROVE  m[c[y].ptr[p]][i] = <<t, FileBlock(c[y], p) * RecsPerBlock + i>>
  BY DEF Holds
<1>6. /\ pos \in Nat /\ n \in Nat /\ pos < n /\ y \in Entries /\ e \in Entries
      /\ c[y] \in Entry /\ d[y] \in Entry /\ d[e] \in Entry /\ c[e] \in Entry
  BY DEF Within, AllEntriesOf
<1>7. z \in PtrIdx /\ FileBlock(c[e], z) = u /\ FileBlock(d[e], z) = u
  BY <1>6, PointerOf
<1>8. d[e].ptr \in [PtrIdx -> 0..(PtrLimit - 1)]
  BY <1>6 DEF Entry
<1>9. Group(c[y]) = Group(d[y]) /\ FileBlock(c[y], p) = FileBlock(d[y], p)
  <2>1. Group(c[y]) = Group(d[y])
    BY <1>6
  <2> QED BY <2>1 DEF FileBlock
<1>10. PICK v \in Nat, s \in Nat, r \in Nat \ {0} :
        v = FileBlock(c[y], p) /\ r = RecsPerBlock /\ s = v * r /\ s + i \in Nat
  <2>1. PICK v \in Nat : v = FileBlock(c[y], p)
    BY <1>6, FileBlockOf
  <2>2. PICK r \in Nat \ {0} : r = RecsPerBlock
    BY Constants
  <2>3. PICK s \in Nat : s = v * r
    OBVIOUS
  <2> QED BY <2>1, <2>2, <2>3
<1>11. CASE v = u
  <2>1. y = e /\ p = z
    <3>1. v \div Ptrs = Group(c[y]) /\ u \div Ptrs = Group(c[e])
          /\ v % Ptrs = p /\ u % Ptrs = z
      BY <1>6, <1>7, <1>10, FileBlockOf
    <3> QED BY <1>11, <3>1 DEF WrittenEntries
  <2>2. c[y].ptr[p] = b
    BY <1>7, <1>8, <2>1
  <2>3. s + i < n /\ u * RecsPerBlock = s
    BY <1>10, <1>11
  <2>4. CASE s + i >= pos
    <3>1. s + i \in pos..(n - 1)
      BY <1>6, <1>10, <2>3, <2>4
    <3> QED BY <1>10, <1>11, <2>2, <2>3, <3>1
  <2>5. CASE s + i < pos
    <3>1. s < pos
      BY <1>6, <1>10, <2>5
    <3>2. WrittenEntry(d[e], pos)
      BY DEF WrittenEntries
    <3>3. d[e].ptr[z] # 0
      BY <1>7, <2>3, <3>1, <3>2 DEF WrittenEntry
    <3>4. b = d[e].ptr[z] /\ m[b][i] = k[b][i]
      BY <2>3, <2>5, <3>3
    <3>5. k[d[e].ptr[z]][i] = <<t, s + i>>
      <4>1. FileBlock(d[e], z) * RecsPerBlock + i = s + i
        BY <1>7, <2>3
      <4>2. FileBlock(d[e], z) * RecsPerBlock + i < pos
        BY <2>5, <4>1
      <4>3. k[d[e].ptr[z]][i] = <<t, FileBlock(d[e], z) * RecsPerBlock + i>>
        BY <1>7, <4>2, <1>held
      <4> QED BY <4>1, <4>3
    <3>6. FileBlock(c[y], p) * RecsPerBlock + i = s + i
      BY <1>10
    <3>7. m[c[y].ptr[p]][i] = <<t, s + i>>
      BY <2>2, <3>4, <3>5, Zenon
    <3> QED BY <3>6, <3>7, Zenon
  <2> QED BY <1>6, <1>10, <2>4, <2>5
<1>12. CASE v # u
  <2>1. s + i < pos
    BY <1>6, <1>10, <1>12, OtherBlock
  <2>2. <<y, p>> # <<e, z>>
    BY <1>7, <1>10, <1>12
  <2>3. c[y].ptr[p] = d[y].ptr[p]
    <3>1. CASE y = e
      BY <1>7, <1>8, <2>2, <3>1
    <3>2. CASE y # e
      BY <1>6, <3>2
    <3> QED BY <3>1, <3>2
  <2>4. c[y].ptr[p] # 0
    <3>1. s < n
      BY <1>6, <1>10, <2>1
    <3>2. WrittenEntry(c[y], n)
      BY DEF WrittenEntries
    <3> QED BY <1>10, <3>1, <3>2 DEF WrittenEntry
  <2>5. m[c[y].ptr[p]] = k[d[y].ptr[p]]
    BY <2>2, <2>3, <2>4
  <2>6. k[d[y].ptr[p]][i] = <<t, s + i>>
    <3>1. FileBlock(d[y], p) * RecsPerBlock + i = s + i
      BY <1>9, <1>10
    <3>2. y \in AllEntriesOf(d, f)
      OBVIOUS
    <3>3. FileBlock(d[y], p) * RecsPerBlock + i < pos
      BY <2>1, <3>1
    <3>4. k[d[y].ptr[p]][i] = <<t, FileBlock(d[y], p) * RecsPerBlock + i>>
      BY <3>2, <3>3 DEF Holds
    <3> QED BY <3>1, <3>4
  <2> QED BY <1>10, <2>5, <2>6
<1> QED BY <1>11, <1>12

LEMMA PassWritten ==
  ASSUME WholeExtents, SmallCalls, IInv, IInv', WrittenInv, DataInv, PrivateInv',
         Writing("block"), NEW b \in 0..(PtrLimit - 1), b # 0, NEW fresh \in BOOLEAN,
         WritePass(b, fresh),
         dir[file.extent].ptr[Slot] = IF fresh THEN 0 ELSE b
  PROVE  WrittenInv' /\ DataInv'
<1> USE DEF IInv
<1>1. /\ file \in OpenFile /\ file # NoFile /\ file.phase = "block"
      /\ file.pos \in Nat /\ file.lost \in Nat /\ disk \in [Blocks -> [0..(RecsPerBlock - 1) -> Data]]
      /\ dir \in [Entries -> Entry] /\ mounted
      /\ Group(dir[file.extent]) = file.pos \div ExtCap
      /\ WrittenEntries(dir, Owner, file.pos)
      /\ file.lost = 0 => Holds(dir, disk, Owner, file.pos, file.tag)
      /\ dir[file.extent].owner = Owner /\ Owner \in Files /\ file.ino \in Entries
  <2>1. file \in OpenFile /\ file # NoFile /\ file.phase = "block"
    BY DEF Writing, TypeOK, NoFile
  <2>2. file.pos \in Nat /\ file.lost \in Nat /\ file.ino \in Entries
    BY <2>1 DEF OpenFile
  <2> QED BY <2>1, <2>2 DEF TypeOK, WrittenInv, DataInv, OwnInv
<1>2. /\ file.extent \in Entries /\ Slot \in PtrIdx
      /\ dir' \in [Entries -> Entry]
      /\ dir'[file.extent].owner = dir[file.extent].owner
      /\ dir'[file.extent].ptr = [dir[file.extent].ptr EXCEPT ![Slot] = b]
      /\ \A y \in Entries \ {file.extent} : dir'[y] = dir[y]
      /\ file'.ino = file.ino /\ file'.extent = file.extent
      /\ file' \in OpenFile /\ mounted' = mounted
  BY PassEffect
<1>3. file' # NoFile
  BY <1>2 DEF NoFile, OpenFile
<1>4. PICK n \in 1..MaxRecs, j \in 0..RecsPerBlock :
        /\ Within(file.pos, n) /\ n <= file.total
        /\ dir'[file.extent].extno = file.pos \div RecsPerExtent
        /\ dir'[file.extent].rc = RecordCount(n)
        /\ StoreBlock(b, Filled(b, fresh, n), j)
        /\ file'.pos = n /\ file'.total = file.total /\ file'.tag = file.tag
        /\ file'.extno = file.pos \div RecsPerExtent
        /\ file'.phase = NextPhase(n)
        /\ file'.lost = IF j < RecsPerBlock THEN file.lost + 1 ELSE file.lost
  BY PassNumbers
<1>5. Owner' = Owner
  BY <1>1, <1>2 DEF Owner
<1>6. file.extent \in AllEntriesOf(dir, Owner)
  BY <1>1, <1>2 DEF AllEntriesOf
<1>7. /\ FilePassed(dir, dir', Owner, file.extent, file.pos, n, Slot, b)
      /\ WrittenEntries(dir', Owner, n) /\ AllBegun(dir', Owner, n)
      /\ Group(dir'[file.extent]) = file.pos \div ExtCap
      /\ AllEntriesOf(dir', Owner) = AllEntriesOf(dir, Owner)
  <2>0. PICK z : z = Slot
    OBVIOUS
  <2>1. PICK d \in [Entries -> Entry], c \in [Entries -> Entry], e \in Entries, pos \in Nat :
          d = dir /\ c = dir' /\ e = file.extent /\ pos = file.pos /\ z = Slot
    BY <1>1, <1>2, <2>0
  <2>2. WrittenEntry(d[e], pos)
    BY <1>1, <1>6, <2>1 DEF WrittenEntries
  <2>3. z = (pos % ExtCap) \div RecsPerBlock
    BY <2>1 DEF Slot
  <2>4. /\ Group(d[e]) = pos \div ExtCap /\ c[e].ptr = [d[e].ptr EXCEPT ![z] = b]
        /\ c[e].extno = pos \div RecsPerExtent /\ c[e].rc = RecordCount(n)
    BY <1>1, <1>2, <1>4, <2>1
  <2>5. EntryPassed(d[e], c[e], pos, n, z, b)
    BY <2>2, <2>3, <2>4 DEF EntryPassed
  <2>6. /\ e \in AllEntriesOf(d, Owner) /\ c[e].owner = Owner
        /\ \A y \in Entries \ {e} : c[y] = d[y]
        /\ Within(pos, n) /\ WrittenEntries(d, Owner, pos)
    BY <1>1, <1>2, <1>4, <1>6, <2>1
  <2>7. FilePassed(d, c, Owner, e, pos, n, z, b)
    BY <2>5, <2>6 DEF FilePassed
  <2>8. /\ WrittenEntries(c, Owner, n) /\ AllBegun(c, Owner, n)
        /\ Group(c[e]) = pos \div ExtCap
        /\ AllEntriesOf(c, Owner) = AllEntriesOf(d, Owner)
    BY <2>7, PassEntries
  <2> QED BY <2>1, <2>7, <2>8
<1>8. WrittenInv'
  <2>1. PICK m \in Nat : n = m + 1 /\ m \in file.pos..(n - 1)
    <3>1. PICK p \in Nat, l \in Nat : p = file.pos /\ l = n /\ p < l
      BY <1>4 DEF Within
    <3>2. l - 1 \in Nat /\ l - 1 \in p..(l - 1) /\ l = (l - 1) + 1
      BY <3>1
    <3> QED BY <3>1, <3>2
  <2>2. m \div RecsPerBlock = file.pos \div RecsPerBlock
    BY <1>4, <2>1, SameBlock
  <2>3. m \div ExtCap = file.pos \div ExtCap
    <3>1. m \div ExtCap = (m \div RecsPerBlock) \div Ptrs
          /\ file.pos \div ExtCap = (file.pos \div RecsPerBlock) \div Ptrs
      BY <1>1, Places
    <3> QED BY <2>2, <3>1
  <2>4. m \div RecsPerExtent = file.pos \div RecsPerExtent
    <3>1. m \div RecsPerExtent = (m \div RecsPerBlock) \div BlocksPerExtent
          /\ file.pos \div RecsPerExtent = (file.pos \div RecsPerBlock) \div BlocksPerExtent
      BY <1>1, Places
    <3> QED BY <2>2, <3>1
  <2>5. file'.phase = "block" =>
          /\ Group(dir'[file'.extent]) = file'.pos \div ExtCap
          /\ file'.extno = file'.pos \div RecsPerExtent
    <3> SUFFICES ASSUME file'.phase = "block"
                 PROVE  n \div ExtCap = m \div ExtCap
                        /\ n \div RecsPerExtent = m \div RecsPerExtent
      BY <1>2, <1>4, <1>7, <2>3, <2>4
    <3>1. n % ExtCap # 0 /\ n % Chunk # 0
      BY <1>4 DEF NextPhase
    <3>2. n % RecsPerExtent # 0
      BY <3>1, InsideExtent
    <3>3. n \div ExtCap = m \div ExtCap
      BY <2>1, <3>1, NextSame, Capacity
    <3>4. n \div RecsPerExtent = m \div RecsPerExtent
      BY <2>1, <3>2, NextSame, Constants
    <3> QED BY <3>3, <3>4
  <2>6. file'.phase = "done" => file'.pos = file'.total
    BY <1>4 DEF NextPhase
  <2> QED BY <1>4, <1>5, <1>7, <2>5, <2>6 DEF WrittenInv
<1>9. DataInv'
  <2> SUFFICES ASSUME file'.lost = 0
               PROVE  Holds(dir', disk', Owner, n, file.tag)
    BY <1>4, <1>5 DEF DataInv
  <2>1. j = RecsPerBlock /\ file.lost = 0
    <3>1. PICK l \in Nat, r \in Nat : l = file.lost /\ r = RecsPerBlock
      BY <1>1, Constants
    <3>2. 0 = IF j < r THEN l + 1 ELSE l
      BY <1>4, <3>1
    <3> QED BY <3>1, <3>2
  <2>2. b \in Blocks
    <3>1. dir[file.extent].ptr \in [PtrIdx -> 0..(PtrLimit - 1)]
      BY <1>1, <1>2 DEF Entry
    <3>2. dir'[file.extent].ptr[Slot] = b
      BY <1>2, <3>1
    <3>3. file.extent \in AllEntriesOf(dir', Owner')
      BY <1>5, <1>6, <1>7
    <3>4. b \in ReservedBlks..(Size - 1)
      BY <1>2, <1>3, <3>2, <3>3 DEF OwnInv
    <3> QED BY <3>4, Geometry DEF Blocks
  <2>3. PICK u \in Nat : u = file.pos \div RecsPerBlock
                         /\ u * RecsPerBlock = file.pos - (file.pos % RecsPerBlock)
    BY <1>1, Places, BlockBase
  <2>4. /\ \A i \in 0..(RecsPerBlock - 1) :
             disk'[b][i] = IF u * RecsPerBlock + i \in file.pos..(n - 1)
                           THEN <<file.tag, u * RecsPerBlock + i>>
                           ELSE IF fresh THEN Zero ELSE disk[b][i]
        /\ \A y \in Blocks \ {b} : disk'[y] = disk[y]
    <3>1. disk' = [disk EXCEPT ![b] =
                     [i \in 0..(RecsPerBlock - 1) |->
                        IF i < j THEN Filled(b, fresh, n)[i] ELSE disk[b][i]]]
      BY <1>4 DEF StoreBlock
    <3>2. \A i \in 0..(RecsPerBlock - 1) : disk'[b][i] = Filled(b, fresh, n)[i]
      BY <1>1, <2>1, <2>2, <3>1, Constants
    <3>3. \A y \in Blocks \ {b} : disk'[y] = disk[y]
      BY <1>1, <3>1
    <3> QED BY <2>3, <3>2, <3>3 DEF Filled
  <2>5. ASSUME NEW y \in AllEntriesOf(dir', Owner), NEW p \in PtrIdx,
               <<y, p>> # <<file.extent, Slot>>, dir'[y].ptr[p] # 0
        PROVE  disk'[dir'[y].ptr[p]] = disk[dir'[y].ptr[p]]
    <3>1. dir'[y].ptr[p] \in ReservedBlks..(Size - 1)
      BY <1>2, <1>3, <1>5, <2>5 DEF OwnInv
    <3>2. dir'[y].ptr[p] \in Blocks
      BY <3>1, Geometry DEF Blocks
    <3>3. dir'[y].ptr[p] # b
      <4> DEFINE s == <<y, p>>
                 t == <<file.extent, Slot>>
      <4>1. s \in Slots /\ t \in Slots /\ y \in Live(dir') /\ file.extent \in Live(dir')
            /\ dir'[y].owner = Owner
        BY <1>1, <1>2 DEF Slots, AllEntriesOf, Live
      <4>2. dir'[file.extent].ptr[Slot] = b
        <5>1. dir[file.extent].ptr \in [PtrIdx -> 0..(PtrLimit - 1)]
          BY <1>1, <1>2 DEF Entry
        <5> QED BY <1>2, <5>1
      <4>3. dir'[y].ptr[p] = b => <<s, t>> \in SharedSlots(dir')
        BY <2>5, <4>1, <4>2 DEF SharedSlots
      <4> QED BY <1>3, <1>5, <4>1, <4>3 DEF PrivateInv
    <3> QED BY <2>4, <3>2, <3>3
  <2>6. \A i \in 0..(RecsPerBlock - 1) :
          u * RecsPerBlock + i < file.pos /\ dir[file.extent].ptr[Slot] # 0 =>
            b = dir[file.extent].ptr[Slot] /\ disk'[b][i] = disk[b][i]
    <3> SUFFICES ASSUME NEW i \in 0..(RecsPerBlock - 1), u * RecsPerBlock + i < file.pos,
                        dir[file.extent].ptr[Slot] # 0
                 PROVE  b = dir[file.extent].ptr[Slot] /\ disk'[b][i] = disk[b][i]
      OBVIOUS
    <3>1. ~fresh /\ b = dir[file.extent].ptr[Slot]
      OBVIOUS
    <3>2. PICK s \in Int : s = u * RecsPerBlock + i
      BY Constants
    <3>3. u * RecsPerBlock + i \notin file.pos..(n - 1)
      <4>1. s < file.pos
        BY <3>2
      <4>2. s \notin file.pos..(n - 1)
        <5>1. PICK p \in Nat : p = file.pos
          BY <1>1
        <5>2. s < p
          BY <4>1, <5>1
        <5> QED BY <5>1, <5>2
      <4> QED BY <3>2, <4>2
    <3> QED BY <2>4, <3>1, <3>3
  <2>7. BlocksPassed(dir, dir', Owner, file.extent, file.pos, n, Slot, b,
                     disk, disk', file.tag)
    <3>1. ASSUME NEW v \in Nat, NEW i \in 0..(RecsPerBlock - 1), v = file.pos \div RecsPerBlock
          PROVE  /\ v * RecsPerBlock + i \in file.pos..(n - 1) =>
                      disk'[b][i] = <<file.tag, v * RecsPerBlock + i>>
                 /\ v * RecsPerBlock + i < file.pos /\ dir[file.extent].ptr[Slot] # 0 =>
                      b = dir[file.extent].ptr[Slot] /\ disk'[b][i] = disk[b][i]
      BY <2>3, <2>4, <2>6, <3>1
    <3> QED BY <2>5, <3>1 DEF BlocksPassed
  <2>8. Holds(dir, disk, Owner, file.pos, file.tag)
    BY <1>1, <2>1
  <2>9. PICK e, pos, z, k, m, t :
          /\ e = file.extent /\ pos = file.pos /\ z = Slot
          /\ k = disk /\ m = disk' /\ t = file.tag
    OBVIOUS
  <2>10. PICK d \in [Entries -> Entry], c \in [Entries -> Entry] : d = dir /\ c = dir'
    BY <1>1, <1>2
  <2>11. /\ FilePassed(d, c, Owner, e, pos, n, z, b) /\ Holds(d, k, Owner, pos, t)
         /\ BlocksPassed(d, c, Owner, e, pos, n, z, b, k, m, t)
    BY <1>7, <2>7, <2>8, <2>9, <2>10
  <2>12. Holds(c, m, Owner, n, t)
    BY <2>11, PassData
  <2> QED BY <2>9, <2>10, <2>12
<1> QED BY <1>8, <1>9

LEMMA WriteBlockWritten ==
  ASSUME WholeExtents, SmallCalls, IInv, IInv', WrittenInv, DataInv, PrivateInv', WriteBlock
  PROVE  WrittenInv' /\ DataInv'
<1> DEFINE old == dir[file.extent].ptr[Slot]
<1>1. Writing("block") /\ old \in 0..(PtrLimit - 1)
  <2>1. Writing("block") /\ file.extent \in Entries /\ file.pos \in Nat
    <3>1. Writing("block")
      BY DEF WriteBlock
    <3>2. file \in OpenFile
      BY <3>1 DEF Writing, IInv, TypeOK, NoFile
    <3> QED BY <3>1, <3>2 DEF OpenFile
  <2>2. dir[file.extent] \in Entry
    BY <2>1 DEF IInv, TypeOK
  <2> QED BY <2>1, <2>2, SlotInRange DEF Entry
<1>2. CASE old # 0 /\ WritePass(old, FALSE)
  <2>1. PICK b \in 0..(PtrLimit - 1) : b = old
    BY <1>1
  <2>2. b # 0 /\ WritePass(b, FALSE) /\ old = IF FALSE THEN 0 ELSE b
    BY <1>2, <2>1
  <2> QED BY <1>1, <2>2, PassWritten
<1>3. ASSUME old = 0, NEW b \in FreeBlocks, WritePass(b, TRUE)
      PROVE  WrittenInv' /\ DataInv'
  <2>1. b \in Blocks \ {0} /\ b \in 0..(PtrLimit - 1)
    BY <1>1, FreshBlock DEF Writing, IInv
  <2>2. old = IF TRUE THEN 0 ELSE b
    BY <1>3
  <2> QED BY <1>1, <1>3, <2>1, <2>2, PassWritten
<1>4. CASE GiveUp
  BY <1>4 DEF GiveUp, WrittenInv, DataInv
<1> QED BY <1>2, <1>3, <1>4 DEF WriteBlock

LEMMA WrittenStep ==
  ASSUME WholeExtents, SmallCalls, IInv, IInv', WrittenInv, DataInv, PrivateInv',
         [Next]_vars
  PROVE  WrittenInv' /\ DataInv'
<1>1. CASE file' = NoFile
  BY <1>1 DEF WrittenInv, DataInv
<1>2. CASE UNCHANGED <<dir, disk, file>>
  <2>1. Owner' = Owner
    BY <1>2 DEF Owner
  <2> QED BY <1>2, <2>1 DEF WrittenInv, DataInv
<1>3. CASE \E f \in Files, n \in Lengths, t \in Tags : Creat(f, n, t)
  BY <1>3, CreatWritten
<1>4. CASE FindExtent
  BY <1>4, FindExtentWritten
<1>5. CASE WriteBlock
  BY <1>5, WriteBlockWritten
<1>6. CASE Umount \/ Discard \/ Close \/ \E a \in Attrs : AttrSet(a)
  BY <1>1, <1>6 DEF Umount, Discard, FreeSuper, Close, AttrSet
<1>7. CASE ReadSuper \/ \E f \in Files : Unlink(f)
  BY <1>1, <1>7 DEF ReadSuper, Unlink, Idle, IInv, OwnInv
<1>8. CASE RefuseSuper \/ UNCHANGED vars
  BY <1>2, <1>8 DEF RefuseSuper, vars
<1> QED BY <1>3, <1>4, <1>5, <1>6, <1>7, <1>8 DEF Next

LEMMA WrittenAlways ==
  ASSUME WholeExtents, SmallCalls
  PROVE  Spec => [](WrittenInv /\ DataInv)
<1>1. Init => WrittenInv /\ DataInv
  BY DEF Init, WrittenInv, DataInv
<1>2. IInv /\ IInv' /\ WrittenInv /\ DataInv /\ PrivateInv' /\ [Next]_vars
        => WrittenInv' /\ DataInv'
  BY WrittenStep
<1> QED BY <1>1, <1>2, InductiveInvariant, PrivateAlways, PTL DEF Spec

\* A completely written file has the length that was written and reads back record
\* for record, whichever blocks and entries were free, on every disk whose entries
\* map whole extents of whole blocks.  Calls that end inside an entry must end
\* inside a logical extent too, or an entry must map just one.
THEOREM WrittenFilesReadBack ==
  ASSUME WholeExtents, SmallCalls
  PROVE  Spec => []WrittenReadsBack
<1>1. ASSUME IInv, WrittenInv, DataInv PROVE WrittenReadsBack
  <2> SUFFICES ASSUME file # NoFile, file.phase = "done", file.lost = 0
               PROVE  Content(dir, disk, Owner) =
                        [r \in 0..(file.total - 1) |-> <<file.tag, r>>]
    BY DEF WrittenReadsBack
  <2>0. PICK t : t = file.tag
    OBVIOUS
  <2>1. PICK n \in Nat, d \in [Entries -> Entry] :
          n = file.pos /\ n = file.total /\ d = dir /\ t = file.tag
    <3>1. file \in OpenFile /\ file.pos = file.total
      BY <1>1 DEF IInv, TypeOK, WrittenInv
    <3>2. file.pos \in Nat
      BY <3>1 DEF OpenFile
    <3> QED BY <1>1, <2>0, <3>1, <3>2 DEF IInv, TypeOK
  <2>2. /\ WrittenEntries(d, Owner, n) /\ (n > 0 => AllBegun(d, Owner, n))
        /\ Holds(d, disk, Owner, n, t)
    BY <1>1, <2>1 DEF WrittenInv, DataInv
  <2>3. /\ AllEntriesOf(d, Owner) # {}
        /\ \A e \in AllEntriesOf(d, Owner), p \in PtrIdx :
             d[e].ptr[p] # 0 => d[e].ptr[p] \in ReservedBlks..(Size - 1)
    <3>1. file.extent \in AllEntriesOf(dir, Owner)
      BY <1>1 DEF IInv, TypeOK, OwnInv, OpenFile, AllEntriesOf
    <3> QED BY <1>1, <2>1, <3>1 DEF IInv, OwnInv
  <2>4. FileSize(d, Owner) = n
    BY <2>2, <2>3, SizeWritten
  <2>5. \A r \in 0..(n - 1) : ReadRecord(d, disk, Owner, r) = <<t, r>>
    BY <2>2, <2>3, ReadsBack
  <2> QED BY <2>1, <2>4, <2>5 DEF Content
<1> QED BY <1>1, WrittenAlways, InductiveInvariant, PTL

------------------------------------------------------------------------------
\* WHAT THE CHECKERS SEE

Like(x, y) ==
  x.owner = y.owner /\ x.extno = y.extno /\ x.ptr = y.ptr /\ x.rc = y.rc

\* A step frees an entry, leaves all but its attributes, or makes it one of the open
\* file; and no live entry changes hands.
LEMMA EntryStep ==
  ASSUME IInv, IInv', [Next]_vars, mounted, mounted', NEW e \in Entries
  PROVE  /\ \/ dir'[e].owner = Free
            \/ Like(dir'[e], dir[e])
            \/ file' # NoFile /\ e \in AllEntriesOf(dir', Owner')
         /\ dir[e].owner \in Files => dir'[e].owner \in {dir[e].owner, Free}
<1> USE DEF IInv
<1>1. dir[e] \in Entry /\ Free \notin Files
  BY ConstantsAssumption DEF TypeOK
<1>2. CASE dir' = dir
  BY <1>2 DEF Like
<1>3. ASSUME NEW f \in Files, NEW n \in Lengths, NEW t \in Tags, Creat(f, n, t)
      PROVE  /\ Like(dir'[e], dir[e]) \/ (file' # NoFile /\ e \in AllEntriesOf(dir', Owner'))
             /\ dir[e].owner \in Files => dir'[e].owner = dir[e].owner
  <2>1. PICK x \in FreeEntries(dir) :
          /\ dir' = [dir EXCEPT ![x] = [FreeEntry EXCEPT !.owner = f]]
          /\ file' = [phase |-> IF n = 0 THEN "done" ELSE "extent",
                      ino |-> x, pos |-> 0, total |-> n, extent |-> x,
                      extno |-> 0, tag |-> t, lost |-> 0]
    BY <1>3 DEF Creat
  <2>2. CASE e # x
    <3>1. dir'[e] = dir[e]
      BY <2>1, <2>2 DEF TypeOK
    <3> QED BY <3>1 DEF Like
  <2>3. CASE e = x
    <3>1. dir'[e].owner = f /\ file'.ino = e
      BY <2>1, <2>3 DEF TypeOK, FreeEntry
    <3>2. file' # NoFile
      BY <2>1 DEF NoFile
    <3>3. e \in AllEntriesOf(dir', Owner')
      BY <3>1 DEF AllEntriesOf, Owner
    <3> QED BY <1>1, <2>1, <2>3, <3>2, <3>3 DEF FreeEntries
  <2> QED BY <2>2, <2>3
<1>4. CASE FindExtent
  <2>1. CASE GiveUp
    BY <1>2, <2>1 DEF GiveUp
  <2>2. ASSUME NEW x, NEW y \in FreeEntries(dir), dir' = [dir EXCEPT ![y] = NewExtent(x)],
               file' = UseExtent(y, x)
        PROVE  /\ Like(dir'[e], dir[e]) \/ (file' # NoFile /\ e \in AllEntriesOf(dir', Owner'))
               /\ dir[e].owner \in Files => dir'[e].owner = dir[e].owner
    <3>1. file \in OpenFile /\ file.ino \in Entries /\ dir[file.ino] \in Entry
      <4>1. file \in OpenFile
        BY <1>4 DEF FindExtent, Writing, NoFile, TypeOK
      <4> QED BY <4>1 DEF OpenFile, TypeOK
    <3>2. file' # NoFile /\ file'.extent = y
      BY <2>2, <3>1 DEF UseExtent, OpenFile, NoFile
    <3>3. CASE e # y
      <4>1. dir'[e] = dir[e]
        BY <2>2, <3>3 DEF TypeOK
      <4> QED BY <4>1 DEF Like
    <3>4. CASE e = y
      <4>1. e \in AllEntriesOf(dir', Owner')
        BY <3>2, <3>4 DEF OwnInv, AllEntriesOf
      <4> QED BY <1>1, <3>2, <3>4, <4>1 DEF FreeEntries
    <3> QED BY <3>3, <3>4
  <2> QED BY <1>2, <1>4, <2>1, <2>2 DEF FindExtent
<1>5. CASE WriteBlock
  <2>1. CASE GiveUp
    BY <1>2, <2>1 DEF GiveUp
  <2>2. ASSUME NEW b \in 0..(PtrLimit - 1), NEW fresh \in BOOLEAN, WritePass(b, fresh)
        PROVE  /\ Like(dir'[e], dir[e]) \/ (file' # NoFile /\ e \in AllEntriesOf(dir', Owner'))
               /\ dir[e].owner \in Files => dir'[e].owner = dir[e].owner
    <3>1. Writing("block")
      BY <1>5 DEF WriteBlock
    <3>2. /\ dir'[file.extent].owner = dir[file.extent].owner
          /\ \A y \in Entries \ {file.extent} : dir'[y] = dir[y]
          /\ file' \in OpenFile /\ file'.extent = file.extent
      BY <2>2, <3>1, PassEffect
    <3>3. file' # NoFile
      BY <3>2 DEF OpenFile, NoFile
    <3>4. CASE e # file.extent
      BY <3>2, <3>4 DEF Like
    <3>5. CASE e = file.extent
      <4>1. e \in AllEntriesOf(dir', Owner')
        BY <3>2, <3>3, <3>5 DEF OwnInv, AllEntriesOf
      <4> QED BY <3>2, <3>3, <3>5, <4>1
    <3> QED BY <3>4, <3>5
  <2>3. dir[file.extent].ptr[Slot] \in 0..(PtrLimit - 1)
    <3>1. file.extent \in Entries /\ file.pos \in Nat
      <4>1. file \in OpenFile
        BY <1>5 DEF WriteBlock, Writing, TypeOK, NoFile
      <4> QED BY <4>1 DEF OpenFile
    <3>2. dir[file.extent] \in Entry
      BY <3>1 DEF TypeOK
    <3> QED BY <3>1, <3>2, SlotInRange DEF Entry
  <2>4. \A b \in FreeBlocks : b \in 0..(PtrLimit - 1)
    BY FreshBlock
  <2> QED BY <1>5, <2>1, <2>2, <2>3, <2>4 DEF WriteBlock
<1>6. ASSUME NEW a \in Attrs, AttrSet(a)
      PROVE  Like(dir'[e], dir[e]) /\ dir'[e].owner = dir[e].owner
  <2>1. dir'[e] = dir[e] \/ dir'[e] = [dir[e] EXCEPT !.attr = a]
    BY <1>6 DEF AttrSet
  <2>2. Like([dir[e] EXCEPT !.attr = a], dir[e])
    BY <1>1 DEF Like, Entry
  <2> QED BY <2>1, <2>2 DEF Like
<1>7. ASSUME NEW f \in Files, Unlink(f)
      PROVE  /\ dir'[e].owner = Free \/ Like(dir'[e], dir[e])
             /\ dir'[e].owner \in {dir[e].owner, Free}
  <2>1. dir'[e] = FreeEntry \/ dir'[e] = dir[e]
    BY <1>7 DEF Unlink
  <2> QED BY <2>1 DEF FreeEntry, Like
<1>8. ~ReadSuper /\ ~Umount /\ ~Discard
  BY DEF ReadSuper, Umount, Discard, FreeSuper
<1>9. CASE RefuseSuper \/ Close \/ UNCHANGED vars
  BY <1>2, <1>9 DEF RefuseSuper, Close, vars
<1> QED BY <1>3, <1>4, <1>5, <1>6, <1>7, <1>8, <1>9 DEF Next

\* The record counts of the open file are right.
LEMMA OpenFileCounts ==
  ASSUME WholeExtents, IInv', WrittenInv', file' # NoFile,
         NEW e \in AllEntriesOf(dir', Owner')
  PROVE  CountFits(dir'[e])
<1>1. WrittenEntry(dir'[e], file'.pos)
  BY DEF WrittenInv, WrittenEntries
<1>2. file' \in OpenFile /\ dir' \in [Entries -> Entry] /\ e \in Entries
  BY DEF IInv, TypeOK, AllEntriesOf
<1>3. PICK x \in Entry, n \in Nat : x = dir'[e] /\ n = file'.pos
  BY <1>2 DEF OpenFile
<1> QED BY <1>1, <1>3, CountRight

LEMMA CleanStep ==
  ASSUME WholeExtents, IInv, IInv', WrittenInv', [Next]_vars, mounted, mounted'
  PROVE  /\ BadNumbers(dir') \subseteq BadNumbers(dir)
         /\ BadCounts(dir') \subseteq BadCounts(dir)
         /\ AllocatedTwice(dir') \subseteq AllocatedTwice(dir)
         /\ DuplicateExtents(dir') \subseteq DuplicateExtents(dir)
<1>1. \A e \in Checked(dir') :
        /\ e \in Entries /\ dir'[e].owner \in Files \ Passwords
        /\ \/ Like(dir'[e], dir[e]) /\ e \in Checked(dir)
           \/ file' # NoFile /\ e \in AllEntriesOf(dir', Owner')
  <2> SUFFICES ASSUME NEW e \in Checked(dir')
               PROVE  /\ e \in Entries /\ dir'[e].owner \in Files \ Passwords
                      /\ \/ Like(dir'[e], dir[e]) /\ e \in Checked(dir)
                         \/ file' # NoFile /\ e \in AllEntriesOf(dir', Owner')
    OBVIOUS
  <2>1. e \in Entries /\ dir'[e].owner \in Files \ Passwords /\ dir'[e].owner # Free
    BY ConstantsAssumption DEF Checked
  <2>2. \/ Like(dir'[e], dir[e])
        \/ file' # NoFile /\ e \in AllEntriesOf(dir', Owner')
    BY <2>1, EntryStep
  <2> QED BY <2>1, <2>2 DEF Like, Checked
<1>2. BadNumbers(dir') \subseteq BadNumbers(dir)
  <2> SUFFICES ASSUME NEW s \in BadNumbers(dir') PROVE s \in BadNumbers(dir)
    OBVIOUS
  <2>1. /\ s \in Checked(dir') \X PtrIdx /\ s[1] \in Checked(dir') /\ s[2] \in PtrIdx
        /\ dir'[s[1]].ptr[s[2]] # 0
        /\ dir'[s[1]].ptr[s[2]] \notin ReservedBlks..(Size - 1)
    BY DEF BadNumbers, CheckedSlots
  <2>2. ~ (file' # NoFile /\ s[1] \in AllEntriesOf(dir', Owner'))
    BY <2>1 DEF IInv, OwnInv
  <2>3. Like(dir'[s[1]], dir[s[1]]) /\ s[1] \in Checked(dir)
    BY <1>1, <2>1, <2>2
  <2> QED BY <2>1, <2>3 DEF Like, BadNumbers, CheckedSlots
<1>3. BadCounts(dir') \subseteq BadCounts(dir)
  <2> SUFFICES ASSUME NEW e \in BadCounts(dir') PROVE e \in BadCounts(dir)
    OBVIOUS
  <2>1. e \in Checked(dir') /\ ~CountFits(dir'[e])
    BY DEF BadCounts
  <2>2. ~ (file' # NoFile /\ e \in AllEntriesOf(dir', Owner'))
    <3> SUFFICES ASSUME file' # NoFile, e \in AllEntriesOf(dir', Owner')
                 PROVE  FALSE
      OBVIOUS
    <3>1. CountFits(dir'[e])
      BY OpenFileCounts
    <3> QED BY <2>1, <3>1
  <2>3. Like(dir'[e], dir[e]) /\ e \in Checked(dir)
    BY <1>1, <2>1, <2>2
  <2>4. CountFits(dir'[e]) <=> CountFits(dir[e])
    BY <2>3, WrittenSame DEF Like
  <2> QED BY <2>1, <2>3, <2>4 DEF BadCounts
<1>4. AllocatedTwice(dir') \subseteq AllocatedTwice(dir)
  <2> SUFFICES ASSUME NEW t \in AllocatedTwice(dir') PROVE t \in AllocatedTwice(dir)
    OBVIOUS
  <2>1. /\ t \in CheckedSlots(dir') \X CheckedSlots(dir') /\ t[1] # t[2]
        /\ dir'[t[1][1]].ptr[t[1][2]] = dir'[t[2][1]].ptr[t[2][2]]
    BY DEF AllocatedTwice
  <2>2. /\ t = <<t[1], t[2]>> /\ t[1] \in Checked(dir') \X PtrIdx
        /\ t[2] \in Checked(dir') \X PtrIdx
        /\ dir'[t[1][1]].ptr[t[1][2]] # 0 /\ dir'[t[2][1]].ptr[t[2][2]] # 0
    BY <2>1 DEF CheckedSlots
  <2>3. t \in SharedSlots(dir')
    BY <2>1, <2>2 DEF SharedSlots, Slots, Checked, Live
  <2>4. SharedSlots(dir') \subseteq SharedSlots(dir)
    BY OtherStepsShareNothing, WriteBlockSharesNothing
  <2>5. t \in SharedSlots(dir)
    BY <2>3, <2>4
  <2>6. /\ t[1][1] \in Live(dir) /\ t[2][1] \in Live(dir)
        /\ dir[t[1][1]].ptr[t[1][2]] = dir[t[2][1]].ptr[t[2][2]]
        /\ dir[t[1][1]].ptr[t[1][2]] # 0
    BY <2>5 DEF SharedSlots
  <2>7. ASSUME NEW e \in Live(dir), e \in Checked(dir') PROVE e \in Checked(dir)
    <3>1. e \in Entries /\ dir[e].owner \in Files /\ dir'[e].owner \in Files \ Passwords
          /\ Free \notin Files
      BY <2>7, ConstantsAssumption DEF Live, Checked
    <3>2. dir'[e].owner \in {dir[e].owner, Free}
      BY <3>1, EntryStep
    <3> QED BY <3>1, <3>2 DEF Checked
  <2>8. t[1] \in CheckedSlots(dir) /\ t[2] \in CheckedSlots(dir)
    BY <2>2, <2>6, <2>7 DEF CheckedSlots
  <2> QED BY <2>1, <2>2, <2>6, <2>8 DEF AllocatedTwice
<1>5. DuplicateExtents(dir') \subseteq DuplicateExtents(dir)
  <2> SUFFICES ASSUME NEW t \in DuplicateExtents(dir') PROVE t \in DuplicateExtents(dir)
    OBVIOUS
  <2>1. /\ t = <<t[1], t[2]>> /\ t[1] \in Checked(dir') /\ t[2] \in Checked(dir')
        /\ t[1] # t[2] /\ dir'[t[1]].owner = dir'[t[2]].owner
        /\ dir'[t[1]].extno = dir'[t[2]].extno
    BY DEF DuplicateExtents
  <2>2. CASE file' # NoFile /\ dir'[t[1]].owner = Owner'
    <3>1. t[1] \in AllEntriesOf(dir', Owner') /\ t[2] \in AllEntriesOf(dir', Owner')
      BY <1>1, <2>1, <2>2 DEF AllEntriesOf
    <3>2. Group(dir'[t[1]]) = Group(dir'[t[2]])
      BY <2>1 DEF Group
    <3> QED BY <2>1, <2>2, <3>1, <3>2 DEF WrittenInv, WrittenEntries
  <2>3. CASE ~ (file' # NoFile /\ dir'[t[1]].owner = Owner')
    <3>1. /\ Like(dir'[t[1]], dir[t[1]]) /\ t[1] \in Checked(dir)
          /\ Like(dir'[t[2]], dir[t[2]]) /\ t[2] \in Checked(dir)
      BY <1>1, <2>1, <2>3 DEF AllEntriesOf
    <3> QED BY <2>1, <3>1 DEF Like, DuplicateExtents
  <2> QED BY <2>2, <2>3
<1> QED BY <1>2, <1>3, <1>4, <1>5

\* On every such disk, whatever the image held before, no step of an operation
\* leaves in the directory anything fsck.cpm would complain about that was not
\* there already.
THEOREM NothingNewToRepair ==
  ASSUME WholeExtents, SmallCalls
  PROVE  Spec => NothingToRepair
<1>1. IInv /\ IInv' /\ WrittenInv' /\ [Next]_vars =>
        [mounted /\ mounted' =>
           /\ BadNumbers(dir') \subseteq BadNumbers(dir)
           /\ BadCounts(dir') \subseteq BadCounts(dir)
           /\ AllocatedTwice(dir') \subseteq AllocatedTwice(dir)
           /\ DuplicateExtents(dir') \subseteq DuplicateExtents(dir)]_vars
  BY CleanStep
<1> QED BY <1>1, WrittenAlways, InductiveInvariant, PTL DEF Spec, NothingToRepair

\* The directory of a mounted image is one that cpmReadSuper accepts.
ValidInv == mounted => Valid(dir)

LEMMA ValidStep ==
  ASSUME WholeExtents, IInv, IInv', WrittenInv', ValidInv, [Next]_vars
  PROVE  ValidInv'
<1> SUFFICES ASSUME mounted' PROVE Valid(dir')
  BY DEF ValidInv
<1>1. CASE ~mounted
  <2>1. ReadSuper \/ (UNCHANGED mounted)
    BY <1>1 DEF Next, RefuseSuper, Umount, Discard, FreeSuper, Creat, FindExtent, GiveUp,
                WriteBlock, WritePass, Close, AttrSet, Unlink, vars
  <2>2. ReadSuper
    BY <1>1, <2>1
  <2> QED BY <2>2 DEF ReadSuper
<1>2. CASE mounted
  <2> SUFFICES ASSUME NEW e \in Entries
               PROVE  /\ dir'[e].owner # Junk
                      /\ dir'[e].owner \in Files \ Passwords => RegularEntryValid(dir'[e])
    BY DEF Valid
  <2>1. /\ dir[e].owner # Junk
        /\ dir[e].owner \in Files \ Passwords => RegularEntryValid(dir[e])
    BY <1>2 DEF ValidInv, Valid
  <2>2. Free \notin Files /\ Junk \notin Files /\ Free # Junk
    BY ConstantsAssumption DEF Free, Junk
  <2>3. CASE dir'[e].owner = Free
    BY <2>2, <2>3
  <2>4. CASE Like(dir'[e], dir[e])
    <3>1. CountFits(dir'[e]) <=> CountFits(dir[e])
      BY <2>4, WrittenSame DEF Like
    <3> QED BY <2>1, <2>4, <3>1 DEF Like, RegularEntryValid
  <2>5. CASE file' # NoFile /\ e \in AllEntriesOf(dir', Owner')
    <3>1. dir'[e].owner \in Files
      BY <2>5 DEF IInv, OwnInv, AllEntriesOf
    <3>2. \A p \in PtrIdx : dir'[e].ptr[p] < Size
      <4> SUFFICES ASSUME NEW p \in PtrIdx PROVE dir'[e].ptr[p] < Size
        OBVIOUS
      <4>1. dir'[e].ptr[p] = 0 \/ dir'[e].ptr[p] \in ReservedBlks..(Size - 1)
        BY <2>5 DEF IInv, OwnInv
      <4> QED BY <4>1, Geometry
    <3>3. Ptrs % LogicalExtents = 0
      <4>1. PICK k \in Nat, l \in Nat \ {0}, p \in Nat :
              l = LogicalExtents /\ p = Ptrs /\ p = k * l
        BY Layout, LogicalExtentsType, Constants
      <4>2. p = k * l + 0 /\ 0 \in 0..(l - 1)
        BY <4>1
      <4>3. p % l = 0
        BY <4>2, DivUnique
      <4> QED BY <4>1, <4>3
    <3>4. CountFits(dir'[e])
      BY <2>5, OpenFileCounts
    <3> QED BY <2>2, <3>1, <3>2, <3>3, <3>4 DEF RegularEntryValid
  <2> QED BY <1>2, <2>3, <2>4, <2>5, EntryStep
<1> QED BY <1>1, <1>2

\* cpmSync stores whole blocks of valid directories, old or new.
LEMMA SyncValid ==
  ASSUME ValidInv, Valid(ddir), [Next]_vars
  PROVE  Valid(ddir')
<1>1. CASE Umount
  <2>1. mounted /\ Valid(dir)
    BY <1>1 DEF Umount, Idle, ValidInv
  <2>2. \A n : Valid(Synced(n))
    BY <2>1 DEF Valid, Synced
  <2> QED BY <1>1, <2>2 DEF Umount
<1>2. CASE UNCHANGED ddir
  BY <1>2
<1> QED
  BY <1>1, <1>2 DEF Next, ReadSuper, RefuseSuper, Discard, Creat, FindExtent, GiveUp,
                    WriteBlock, WritePass, Close, AttrSet, Unlink, vars

\* On every such disk an image that could be mounted still can be afterwards,
\* whatever part of the directory cpmSync managed to store.
THEOREM ImagesStayMountable ==
  ASSUME WholeExtents, SmallCalls
  PROVE  Spec => StaysMountable
<1>1. Init => ValidInv
  BY DEF Init, ValidInv
<1>2. IInv /\ IInv' /\ WrittenInv' /\ ValidInv /\ [Next]_vars => ValidInv'
  BY ValidStep
<1>3. ValidInv /\ [Next]_vars => [Valid(ddir) => Valid(ddir')]_vars
  BY SyncValid
<1> QED
  BY <1>1, <1>2, <1>3, WrittenAlways, InductiveInvariant, PTL DEF Spec, StaysMountable

==============================================================================
