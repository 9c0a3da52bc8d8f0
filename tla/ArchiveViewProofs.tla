-------------------------- MODULE ArchiveViewProofs --------------------------
(***************************************************************************)
(* Proofs about ArchiveView for any images, names, users and settings: a   *)
(* listing names every file once, what is extracted is what was announced, *)
(* nothing that exists is overwritten, and deletions hit what was shown.   *)
(***************************************************************************)
EXTENDS ArchiveView, FiniteSetTheorems, NaturalsInduction, SequenceTheorems, TLAPS

(***************************************************************************)
(* The listing.                                                            *)
(***************************************************************************)

LEMMA EntriesFinite ==
  /\ IsFiniteSet(Entries) /\ Entries \subseteq Nat
  /\ \A S \in SUBSET Entries : IsFiniteSet(S) /\ Cardinality(S) \in Nat
<1>1. MaxDir \in Nat  BY ConstantsAssumption
<1>2. IsFiniteSet(Entries) /\ Entries \subseteq Nat  BY <1>1, FS_Interval DEF Entries
<1> QED  BY <1>2, FS_Subset, FS_CardinalityType

\* The members of S below e.
Below(S, e) == {x \in S : x < e}

\* There are more members of S below the larger of two.
LEMMA BelowGrows ==
  ASSUME NEW S \in SUBSET Entries, NEW e \in S, NEW g \in S, e < g
  PROVE  Cardinality(Below(S, e)) + 1 <= Cardinality(Below(S, g))
<1>1. \A x \in S : x \in Nat  BY EntriesFinite
<1>2. Below(S, e) \cup {e} \subseteq Below(S, g) /\ e \notin Below(S, e)
  BY <1>1 DEF Below
<1>3. Below(S, e) \in SUBSET Entries /\ Below(S, g) \in SUBSET Entries
  BY DEF Below
<1>4. /\ IsFiniteSet(Below(S, e)) /\ Cardinality(Below(S, e)) \in Nat
      /\ IsFiniteSet(Below(S, g)) /\ Cardinality(Below(S, g)) \in Nat
  BY <1>3, EntriesFinite
<1>5. Cardinality(Below(S, e) \cup {e}) = Cardinality(Below(S, e)) + 1
  BY <1>2, <1>4, FS_AddElement
<1>6. Cardinality(Below(S, e) \cup {e}) <= Cardinality(Below(S, g))
  BY <1>2, <1>4, FS_Subset
<1> QED  BY <1>4, <1>5, <1>6

\* Counting the members below each member numbers them from 0.
LEMMA BelowNumbers ==
  ASSUME NEW S \in SUBSET Entries
  PROVE  /\ Cardinality(S) \in Nat
         /\ \A e \in S : Cardinality(Below(S, e)) \in 0..(Cardinality(S) - 1)
         /\ \A e, g \in S : Cardinality(Below(S, e)) = Cardinality(Below(S, g)) => e = g
         /\ \A k \in 0..(Cardinality(S) - 1) :
              \E e \in S : Cardinality(Below(S, e)) = k
<1> DEFINE n == Cardinality(S)
           c == [e \in S |-> Cardinality(Below(S, e))]
<1>1. IsFiniteSet(S) /\ n \in Nat /\ \A x \in S : x \in Nat  BY EntriesFinite
<1>2. ASSUME NEW e \in S PROVE Cardinality(Below(S, e)) \in 0..(n - 1)
  <2>1. Below(S, e) \in SUBSET Entries /\ Below(S, e) \in SUBSET S
    BY DEF Below
  <2>2. e \notin Below(S, e)  BY <1>1 DEF Below
  <2>3. Cardinality(Below(S, e)) \in Nat  BY <2>1, EntriesFinite
  <2>4. Cardinality(Below(S, e)) <= n /\ Cardinality(Below(S, e)) # n
    BY <1>1, <2>1, <2>2, FS_Subset
  <2> QED  BY <1>1, <2>3, <2>4
<1>3. ASSUME NEW e \in S, NEW g \in S, e # g
      PROVE  Cardinality(Below(S, e)) # Cardinality(Below(S, g))
  <2>1. e < g \/ g < e  BY <1>1, <1>3
  <2>2. Cardinality(Below(S, e)) \in Int /\ Cardinality(Below(S, g)) \in Int
    BY <1>2
  <2> QED  BY <2>1, <2>2, BelowGrows
<1>4. \A k \in 0..(n - 1) : \E e \in S : c[e] = k
  <2>1. c \in Injection(S, 0..(n - 1))
    <3>1. \A e \in S : c[e] \in 0..(n - 1)  BY <1>2
    <3>2. \A e, g \in S : c[e] = c[g] => e = g  BY <1>3
    <3>3. c \in [S -> 0..(n - 1)]  BY <3>1
    <3> HIDE DEF c
    <3> QED  BY <3>2, <3>3 DEF Injection, IsInjective
  <2>2. IsFiniteSet(0..(n - 1)) /\ Cardinality(0..(n - 1)) = n
    <3> HIDE DEF n
    <3> QED  BY <1>1, FS_Interval
  <2>3. c \in Surjection(S, 0..(n - 1))
    <3> HIDE DEF c
    <3> QED  BY <2>1, <2>2, FS_Injection
  <2> HIDE DEF c
  <2> QED  BY <2>3 DEF Surjection
<1> QED  BY <1>1, <1>2, <1>3, <1>4

\* Ascending names every member of S once.
LEMMA AscendingOnce ==
  ASSUME NEW S \in SUBSET Entries
  PROVE  /\ Cardinality(S) \in Nat
         /\ Ascending(S) \in Seq(S) /\ Len(Ascending(S)) = Cardinality(S)
         /\ \A j, k \in 1..Cardinality(S) :
              Ascending(S)[j] = Ascending(S)[k] => j = k
         /\ \A e \in S : \E k \in 1..Cardinality(S) : Ascending(S)[k] = e
<1> DEFINE n == Cardinality(S)
           a == Ascending(S)
<1>1. n \in Nat  BY EntriesFinite
<1>2. \A k \in 1..n : a[k] \in S /\ Cardinality(Below(S, a[k])) = k - 1
  <2> SUFFICES ASSUME NEW k \in 1..n
               PROVE  a[k] \in S /\ Cardinality(Below(S, a[k])) = k - 1
    OBVIOUS
  <2>1. k - 1 \in 0..(n - 1)  BY <1>1
  <2>2. \E e \in S : Cardinality(Below(S, e)) = k - 1  BY <2>1, BelowNumbers
  <2>3. a[k] = CHOOSE e \in S : Cardinality(Below(S, e)) = k - 1
    BY DEF Ascending, Below
  <2> QED  BY <2>2, <2>3
<1>3. a = [k \in 1..n |-> a[k]]  BY DEF Ascending
<1> HIDE DEF a
<1>4. a \in Seq(S) /\ Len(a) = n  BY <1>1, <1>2, <1>3
<1>5. \A j, k \in 1..n : a[j] = a[k] => j = k
  <2> SUFFICES ASSUME NEW j \in 1..n, NEW k \in 1..n, a[j] = a[k] PROVE j = k
    OBVIOUS
  <2>1. j - 1 = k - 1  BY <1>2
  <2> QED  BY <2>1, <1>1
<1>6. ASSUME NEW e \in S PROVE \E k \in 1..n : a[k] = e
  <2> DEFINE k == Cardinality(Below(S, e)) + 1
  <2>1. Cardinality(Below(S, e)) \in 0..(n - 1)  BY BelowNumbers
  <2>2. k \in 1..n /\ k - 1 = Cardinality(Below(S, e))  BY <1>1, <2>1
  <2>3. a[k] \in S /\ Cardinality(Below(S, a[k])) = Cardinality(Below(S, e))
    BY <1>2, <2>2
  <2>4. \A x, y \in S : Cardinality(Below(S, x)) = Cardinality(Below(S, y)) => x = y
    BY BelowNumbers
  <2>5. a[k] = e
    <3> HIDE DEF k
    <3> QED  BY <2>3, <2>4
  <2> QED  BY <2>2, <2>5
<1> QED  BY <1>1, <1>4, <1>5, <1>6 DEF a

\* The images that can be opened.
Disks == [dir: [Entries -> Entry], label: BOOLEAN, writable: BOOLEAN]

\* A directory without a file's extent twice has one first entry of each file.
LEMMA FirstEntryUnique ==
  ASSUME NEW d \in [Entries -> Entry], NEW f \in Files
  PROVE  /\ AllEntriesOf(d, f) # {} => \E e \in FirstEntries(d) : d[e].owner = f
         /\ \A e \in FirstEntries(d) : d[e].owner = f => AllEntriesOf(d, f) # {}
         /\ ExtentsDistinct(d) =>
              \A e, g \in FirstEntries(d) : d[e].owner = d[g].owner => e = g
<1>1. \A e \in Entries : d[e].extno \in Nat /\ d[e].owner \in Owners
  BY ConstantsAssumption DEF Entry
<1>2. ASSUME AllEntriesOf(d, f) # {}
      PROVE  \E e \in FirstEntries(d) : d[e].owner = f
  <2> DEFINE X == {d[e].extno : e \in AllEntriesOf(d, f)}
             less == {p \in Nat \X Nat : p[1] < p[2]}
  <2>1. X \subseteq Nat /\ X # {}  BY <1>1, <1>2 DEF AllEntriesOf
  <2>2. PICK x \in X : \A y \in X : <<y, x>> \notin less
    <3>1. IsWellFoundedOn(less, Nat)  BY NatLessThanWellFounded DEF OpToRel
    <3> HIDE DEF less, X
    <3> QED  BY <2>1, <3>1, WFMin
  <2>3. PICK e \in AllEntriesOf(d, f) : d[e].extno = x  BY <2>2
  <2>4. ASSUME NEW g \in AllEntriesOf(d, f) PROVE d[e].extno <= d[g].extno
    <3>1. d[g].extno \in X /\ d[g].extno \in Nat /\ x \in Nat  BY <2>1
    <3>2. <<d[g].extno, x>> \in Nat \X Nat  BY <3>1
    <3>3. ~(<<d[g].extno, x>>[1] < <<d[g].extno, x>>[2])  BY <2>2, <3>1, <3>2
    <3> QED  BY <2>3, <3>1, <3>3
  <2>5. e \in Live(d) /\ d[e].owner = f  BY DEF AllEntriesOf, Live
  <2> QED  BY <2>4, <2>5 DEF FirstEntries
<1>3. ASSUME NEW e \in FirstEntries(d), d[e].owner = f PROVE AllEntriesOf(d, f) # {}
  BY <1>3 DEF FirstEntries, Live, AllEntriesOf
<1>4. ASSUME ExtentsDistinct(d), NEW e \in FirstEntries(d), NEW g \in FirstEntries(d),
             d[e].owner = d[g].owner
      PROVE  e = g
  <2>1. e \in Live(d) /\ g \in Live(d) /\ e \in Entries /\ g \in Entries
    BY DEF FirstEntries, Live
  <2>2. g \in AllEntriesOf(d, d[e].owner) /\ e \in AllEntriesOf(d, d[g].owner)
    BY <1>4, <2>1 DEF AllEntriesOf
  <2>3. d[e].extno <= d[g].extno /\ d[g].extno <= d[e].extno
    BY <2>2 DEF FirstEntries
  <2>4. d[e].extno = d[g].extno  BY <2>1, <2>3, <1>1
  <2> QED  BY <1>4, <2>1, <2>4 DEF ExtentsDistinct
<1> QED  BY <1>2, <1>3, <1>4

\* What is listed before the files.
Heading(i) ==
  (IF HasPasswords(i.dir) THEN <<Passwd>> ELSE << >>)
    \o (IF i.label THEN <<Label>> ELSE << >>)

\* The owners of the first entries, in their order.
FileList(i) ==
  [k \in 1..Len(Ascending(FirstEntries(i.dir))) |->
     i.dir[Ascending(FirstEntries(i.dir))[k]].owner]

LEMMA ItemsApart ==
  /\ Passwd \notin Files /\ Label \notin Files /\ Info \notin Files
  /\ Passwd # Label /\ Passwd # Info /\ Label # Info
  BY NamesAssumption DEF Passwd, Label, Info

LEMMA HeadingType ==
  ASSUME NEW i
  PROVE  /\ Heading(i) \in Seq({Passwd, Label})
         /\ \A j, k \in 1..Len(Heading(i)) : Heading(i)[j] = Heading(i)[k] => j = k
<1> DEFINE p == IF HasPasswords(i.dir) THEN <<Passwd>> ELSE << >>
           l == IF i.label THEN <<Label>> ELSE << >>
<1>1. /\ p \in Seq({Passwd}) /\ Len(p) \in 0..1
      /\ \A k \in 1..Len(p) : p[k] = Passwd
  <2>1. CASE HasPasswords(i.dir)
    <3>1. p = <<Passwd>>  BY <2>1
    <3> HIDE DEF p
    <3> QED  BY <3>1
  <2>2. CASE ~HasPasswords(i.dir)
    <3>1. p = << >>  BY <2>2
    <3> HIDE DEF p
    <3> QED  BY <3>1
  <2> QED  BY <2>1, <2>2
<1>2. /\ l \in Seq({Label}) /\ Len(l) \in 0..1
      /\ \A k \in 1..Len(l) : l[k] = Label
  <2>1. CASE i.label
    <3>1. l = <<Label>>  BY <2>1
    <3> HIDE DEF l
    <3> QED  BY <3>1
  <2>2. CASE ~i.label
    <3>1. l = << >>  BY <2>2
    <3> HIDE DEF l
    <3> QED  BY <3>1
  <2> QED  BY <2>1, <2>2
<1> HIDE DEF p, l
<1>3. p \in Seq({Passwd, Label}) /\ l \in Seq({Passwd, Label})
  BY <1>1, <1>2, SeqMonotonic
<1>4. /\ p \o l \in Seq({Passwd, Label})
      /\ Len(p \o l) = Len(p) + Len(l)
      /\ \A k \in 1..(Len(p) + Len(l)) :
           (p \o l)[k] = IF k <= Len(p) THEN p[k] ELSE l[k - Len(p)]
  BY <1>3, ConcatProperties
<1>5. \A k \in 1..Len(p \o l) :
        (p \o l)[k] = IF k <= Len(p) THEN Passwd ELSE Label
  BY <1>1, <1>2, <1>4
<1>6. \A j, k \in 1..Len(p \o l) : (p \o l)[j] = (p \o l)[k] => j = k
  BY <1>1, <1>2, <1>4, <1>5, ItemsApart
<1> QED  BY <1>4, <1>6 DEF Heading, p, l

\* A listing is made of items; it has exactly the files of the image, and each
\* of them once if no extent of a file is there twice.
LEMMA GlobLists ==
  ASSUME NEW i \in Disks
  PROVE  /\ Glob(i) \in Seq(Items \ {Info})
         /\ \A f \in Files :
              f \in Present(i.dir) <=> \E k \in 1..Len(Glob(i)) : Glob(i)[k] = f
         /\ ExtentsDistinct(i.dir) =>
              \A j, k \in 1..Len(Glob(i)) : Glob(i)[j] = Glob(i)[k] => j = k
<1> DEFINE F == FirstEntries(i.dir)
           a == Ascending(F)
           n == Len(a)
           h == Heading(i)
           o == FileList(i)
<1>0. i.dir \in [Entries -> Entry]  BY DEF Disks
<1>1. F \in SUBSET Entries /\ \A e \in F : i.dir[e].owner \in Files
  BY DEF FirstEntries, Live
<1>2. /\ n \in Nat
      /\ \A k \in 1..n : a[k] \in F
      /\ \A j, k \in 1..n : a[j] = a[k] => j = k
      /\ \A e \in F : \E k \in 1..n : a[k] = e
  <2>1. F \in SUBSET Entries  BY <1>1
  <2> HIDE DEF F
  <2>2. /\ n \in Nat /\ a \in Seq(F) /\ n = Cardinality(F)
        /\ \A j, k \in 1..n : a[j] = a[k] => j = k
        /\ \A e \in F : \E k \in 1..n : a[k] = e
    BY <2>1, AscendingOnce
  <2> HIDE DEF a
  <2>3. \A k \in 1..n : a[k] \in F  BY <2>2
  <2> QED  BY <2>2, <2>3
<1>3. o = [k \in 1..n |-> i.dir[a[k]].owner]  BY DEF FileList
<1>4. o \in Seq(Files) /\ Len(o) = n
  <2> HIDE DEF a, F, n, o
  <2>1. \A k \in 1..n : i.dir[a[k]].owner \in Files  BY <1>1, <1>2
  <2> QED  BY <1>2, <1>3, <2>1
<1>5. h \in Seq({Passwd, Label}) /\ \A j, k \in 1..Len(h) : h[j] = h[k] => j = k
  BY HeadingType
<1>6. Glob(i) = h \o o  BY DEF Glob, Heading, FileList
<1> HIDE DEF F, a, n, h, o
<1>7. h \in Seq(Items \ {Info}) /\ o \in Seq(Items \ {Info})
  <2>1. {Passwd, Label} \subseteq Items \ {Info} /\ Files \subseteq Items \ {Info}
    BY ItemsApart DEF Items
  <2> QED  BY <1>4, <1>5, <2>1, SeqMonotonic
<1>8. /\ Glob(i) \in Seq(Items \ {Info})
      /\ Len(Glob(i)) = Len(h) + n
      /\ \A k \in 1..(Len(h) + n) :
           Glob(i)[k] = IF k <= Len(h) THEN h[k] ELSE o[k - Len(h)]
  BY <1>4, <1>6, <1>7, ConcatProperties
<1>9. /\ Len(h) \in Nat
      /\ \A k \in 1..Len(h) : h[k] \in {Passwd, Label}
      /\ \A k \in 1..n : o[k] \in Files /\ o[k] = i.dir[a[k]].owner
  BY <1>3, <1>4, <1>5, <1>2
<1>10. ASSUME NEW f \in Files
       PROVE  f \in Present(i.dir) <=> \E k \in 1..Len(Glob(i)) : Glob(i)[k] = f
  <2>1. ASSUME f \in Present(i.dir) PROVE \E k \in 1..Len(Glob(i)) : Glob(i)[k] = f
    <3>1. PICK e \in F : i.dir[e].owner = f
      BY <2>1, <1>0, FirstEntryUnique DEF Present, F
    <3>2. PICK k \in 1..n : a[k] = e  BY <1>2
    <3>3. o[k] = f /\ Len(h) + k \in 1..(Len(h) + n) /\ ~(Len(h) + k <= Len(h))
          /\ (Len(h) + k) - Len(h) = k
      BY <3>1, <3>2, <1>2, <1>9
    <3>4. Glob(i)[Len(h) + k] = f  BY <3>3, <1>8
    <3> QED  BY <3>3, <3>4, <1>8
  <2>2. ASSUME NEW k \in 1..Len(Glob(i)), Glob(i)[k] = f PROVE f \in Present(i.dir)
    <3>1. ~(k <= Len(h))
      BY <2>2, <1>8, <1>9, ItemsApart
    <3>2. k - Len(h) \in 1..n /\ f = o[k - Len(h)]
      BY <2>2, <3>1, <1>8, <1>9, <1>2
    <3>3. a[k - Len(h)] \in F /\ i.dir[a[k - Len(h)]].owner = f
      BY <3>2, <1>2, <1>9
    <3>4. AllEntriesOf(i.dir, f) # {}
      BY <3>3, <1>0, FirstEntryUnique DEF F
    <3> QED  BY <3>4 DEF Present
  <2> QED  BY <2>1, <2>2
<1>11. ASSUME ExtentsDistinct(i.dir), NEW j \in 1..Len(Glob(i)), NEW k \in 1..Len(Glob(i)),
              Glob(i)[j] = Glob(i)[k]
       PROVE  j = k
  <2>1. CASE j <= Len(h) /\ k <= Len(h)
    BY <2>1, <1>11, <1>8, <1>9, <1>5, <1>2
  <2>2. CASE ~(j <= Len(h)) /\ ~(k <= Len(h))
    <3>1. j - Len(h) \in 1..n /\ k - Len(h) \in 1..n /\ o[j - Len(h)] = o[k - Len(h)]
      BY <2>2, <1>11, <1>8, <1>9, <1>2
    <3>2. /\ a[j - Len(h)] \in F /\ a[k - Len(h)] \in F
          /\ i.dir[a[j - Len(h)]].owner = i.dir[a[k - Len(h)]].owner
          /\ i.dir[a[j - Len(h)]].owner \in Files
      BY <3>1, <1>1, <1>2, <1>9
    <3>3. a[j - Len(h)] = a[k - Len(h)]
      BY <3>2, <1>0, <1>11, FirstEntryUnique DEF F
    <3>4. j - Len(h) = k - Len(h)  BY <3>1, <3>3, <1>2
    <3> QED  BY <3>4, <1>8, <1>9, <1>2
  <2>3. CASE j <= Len(h) /\ ~(k <= Len(h))
    <3>1. Glob(i)[j] \in {Passwd, Label} /\ Glob(i)[k] \in Files
      BY <2>3, <1>8, <1>9, <1>2
    <3> QED  BY <3>1, <1>11, ItemsApart
  <2>4. CASE ~(j <= Len(h)) /\ k <= Len(h)
    <3>1. Glob(i)[k] \in {Passwd, Label} /\ Glob(i)[j] \in Files
      BY <2>4, <1>8, <1>9, <1>2
    <3> QED  BY <3>1, <1>11, ItemsApart
  <2> QED  BY <2>1, <2>2, <2>3, <2>4
<1> QED  BY <1>8, <1>10, <1>11

(***************************************************************************)
(* The inductive invariant.                                                *)
(***************************************************************************)

OpenArchives ==
  [gargv: Seq(Items \ {Info}), open: {TRUE}, users: BOOLEAN, info: BOOLEAN,
   counter: Nat, lastInfo: BOOLEAN]

\* The list of an open archive is that of the image, which stays as it is while
\* the archive is open, and the counter is within the list or behind the report.
ArchInv ==
  \/ arch = Closed
  \/ /\ arch \in OpenArchives
     /\ arch.gargv = Glob(image) /\ arch.users = HasUsers(arch.gargv)
     /\ arch.counter <= Len(arch.gargv) + 1
     /\ arch.lastInfo <=> arch.counter = Len(arch.gargv) + 1

\* The item the k-th header of a pass is about.
Turn(k) == IF k <= Len(arch.gargv) THEN arch.gargv[k] ELSE Info

\* A pass has announced the list up to the counter or, when it has ended, all of
\* it, maybe with the report.
ToldInv ==
  IF arch.open
  THEN /\ IF ended
          THEN arch.counter = 0 /\ Len(told) \in Len(arch.gargv)..(Len(arch.gargv) + 1)
          ELSE Len(told) = arch.counter
       /\ \A k \in 1..Len(told) :
            told[k] = [item |-> Turn(k), shown |-> HeaderName(Turn(k))]
  ELSE told = << >> /\ ended = FALSE

IInv == TypeOK /\ ArchInv /\ ToldInv

LEMMA ArchTyped ==
  ASSUME ArchInv
  PROVE  /\ arch.open \in BOOLEAN
         /\ ~arch.open <=> arch = Closed
         /\ arch.open => arch \in OpenArchives /\ Len(arch.gargv) \in Nat
                         /\ arch.counter \in 0..(Len(arch.gargv) + 1)
<1>1. CASE arch = Closed
  <2>1. Closed.open = FALSE  BY DEF Closed
  <2> QED  BY <1>1, <2>1
<1>2. CASE arch \in OpenArchives /\ arch.counter <= Len(arch.gargv) + 1
  <2>1. arch.open = TRUE /\ arch.gargv \in Seq(Items \ {Info}) /\ arch.counter \in Nat
    BY <1>2 DEF OpenArchives
  <2>2. Closed.open = FALSE  BY DEF Closed
  <2>3. arch # Closed  BY <2>1, <2>2
  <2>4. Len(arch.gargv) \in Nat  BY <2>1
  <2>5. arch.counter \in 0..(Len(arch.gargv) + 1)  BY <1>2, <2>1, <2>4
  <2>6. arch.open \in BOOLEAN /\ (~arch.open <=> arch = Closed)
    BY <2>1, <2>3
  <2> QED  BY <1>2, <2>4, <2>5, <2>6
<1> QED  BY <1>1, <1>2 DEF ArchInv

\* Every item has a header.
LEMMA HeaderTyped ==
  ASSUME NEW x \in Items
  PROVE  HeaderName(x) \in Shown
<1>1. NameOf(x) \in Shorts \cup {Passwd, Label, Info, All}
  BY ViewAssumption DEF NameOf, Items
<1>2. x # Info => DirOf(x) \in Users \cup {NoDir, Passwd, Label}
  BY ViewAssumption DEF DirOf, Items
<1> QED  BY <1>1, <1>2 DEF HeaderName, Shown

LEMMA TurnTyped ==
  ASSUME ArchInv, arch.open, NEW k \in Nat \ {0}
  PROVE  Turn(k) \in Items
<1>1. arch.gargv \in Seq(Items \ {Info}) /\ Len(arch.gargv) \in Nat
  BY ArchTyped DEF OpenArchives
<1>2. Info \in Items  BY DEF Items
<1> QED  BY <1>1, <1>2 DEF Turn

\* An announced header is about an item and shows its name.
LEMMA ToldTyped ==
  ASSUME ArchInv, arch.open, NEW k \in Nat \ {0}
  PROVE  [item |-> Turn(k), shown |-> HeaderName(Turn(k))]
           \in [item: Items, shown: Shown]
  BY TurnTyped, HeaderTyped

\* What ProcessFile works on was announced last.
LEMMA CurrentAnnounced ==
  ASSUME IInv, arch.open, arch.counter > 0
  PROVE  /\ Current \in Items
         /\ Len(told) \in Nat \ {0} /\ told[Len(told)].item = Current
<1>1. /\ arch \in OpenArchives /\ Len(arch.gargv) \in Nat
      /\ arch.counter \in 1..(Len(arch.gargv) + 1)
      /\ arch.lastInfo <=> arch.counter = Len(arch.gargv) + 1
  <2>1. ArchInv /\ arch # Closed  BY ArchTyped DEF IInv
  <2>2. arch.lastInfo <=> arch.counter = Len(arch.gargv) + 1
    BY <2>1 DEF ArchInv
  <2> QED  BY <2>1, <2>2, ArchTyped
<1>2. Len(told) = arch.counter
  BY <1>1 DEF IInv, ToldInv
<1>3. told[Len(told)].item = Turn(arch.counter)
  <2>1. Len(told) \in 1..Len(told)  BY <1>1, <1>2
  <2>2. told[Len(told)] = [item |-> Turn(Len(told)), shown |-> HeaderName(Turn(Len(told)))]
    BY <2>1 DEF IInv, ToldInv
  <2> QED  BY <2>2, <1>2
<1>4. Turn(arch.counter) = Current
  BY <1>1 DEF Turn, Current
<1>5. Turn(arch.counter) \in Items
  BY <1>1, TurnTyped DEF IInv
<1> QED  BY <1>1, <1>2, <1>3, <1>4, <1>5

(***************************************************************************)
(* The invariant holds at first and through every step.                    *)
(***************************************************************************)

LEMMA InitInv ==
  ASSUME Init
  PROVE  IInv
<1>1. ArchInv  BY DEF Init, ArchInv
<1>2. ~arch.open  BY DEF Init, Closed
<1>3. ToldInv  BY <1>2 DEF Init, ToldInv
<1>4. image \in [dir: [Entries -> Entry], label: BOOLEAN, writable: BOOLEAN]
  BY ViewAssumption DEF Init
<1>5. out \in [Paths -> Stored \cup {Nothing, Empty}]  BY DEF Init
<1>6. TypeOK
  <2>1. told \in Seq([item: Items, shown: Shown])
    <3> DEFINE T == [item: Items, shown: Shown]
    <3>1. told = << >>  BY DEF Init
    <3> HIDE DEF T
    <3>2. told \in Seq(T)  BY <3>1
    <3> QED  BY <3>2 DEF T
  <2> QED  BY <1>2, <1>4, <1>5, <2>1 DEF Init, TypeOK
<1> QED  BY <1>1, <1>3, <1>6 DEF IInv

\* Steps that leave the image, the archive and the listing alone.
LEMMA SameListing ==
  ASSUME IInv, UNCHANGED <<image, arch, told, ended>>,
         showInfo' \in BOOLEAN, (panel \subseteq Shown)',
         (out \in [Paths -> Stored \cup {Nothing, Empty}])',
         status' \in {"none", "ok", "error"}
  PROVE  IInv'
<1>1. ArchInv'  BY DEF IInv, ArchInv
<1>2. ToldInv'
  BY DEF IInv, ToldInv, Turn, HeaderName
<1>3. TypeOK'
  BY DEF IInv, TypeOK
<1> QED  BY <1>1, <1>2, <1>3 DEF IInv

\* Steps without an open archive, which change the image or the panel.
LEMMA NoArchive ==
  ASSUME IInv, ~arch.open, UNCHANGED <<showInfo, arch, told, ended, out>>,
         image' \in Disks, panel' \subseteq Shown, status' \in {"none", "ok", "error"}
  PROVE  IInv'
<1>1. arch = Closed /\ told = << >> /\ ended = FALSE
  BY ArchTyped DEF IInv, ToldInv
<1>2. ArchInv'  BY <1>1 DEF ArchInv
<1>3. ToldInv'  BY <1>1 DEF ToldInv
<1>4. TypeOK'
  BY <1>1 DEF IInv, TypeOK, Disks
<1> QED  BY <1>2, <1>3, <1>4 DEF IInv

\* TypeOK of the open archive, from what is known of its fields.
LEMMA TypedFrom ==
  ASSUME ArchInv', image' \in Disks, showInfo' \in BOOLEAN,
         told' \in Seq([item: Items, shown: Shown]), ended' \in BOOLEAN,
         panel' \subseteq Shown, (out \in [Paths -> Stored \cup {Nothing, Empty}])',
         status' \in {"none", "ok", "error"}
  PROVE  TypeOK'
<1>1. (arch.open => arch \in OpenArchives /\ Len(arch.gargv) \in Nat
                         /\ arch.counter \in 0..(Len(arch.gargv) + 1))'
  BY ArchTyped, PTL
<1>2. (arch.open =>
         /\ arch.gargv \in Seq(Items \ {Info})
         /\ arch.users \in BOOLEAN /\ arch.info \in BOOLEAN /\ arch.lastInfo \in BOOLEAN
         /\ arch.counter \in 0..(Len(arch.gargv) + 1))'
  BY <1>1 DEF OpenArchives
<1> QED  BY <1>2 DEF TypeOK, Disks

\* What ReadHeader announces next.
LEMMA AnnounceInv ==
  ASSUME IInv, arch.open, NEW x \in Items, NEW last \in BOOLEAN, last <=> x = Info,
         arch' = [arch EXCEPT !.counter = @ + 1, !.lastInfo = last],
         arch.counter <= Len(arch.gargv), x = Turn(arch.counter + 1),
         x = Info <=> arch.counter = Len(arch.gargv),
         Announce(x)
  PROVE  IInv'
<1> DEFINE T == [item: Items, shown: Shown]
           h == [item |-> x, shown |-> HeaderName(x)]
           before == IF ended THEN << >> ELSE told
<1>0. /\ arch \in OpenArchives /\ Len(arch.gargv) \in Nat /\ arch.counter \in Nat
      /\ arch.gargv = Glob(image) /\ arch.users = HasUsers(arch.gargv)
  <2>1. arch # Closed /\ ArchInv  BY ArchTyped DEF IInv
  <2>2. arch.gargv = Glob(image) /\ arch.users = HasUsers(arch.gargv)
    BY <2>1 DEF ArchInv
  <2> QED  BY <2>1, <2>2, ArchTyped
<1>1. /\ arch' \in OpenArchives
      /\ arch'.gargv = arch.gargv /\ arch'.users = arch.users /\ arch'.open
      /\ arch'.counter = arch.counter + 1 /\ arch'.lastInfo = last
  <2>1. arch' = [gargv |-> arch.gargv, open |-> TRUE, users |-> arch.users,
                 info |-> arch.info, counter |-> arch.counter + 1, lastInfo |-> last]
    BY <1>0 DEF OpenArchives
  <2>2. /\ arch.gargv \in Seq(Items \ {Info}) /\ arch.users \in BOOLEAN
        /\ arch.info \in BOOLEAN /\ arch.counter + 1 \in Nat
    BY <1>0 DEF OpenArchives
  <2> QED  BY <2>1, <2>2 DEF OpenArchives
<1>2. ArchInv'
  <2>1. arch'.gargv = Glob(image') /\ arch'.users = HasUsers(arch'.gargv)
    BY <1>0, <1>1 DEF Announce
  <2>2. arch'.counter <= Len(arch'.gargv) + 1
        /\ (arch'.lastInfo <=> arch'.counter = Len(arch'.gargv) + 1)
    BY <1>0, <1>1
  <2> QED  BY <1>1, <2>1, <2>2 DEF ArchInv
<1>3. before \in Seq(T) /\ Len(before) = arch.counter
      /\ \A k \in 1..Len(before) :
           before[k] = [item |-> Turn(k), shown |-> HeaderName(Turn(k))]
  <2>1. CASE ended
    <3>1. before = << >> /\ arch.counter = 0  BY <2>1 DEF IInv, ToldInv
    <3> HIDE DEF before, T
    <3> QED  BY <3>1
  <2>2. CASE ~ended
    <3>1. before = told  BY <2>2
    <3> HIDE DEF before
    <3> QED  BY <3>1, <2>2 DEF IInv, ToldInv, TypeOK
  <2> QED  BY <2>1, <2>2
<1>4. h \in T  BY HeaderTyped
<1>5. told' = Append(before, h) /\ ended' = FALSE  BY DEF Announce
<1> HIDE DEF before, T, h
<1>6. /\ told' \in Seq(T) /\ Len(told') = arch.counter + 1
      /\ \A k \in 1..arch.counter : told'[k] = before[k]
      /\ told'[arch.counter + 1] = h
  BY <1>3, <1>4, <1>5, AppendProperties
<1>7. \A k \in Nat : (Turn(k))' = Turn(k)
                     /\ (HeaderName(Turn(k)))' = HeaderName(Turn(k))
  BY <1>1 DEF Turn, HeaderName
<1>8. \A k \in 1..(arch.counter + 1) :
        told'[k] = [item |-> Turn(k), shown |-> HeaderName(Turn(k))]
  <2> SUFFICES ASSUME NEW k \in 1..(arch.counter + 1)
               PROVE  told'[k] = [item |-> Turn(k), shown |-> HeaderName(Turn(k))]
    OBVIOUS
  <2>1. CASE k = arch.counter + 1  BY <2>1, <1>6 DEF h
  <2>2. CASE k # arch.counter + 1
    <3>1. k \in 1..arch.counter  BY <2>2, <1>0
    <3> QED  BY <3>1, <1>3, <1>6
  <2> QED  BY <2>1, <2>2
<1>9. ToldInv'
  <2>1. \A k \in 1..Len(told') :
          told'[k] = [item |-> (Turn(k))', shown |-> (HeaderName(Turn(k)))']
    BY <1>0, <1>6, <1>7, <1>8
  <2> QED  BY <1>1, <1>5, <1>6, <2>1 DEF ToldInv
<1>10. TypeOK'
  BY <1>2, <1>5, <1>6, TypedFrom DEF Announce, T, IInv, TypeOK, Disks
<1> QED  BY <1>2, <1>9, <1>10 DEF IInv

LEMMA NextHeaderInv ==
  ASSUME IInv, NextHeader
  PROVE  IInv'
<1> DEFINE x == arch.gargv[arch.counter + 1]
<1>1. /\ arch.open /\ arch \in OpenArchives
      /\ Len(arch.gargv) \in Nat /\ arch.counter \in Nat
  BY ArchTyped DEF IInv, NextHeader
<1>2. arch.counter + 1 \in 1..Len(arch.gargv)  BY <1>1 DEF NextHeader
<1>3. x \in Items \ {Info}
  BY <1>1, <1>2 DEF OpenArchives
<1>4. x = Turn(arch.counter + 1)  BY <1>2 DEF Turn
<1>5. arch' = [arch EXCEPT !.counter = @ + 1, !.lastInfo = FALSE] /\ Announce(x)
  BY <1>3 DEF NextHeader
<1> HIDE DEF x
<1>6. arch.counter <= Len(arch.gargv) /\ ~(arch.counter = Len(arch.gargv)) /\ x # Info
  BY <1>1, <1>2, <1>3
<1> QED  BY <1>1, <1>3, <1>4, <1>5, <1>6, AnnounceInv

LEMMA InfoHeaderInv ==
  ASSUME IInv, InfoHeader
  PROVE  IInv'
<1>1. /\ arch.open /\ Len(arch.gargv) \in Nat /\ arch.counter = Len(arch.gargv)
  BY ArchTyped DEF IInv, InfoHeader, InfoIsNext
<1>2. Info = Turn(arch.counter + 1)  BY <1>1 DEF Turn
<1>3. Info \in Items  BY DEF Items
<1>4. arch' = [arch EXCEPT !.counter = @ + 1, !.lastInfo = TRUE] /\ Announce(Info)
  BY DEF InfoHeader
<1>5. arch.counter <= Len(arch.gargv)  BY <1>1
<1> QED  BY <1>1, <1>2, <1>3, <1>4, <1>5, AnnounceInv

LEMMA EndOfHeadersInv ==
  ASSUME IInv, EndOfHeaders
  PROVE  IInv'
<1> DEFINE T == [item: Items, shown: Shown]
<1>0. /\ arch.open /\ arch \in OpenArchives
      /\ Len(arch.gargv) \in Nat /\ arch.counter \in 0..(Len(arch.gargv) + 1)
      /\ arch.counter >= Len(arch.gargv)
      /\ arch.gargv = Glob(image) /\ arch.users = HasUsers(arch.gargv)
  <2>1. arch # Closed /\ ArchInv  BY ArchTyped DEF IInv, EndOfHeaders
  <2>2. arch.gargv = Glob(image) /\ arch.users = HasUsers(arch.gargv)
    BY <2>1 DEF ArchInv
  <2> QED  BY <2>1, <2>2, ArchTyped DEF EndOfHeaders
<1>1. /\ arch' \in OpenArchives
      /\ arch'.gargv = arch.gargv /\ arch'.users = arch.users /\ arch'.open
      /\ arch'.counter = 0 /\ arch'.lastInfo = FALSE
  BY <1>0 DEF OpenArchives, EndOfHeaders
<1>2. ArchInv'
  <2>1. arch'.gargv = Glob(image') /\ arch'.users = HasUsers(arch'.gargv)
    BY <1>0, <1>1 DEF EndOfHeaders
  <2> QED  BY <1>0, <1>1, <2>1 DEF ArchInv
<1>3. told' \in Seq(T) /\ Len(told') \in Len(arch.gargv)..(Len(arch.gargv) + 1)
      /\ \A k \in 1..Len(told') :
           told'[k] = [item |-> Turn(k), shown |-> HeaderName(Turn(k))]
  <2>1. CASE ended
    <3>1. told' = << >> /\ Len(arch.gargv) = 0
      BY <2>1, <1>0 DEF EndOfHeaders, IInv, ToldInv
    <3> HIDE DEF T
    <3> QED  BY <3>1
  <2>2. CASE ~ended
    <3>1. told' = told /\ Len(told) = arch.counter
      BY <2>2, <1>0 DEF EndOfHeaders, IInv, ToldInv
    <3> QED  BY <3>1, <1>0 DEF IInv, ToldInv, TypeOK
  <2> QED  BY <2>1, <2>2
<1> HIDE DEF T
<1>4. \A k \in Nat : (Turn(k))' = Turn(k)
                     /\ (HeaderName(Turn(k)))' = HeaderName(Turn(k))
  BY <1>1 DEF Turn, HeaderName
<1>5. ToldInv'
  <2>1. ended' = TRUE /\ Len(told') \in Nat  BY <1>0, <1>3 DEF EndOfHeaders
  <2>2. \A k \in 1..Len(told') :
          told'[k] = [item |-> (Turn(k))', shown |-> (HeaderName(Turn(k)))']
    BY <1>3, <1>4, <2>1
  <2> QED  BY <1>1, <1>3, <2>1, <2>2 DEF ToldInv
<1>6. TypeOK'
  BY <1>2, <1>3, TypedFrom DEF EndOfHeaders, T, IInv, TypeOK, Disks
<1> QED  BY <1>2, <1>5, <1>6 DEF IInv

LEMMA OpenArchiveInv ==
  ASSUME IInv, OpenArchive
  PROVE  IInv'
<1> DEFINE g == Glob(image)
<1>0. image \in Disks  BY DEF IInv, TypeOK, Disks
<1>1. g \in Seq(Items \ {Info}) /\ Len(g) \in Nat
  BY <1>0, GlobLists
<1>2. told = << >> /\ ended = FALSE /\ told' = << >> /\ ended' = FALSE
  BY DEF IInv, ToldInv, OpenArchive
<1>3. HasUsers(g) \in BOOLEAN  BY DEF HasUsers
<1>4. PICK show \in BOOLEAN :
        /\ showInfo' = show
        /\ arch' = [open |-> TRUE, gargv |-> g, users |-> HasUsers(g),
                    info |-> show, counter |-> 0, lastInfo |-> FALSE]
  BY DEF OpenArchive
<1> HIDE DEF g
<1>5. /\ arch' \in OpenArchives /\ arch'.gargv = g /\ arch'.users = HasUsers(g)
      /\ arch'.open /\ arch'.counter = 0 /\ arch'.lastInfo = FALSE
  BY <1>1, <1>3, <1>4 DEF OpenArchives
<1>6. ArchInv'
  <2>1. arch'.gargv = Glob(image')  BY <1>5 DEF OpenArchive, g
  <2> QED  BY <1>1, <1>5, <2>1 DEF ArchInv
<1>7. ToldInv'
  <2>1. Len(told') = 0 /\ 1..0 = {}  BY <1>2
  <2> QED  BY <1>2, <1>5, <2>1 DEF ToldInv
<1>8. TypeOK'
  BY <1>2, <1>4, <1>6, TypedFrom DEF OpenArchive, IInv, TypeOK, Disks
<1> QED  BY <1>6, <1>7, <1>8 DEF IInv

LEMMA CloseArchiveInv ==
  ASSUME IInv, CloseArchive
  PROVE  IInv'
<1>1. ArchInv' /\ ~arch'.open  BY DEF CloseArchive, ArchInv, Closed
<1>2. ToldInv'  BY <1>1 DEF CloseArchive, ToldInv
<1>3. told' \in Seq([item: Items, shown: Shown])
  <2> DEFINE T == [item: Items, shown: Shown]
  <2>1. told' = << >>  BY DEF CloseArchive
  <2> HIDE DEF T
  <2>2. told' \in Seq(T)  BY <2>1
  <2> QED  BY <2>2 DEF T
<1>4. panel' \subseteq Shown
  <2>1. \A k \in 1..Len(told) : told[k] \in [item: Items, shown: Shown]
    <3> DEFINE T == [item: Items, shown: Shown]
    <3>1. told \in Seq(T)  BY DEF IInv, TypeOK
    <3> HIDE DEF T
    <3>2. \A k \in 1..Len(told) : told[k] \in T  BY <3>1
    <3> QED  BY <3>2 DEF T
  <2>2. \A k \in 1..Len(told) : told[k].shown \in Shown  BY <2>1
  <2> QED  BY <2>2 DEF CloseArchive
<1>5. TypeOK'
  BY <1>1, <1>3, <1>4, TypedFrom DEF CloseArchive, IInv, TypeOK, Disks
<1> QED  BY <1>1, <1>2, <1>5 DEF IInv

(***************************************************************************)
(* Extracting, testing and clearing files.                                 *)
(***************************************************************************)

OutTyped == out \in [Paths -> Stored \cup {Nothing, Empty}]

\* The current entry is written to p, where no file was.
Writes(p) ==
  /\ arch.open /\ arch.counter > 0 /\ out[p] = Nothing
  /\ \E w \in BOOLEAN :
       /\ out'[p] = Output(Current, w)
       /\ ~w => status' = "error"
       /\ p \in Temps => w /\ Current \in ReadOnly

\* What a step can do to the file p.
OutStep(p) ==
  \/ out'[p] = out[p]
  \/ out'[p] = Nothing
  \/ out'[p] = Empty /\ out[p] = Nothing
  \/ Writes(p)

LEMMA OutputStored ==
  ASSUME NEW x \in Items, NEW w \in BOOLEAN
  PROVE  Output(x, w) \in Stored
  BY DEF Output, Stored

\* A step that writes nothing but the current entry, and only where nothing was,
\* keeps the types.
LEMMA WriteTyped ==
  ASSUME IInv, NEW p \in Paths, NEW v, out' = [out EXCEPT ![p] = v],
         v \in {Nothing, Empty}
           \/ (arch.open /\ arch.counter > 0 /\ \E w \in BOOLEAN : v = Output(Current, w))
  PROVE  OutTyped' /\ out'[p] = v /\ \A q \in Paths : q # p => out'[q] = out[q]
<1>1. v \in Stored \cup {Nothing, Empty}
  BY CurrentAnnounced, OutputStored
<1>2. out \in [Paths -> Stored \cup {Nothing, Empty}]  BY DEF IInv, TypeOK
<1> QED  BY <1>1, <1>2 DEF OutTyped

LEMMA PathsApart ==
  ASSUME NEW d \in Dests
  PROVE  /\ d \in Paths /\ d \notin Temps
         /\ \A k \in 0..MaxSuffix : <<d, k>> \in Paths /\ <<d, k>> \notin Temps
  BY NamesAssumption DEF Paths, Partials

\* A step that changes nothing but out and status keeps the invariant.
LEMMA OutStepInv ==
  ASSUME IInv, NEW s \in {"ok", "error"}, Returns(s), OutTyped'
  PROVE  IInv'
  BY SameListing DEF Returns, OutTyped, IInv, TypeOK

LEMMA ExtractStep ==
  ASSUME IInv, NEW d \in Dests, Extract(d)
  PROVE  (\A p \in Paths : OutStep(p)) /\ IInv'
<1>1. CASE UNCHANGED out /\ Returns("error")
  <2>1. OutTyped'  BY <1>1 DEF OutTyped, IInv, TypeOK
  <2> QED  BY <1>1, <2>1, OutStepInv DEF OutStep
<1>2. CASE /\ CanStart /\ CanCreate(d)
           /\ out' = [out EXCEPT ![d] = Output(Current, TRUE)]
           /\ Returns("ok")
  <2>1. arch.open /\ arch.counter > 0 /\ out[d] = Nothing
    BY <1>2 DEF CanStart, CanCreate
  <2>2. OutTyped' /\ out'[d] = Output(Current, TRUE)
        /\ \A q \in Paths : q # d => out'[q] = out[q]
    BY <1>2, <2>1, PathsApart, WriteTyped
  <2>3. Writes(d)  BY <2>1, <2>2, PathsApart DEF Writes
  <2> QED  BY <1>2, <2>2, <2>3, OutStepInv DEF OutStep
<1>3. CASE /\ CanStart /\ CanCreate(d)
           /\ Preserve(d, Current)
           /\ Returns("error")
  <2>1. arch.open /\ arch.counter > 0 /\ out[d] = Nothing
    BY <1>3 DEF CanStart, CanCreate
  <2>2. PICK p \in Paths \ Temps : /\ out[p] = Nothing
                                  /\ out' = [out EXCEPT ![p] = Output(Current, FALSE)]
    <3>1. CASE \E k \in FreeSuffixes(d) : out' = [out EXCEPT ![<<d, k>>] = Output(Current, FALSE)]
      BY <3>1, PathsApart DEF FreeSuffixes
    <3>2. CASE out' = [out EXCEPT ![d] = Output(Current, FALSE)]
      BY <3>2, <2>1, PathsApart
    <3> QED  BY <1>3, <3>1, <3>2 DEF Preserve
  <2>3. OutTyped' /\ out'[p] = Output(Current, FALSE)
        /\ \A q \in Paths : q # p => out'[q] = out[q]
    BY <2>1, <2>2, WriteTyped
  <2>4. Writes(p)  BY <1>3, <2>1, <2>2, <2>3 DEF Writes, Returns
  <2> QED  BY <1>3, <2>3, <2>4, OutStepInv DEF OutStep
<1> QED  BY <1>1, <1>2, <1>3 DEF Extract

LEMMA TestStep ==
  ASSUME IInv, Test
  PROVE  (\A p \in Paths : OutStep(p)) /\ IInv'
<1>1. CASE UNCHANGED out /\ Returns("error")
  <2>1. OutTyped'  BY <1>1 DEF OutTyped, IInv, TypeOK
  <2> QED  BY <1>1, <2>1, OutStepInv DEF OutStep
<1>2. ASSUME NEW t \in Temps, CanStart, out[t] = Nothing,
             out' = [out EXCEPT ![t] = Empty], Returns("error")
      PROVE  (\A p \in Paths : OutStep(p)) /\ IInv'
  <2>1. t \in Paths  BY DEF Paths
  <2>2. OutTyped' /\ out'[t] = Empty /\ \A q \in Paths : q # t => out'[q] = out[q]
    BY <1>2, <2>1, WriteTyped
  <2> QED  BY <1>2, <2>2, OutStepInv DEF OutStep
<1>3. ASSUME NEW t \in Temps, CanStart, out[t] = Nothing,
             NEW w \in Ends(Current), out' = TestedTo(t, w),
             Returns(IF w THEN "ok" ELSE "error")
      PROVE  (\A p \in Paths : OutStep(p)) /\ IInv'
  <2> DEFINE v == IF w /\ KeptAfterTest(Current) THEN Output(Current, TRUE) ELSE Nothing
  <2>1. t \in Paths /\ arch.open /\ arch.counter > 0  BY <1>3 DEF Paths, CanStart
  <2>2. out' = [out EXCEPT ![t] = v]  BY <1>3 DEF TestedTo
  <2>3. v = Nothing \/ (v = Output(Current, TRUE) /\ Current \in ReadOnly)
    BY DEF KeptAfterTest
  <2> HIDE DEF v
  <2>4. OutTyped' /\ out'[t] = v /\ \A q \in Paths : q # t => out'[q] = out[q]
    BY <2>1, <2>2, <2>3, WriteTyped
  <2>5. OutStep(t)  BY <1>3, <2>1, <2>3, <2>4 DEF OutStep, Writes
  <2>6. (IF w THEN "ok" ELSE "error") \in {"ok", "error"}  OBVIOUS
  <2>7. IInv'  BY <1>3, <2>4, <2>6, OutStepInv
  <2> QED  BY <2>4, <2>5, <2>7 DEF OutStep
<1> QED  BY <1>1, <1>2, <1>3 DEF Test

LEMMA ClearStep ==
  ASSUME IInv, NEW p \in Paths, Clear(p)
  PROVE  (\A q \in Paths : OutStep(q)) /\ IInv'
<1>1. OutTyped' /\ out'[p] = Nothing /\ \A q \in Paths : q # p => out'[q] = out[q]
  BY WriteTyped DEF Clear
<1>2. IInv'
  BY <1>1, SameListing DEF Clear, OutTyped, IInv, TypeOK
<1> QED  BY <1>1, <1>2 DEF OutStep

(***************************************************************************)
(* Deleting.                                                               *)
(***************************************************************************)

\* An entry that a deletion changes is of a file the panel shows.
OnlyShown ==
  \A f \in Files : \A e \in AllEntriesOf(image.dir, f) :
    image'.dir[e] # image.dir[e] =>
      \E s \in panel : s.name = Short[f]
                      /\ (s.in = User[f] \/ (s.in = NoDir /\ User[f] = Root))

\* Of the names that can be marked only those shown name a file.
LEMMA NamedIsShown ==
  ASSUME IInv, NEW s \in Marked, NEW f \in Named(s)
  PROVE  s \in panel /\ s.name = Short[f]
         /\ (s.in = User[f] \/ (s.in = NoDir /\ User[f] = Root))
<1>1. f \in Files /\ Short[f] = s.name /\ User[f] = (IF s.in = NoDir THEN Root ELSE s.in)
  BY DEF Named
<1>2. s.name # All  BY <1>1, ViewAssumption, NamesAssumption
<1>3. s \in panel  BY <1>2 DEF Marked
<1> QED  BY <1>1, <1>3

LEMMA FreeEntryTyped == FreeEntry \in Entry
<1>1. /\ Free \in Owners /\ NoAttr \in Attrs /\ 0 \in 0..(ExtnoLimit - 1)
      /\ 0 \in 0..(2 * RecsPerExtent - 1) /\ 0 \in 0..(PtrLimit - 1)
  BY ConstantsAssumption DEF Owners
<1> QED  BY <1>1 DEF FreeEntry, Entry, NoPtrs

LEMMA DeleteFilesStep ==
  ASSUME IInv, NEW list \in Lists, DeleteFiles(list)
  PROVE  OnlyShown /\ IInv'
<1>0. image \in Disks /\ ~arch.open  BY DEF IInv, TypeOK, Disks, DeleteFiles
<1>1. CASE UNCHANGED image /\ status' = "error"
  <2>1. IInv'
    BY <1>0, <1>1, NoArchive DEF DeleteFiles, IInv, TypeOK
  <2> QED  BY <1>1, <2>1 DEF OnlyShown
<1>2. ASSUME NEW n \in 0..Len(list), NEW b \in 0..StorageBlks,
             image' = [image EXCEPT !.dir =
                        [e \in Entries |-> IF e \div EntriesPerBlock < b
                                           THEN Unlinked(image.dir, NamedIn(list, n))[e]
                                           ELSE image.dir[e]]],
             status' = IF n = Len(list) THEN "ok" ELSE "error"
      PROVE  OnlyShown /\ IInv'
  <2> DEFINE gone == NamedIn(list, n)
             d == [e \in Entries |-> IF e \div EntriesPerBlock < b
                                     THEN Unlinked(image.dir, gone)[e]
                                     ELSE image.dir[e]]
  <2>1. \A e \in Entries : d[e] = image.dir[e] \/ (d[e] = FreeEntry /\ image.dir[e].owner \in gone)
    BY DEF Unlinked
  <2>2. d \in [Entries -> Entry]
    <3>1. \A e \in Entries : d[e] \in Entry
      BY <2>1, <1>0, FreeEntryTyped DEF Disks
    <3>2. d = [e \in Entries |-> d[e]]  OBVIOUS
    <3> HIDE DEF d
    <3> QED  BY <3>1, <3>2
  <2>3. image' = [image EXCEPT !.dir = d]  BY <1>2
  <2> HIDE DEF d
  <2>4. image' \in Disks /\ image'.dir = d
    BY <2>2, <2>3, <1>0 DEF Disks
  <2>5. IInv'
    BY <1>0, <1>2, <2>4, NoArchive DEF DeleteFiles, IInv, TypeOK
  <2>6. PICK m \in ListLengths : list \in [1..m -> Marked]  BY DEF Lists
  <2>7. \A f \in gone : \E s \in panel :
          s.name = Short[f] /\ (s.in = User[f] \/ (s.in = NoDir /\ User[f] = Root))
    <3> SUFFICES ASSUME NEW f \in gone
                 PROVE  \E s \in panel : s.name = Short[f]
                          /\ (s.in = User[f] \/ (s.in = NoDir /\ User[f] = Root))
      OBVIOUS
    <3>1. PICK k \in 1..n : f \in Named(list[k])  BY DEF NamedIn
    <3>2. m \in Nat /\ Len(list) = m  BY <2>6, ViewAssumption
    <3>3. k \in 1..m  BY <3>2
    <3>4. list[k] \in Marked  BY <3>3, <2>6
    <3> QED  BY <3>1, <3>4, NamedIsShown
  <2>8. OnlyShown
    <3> SUFFICES ASSUME NEW f \in Files, NEW e \in AllEntriesOf(image.dir, f),
                        image'.dir[e] # image.dir[e]
                 PROVE  f \in gone
      BY <2>7 DEF OnlyShown
    <3>1. e \in Entries /\ image.dir[e].owner = f  BY DEF AllEntriesOf
    <3> QED  BY <3>1, <2>1, <2>4
  <2> QED  BY <2>5, <2>8
<1> QED  BY <1>1, <1>2 DEF DeleteFiles

(***************************************************************************)
(* All steps.                                                              *)
(***************************************************************************)

LEMMA StepInv ==
  ASSUME IInv, [Next]_vars
  PROVE  /\ IInv'
         /\ \A p \in Paths : OutStep(p)
         /\ status' # "none" => OnlyShown
<1>1. CASE OpenArchive
  BY <1>1, OpenArchiveInv DEF OpenArchive, OutStep
<1>2. CASE Reconfigure
  <2>1. IInv'  BY <1>2, SameListing DEF Reconfigure, IInv, TypeOK
  <2>2. \A p \in Paths : OutStep(p)  BY <1>2 DEF Reconfigure, OutStep
  <2>3. OnlyShown  BY <1>2 DEF Reconfigure, OnlyShown
  <2> QED  BY <2>1, <2>2, <2>3
<1>3. CASE NextHeader
  BY <1>3, NextHeaderInv DEF NextHeader, Announce, OutStep
<1>4. CASE InfoHeader
  BY <1>4, InfoHeaderInv DEF InfoHeader, Announce, OutStep
<1>5. CASE EndOfHeaders
  BY <1>5, EndOfHeadersInv DEF EndOfHeaders, OutStep
<1>6. CASE CloseArchive
  BY <1>6, CloseArchiveInv DEF CloseArchive, OutStep
<1>7. ASSUME UNCHANGED image PROVE OnlyShown
  BY <1>7 DEF OnlyShown
<1>8. ASSUME NEW d \in Dests, Extract(d)
      PROVE  /\ IInv' /\ (\A p \in Paths : OutStep(p)) /\ OnlyShown
  BY <1>7, <1>8, ExtractStep DEF Extract, Returns
<1>9. CASE Test
  BY <1>7, <1>9, TestStep DEF Test, Returns
<1>10. ASSUME NEW p \in Paths, Clear(p)
       PROVE  /\ IInv' /\ (\A q \in Paths : OutStep(q)) /\ OnlyShown
  BY <1>7, <1>10, ClearStep DEF Clear
<1>11. ASSUME NEW list \in Lists, DeleteFiles(list)
       PROVE  /\ IInv' /\ (\A p \in Paths : OutStep(p)) /\ OnlyShown
  BY <1>11, DeleteFilesStep DEF DeleteFiles, OutStep
<1>12. CASE Replace
  <2>1. image' \in Disks  BY <1>12, ViewAssumption DEF Replace, Disks
  <2> QED  BY <1>12, <2>1, NoArchive DEF Replace, OutStep, IInv, TypeOK
<1>13. CASE UNCHANGED vars
  <2>1. IInv'  BY <1>13, SameListing DEF vars, IInv, TypeOK
  <2> QED  BY <1>13, <1>7, <2>1 DEF vars, OutStep
<1> QED
  BY <1>1, <1>2, <1>3, <1>4, <1>5, <1>6, <1>8, <1>9, <1>10, <1>11, <1>12, <1>13 DEF Next

THEOREM Invariance == Spec => []IInv
<1>1. Init => IInv  BY InitInv
<1>2. IInv /\ [Next]_vars => IInv'  BY StepInv
<1> QED  BY <1>1, <1>2, PTL DEF Spec

(***************************************************************************)
(* The theorems.                                                           *)
(***************************************************************************)

\* Type correctness of what ReadHeader announces, what ProcessFile writes and
\* what DeleteFiles leaves of the directory.
THEOREM TypeCorrect == Spec => []TypeOK
<1>1. IInv => TypeOK  BY DEF IInv
<1> QED  BY <1>1, Invariance, PTL

\* Two items of a listing have different names.
LEMMA NamesApart ==
  ASSUME ArchInv, arch.open, NEW j \in 1..(Len(arch.gargv) + 1),
         NEW k \in 1..(Len(arch.gargv) + 1), HeaderName(Turn(j)) = HeaderName(Turn(k))
  PROVE  Turn(j) = Turn(k)
<1> DEFINE x == Turn(j)
           y == Turn(k)
<1>1. /\ arch.users = HasUsers(arch.gargv) /\ Len(arch.gargv) \in Nat
      /\ arch.gargv \in Seq(Items \ {Info})
  <2>1. arch # Closed  BY ArchTyped
  <2>2. arch.users = HasUsers(arch.gargv)  BY <2>1 DEF ArchInv
  <2> QED  BY <2>1, <2>2, ArchTyped DEF OpenArchives
<1>2. x \in Items /\ y \in Items
  BY TurnTyped, <1>1
<1>3. ~arch.users => (x = Info \/ InRoot(x)) /\ (y = Info \/ InRoot(y))
  BY <1>1 DEF HasUsers, Turn
<1> HIDE DEF x, y
<1>4. NameOf(x) = NameOf(y)
  BY DEF HeaderName, x, y
<1>5. (IF arch.users /\ x # Info THEN DirOf(x) ELSE NoDir)
        = (IF arch.users /\ y # Info THEN DirOf(y) ELSE NoDir)
  BY DEF HeaderName, x, y
<1>6. x \in Files => NameOf(x) \in Shorts /\ DirOf(x) \in Users
  BY ViewAssumption DEF NameOf, DirOf
<1>7. y \in Files => NameOf(y) \in Shorts /\ DirOf(y) \in Users
  BY ViewAssumption DEF NameOf, DirOf
<1>8. /\ x = Info => NameOf(x) = Info
      /\ y = Info => NameOf(y) = Info
  BY ItemsApart DEF NameOf
<1>9. x = Info <=> y = Info
  <2>1. CASE ~arch.users
    BY <2>1, <1>3, <1>4, <1>6, <1>7, <1>8, NamesAssumption DEF InRoot
  <2>2. CASE arch.users
    <3>1. /\ x # Info => DirOf(x) \in Users \cup {Passwd, Label}
          /\ y # Info => DirOf(y) \in Users \cup {Passwd, Label}
      BY <1>2, ViewAssumption DEF DirOf, Items
    <3>2. NoDir \notin Users \cup {Passwd, Label}
      BY NamesAssumption DEF NoDir, Passwd, Label
    <3> QED  BY <2>2, <1>5, <3>1, <3>2
  <2> QED  BY <2>1, <2>2
<1>10. CASE x = Info  BY <1>9, <1>10 DEF x, y
<1>11. CASE x # Info
  <2>1. y # Info  BY <1>9, <1>11
  <2>2. CASE x \in Files /\ y \in Files
    <3>1. Short[x] = Short[y]  BY <2>2, <1>4 DEF NameOf
    <3>2. User[x] = User[y]
      <4>1. CASE ~arch.users  BY <4>1, <1>3, <1>11, <2>1 DEF InRoot
      <4>2. CASE arch.users  BY <4>2, <1>5, <1>11, <2>1, <2>2 DEF DirOf
      <4> QED  BY <4>1, <4>2
    <3> QED  BY <2>2, <3>1, <3>2, ViewAssumption DEF x, y
  <2>3. CASE ~(x \in Files /\ y \in Files)
    <3>1. arch.users  BY <2>3, <1>3, <1>11, <2>1 DEF InRoot
    <3>2. DirOf(x) = DirOf(y)  BY <3>1, <1>5, <1>11, <2>1
    <3>3. (x \in Files \/ x = Passwd \/ x = Label) /\ (y \in Files \/ y = Passwd \/ y = Label)
      BY <1>2, <1>11, <2>1 DEF Items
    <3>4. /\ x \notin Files => DirOf(x) = x
          /\ y \notin Files => DirOf(y) = y
      BY DEF DirOf
    <3> QED  BY <2>3, <3>2, <3>3, <3>4, <1>6, <1>7, NamesAssumption DEF x, y
  <2> QED  BY <2>2, <2>3
<1> QED  BY <1>10, <1>11

\* One place of a sequence without repetitions, or none, has a given value.
LEMMA CountPlaces ==
  ASSUME NEW n \in Nat, NEW s, NEW v,
         \A j, k \in 1..n : s[j].item = s[k].item => j = k
  PROVE  Cardinality({k \in 1..n : s[k].item = v})
           = IF \E k \in 1..n : s[k].item = v THEN 1 ELSE 0
<1>1. CASE \E k \in 1..n : s[k].item = v
  <2>1. PICK j \in 1..n : s[j].item = v  BY <1>1
  <2>2. {k \in 1..n : s[k].item = v} = {j}  BY <2>1
  <2> QED  BY <1>1, <2>2, FS_Singleton
<1>2. CASE ~\E k \in 1..n : s[k].item = v
  <2>1. {k \in 1..n : s[k].item = v} = {}  BY <1>2
  <2> QED  BY <1>2, <2>1, FS_EmptySet
<1> QED  BY <1>1, <1>2

LEMMA ListingInv ==
  ASSUME IInv
  PROVE  ListedOnce
<1> SUFFICES ASSUME ExtentsDistinct(image.dir), arch.open
             PROVE  /\ ended =>
                         /\ \A f \in Files :
                              Cardinality({k \in 1..Len(told) : told[k].item = f})
                                = IF f \in Present(image.dir) THEN 1 ELSE 0
                         /\ \A k \in 1..(Len(told) - 1) : told[k].item # Info
                    /\ \A j, k \in 1..Len(told) : told[j].shown = told[k].shown => j = k
  <2>1. ~arch.open => ~ended  BY DEF IInv, ToldInv
  <2> QED  BY <2>1 DEF ListedOnce
<1> DEFINE g == arch.gargv
           n == Len(g)
<1>1. image \in Disks /\ ArchInv /\ arch \in OpenArchives /\ g = Glob(image)
  <2>1. ArchInv /\ arch # Closed  BY ArchTyped DEF IInv
  <2>2. arch.gargv = Glob(image)  BY <2>1 DEF ArchInv
  <2> QED  BY <2>1, <2>2, ArchTyped DEF IInv, TypeOK, Disks
<1>2. /\ n \in Nat
      /\ \A k \in 1..n : g[k] \in Items \ {Info}
      /\ \A f \in Files : f \in Present(image.dir) <=> \E k \in 1..n : g[k] = f
      /\ \A j, k \in 1..n : g[j] = g[k] => j = k
  <2>1. g \in Seq(Items \ {Info})  BY <1>1, GlobLists
  <2> QED  BY <2>1, <1>1, GlobLists
<1>3. /\ Len(told) \in 0..(n + 1)
      /\ ended => Len(told) \in n..(n + 1)
      /\ \A k \in 1..Len(told) : told[k].item = Turn(k) /\ told[k].shown = HeaderName(Turn(k))
  <2>1. arch.counter \in 0..(n + 1)  BY <1>1, ArchTyped
  <2>2. IF ended THEN Len(told) \in n..(n + 1) ELSE Len(told) = arch.counter
    BY DEF IInv, ToldInv
  <2>3. \A k \in 1..Len(told) :
          told[k] = [item |-> Turn(k), shown |-> HeaderName(Turn(k))]
    BY DEF IInv, ToldInv
  <2>4. Len(told) \in 0..(n + 1) /\ (ended => Len(told) \in n..(n + 1))
    <3> HIDE DEF n
    <3> QED  BY <2>1, <2>2, <1>2
  <2>5. \A k \in 1..Len(told) : told[k].item = Turn(k) /\ told[k].shown = HeaderName(Turn(k))
    <3> SUFFICES ASSUME NEW k \in 1..Len(told)
                 PROVE  told[k].item = Turn(k) /\ told[k].shown = HeaderName(Turn(k))
      OBVIOUS
    <3>1. told[k] = [item |-> Turn(k), shown |-> HeaderName(Turn(k))]  BY <2>3
    <3> QED  BY <3>1
  <2> QED  BY <2>4, <2>5
<1>4. \A k \in 1..(n + 1) : Turn(k) = IF k <= n THEN g[k] ELSE Info
  BY DEF Turn
<1> HIDE DEF g, n
<1>5. \A j, k \in 1..(n + 1) : Turn(j) = Turn(k) => j = k
  BY <1>2, <1>4
<1>6. \A j, k \in 1..Len(told) : told[j].item = told[k].item => j = k
  BY <1>2, <1>3, <1>5
<1>7. \A j, k \in 1..Len(told) : told[j].shown = told[k].shown => j = k
  <2> SUFFICES ASSUME NEW j \in 1..Len(told), NEW k \in 1..Len(told),
                      told[j].shown = told[k].shown
               PROVE  j = k
    OBVIOUS
  <2>1. j \in 1..(n + 1) /\ k \in 1..(n + 1)  BY <1>2, <1>3
  <2>2. HeaderName(Turn(j)) = HeaderName(Turn(k))  BY <1>3
  <2>3. Turn(j) = Turn(k)  BY <1>1, <2>1, <2>2, NamesApart DEF g, n
  <2> QED  BY <2>1, <2>3, <1>5
<1>8. ASSUME ended, NEW f \in Files
      PROVE  Cardinality({k \in 1..Len(told) : told[k].item = f})
               = IF f \in Present(image.dir) THEN 1 ELSE 0
  <2>1. f \in Present(image.dir) <=> \E k \in 1..Len(told) : told[k].item = f
    BY <1>2, <1>3, <1>4, <1>8, ItemsApart
  <2> DEFINE m == Len(told)
  <2>2. m \in Nat  BY <1>2, <1>3
  <2>3. \A j, k \in 1..m : told[j].item = told[k].item => j = k  BY <1>6
  <2> HIDE DEF m
  <2>4. Cardinality({k \in 1..m : told[k].item = f})
          = IF \E k \in 1..m : told[k].item = f THEN 1 ELSE 0
    BY <2>2, <2>3, CountPlaces
  <2> QED  BY <2>1, <2>4 DEF m
<1>9. ASSUME ended, NEW k \in 1..(Len(told) - 1) PROVE told[k].item # Info
  BY <1>2, <1>3, <1>4, <1>9
<1> QED  BY <1>7, <1>8, <1>9

\* Whatever the order of a directory's entries and however often the listing
\* starts over, a complete pass of ReadHeader announces every file of the image
\* once and the report at most once and last, and no two names of a listing are
\* the same, provided no extent of a file is in the directory twice.
THEOREM EveryFileOnce == Spec => []ListedOnce
<1>1. IInv => ListedOnce  BY ListingInv
<1> QED  BY <1>1, Invariance, PTL

LEMMA NoOutputIsStored == Nothing \notin Stored /\ Empty \notin Stored
  BY NamesAssumption DEF Nothing, Empty, Output, Stored, Items, Passwd, Label, Info

\* ProcessFile stores nothing but the entry ReadHeader announced last.
THEOREM ExtractedIsAnnounced == Spec => ExtractsAnnounced
<1>1. ASSUME IInv, [Next]_vars, NEW p \in Paths, out'[p] # out[p], out'[p] \in Stored
      PROVE  out'[p].of = told[Len(told)].item
  <2>1. Writes(p)  BY <1>1, StepInv, NoOutputIsStored DEF OutStep
  <2>2. told[Len(told)].item = Current  BY <1>1, <2>1, CurrentAnnounced DEF Writes
  <2> QED  BY <2>1, <2>2 DEF Writes, Output
<1>2. IInv /\ [Next]_vars =>
        \A p \in Paths : out'[p] # out[p] /\ out'[p] \in Stored =>
          out'[p].of = told[Len(told)].item
  BY <1>1
<1> QED  BY <1>2, Invariance, PTL DEF Spec, ExtractsAnnounced

\* No step of the plugin changes a file that is there: a name that is taken is
\* refused, and an incomplete file is preserved under a name that is free.
THEOREM NothingOverwritten == Spec => ExistingKept
<1>1. ASSUME IInv, [Next]_vars, NEW p \in Paths, out[p] # Nothing
      PROVE  out'[p] \in {out[p], Nothing}
  BY <1>1, StepInv DEF OutStep, Writes
<1>2. IInv /\ [Next]_vars =>
        \A p \in Paths : out[p] # Nothing => out'[p] \in {out[p], Nothing}
  BY <1>1
<1> QED  BY <1>2, Invariance, PTL DEF Spec, ExistingKept

\* ProcessFile never returns a success with an incomplete file, and of a test
\* nothing remains but the copy of a read-only file or an empty temporary file.
THEOREM NothingHalfExtracted == Spec => NothingHalfDone
<1>1. ASSUME IInv, [Next]_vars, NEW p \in Paths, out'[p] # out[p], out'[p] # Nothing
      PROVE  /\ out'[p] \in Stored /\ ~out'[p].whole => status' = "error"
             /\ p \in Temps => \/ out'[p] = Empty
                               \/ out'[p].whole /\ out'[p].of \in ReadOnly
  <2>1. out'[p] = Empty \/ Writes(p)  BY <1>1, StepInv DEF OutStep
  <2>2. CASE out'[p] = Empty  BY <2>2, NoOutputIsStored
  <2>3. CASE Writes(p)
    <3>1. PICK w \in BOOLEAN : /\ out'[p] = Output(Current, w)
                               /\ ~w => status' = "error"
                               /\ p \in Temps => w /\ Current \in ReadOnly
      BY <2>3 DEF Writes
    <3>2. out'[p].whole = w /\ out'[p].of = Current  BY <3>1 DEF Output
    <3> QED  BY <3>1, <3>2
  <2> QED  BY <2>1, <2>2, <2>3
<1>2. IInv /\ [Next]_vars =>
        \A p \in Paths : out'[p] # out[p] /\ out'[p] # Nothing =>
          /\ out'[p] \in Stored /\ ~out'[p].whole => status' = "error"
          /\ p \in Temps => \/ out'[p] = Empty
                            \/ out'[p].whole /\ out'[p].of \in ReadOnly
  BY <1>1
<1> QED  BY <1>2, Invariance, PTL DEF Spec, NothingHalfDone

\* Whatever image is there by now and whichever names are marked, a whole user
\* area included, DeleteFiles changes no entry of a file that the panel does not
\* show under its name and user area.
THEOREM DeletesWhatIsShown == Spec => DeletesOnlyShown
<1>1. ASSUME IInv, [Next]_vars, status' # "none", NEW f \in Present(image.dir)
      PROVE  \/ \A e \in AllEntriesOf(image.dir, f) : image'.dir[e] = image.dir[e]
             \/ \E s \in panel : s.name = Short[f] /\ s.in = User[f]
             \/ \E s \in panel : s.name = Short[f] /\ s.in = NoDir /\ User[f] = Root
  <2>1. f \in Files  BY DEF Present
  <2> QED  BY <1>1, <2>1, StepInv DEF OnlyShown
<1>2. IInv /\ [Next]_vars =>
        (status' # "none" =>
           \A f \in Present(image.dir) :
             \/ \A e \in AllEntriesOf(image.dir, f) : image'.dir[e] = image.dir[e]
             \/ \E s \in panel : s.name = Short[f] /\ s.in = User[f]
             \/ \E s \in panel : s.name = Short[f] /\ s.in = NoDir /\ User[f] = Root)
  BY <1>1
<1> QED  BY <1>2, Invariance, PTL DEF Spec, DeletesOnlyShown

==============================================================================
