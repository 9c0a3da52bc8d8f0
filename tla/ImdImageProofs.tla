--------------------------- MODULE ImdImageProofs ---------------------------
(***************************************************************************)
(* Proofs about ImdImage, for any images and tracks: type correctness, and *)
(* that no block of the store is lost or held twice.                       *)
(***************************************************************************)
EXTENDS ImdImage, SequenceTheorems, WellFoundedInduction, TLAPS

------------------------------------------------------------------------------
(* The block store *)

\* A set of numbers that has a member has a least one.
LEMMA LeastExists ==
  ASSUME NEW S, S \subseteq Nat, S # {}
  PROVE  \E i \in S : \A j \in S : i <= j
<1> DEFINE less == {p \in Nat \X Nat : p[1] < p[2]}
<1>1. IsWellFoundedOn(less, Nat)
  BY NatLessThanWellFounded DEF OpToRel
<1>2. PICK i \in S : \A j \in S : <<j, i>> \notin less
  <2> HIDE DEF less
  <2> QED BY <1>1, WFMin
<1>3. ASSUME NEW j \in S PROVE i <= j
  <2>1. i \in Nat /\ j \in Nat /\ <<j, i>> \in Nat \X Nat
    OBVIOUS
  <2>2. ~ (<<j, i>>[1] < <<j, i>>[2])
    BY <2>1, <1>2
  <2> QED BY <2>1, <2>2
<1> QED BY <1>3

\* Removing a place of a sequence closes the gap.
LEMMA RemovalShifts ==
  ASSUME NEW S, NEW s \in Seq(S), NEW i \in 1 .. Len(s)
  PROVE  /\ RemoveAt(s, i) \in Seq(S)
         /\ Len(RemoveAt(s, i)) = Len(s) - 1
         /\ \A j \in 1 .. Len(s) - 1 :
              RemoveAt(s, i)[j] = IF j < i THEN s[j] ELSE s[j + 1]
<1> DEFINE a == SubSeq(s, 1, i - 1)
           b == SubSeq(s, i + 1, Len(s))
<1>1. a \in Seq(S) /\ Len(a) = i - 1 /\ \A j \in 1 .. i - 1 : a[j] = s[j]
  OBVIOUS
<1>2. b \in Seq(S) /\ Len(b) = Len(s) - i /\ \A j \in 1 .. Len(s) - i : b[j] = s[i + j]
  OBVIOUS
<1>3. RemoveAt(s, i) = a \o b
  BY DEF RemoveAt
<1> HIDE DEF a, b
<1>4. a \o b \in Seq(S) /\ Len(a \o b) = Len(s) - 1
  <2>1. Len(a \o b) = Len(a) + Len(b)
    BY <1>1, <1>2, ConcatProperties
  <2>2. a \o b \in Seq(S)
    BY <1>1, <1>2
  <2> QED BY <2>1, <2>2, <1>1, <1>2
<1>5. ASSUME NEW j \in 1 .. Len(s) - 1
      PROVE  (a \o b)[j] = IF j < i THEN s[j] ELSE s[j + 1]
  <2>1. CASE j < i
    BY <2>1, <1>1, <1>2
  <2>2. CASE ~ (j < i)
    <3>1. j - Len(a) \in 1 .. Len(s) - i /\ (a \o b)[j] = b[j - Len(a)]
      BY <2>2, <1>1, <1>2
    <3>2. i + (j - Len(a)) = j + 1
      BY <1>1
    <3> QED BY <2>2, <3>1, <3>2, <1>2
  <2> QED BY <2>1, <2>2
<1> QED BY <1>3, <1>4, <1>5

\* The free chain without one of its blocks.
LEMMA RemovalIsExact ==
  ASSUME NEW S, NEW s \in Seq(S), NEW i \in 1 .. Len(s), IsInjective(s)
  PROVE  /\ IsInjective(RemoveAt(s, i))
         /\ Range(RemoveAt(s, i)) = Range(s) \ {s[i]}
<1> DEFINE r == RemoveAt(s, i)
           old(j) == IF j < i THEN j ELSE j + 1
<1>1. /\ DOMAIN r = 1 .. Len(s) - 1
      /\ \A j \in DOMAIN r : r[j] = s[old(j)] /\ old(j) \in 1 .. Len(s) /\ old(j) # i
  <2>1. r \in Seq(S) /\ Len(r) = Len(s) - 1
    BY RemovalShifts
  <2>2. \A j \in 1 .. Len(s) - 1 : r[j] = IF j < i THEN s[j] ELSE s[j + 1]
    BY RemovalShifts
  <2> HIDE DEF r
  <2>3. DOMAIN r = 1 .. Len(s) - 1
    BY <2>1
  <2> QED BY <2>2, <2>3
<1>2. \A j, k \in 1 .. Len(s) : s[j] = s[k] => j = k
  BY DEF IsInjective
<1> HIDE DEF r
<1>3. IsInjective(r)
  BY <1>1, <1>2 DEF IsInjective
<1>4. ASSUME NEW x \in Range(r) PROVE x \in Range(s) \ {s[i]}
  <2>1. PICK j \in DOMAIN r : x = r[j]
    BY DEF Range
  <2> QED BY <2>1, <1>1, <1>2 DEF Range
<1>5. ASSUME NEW x \in Range(s), x # s[i] PROVE x \in Range(r)
  <2>1. PICK k \in 1 .. Len(s) : x = s[k]
    BY DEF Range
  <2> DEFINE j == IF k < i THEN k ELSE k - 1
  <2>2. k # i
    BY <2>1, <1>5
  <2>3. j \in 1 .. Len(s) - 1 /\ old(j) = k
    BY <2>2
  <2> HIDE DEF j, old
  <2>4. j \in DOMAIN r /\ r[j] = x
    BY <1>1, <2>1, <2>3
  <2> QED BY <2>4 DEF Range
<1> QED BY <1>3, <1>4, <1>5 DEF r

Block == [type : BlockTypes, dlen : Nat, ulen : Nat, data : Payloads]
StoreInv(st) == st \in Stores(BlockTypes, Payloads) /\ Sound(st)

\* r is the store and the block when the contents of block old, of none if it is
\* Null, are replaced by data.
Replaced(st, old, r, type, data, len) ==
  /\ StoreInv(r.store)
  /\ r.id \in Nat \ {Null} /\ r.id \notin st.used \ {old}
  /\ r.store.used = (st.used \ {old}) \cup {r.id}
  /\ r.store.blocks[r.id].type = type
  /\ r.store.blocks[r.id].ulen = len
  /\ r.store.blocks[r.id].data = data
  /\ \A b \in st.used \ {old} : r.store.blocks[b] = st.blocks[b]

\* Blocks are numbered from 1.
LEMMA NullIsNoBlock ==
  ASSUME NEW st, StoreInv(st)
  PROVE  /\ Null \notin st.used
         /\ Ids(st) = 1 .. Len(st.blocks) /\ Len(st.blocks) \in Nat
         /\ \A b \in st.used : b \in Ids(st) /\ st.blocks[b] \in Block
<1>1. st.blocks \in Seq(Block)
  BY DEF StoreInv, Stores, Block
<1>2. Ids(st) = 1 .. Len(st.blocks) /\ Len(st.blocks) \in Nat
  BY <1>1 DEF Ids
<1>3. st.used \subseteq Ids(st)
  BY DEF StoreInv, Sound
<1>4. \A b \in Ids(st) : st.blocks[b] \in Block
  BY <1>1, <1>2
<1> QED BY <1>2, <1>3, <1>4 DEF Null

\* The empty store is sound.
LEMMA EmptyIsSound == StoreInv(EmptyStore)
<1>1. EmptyStore \in Stores(BlockTypes, Payloads)
  BY DEF EmptyStore, Stores
<1>2. Range(EmptyStore.free) = {} /\ Ids(EmptyStore) = {} /\ EmptyStore.used = {}
  BY DEF EmptyStore, Range, Ids
<1>3. IsInjective(EmptyStore.free)
  BY DEF EmptyStore, IsInjective
<1> QED BY <1>1, <1>2, <1>3 DEF StoreInv, Sound

\* A block comes off the free chain.
LEMMA TakeReplaces ==
  ASSUME NEW st, StoreInv(st), NEW i \in DOMAIN st.free,
         NEW type \in BlockTypes \ {Free}, NEW data \in Payloads, NEW len \in Nat \ {0}
  PROVE  Replaced(st, Null, Take(st, i, type, data, len), type, data, len)
<1> DEFINE id == st.free[i]
           r == Take(st, i, type, data, len)
           new == [type |-> type, dlen |-> st.blocks[id].dlen, ulen |-> len, data |-> data]
<1>1. /\ st.blocks \in Seq(Block) /\ st.used \in SUBSET Nat /\ st.free \in Seq(Nat)
      /\ st.used \cup Range(st.free) = Ids(st) /\ st.used \cap Range(st.free) = {}
      /\ IsInjective(st.free)
      /\ \A b \in Ids(st) : st.blocks[b].type = Free <=> b \notin st.used
  BY DEF StoreInv, Sound, Stores, Block
<1>2. i \in 1 .. Len(st.free)
  BY <1>1
<1>3. id \in Range(st.free) /\ id \in Ids(st) /\ id \notin st.used
  BY <1>1 DEF Range
<1>4. Ids(st) = 1 .. Len(st.blocks) /\ Len(st.blocks) \in Nat /\ Null \notin st.used
  BY NullIsNoBlock
<1>5. id \in Nat \ {Null}
  BY <1>3, <1>4 DEF Null
<1>6. /\ r.store.blocks = [st.blocks EXCEPT ![id] = new]
      /\ r.store.used = st.used \cup {id}
      /\ r.store.free = RemoveAt(st.free, i)
      /\ r.id = id
      /\ r.store = [blocks |-> r.store.blocks, used |-> r.store.used, free |-> r.store.free]
  BY DEF Take
<1>7. new \in Block
  <2>1. st.blocks[id] \in Block
    BY <1>1, <1>3, <1>4
  <2> QED BY <2>1 DEF Block
<1>8. /\ r.store.blocks \in Seq(Block)
      /\ DOMAIN r.store.blocks = Ids(st)
      /\ r.store.blocks[id] = new
      /\ \A b \in Ids(st) \ {id} : r.store.blocks[b] = st.blocks[b]
  <2>1. [st.blocks EXCEPT ![id] = new] \in Seq(Block)
    BY <1>1, <1>3, <1>4, <1>7
  <2>2. DOMAIN st.blocks = Ids(st)
    BY DEF Ids
  <2> QED BY <2>1, <2>2, <1>3, <1>6
<1>9. /\ RemoveAt(st.free, i) \in Seq(Nat)
      /\ IsInjective(RemoveAt(st.free, i))
      /\ Range(RemoveAt(st.free, i)) = Range(st.free) \ {id}
  BY <1>1, <1>2, RemovalShifts, RemovalIsExact
<1> HIDE DEF r, new, id
<1>10. r.store \in Stores(BlockTypes, Payloads)
  <2>1. r.store.used \in SUBSET Nat /\ r.store.free \in Seq(Nat)
    BY <1>1, <1>5, <1>6, <1>9
  <2> QED BY <2>1, <1>6, <1>8 DEF Stores, Block
<1>11. new.type # Free
  BY DEF new
<1>12. \A b \in Ids(st) : r.store.blocks[b].type = Free <=> b \notin r.store.used
  BY <1>1, <1>3, <1>6, <1>8, <1>11
<1>13. Sound(r.store)
  <2>1. Ids(r.store) = Ids(st)
    BY <1>8 DEF Ids
  <2> QED BY <2>1, <1>1, <1>3, <1>6, <1>9, <1>12 DEF Sound
<1>14. \A b \in st.used : r.store.blocks[b] = st.blocks[b]
  BY <1>1, <1>3, <1>8
<1>15. /\ r.store.blocks[r.id].type = type
       /\ r.store.blocks[r.id].ulen = len
       /\ r.store.blocks[r.id].data = data
  BY <1>6, <1>8 DEF new
<1> QED BY <1>3, <1>4, <1>5, <1>6, <1>10, <1>13, <1>14, <1>15 DEF Replaced, StoreInv, r, id

\* The store grows by a block.
LEMMA GrowReplaces ==
  ASSUME NEW st, StoreInv(st),
         NEW type \in BlockTypes \ {Free}, NEW data \in Payloads, NEW len \in Nat \ {0}
  PROVE  Replaced(st, Null, Grow(st, type, data, len), type, data, len)
<1> DEFINE id == Len(st.blocks) + 1
           r == Grow(st, type, data, len)
           new == [type |-> type, dlen |-> len, ulen |-> len, data |-> data]
<1>1. /\ st.blocks \in Seq(Block) /\ st.used \in SUBSET Nat /\ st.free \in Seq(Nat)
      /\ st.used \cup Range(st.free) = Ids(st) /\ st.used \cap Range(st.free) = {}
      /\ IsInjective(st.free)
      /\ \A b \in Ids(st) : st.blocks[b].type = Free <=> b \notin st.used
  BY DEF StoreInv, Sound, Stores, Block
<1>2. Ids(st) = 1 .. Len(st.blocks) /\ Len(st.blocks) \in Nat /\ Null \notin st.used
  BY NullIsNoBlock
<1>3. id \in Nat \ {Null} /\ id \notin Ids(st) /\ 1 .. id = Ids(st) \cup {id}
  BY <1>2 DEF Null
<1>4. new \in Block /\ new.type # Free
  BY DEF Block
<1>5. /\ r.store.blocks = Append(st.blocks, new)
      /\ r.store.used = st.used \cup {id}
      /\ r.store.free = st.free
      /\ r.id = id
      /\ r.store = [blocks |-> r.store.blocks, used |-> r.store.used, free |-> r.store.free]
  BY DEF Grow
<1> HIDE DEF new
<1>6. /\ r.store.blocks \in Seq(Block)
      /\ DOMAIN r.store.blocks = Ids(st) \cup {id}
      /\ r.store.blocks[id] = new
      /\ \A b \in Ids(st) : r.store.blocks[b] = st.blocks[b]
  <2>1. /\ Append(st.blocks, new) \in Seq(Block)
        /\ Len(Append(st.blocks, new)) = id
        /\ Append(st.blocks, new)[id] = new
        /\ \A b \in 1 .. Len(st.blocks) : Append(st.blocks, new)[b] = st.blocks[b]
    BY <1>1, <1>4
  <2> QED BY <2>1, <1>2, <1>3, <1>5
<1> HIDE DEF r, id
<1>7. r.store \in Stores(BlockTypes, Payloads)
  <2>1. r.store.used \in SUBSET Nat /\ r.store.free \in Seq(Nat)
    BY <1>1, <1>3, <1>5
  <2> QED BY <2>1, <1>5, <1>6 DEF Stores, Block
<1>8. Ids(r.store) = Ids(st) \cup {id}
  BY <1>6 DEF Ids
<1>9. \A b \in Ids(r.store) : r.store.blocks[b].type = Free <=> b \notin r.store.used
  BY <1>1, <1>3, <1>4, <1>5, <1>6, <1>8
<1>10. Sound(r.store)
  <2>1. Ids(st) \cap {id} = {} /\ Range(st.free) \subseteq Ids(st)
    BY <1>1, <1>3
  <2>2. /\ r.store.used \cup Range(r.store.free) = Ids(r.store)
        /\ r.store.used \cap Range(r.store.free) = {}
    BY <2>1, <1>1, <1>5, <1>8
  <2> QED BY <2>2, <1>1, <1>5, <1>9 DEF Sound
<1>11. \A b \in st.used : r.store.blocks[b] = st.blocks[b]
  BY <1>1, <1>6
<1>12. /\ r.store.blocks[r.id].type = type
       /\ r.store.blocks[r.id].ulen = len
       /\ r.store.blocks[r.id].data = data
  BY <1>5, <1>6 DEF new
<1>13. id \notin st.used
  BY <1>1, <1>3
<1> QED BY <1>2, <1>3, <1>5, <1>7, <1>10, <1>11, <1>12, <1>13 DEF Replaced, StoreInv, r, id

\* ldbs_addblock.
LEMMA AddReplaces ==
  ASSUME NEW st, StoreInv(st),
         NEW type \in BlockTypes \ {Free}, NEW data \in Payloads, NEW len \in Nat \ {0}
  PROVE  Replaced(st, Null, AddBlock(st, type, data, len), type, data, len)
<1> DEFINE exact(i) == st.blocks[st.free[i]].dlen = len
           first(i) == exact(i) /\ \A j \in 1 .. i - 1 : ~ exact(j)
<1>1. CASE \E i \in DOMAIN st.free : exact(i)
  <2>1. \E i \in DOMAIN st.free : first(i)
    <3> DEFINE hits == {i \in DOMAIN st.free : exact(i)}
    <3>0. DOMAIN st.free = 1 .. Len(st.free) /\ Len(st.free) \in Nat
      <4> HIDE DEF exact, first, hits
      <4>1. st.free \in Seq(Nat)
        BY DEF StoreInv, Stores
      <4> QED BY <4>1
    <3>1. hits # {} /\ hits \in SUBSET Nat
      BY <1>1, <3>0
    <3>2. \E i \in hits : \A j \in hits : i <= j
      <4> HIDE DEF hits
      <4> QED BY <3>1, LeastExists
    <3>3. PICK i \in hits : \A j \in hits : i <= j
      BY <3>2
    <3>4. i \in DOMAIN st.free /\ exact(i)
      BY <3>3
    <3>5. ASSUME NEW j \in 1 .. i - 1 PROVE ~ exact(j)
      <4>1. j \in DOMAIN st.free /\ ~ (i <= j)
        BY <3>0, <3>4
      <4>2. j \notin hits
        BY <3>3, <4>1
      <4> QED BY <4>1, <4>2
    <3> QED BY <3>4, <3>5
  <2>2. PICK i \in DOMAIN st.free : i = CHOOSE k \in DOMAIN st.free : first(k)
    BY <2>1
  <2>3. AddBlock(st, type, data, len) = Take(st, i, type, data, len)
    BY <1>1, <2>2 DEF AddBlock
  <2> QED BY <2>3, TakeReplaces
<1>2. CASE ~ \E i \in DOMAIN st.free : exact(i)
  <2>1. AddBlock(st, type, data, len) = Grow(st, type, data, len)
    BY <1>2 DEF AddBlock
  <2> QED BY <2>1, GrowReplaces
<1> QED BY <1>1, <1>2

\* ldbs_delblock.
LEMMA DelFrees ==
  ASSUME NEW st, StoreInv(st), NEW id \in st.used
  PROVE  LET new == DelBlock(st, id)
         IN /\ StoreInv(new)
            /\ new.used = st.used \ {id}
            /\ \A b \in st.used \ {id} : new.blocks[b] = st.blocks[b]
<1> DEFINE r == DelBlock(st, id)
           new == [type |-> Free, dlen |-> st.blocks[id].dlen, ulen |-> 0, data |-> NoData]
<1>1. /\ st.blocks \in Seq(Block) /\ st.used \in SUBSET Nat /\ st.free \in Seq(Nat)
      /\ st.used \cup Range(st.free) = Ids(st) /\ st.used \cap Range(st.free) = {}
      /\ IsInjective(st.free)
      /\ \A b \in Ids(st) : st.blocks[b].type = Free <=> b \notin st.used
  BY DEF StoreInv, Sound, Stores, Block
<1>2. Ids(st) = 1 .. Len(st.blocks) /\ Len(st.blocks) \in Nat /\ id \in Ids(st) /\ id \in Nat
  BY NullIsNoBlock, <1>1
<1>3. new \in Block
  <2>1. st.blocks[id] \in Block
    BY <1>1, <1>2
  <2> QED BY <2>1 DEF Block, BlockTypes, Payloads
<1>4. /\ r.blocks = [st.blocks EXCEPT ![id] = new]
      /\ r.used = st.used \ {id}
      /\ r.free = <<id>> \o st.free
      /\ r = [blocks |-> r.blocks, used |-> r.used, free |-> r.free]
  BY DEF DelBlock
<1>5. new.type = Free
  OBVIOUS
<1> HIDE DEF r, new
<1>6. /\ r.blocks \in Seq(Block)
      /\ DOMAIN r.blocks = Ids(st)
      /\ r.blocks[id] = new
      /\ \A b \in Ids(st) \ {id} : r.blocks[b] = st.blocks[b]
  <2>1. [st.blocks EXCEPT ![id] = new] \in Seq(Block)
    BY <1>1, <1>2, <1>3
  <2>2. DOMAIN st.blocks = Ids(st)
    BY DEF Ids
  <2> QED BY <2>1, <2>2, <1>2, <1>4
<1>7. /\ r.free \in Seq(Nat) /\ IsInjective(r.free)
      /\ Range(r.free) = Range(st.free) \cup {id}
  <2>1. <<id>> \in Seq(Nat) /\ Len(<<id>>) = 1 /\ <<id>>[1] = id
    BY <1>2
  <2>2. /\ r.free \in Seq(Nat) /\ Len(r.free) = 1 + Len(st.free)
        /\ \A k \in 1 .. 1 + Len(st.free) :
             r.free[k] = IF k <= 1 THEN <<id>>[k] ELSE st.free[k - 1]
    BY <2>1, <1>1, <1>4, ConcatProperties
  <2>3. DOMAIN r.free = 1 .. 1 + Len(st.free) /\ Len(st.free) \in Nat
        /\ DOMAIN st.free = 1 .. Len(st.free)
    BY <2>2, <1>1
  <2>4. \A k \in 2 .. 1 + Len(st.free) : k - 1 \in DOMAIN st.free /\ r.free[k] = st.free[k - 1]
    BY <2>2, <2>3
  <2>5. r.free[1] = id
    BY <2>1, <2>2, <2>3
  <2>6. \A k \in DOMAIN st.free : st.free[k] # id
    BY <1>1 DEF Range
  <2>7. IsInjective(r.free)
    <3> SUFFICES ASSUME NEW j \in DOMAIN r.free, NEW k \in DOMAIN r.free, r.free[j] = r.free[k]
                 PROVE  j = k
      BY DEF IsInjective
    <3> DEFINE n == Len(st.free)
    <3>0. n \in Nat /\ j \in 1 .. 1 + n /\ k \in 1 .. 1 + n
      BY <2>3
    <3>1. ASSUME NEW x \in 2 .. 1 + n PROVE r.free[x] # id
      BY <2>4, <2>6
    <3>2. CASE j = 1
      BY <3>0, <3>1, <3>2, <2>5
    <3>3. CASE k = 1
      BY <3>0, <3>1, <3>3, <2>5
    <3>4. CASE j # 1 /\ k # 1
      <4>1. j \in 2 .. 1 + n /\ k \in 2 .. 1 + n
        BY <3>0, <3>4
      <4>2. j - 1 \in DOMAIN st.free /\ k - 1 \in DOMAIN st.free
            /\ st.free[j - 1] = st.free[k - 1]
        BY <4>1, <2>4
      <4>3. j - 1 = k - 1
        BY <4>2, <1>1 DEF IsInjective
      <4> QED BY <4>1, <4>3
    <3> QED BY <3>2, <3>3, <3>4
  <2>8. ASSUME NEW x \in Range(r.free) PROVE x \in Range(st.free) \cup {id}
    <3>1. PICK k \in 1 .. 1 + Len(st.free) : x = r.free[k]
      BY <2>3 DEF Range
    <3>2. CASE k = 1
      BY <3>1, <3>2, <2>5
    <3>3. CASE k # 1
      <4>1. k \in 2 .. 1 + Len(st.free)
        BY <3>3, <2>3
      <4>2. k - 1 \in DOMAIN st.free /\ x = st.free[k - 1]
        BY <4>1, <3>1, <2>4
      <4> QED BY <4>2 DEF Range
    <3> QED BY <3>2, <3>3
  <2>9. ASSUME NEW x \in Range(st.free) PROVE x \in Range(r.free)
    <3>1. PICK k \in DOMAIN st.free : x = st.free[k]
      BY DEF Range
    <3>2. k + 1 \in 2 .. 1 + Len(st.free) /\ (k + 1) - 1 = k
      BY <2>3
    <3>3. r.free[k + 1] = x /\ k + 1 \in DOMAIN r.free
      BY <3>1, <3>2, <2>3, <2>4
    <3> QED BY <3>3 DEF Range
  <2>10. id \in Range(r.free)
    BY <2>3, <2>5 DEF Range
  <2> QED BY <2>2, <2>7, <2>8, <2>9, <2>10
<1>8. Ids(r) = Ids(st)
  BY <1>6 DEF Ids
<1>9. \A b \in Ids(r) : r.blocks[b].type = Free <=> b \notin r.used
  BY <1>1, <1>4, <1>5, <1>6, <1>8
<1>10. Sound(r)
  <2>1. r.used \cup Range(r.free) = Ids(r)
    BY <1>1, <1>2, <1>4, <1>7, <1>8
  <2>2. r.used \cap Range(r.free) = {}
    BY <1>1, <1>4, <1>7
  <2> QED BY <1>7, <1>9, <2>1, <2>2 DEF Sound
<1>11. r \in Stores(BlockTypes, Payloads)
  <2>1. r.used \in SUBSET Nat
    BY <1>1, <1>4
  <2>2. r.blocks \in Seq(Block) /\ r.free \in Seq(Nat)
    BY <1>6, <1>7
  <2>3. [blocks |-> r.blocks, used |-> r.used, free |-> r.free]
          \in [blocks : Seq(Block), used : SUBSET Nat, free : Seq(Nat)]
    <3> HIDE DEF Block
    <3> QED BY <2>1, <2>2
  <2> QED BY <2>3, <1>4 DEF Stores, Block
<1>12. \A b \in st.used \ {id} : r.blocks[b] = st.blocks[b]
  BY <1>1, <1>6
<1> QED BY <1>4, <1>10, <1>11, <1>12 DEF StoreInv, r

\* ldbs_putblock.
LEMMA PutReplaces ==
  ASSUME NEW st, StoreInv(st), NEW id \in st.used \cup {Null},
         NEW type \in BlockTypes \ {Free}, NEW data \in Payloads, NEW len \in Nat \ {0}
  PROVE  Replaced(st, id, PutBlock(st, id, type, data, len), type, data, len)
<1> DEFINE r == PutBlock(st, id, type, data, len)
<1>0. Null \notin st.used
  BY NullIsNoBlock
<1>1. CASE id = Null
  <2>1. r = AddBlock(st, type, data, len)
    BY <1>1 DEF PutBlock
  <2> QED BY <1>1, <2>1, AddReplaces
<1>2. CASE id # Null /\ st.blocks[id].type = type /\ st.blocks[id].ulen >= len /\ len # 0
  <2> DEFINE new == [type |-> st.blocks[id].type, dlen |-> st.blocks[id].dlen,
                     ulen |-> len, data |-> data]
  <2>1. /\ r.store.blocks = [st.blocks EXCEPT ![id] = new]
        /\ r.store.used = st.used /\ r.store.free = st.free
        /\ r.id = id
        /\ r.store = [blocks |-> r.store.blocks, used |-> r.store.used, free |-> r.store.free]
    BY <1>2 DEF PutBlock, RewriteBlock
  <2>2. /\ st.blocks \in Seq(Block) /\ st.used \in SUBSET Nat /\ st.free \in Seq(Nat)
        /\ st.used \cup Range(st.free) = Ids(st) /\ st.used \cap Range(st.free) = {}
        /\ IsInjective(st.free)
        /\ \A b \in Ids(st) : st.blocks[b].type = Free <=> b \notin st.used
    BY DEF StoreInv, Sound, Stores, Block
  <2>3. /\ id \in st.used /\ id \in Ids(st) /\ id \in Nat \ {Null} /\ st.blocks[id] \in Block
        /\ Ids(st) = 1 .. Len(st.blocks)
    BY <1>2, <2>2, NullIsNoBlock
  <2>4. new \in Block /\ new.type = type
    BY <1>2, <2>3 DEF Block
  <2>5. new.ulen = len /\ new.data = data
    OBVIOUS
  <2> HIDE DEF new, r
  <2>6. /\ r.store.blocks \in Seq(Block)
        /\ DOMAIN r.store.blocks = Ids(st)
        /\ r.store.blocks[id] = new
        /\ \A b \in Ids(st) \ {id} : r.store.blocks[b] = st.blocks[b]
    <3>1. [st.blocks EXCEPT ![id] = new] \in Seq(Block)
      BY <2>2, <2>3, <2>4
    <3>2. DOMAIN st.blocks = Ids(st)
      BY DEF Ids
    <3> QED BY <3>1, <3>2, <2>1, <2>3
  <2>7. r.store \in Stores(BlockTypes, Payloads)
    BY <2>1, <2>2, <2>6 DEF Stores, Block
  <2>8. Ids(r.store) = Ids(st)
    BY <2>6 DEF Ids
  <2>9. \A b \in Ids(r.store) : r.store.blocks[b].type = Free <=> b \notin r.store.used
    BY <2>1, <2>2, <2>3, <2>4, <2>6, <2>8
  <2>10. Sound(r.store)
    BY <2>1, <2>2, <2>8, <2>9 DEF Sound
  <2>11. \A b \in st.used \ {id} : r.store.blocks[b] = st.blocks[b]
    BY <2>2, <2>6
  <2>12. r.store.used = (st.used \ {id}) \cup {r.id} /\ r.id \notin st.used \ {id}
    BY <2>1, <2>3
  <2> QED BY <2>1, <2>3, <2>4, <2>5, <2>6, <2>7, <2>10, <2>11, <2>12
             DEF Replaced, StoreInv, r
<1>3. CASE id # Null /\ ~ (st.blocks[id].type = type /\ st.blocks[id].ulen >= len /\ len # 0)
  <2> DEFINE del == DelBlock(st, id)
  <2>1. /\ StoreInv(del)
        /\ del.used = st.used \ {id}
        /\ \A b \in st.used \ {id} : del.blocks[b] = st.blocks[b]
    BY <1>3, DelFrees
  <2>2. r = AddBlock(del, type, data, len)
    BY <1>3 DEF PutBlock
  <2> HIDE DEF del
  <2>3. Replaced(del, Null, r, type, data, len)
    BY <2>1, <2>2, AddReplaces
  <2>4. Null \notin del.used
    BY <1>0, <2>1
  <2> HIDE DEF r
  <2>5. del.used \ {Null} = st.used \ {id}
    BY <2>1, <2>4
  <2>6. Replaced(st, id, r, type, data, len)
    BY <2>1, <2>3, <2>5 DEF Replaced
  <2> QED BY <2>6 DEF r
<1> QED BY <1>1, <1>2, <1>3

------------------------------------------------------------------------------
(* Who holds the blocks *)

\* d is the directory, h[t] the header of a track as the next access sees it.
TrackHeads == Seq(Entries) \cup {NoHead}

Entry(h, t, n) == h[t] # NoHead /\ n \in DOMAIN h[t]
SectorBlock(h, t, n) == h[t][n].block

\* Every header and every sector has a block in use, of its own, and no block is
\* in use without one; a sector that is not blank has a block.
Typed(d, h) == d \in [Tracks -> Nat] /\ h \in [Tracks -> TrackHeads]
HeadersIn(st, d) ==
  \A t \in Tracks : d[t] # Null =>
    /\ d[t] \in st.used
    /\ st.blocks[d[t]].data \in Seq(Entries)
SectorsIn(st, h) ==
  \A t \in Tracks, n \in Nat : Entry(h, t, n) =>
    /\ SectorBlock(h, t, n) = Null => h[t][n].blank
    /\ SectorBlock(h, t, n) # Null =>
         /\ SectorBlock(h, t, n) \in st.used
         /\ st.blocks[SectorBlock(h, t, n)].data \in Contents
         /\ st.blocks[SectorBlock(h, t, n)].ulen \in Nat \ {0}
HeadersApart(d) ==
  \A t, u \in Tracks : d[t] # Null /\ d[t] = d[u] => t = u
SectorsApart(h) ==
  \A t, u \in Tracks, n, k \in Nat :
    Entry(h, t, n) /\ Entry(h, u, k) /\ SectorBlock(h, t, n) # Null
      /\ SectorBlock(h, t, n) = SectorBlock(h, u, k) => t = u /\ n = k
KindsApart(d, h) ==
  \A t, u \in Tracks, n \in Nat :
    Entry(h, u, n) /\ d[t] # Null => d[t] # SectorBlock(h, u, n)
NoneLost(st, d, h) ==
  \A b \in st.used : \/ \E t \in Tracks : d[t] = b
                     \/ \E t \in Tracks, n \in Nat : Entry(h, t, n) /\ SectorBlock(h, t, n) = b

Owned(st, d, h) ==
  /\ Typed(d, h) /\ HeadersIn(st, d) /\ SectorsIn(st, h)
  /\ HeadersApart(d) /\ SectorsApart(h) /\ KindsApart(d, h) /\ NoneLost(st, d, h)

\* The blocks of the sectors, of all but entry n of track t, are in store new what
\* they are in store st.
SectorKept(st, new, h, u, k) ==
  Entry(h, u, k) /\ SectorBlock(h, u, k) # Null =>
    new.blocks[SectorBlock(h, u, k)] = st.blocks[SectorBlock(h, u, k)]
SectorsKept(st, new, h) == \A u \in Tracks, k \in Nat : SectorKept(st, new, h, u, k)
OthersKept(st, new, h, t, n) ==
  \A u \in Tracks, k \in Nat : ~ (u = t /\ k = n) => SectorKept(st, new, h, u, k)

\* What reading the sector of an entry gives, and that of a file; and that the
\* block of a sector of the length asked for is of that length.
ValueOf(st, s) ==
  IF s.len # SectorLength \/ s.err # "none" THEN Bad
  ELSE IF s.blank \/ s.block = Null THEN s.filler ELSE st.blocks[s.block].data
FileValue(s) == IF s.err # "none" \/ s.len # SectorLength THEN Bad ELSE s.data
Whole(st, s) ==
  s.block # Null /\ s.len = SectorLength => st.blocks[s.block].ulen = SectorLength

\* A header stored anew keeps the blocks of everybody else.
LEMMA HeadOwned ==
  ASSUME NEW st, NEW d, NEW h, StoreInv(st), Owned(st, d, h),
         NEW t \in Tracks, h[t] \in Seq(Entries)
  PROVE  LET r == PutHead(st, d, t, h[t])
         IN /\ StoreInv(r.store) /\ Owned(r.store, r.dir, h) /\ SectorsKept(st, r.store, h)
            /\ \A u \in Tracks \ {t} : r.dir[u] = d[u]
            /\ \A u \in Tracks \ {t} : StoredHead(r.store, r.dir, u) = StoredHead(st, d, u)
            /\ r.dir[t] # Null /\ StoredHead(r.store, r.dir, t) = h[t]
<1> DEFINE old == d[t]
           head == h[t]
           put == PutBlock(st, old, HeadType(t), head, HeadLength(Len(head)))
           r == PutHead(st, d, t, head)
           new == put.store
           id == put.id
           e == [d EXCEPT ![t] = id]
<1>1. r.store = new /\ r.dir = e
  BY DEF PutHead
<1>2. /\ Typed(d, h) /\ HeadersIn(st, d) /\ SectorsIn(st, h)
      /\ HeadersApart(d) /\ SectorsApart(h) /\ KindsApart(d, h) /\ NoneLost(st, d, h)
  BY DEF Owned
<1>3. Replaced(st, old, put, HeadType(t), head, HeadLength(Len(head)))
  <2>1. old \in st.used \cup {Null}
    BY <1>2 DEF HeadersIn
  <2>2. HeadType(t) \in BlockTypes \ {Free}
    BY DEF HeadType, BlockTypes, Free
  <2>3. head \in Payloads
    BY DEF Payloads
  <2>4. HeadLength(Len(head)) \in Nat \ {0}
    BY DEF HeadLength
  <2> QED BY <2>1, <2>2, <2>3, <2>4, PutReplaces
<1> HIDE DEF put, r
<1>4. /\ StoreInv(new) /\ id \in Nat \ {Null} /\ id \notin st.used \ {old}
      /\ new.used = (st.used \ {old}) \cup {id}
      /\ new.blocks[id].data = head
      /\ \A b \in st.used \ {old} : new.blocks[b] = st.blocks[b]
  BY <1>3 DEF Replaced
<1>5. /\ e \in [Tracks -> Nat] /\ e[t] = id
      /\ \A u \in Tracks \ {t} : e[u] = d[u]
  BY <1>2, <1>4 DEF Typed
<1> HIDE DEF e, new, id
<1>6. \A u \in Tracks \ {t} : d[u] # Null => d[u] \in st.used \ {old} /\ d[u] # id
  BY <1>2, <1>4 DEF HeadersIn, HeadersApart
<1>7. \A u \in Tracks, n \in Nat :
        Entry(h, u, n) /\ SectorBlock(h, u, n) # Null =>
          SectorBlock(h, u, n) \in st.used \ {old} /\ SectorBlock(h, u, n) # id
  BY <1>2, <1>4 DEF SectorsIn, KindsApart
<1> HIDE DEF old
<1>8. HeadersIn(new, e)
  <2> SUFFICES ASSUME NEW u \in Tracks, e[u] # Null
               PROVE  e[u] \in new.used /\ new.blocks[e[u]].data \in Seq(Entries)
    BY DEF HeadersIn
  <2>1. CASE u = t
    BY <2>1, <1>4, <1>5
  <2>2. CASE u # t
    <3>1. d[u] # Null /\ e[u] = d[u]
      BY <2>2, <1>5
    <3>2. st.blocks[d[u]].data \in Seq(Entries)
      BY <3>1, <1>2 DEF HeadersIn
    <3> QED BY <3>1, <3>2, <2>2, <1>4, <1>6
  <2> QED BY <2>1, <2>2
<1>9. SectorsIn(new, h)
  <2> SUFFICES ASSUME NEW u \in Tracks, NEW n \in Nat, Entry(h, u, n), SectorBlock(h, u, n) # Null
               PROVE  /\ SectorBlock(h, u, n) \in new.used
                      /\ new.blocks[SectorBlock(h, u, n)].data \in Contents
                      /\ new.blocks[SectorBlock(h, u, n)].ulen \in Nat \ {0}
    BY <1>2 DEF SectorsIn
  <2>1. SectorBlock(h, u, n) \in st.used \ {old}
    BY <1>7
  <2>2. /\ st.blocks[SectorBlock(h, u, n)].data \in Contents
        /\ st.blocks[SectorBlock(h, u, n)].ulen \in Nat \ {0}
    BY <1>2 DEF SectorsIn
  <2> QED BY <2>1, <2>2, <1>4
<1>10. HeadersApart(e)
  BY <1>2, <1>5, <1>6 DEF HeadersApart
<1>11. KindsApart(e, h)
  <2> SUFFICES ASSUME NEW u \in Tracks, NEW v \in Tracks, NEW n \in Nat,
                      Entry(h, v, n), e[u] # Null, e[u] = SectorBlock(h, v, n)
               PROVE  FALSE
    BY DEF KindsApart
  <2>1. CASE u = t
    BY <2>1, <1>5, <1>7
  <2>2. CASE u # t
    BY <2>2, <1>2, <1>5 DEF KindsApart
  <2> QED BY <2>1, <2>2
<1>12. NoneLost(new, e, h)
  <2> SUFFICES ASSUME NEW b \in new.used
               PROVE  \/ \E u \in Tracks : e[u] = b
                      \/ \E u \in Tracks, n \in Nat : Entry(h, u, n) /\ SectorBlock(h, u, n) = b
    BY DEF NoneLost
  <2>1. CASE b = id
    BY <2>1, <1>5
  <2>2. CASE b # id
    <3>1. b \in st.used /\ b # old
      BY <2>2, <1>4
    <3>2. CASE \E u \in Tracks : d[u] = b
      BY <3>1, <3>2, <1>5 DEF old
    <3>3. CASE \E u \in Tracks, n \in Nat : Entry(h, u, n) /\ SectorBlock(h, u, n) = b
      BY <3>3
    <3> QED BY <3>1, <3>2, <3>3, <1>2 DEF NoneLost
  <2> QED BY <2>1, <2>2
<1>13. Owned(new, e, h)
  BY <1>2, <1>5, <1>8, <1>9, <1>10, <1>11, <1>12 DEF Owned, Typed
<1>14. ASSUME NEW u \in Tracks \ {t}
       PROVE  StoredHead(new, e, u) = StoredHead(st, d, u)
  <2>1. CASE d[u] = Null
    BY <2>1, <1>5 DEF StoredHead
  <2>2. CASE d[u] # Null
    BY <2>2, <1>4, <1>5, <1>6 DEF StoredHead
  <2> QED BY <2>1, <2>2
<1>15. StoredHead(new, e, t) = head /\ e[t] # Null
  BY <1>4, <1>5 DEF StoredHead
<1>16. SectorsKept(st, new, h)
  BY <1>4, <1>7 DEF SectorsKept, SectorKept
<1> QED BY <1>1, <1>4, <1>5, <1>13, <1>14, <1>15, <1>16 DEF r

\* Only the entries of the headers count.
LEMMA SameEntriesOwned ==
  ASSUME NEW st, NEW d, NEW h, NEW g, Owned(st, d, h), g \in [Tracks -> TrackHeads],
         \A u \in Tracks, n \in Nat : Entry(g, u, n) <=> Entry(h, u, n),
         \A u \in Tracks, n \in Nat : Entry(h, u, n) => g[u][n] = h[u][n]
  PROVE  Owned(st, d, g)
<1>1. \A u \in Tracks, n \in Nat : Entry(h, u, n) => SectorBlock(g, u, n) = SectorBlock(h, u, n)
  BY DEF SectorBlock
<1>2. SectorsIn(st, g)
  BY <1>1 DEF Owned, SectorsIn
<1>3. SectorsApart(g)
  BY <1>1 DEF Owned, SectorsApart
<1>4. KindsApart(d, g)
  BY <1>1 DEF Owned, KindsApart
<1>5. NoneLost(st, d, g)
  BY <1>1 DEF Owned, NoneLost
<1> QED BY <1>2, <1>3, <1>4, <1>5 DEF Owned, Typed

\* One entry of a header is made or changed: g is h but for entry n of track t,
\* whose old block, if it has one, is free now, and whose new one is its own.
Only(h, g, t, n) ==
  /\ \A u \in Tracks \ {t} : g[u] = h[u]
  /\ \A k \in Nat \ {n} : Entry(g, t, k) <=> Entry(h, t, k)
  /\ \A k \in Nat \ {n} : Entry(h, t, k) => g[t][k] = h[t][k]
Previous(h, t, n) == IF Entry(h, t, n) THEN SectorBlock(h, t, n) ELSE Null
Exchanged(st, new, old, id) ==
  /\ StoreInv(new)
  /\ id \notin st.used \ {old}
  /\ new.used = (st.used \ {old}) \cup (IF id = Null THEN {} ELSE {id})
  /\ \A b \in st.used \ {old} : new.blocks[b] = st.blocks[b]

Fits(st, h, new, g, t, n) ==
  /\ g \in [Tracks -> TrackHeads] /\ Only(h, g, t, n) /\ Entry(g, t, n)
  /\ Exchanged(st, new, Previous(h, t, n), SectorBlock(g, t, n))
  /\ SectorBlock(g, t, n) = Null => g[t][n].blank
  /\ SectorBlock(g, t, n) # Null =>
       /\ new.blocks[SectorBlock(g, t, n)].data \in Contents
       /\ new.blocks[SectorBlock(g, t, n)].ulen \in Nat \ {0}

LEMMA EntryOwned ==
  ASSUME NEW st, NEW d, NEW h, NEW new, NEW g, StoreInv(st), Owned(st, d, h),
         NEW t \in Tracks, NEW n \in Nat, Fits(st, h, new, g, t, n)
  PROVE  /\ Owned(new, d, g)
         /\ \A u \in Tracks : StoredHead(new, d, u) = StoredHead(st, d, u)
         /\ OthersKept(st, new, h, t, n)
<1> DEFINE old == Previous(h, t, n)
           id == SectorBlock(g, t, n)
<1>0. /\ g \in [Tracks -> TrackHeads] /\ Only(h, g, t, n) /\ Entry(g, t, n)
      /\ Exchanged(st, new, old, id)
      /\ id = Null => g[t][n].blank
      /\ id # Null => new.blocks[id].data \in Contents /\ new.blocks[id].ulen \in Nat \ {0}
  BY DEF Fits
<1>1. /\ Typed(d, h) /\ HeadersIn(st, d) /\ SectorsIn(st, h)
      /\ HeadersApart(d) /\ SectorsApart(h) /\ KindsApart(d, h) /\ NoneLost(st, d, h)
  BY DEF Owned
<1>2. Null \notin st.used /\ Null \notin new.used
  BY NullIsNoBlock, <1>0 DEF Exchanged
<1>3. ASSUME NEW u \in Tracks, NEW k \in Nat, ~ (u = t /\ k = n)
      PROVE  /\ Entry(g, u, k) <=> Entry(h, u, k)
             /\ Entry(g, u, k) => g[u][k] = h[u][k] /\ SectorBlock(g, u, k) = SectorBlock(h, u, k)
  BY <1>3, <1>0 DEF Only, Entry, SectorBlock
<1>4. ASSUME NEW u \in Tracks, NEW k \in Nat, ~ (u = t /\ k = n),
             Entry(h, u, k), SectorBlock(h, u, k) # Null
      PROVE  SectorBlock(h, u, k) \in st.used \ {old} /\ SectorBlock(h, u, k) # id
  <2>1. SectorBlock(h, u, k) \in st.used
    BY <1>1, <1>4 DEF SectorsIn
  <2>2. SectorBlock(h, u, k) # old
    BY <1>1, <1>4 DEF SectorsApart, Previous
  <2> QED BY <2>1, <2>2, <1>0 DEF Exchanged
<1>5. ASSUME NEW u \in Tracks, d[u] # Null
      PROVE  d[u] \in st.used \ {old} /\ d[u] # id
  <2>1. d[u] \in st.used
    BY <1>1, <1>5 DEF HeadersIn
  <2>2. d[u] # old
    BY <1>1, <1>5 DEF KindsApart, Previous
  <2> QED BY <2>1, <2>2, <1>0 DEF Exchanged
<1>6. /\ id # Null => id \in new.used
      /\ st.used \ {old} \subseteq new.used
      /\ \A b \in new.used : b = id \/ b \in st.used \ {old}
      /\ \A b \in st.used \ {old} : new.blocks[b] = st.blocks[b]
  BY <1>0 DEF Exchanged
<1> HIDE DEF old, id
<1>7. HeadersIn(new, d)
  BY <1>1, <1>5, <1>6 DEF HeadersIn
<1>8. SectorsIn(new, g)
  <2> SUFFICES ASSUME NEW u \in Tracks, NEW k \in Nat, Entry(g, u, k)
               PROVE  /\ SectorBlock(g, u, k) = Null => g[u][k].blank
                      /\ SectorBlock(g, u, k) # Null =>
                           /\ SectorBlock(g, u, k) \in new.used
                           /\ new.blocks[SectorBlock(g, u, k)].data \in Contents
                           /\ new.blocks[SectorBlock(g, u, k)].ulen \in Nat \ {0}
    BY DEF SectorsIn
  <2>1. CASE u = t /\ k = n
    BY <2>1, <1>6, <1>0 DEF id
  <2>2. CASE ~ (u = t /\ k = n)
    <3>1. Entry(h, u, k) /\ g[u][k] = h[u][k] /\ SectorBlock(g, u, k) = SectorBlock(h, u, k)
      BY <2>2, <1>3
    <3>2. CASE SectorBlock(h, u, k) = Null
      BY <3>1, <3>2, <1>1 DEF SectorsIn
    <3>3. CASE SectorBlock(h, u, k) # Null
      <4>1. SectorBlock(h, u, k) \in st.used \ {old}
        BY <3>1, <3>3, <2>2, <1>4
      <4>2. /\ st.blocks[SectorBlock(h, u, k)].data \in Contents
            /\ st.blocks[SectorBlock(h, u, k)].ulen \in Nat \ {0}
        BY <3>1, <3>3, <1>1 DEF SectorsIn
      <4> QED BY <4>1, <4>2, <3>1, <3>3, <1>6
    <3> QED BY <3>2, <3>3
  <2> QED BY <2>1, <2>2
<1>9. SectorsApart(g)
  <2> SUFFICES ASSUME NEW u \in Tracks, NEW v \in Tracks, NEW k \in Nat, NEW m \in Nat,
                      Entry(g, u, k), Entry(g, v, m), SectorBlock(g, u, k) # Null,
                      SectorBlock(g, u, k) = SectorBlock(g, v, m)
               PROVE  u = v /\ k = m
    BY DEF SectorsApart
  <2>1. CASE (u = t /\ k = n) /\ (v = t /\ m = n)
    BY <2>1
  <2>2. CASE (u = t /\ k = n) /\ ~ (v = t /\ m = n)
    BY <2>2, <1>3, <1>4, <1>0 DEF id
  <2>3. CASE ~ (u = t /\ k = n) /\ (v = t /\ m = n)
    BY <2>3, <1>3, <1>4, <1>0 DEF id
  <2>4. CASE ~ (u = t /\ k = n) /\ ~ (v = t /\ m = n)
    BY <2>4, <1>1, <1>3 DEF SectorsApart
  <2> QED BY <2>1, <2>2, <2>3, <2>4
<1>10. KindsApart(d, g)
  <2> SUFFICES ASSUME NEW u \in Tracks, NEW v \in Tracks, NEW k \in Nat,
                      Entry(g, v, k), d[u] # Null
               PROVE  d[u] # SectorBlock(g, v, k)
    BY DEF KindsApart
  <2>1. CASE v = t /\ k = n
    BY <2>1, <1>5, <1>0 DEF id
  <2>2. CASE ~ (v = t /\ k = n)
    BY <2>2, <1>1, <1>3 DEF KindsApart
  <2> QED BY <2>1, <2>2
<1>11. NoneLost(new, d, g)
  <2> SUFFICES ASSUME NEW b \in new.used
               PROVE  \/ \E u \in Tracks : d[u] = b
                      \/ \E u \in Tracks, k \in Nat : Entry(g, u, k) /\ SectorBlock(g, u, k) = b
    BY DEF NoneLost
  <2>1. CASE b = id
    BY <2>1, <1>0 DEF id
  <2>2. CASE b \in st.used \ {old}
    <3>1. CASE \E u \in Tracks : d[u] = b
      BY <3>1
    <3>2. CASE \E u \in Tracks, k \in Nat : Entry(h, u, k) /\ SectorBlock(h, u, k) = b
      <4>1. PICK u \in Tracks, k \in Nat : Entry(h, u, k) /\ SectorBlock(h, u, k) = b
        BY <3>2
      <4>2. ~ (u = t /\ k = n)
        BY <4>1, <2>2 DEF old, Previous
      <4> QED BY <4>1, <4>2, <1>3, <1>0
    <3> QED BY <3>1, <3>2, <2>2, <1>1 DEF NoneLost
  <2> QED BY <2>1, <2>2, <1>6
<1>12. Owned(new, d, g)
  BY <1>1, <1>7, <1>8, <1>9, <1>10, <1>11, <1>0 DEF Owned, Typed
<1>13. ASSUME NEW u \in Tracks PROVE StoredHead(new, d, u) = StoredHead(st, d, u)
  BY <1>5, <1>6 DEF StoredHead
<1>14. OthersKept(st, new, h, t, n)
  BY <1>4, <1>6 DEF OthersKept, SectorKept
<1> QED BY <1>12, <1>13, <1>14

------------------------------------------------------------------------------
(* The inductive invariant *)

HeadsOf(st, d, c) ==
  [t \in Tracks |-> IF c.track = t THEN c.head ELSE StoredHead(st, d, t)]
OwnInv == Sound(store) /\ Owned(store, dir, HeadsOf(store, dir, cur))

\* What has not begun or is over has nothing in memory; while tracks are loaded,
\* the directory has those before the current one; an open image differs from
\* the store at most in a header that is marked as changed.
ClosedInv == phase = "closed" => store = EmptyStore /\ dir = EmptyDir /\ cur = NoCur
SavingInv == phase = "saving" => cur = NoCur
LoadingInv ==
  phase = "loading" =>
    /\ at \in 1 .. Len(file.tracks) + 1
    /\ \A t \in Tracks : dir[t] # Null => \E i \in 1 .. at - 1 : file.tracks[i].track = t
    /\ cur.track = NoTrack => cur = NoCur
    /\ cur.track # NoTrack =>
         /\ at \in DOMAIN file.tracks /\ cur.track = file.tracks[at].track
         /\ cur.head \in Seq(Entries)
OpenInv ==
  phase = "open" =>
    /\ cur.dirty => cur.track # NoTrack /\ cur.head # NoHead /\ ~ readonly
    /\ cur.track # NoTrack /\ ~ cur.dirty => cur.head = StoredHead(store, dir, cur.track)

\* The tracks of a file that is being written are those before the next one, so
\* none is written twice.
Before(t, p) == t[1] < p.cyl \/ (t[1] = p.cyl /\ t[2] < p.head)
FileInv ==
  /\ Proper(file)
  /\ phase = "saving" => \A i \in DOMAIN file.tracks : Before(file.tracks[i].track, pos)

IInv ==
  /\ TypeOK /\ OwnInv /\ ClosedInv /\ SavingInv /\ LoadingInv /\ OpenInv /\ FileInv

\* Nothing is held of nothing.
LEMMA NothingOwned ==
  /\ StoreInv(EmptyStore)
  /\ EmptyDir \in [Tracks -> Nat]
  /\ NoCur \in [track : Tracks \cup {NoTrack}, head : Seq(Entries) \cup {NoHead},
                dirty : BOOLEAN]
  /\ Owned(EmptyStore, EmptyDir, HeadsOf(EmptyStore, EmptyDir, NoCur))
<1> DEFINE h == HeadsOf(EmptyStore, EmptyDir, NoCur)
<1>1. /\ EmptyDir \in [Tracks -> Nat] /\ \A t \in Tracks : EmptyDir[t] = Null
      /\ EmptyStore.used = {}
  BY DEF EmptyDir, Null, EmptyStore
<1>2. h \in [Tracks -> TrackHeads] /\ \A t \in Tracks : h[t] = NoHead
  BY <1>1, MarkersAssumption DEF HeadsOf, NoCur, StoredHead, TrackHeads
<1>3. \A t \in Tracks : \A n : ~ Entry(h, t, n)
  BY <1>2 DEF Entry
<1> HIDE DEF h
<1>4. Owned(EmptyStore, EmptyDir, h)
  BY <1>1, <1>2, <1>3 DEF Owned, Typed, HeadersIn, SectorsIn, HeadersApart, SectorsApart,
                          KindsApart, NoneLost
<1> QED BY <1>1, <1>4, EmptyIsSound DEF h, NoCur

\* The invariant holds once the store is dropped, of whatever is proper a file.
LEMMA DropKeeps ==
  ASSUME Drop, Proper(file'), readonly' \in BOOLEAN, reply' \in {"ok", "error", "crashed"}
  PROVE  IInv'
<1>1. TypeOK'
  <2>1. /\ file' \in Files /\ store' \in Stores(BlockTypes, Payloads)
        /\ dir' \in [Tracks -> Nat]
        /\ cur' \in [track : Tracks \cup {NoTrack}, head : Seq(Entries) \cup {NoHead},
                    dirty : BOOLEAN]
    BY NothingOwned DEF Drop, Proper, StoreInv
  <2>2. pos' \in [cyl : Nat, head : Nat] /\ at' \in Nat /\ writes' \in 0 .. MaxWrites
    BY TracksAssumption DEF Drop, Start
  <2>3. /\ readonly' \in BOOLEAN /\ phase' \in {"closed", "loading", "open", "saving"}
        /\ dirty' \in BOOLEAN /\ err' \in BOOLEAN /\ failed' \in BOOLEAN
    BY DEF Drop
  <2> QED BY <2>1, <2>2, <2>3 DEF TypeOK
<1>2. OwnInv'
  BY NothingOwned DEF Drop, OwnInv, StoreInv, HeadsOf, StoredHead
<1> QED BY <1>1, <1>2 DEF Drop, IInv, ClosedInv, SavingInv, LoadingInv, OpenInv, FileInv, Proper

\* The invariant holds initially.
LEMMA InitKeeps == Init => IInv
<1> SUFFICES ASSUME Init PROVE IInv
  OBVIOUS
<1>1. Proper(file)
  BY ImagesAssumption DEF Init
<1>2. TypeOK
  <2>1. /\ file \in Files /\ store \in Stores(BlockTypes, Payloads)
        /\ dir \in [Tracks -> Nat]
        /\ cur \in [track : Tracks \cup {NoTrack}, head : Seq(Entries) \cup {NoHead},
                   dirty : BOOLEAN]
    BY <1>1, NothingOwned DEF Init, Proper, StoreInv
  <2>2. pos \in [cyl : Nat, head : Nat] /\ at \in Nat /\ writes \in 0 .. MaxWrites
    BY TracksAssumption DEF Init, Start
  <2>3. /\ readonly \in BOOLEAN /\ phase \in {"closed", "loading", "open", "saving"}
        /\ dirty \in BOOLEAN /\ err \in BOOLEAN /\ failed \in BOOLEAN
        /\ reply \in {"ok", "error", "crashed"}
    BY DEF Init
  <2> QED BY <2>1, <2>2, <2>3 DEF TypeOK
<1>3. OwnInv
  BY NothingOwned DEF Init, OwnInv, StoreInv
<1> QED BY <1>1, <1>2, <1>3
        DEF Init, IInv, ClosedInv, SavingInv, LoadingInv, OpenInv, FileInv

\* Opening begins.
LEMMA OpenKeeps == IInv /\ Open => IInv'
<1> SUFFICES ASSUME IInv, Open PROVE IInv'
  OBVIOUS
<1>1. phase = "closed" /\ store = EmptyStore /\ dir = EmptyDir /\ cur = NoCur
  BY DEF Open, IInv, ClosedInv
<1>2. TypeOK'
  BY NothingOwned DEF Open, IInv, TypeOK
<1>3. OwnInv'
  BY <1>1 DEF Open, IInv, OwnInv, HeadsOf, StoredHead
<1>4. LoadingInv'
  <2>1. Len(file.tracks) \in Nat
    BY DEF IInv, TypeOK, Files
  <2> QED BY <1>1, <2>1 DEF Open, LoadingInv, EmptyDir, NoCur
<1> QED BY <1>2, <1>3, <1>4
        DEF Open, IInv, ClosedInv, SavingInv, OpenInv, FileInv, Proper

\* A track of the file, and the facts about its sectors.
LEMMA TrackOfFile ==
  ASSUME IInv, NEW i \in DOMAIN file.tracks
  PROVE  /\ file.tracks[i] \in FileTracks /\ file.tracks[i].track \in Tracks
         /\ file.tracks[i].sectors \in Seq(FileSectors)
         /\ DOMAIN file.tracks = 1 .. Len(file.tracks) /\ Len(file.tracks) \in Nat
         /\ \A n \in DOMAIN file.tracks[i].sectors :
              /\ file.tracks[i].sectors[n] \in FileSectors
              /\ file.tracks[i].sectors[n].packed => file.tracks[i].sectors[n].data \in Plain
<1>1. file.tracks \in Seq(FileTracks)
  BY DEF IInv, TypeOK, Files
<1>2. file.tracks[i] \in FileTracks /\ DOMAIN file.tracks = 1 .. Len(file.tracks)
      /\ Len(file.tracks) \in Nat
  BY <1>1
<1>3. file.tracks[i].track \in Tracks /\ file.tracks[i].sectors \in Seq(FileSectors)
  BY <1>2 DEF FileTracks
<1>4. \A n \in DOMAIN file.tracks[i].sectors : file.tracks[i].sectors[n] \in FileSectors
  BY <1>3
<1> QED BY <1>2, <1>3, <1>4 DEF IInv, FileInv, Proper

\* What is held now, in the form the lemmas want.
Cur == [track : Tracks \cup {NoTrack}, head : Seq(Entries) \cup {NoHead}, dirty : BOOLEAN]
HNow == HeadsOf(store, dir, cur)

LEMMA HeldNow ==
  ASSUME IInv
  PROVE  /\ StoreInv(store) /\ Owned(store, dir, HNow) /\ cur \in Cur
         /\ HNow = [t \in Tracks |-> HNow[t]]
         /\ dir \in [Tracks -> Nat]
<1> QED BY DEF IInv, OwnInv, TypeOK, StoreInv, HNow, Cur, HeadsOf

\* A track of the file begins: nothing is held of it yet.
LEMMA TrackBegins ==
  ASSUME IInv, BeginTrack
  PROVE  LET t == file.tracks[at].track
         IN /\ phase = "loading" /\ cur.track = NoTrack /\ at \in DOMAIN file.tracks
            /\ t \in Tracks /\ HNow[t] = NoHead
            /\ cur' = [track |-> t, head |-> <<>>, dirty |-> TRUE]
            /\ UNCHANGED <<file, readonly, phase, store, dir, dirty, at, pos, err, failed,
                          reply, writes>>
            /\ HeadsOf(store, dir, cur') = [HNow EXCEPT ![t] = <<>>]
            /\ Owned(store, dir, HeadsOf(store, dir, cur'))
<1> DEFINE t == file.tracks[at].track
           g == HeadsOf(store, dir, cur')
<1>1. /\ phase = "loading" /\ cur.track = NoTrack /\ at \in DOMAIN file.tracks
      /\ cur' = [track |-> t, head |-> <<>>, dirty |-> TRUE]
      /\ UNCHANGED <<file, readonly, phase, store, dir, dirty, at, pos, err, failed, reply, writes>>
  BY DEF BeginTrack
<1>2. t \in Tracks
  BY <1>1, TrackOfFile
<1>3. dir[t] = Null
  <2>1. ASSUME NEW i \in 1 .. at - 1, file.tracks[i].track = t PROVE FALSE
    <3>1. i \in DOMAIN file.tracks /\ i # at
      BY <1>1, TrackOfFile
    <3> QED BY <2>1, <3>1, <1>1 DEF IInv, FileInv, Proper
  <2> QED BY <1>1, <1>2, <2>1 DEF IInv, LoadingInv
<1>4. HNow[t] = NoHead /\ g[t] = <<>> /\ \A u \in Tracks \ {t} : g[u] = HNow[u]
  BY <1>1, <1>2, <1>3, MarkersAssumption DEF HNow, HeadsOf, StoredHead
<1>5. HNow \in [Tracks -> TrackHeads] /\ g = [u \in Tracks |-> g[u]] /\ Owned(store, dir, HNow)
  BY HeldNow DEF Owned, Typed, HeadsOf
<1> HIDE DEF g
<1>6. g \in [Tracks -> TrackHeads]
  <2>1. <<>> \in TrackHeads
    BY DEF TrackHeads
  <2>2. \A u \in Tracks : g[u] \in TrackHeads
    BY <2>1, <1>4, <1>5
  <2> QED BY <2>2, <1>5
<1>7. \A u \in Tracks : \A n : Entry(g, u, n) <=> Entry(HNow, u, n)
  BY <1>4 DEF Entry
<1>8. \A u \in Tracks : \A n : Entry(HNow, u, n) => g[u][n] = HNow[u][n]
  BY <1>4 DEF Entry
<1>9. Owned(store, dir, g)
  BY <1>5, <1>6, <1>7, <1>8, SameEntriesOwned
<1>10. g = [HNow EXCEPT ![t] = <<>>]
  BY <1>2, <1>4, <1>5
<1> QED BY <1>1, <1>2, <1>4, <1>9, <1>10 DEF g

LEMMA BeginTrackKeeps == IInv /\ BeginTrack => IInv'
<1> SUFFICES ASSUME IInv, BeginTrack PROVE IInv'
  OBVIOUS
<1> DEFINE t == file.tracks[at].track
<1>1. /\ phase = "loading" /\ cur.track = NoTrack /\ at \in DOMAIN file.tracks
      /\ cur' = [track |-> t, head |-> <<>>, dirty |-> TRUE] /\ t \in Tracks
      /\ UNCHANGED <<file, readonly, phase, store, dir, dirty, at, pos, err, failed, reply, writes>>
  BY TrackBegins
<1>2. Owned(store, dir, HeadsOf(store, dir, cur'))
  BY TrackBegins
<1>3. TypeOK'
  BY <1>1 DEF IInv, TypeOK
<1>4. OwnInv'
  BY <1>1, <1>2 DEF IInv, OwnInv, HeadsOf, StoredHead
<1>5. LoadingInv'
  <2>1. cur'.track = t /\ t # NoTrack /\ cur'.head \in Seq(Entries)
    BY <1>1, MarkersAssumption
  <2> QED BY <2>1, <1>1 DEF IInv, LoadingInv
<1> QED BY <1>1, <1>3, <1>4, <1>5
        DEF IInv, ClosedInv, SavingInv, OpenInv, FileInv, Proper

\* The header in memory changes in one entry, as it does when a sector is loaded
\* or written.
Changed(st, c, new, c2, t, n, head) ==
  /\ c.track = t /\ c.head \in Seq(Entries)
  /\ c2.track = t /\ c2.head = head /\ head \in Seq(Entries)
  /\ n \in DOMAIN head
  /\ \A k \in Nat \ {n} : k \in DOMAIN head <=> k \in DOMAIN c.head
  /\ \A k \in Nat \ {n} : k \in DOMAIN c.head => head[k] = c.head[k]
  /\ Exchanged(st, new, IF n \in DOMAIN c.head THEN c.head[n].block ELSE Null, head[n].block)
  /\ head[n].block = Null => head[n].blank
  /\ head[n].block # Null => /\ new.blocks[head[n].block].data \in Contents
                             /\ new.blocks[head[n].block].ulen \in Nat \ {0}

LEMMA CurrentChanges ==
  ASSUME NEW st, NEW d, NEW c, StoreInv(st), Owned(st, d, HeadsOf(st, d, c)),
         NEW t \in Tracks, NEW n, NEW head, NEW c2, NEW new, Changed(st, c, new, c2, t, n, head)
  PROVE  /\ Owned(new, d, HeadsOf(new, d, c2))
         /\ \A u \in Tracks : StoredHead(new, d, u) = StoredHead(st, d, u)
         /\ HeadsOf(new, d, c2) = [HeadsOf(st, d, c) EXCEPT ![t] = head]
         /\ OthersKept(st, new, HeadsOf(st, d, c), t, n)
<1> DEFINE h == HeadsOf(st, d, c)
           g == [h EXCEPT ![t] = head]
<1>0. /\ c.track = t /\ c.head \in Seq(Entries)
      /\ c2.track = t /\ c2.head = head /\ head \in Seq(Entries)
      /\ n \in DOMAIN head
      /\ \A k \in Nat \ {n} : k \in DOMAIN head <=> k \in DOMAIN c.head
      /\ \A k \in Nat \ {n} : k \in DOMAIN c.head => head[k] = c.head[k]
      /\ Exchanged(st, new, IF n \in DOMAIN c.head THEN c.head[n].block ELSE Null, head[n].block)
      /\ head[n].block = Null => head[n].blank
      /\ head[n].block # Null => /\ new.blocks[head[n].block].data \in Contents
                                 /\ new.blocks[head[n].block].ulen \in Nat \ {0}
  BY DEF Changed
<1>1. h \in [Tracks -> TrackHeads] /\ h[t] = c.head
  BY <1>0 DEF Owned, Typed, HeadsOf
<1>2. /\ c.head # NoHead /\ head # NoHead
      /\ head \in TrackHeads /\ n \in Nat
  BY <1>0, MarkersAssumption DEF TrackHeads
<1>3. g \in [Tracks -> TrackHeads] /\ g[t] = head /\ \A u \in Tracks \ {t} : g[u] = h[u]
  BY <1>1, <1>2
<1> HIDE DEF g, h
<1>4. Only(h, g, t, n)
  BY <1>0, <1>1, <1>2, <1>3 DEF Only, Entry
<1>5. Entry(g, t, n) /\ SectorBlock(g, t, n) = head[n].block
  BY <1>0, <1>2, <1>3 DEF Entry, SectorBlock
<1>6. Previous(h, t, n) = IF n \in DOMAIN c.head THEN c.head[n].block ELSE Null
  BY <1>1, <1>2 DEF Previous, Entry, SectorBlock
<1>7. Owned(st, d, h)
  BY DEF h
<1>8. /\ Owned(new, d, g)
      /\ \A u \in Tracks : StoredHead(new, d, u) = StoredHead(st, d, u)
      /\ OthersKept(st, new, h, t, n)
  <2>1. Exchanged(st, new, Previous(h, t, n), SectorBlock(g, t, n))
    BY <1>0, <1>5, <1>6
  <2>2. SectorBlock(g, t, n) = Null => g[t][n].blank
    BY <1>0, <1>3, <1>5
  <2>3. SectorBlock(g, t, n) # Null =>
          /\ new.blocks[SectorBlock(g, t, n)].data \in Contents
          /\ new.blocks[SectorBlock(g, t, n)].ulen \in Nat \ {0}
    BY <1>0, <1>5
  <2>4. g \in [Tracks -> TrackHeads] /\ n \in Nat /\ Entry(g, t, n)
    BY <1>2, <1>3, <1>5
  <2>5. Fits(st, h, new, g, t, n)
    BY <2>1, <2>2, <2>3, <2>4, <1>4 DEF Fits
  <2> QED BY <2>5, <1>2, <1>7, EntryOwned
<1>9. HeadsOf(new, d, c2) = g
  <2>1. \A u \in Tracks \ {t} : g[u] = StoredHead(st, d, u)
    BY <1>0, <1>3 DEF h, HeadsOf
  <2>2. \A u \in Tracks : HeadsOf(new, d, c2)[u] = g[u]
    BY <1>0, <1>3, <1>8, <2>1 DEF HeadsOf
  <2>3. DOMAIN HeadsOf(new, d, c2) = Tracks /\ HeadsOf(new, d, c2) = [u \in Tracks |-> HeadsOf(new, d, c2)[u]]
    BY DEF HeadsOf
  <2>4. g = [u \in Tracks |-> g[u]]
    BY <1>3
  <2> QED BY <2>2, <2>3, <2>4
<1> QED BY <1>8, <1>9 DEF g, h

\* What is replaced is exchanged.
LEMMA ReplacedIsExchanged ==
  ASSUME NEW st, NEW old, NEW r, NEW type, NEW data, NEW len,
         Replaced(st, old, r, type, data, len)
  PROVE  Exchanged(st, r.store, old, r.id) /\ r.id \in Nat \ {Null}
<1> QED BY DEF Replaced, Exchanged

\* x is the entry that sector s of the track in the file gets.
Loads(x, s) ==
  /\ cur' = [cur EXCEPT !.head = Append(cur.head, x)]
  /\ Exchanged(store, store', Null, x.block)
  /\ x.block = Null => x.blank
  /\ x.block # Null => /\ store'.blocks[x.block].data \in Contents
                       /\ store'.blocks[x.block].ulen \in Nat \ {0}
  /\ x.id = s.id /\ ValueOf(store', x) = FileValue(s) /\ Whole(store', x)

LEMMA SectorLoaded ==
  ASSUME IInv, LoadSector
  PROVE  /\ phase = "loading"
         /\ UNCHANGED <<file, readonly, phase, dir, dirty, at, pos, err, failed, reply, writes>>
         /\ at \in DOMAIN file.tracks /\ cur.track = file.tracks[at].track
         /\ cur.track \in Tracks /\ cur.track # NoTrack /\ cur.head \in Seq(Entries)
         /\ Len(cur.head) + 1 \in DOMAIN file.tracks[at].sectors
         /\ \E x \in Entries : Loads(x, file.tracks[at].sectors[Len(cur.head) + 1])
<1> DEFINE t == cur.track
           sectors == file.tracks[at].sectors
           n == Len(cur.head) + 1
           s == sectors[n]
           e(blank, filler, block) ==
             [id |-> s.id, err |-> s.err, blank |-> blank, filler |-> filler,
              block |-> block, len |-> s.len]
           put == PutBlock(store, Null, SectorType(t, s.id), s.data, s.len)
           set(x) == cur' = [cur EXCEPT !.head = Append(cur.head, x)]
<1>1. /\ phase = "loading" /\ t # NoTrack /\ n \in DOMAIN sectors
      /\ UNCHANGED <<file, readonly, phase, dir, dirty, at, pos, err, failed, reply, writes>>
  BY DEF LoadSector
<1>2. /\ at \in DOMAIN file.tracks /\ t = file.tracks[at].track /\ cur.head \in Seq(Entries)
      /\ t \in Tracks
  BY <1>1, TrackOfFile DEF IInv, LoadingInv
<1>3. s \in FileSectors /\ (s.packed => s.data \in Plain)
  BY <1>1, <1>2, TrackOfFile
<1>4. /\ s.id \in SectorIds /\ s.err \in Statuses /\ s.data \in Contents /\ s.len \in Nat \ {0}
      /\ s.packed \in BOOLEAN
  BY <1>3 DEF FileSectors
<1>5. StoreInv(store)
  BY DEF IInv, OwnInv, TypeOK, StoreInv
<1>6. \/ /\ \E filler \in Plain :
              set(e(TRUE, filler, Null)) /\ (s.err = "none" => filler = s.data)
         /\ store' = store
      \/ set(e(FALSE, Unformatted, put.id)) /\ store' = put.store
  <2>1. CASE s.err = "nodata"
    BY <2>1, ContentsAssumption DEF LoadSector
  <2>2. CASE s.err # "nodata" /\ s.packed
    BY <2>2, <1>3 DEF LoadSector
  <2>3. CASE s.err # "nodata" /\ ~ s.packed
    <3>1. store' = put.store
      BY <2>3 DEF LoadSector
    <3>2. set(e(FALSE, Unformatted, put.id))
      BY <2>3 DEF LoadSector
    <3> QED BY <3>1, <3>2
  <2> QED BY <2>1, <2>2, <2>3, <1>4
<1>7. Replaced(store, Null, put, SectorType(t, s.id), s.data, s.len)
  <2>1. SectorType(t, s.id) \in BlockTypes \ {Free}
    <3>1. SectorType(t, s.id) \in BlockTypes
      BY <1>2, <1>4 DEF BlockTypes
    <3>2. SectorType(t, s.id) # Free
      BY DEF SectorType, Free
    <3> QED BY <3>1, <3>2
  <2>2. s.data \in Payloads
    BY <1>4 DEF Payloads
  <2> QED BY <2>1, <2>2, <1>4, <1>5, PutReplaces
<1> HIDE DEF put
<1>8. Exchanged(store, put.store, Null, put.id) /\ put.id \in Nat \ {Null}
      /\ put.store.blocks[put.id].data = s.data
      /\ put.store.blocks[put.id].ulen = s.len
  BY <1>7, ReplacedIsExchanged DEF Replaced
<1>9. Exchanged(store, store, Null, Null)
  BY <1>5, NullIsNoBlock DEF Exchanged
<1>10. \E x \in Entries : Loads(x, s)
  <2>1. CASE /\ \E filler \in Plain :
                  set(e(TRUE, filler, Null)) /\ (s.err = "none" => filler = s.data)
             /\ store' = store
    <3>1. PICK filler \in Plain :
            set(e(TRUE, filler, Null)) /\ (s.err = "none" => filler = s.data)
      BY <2>1
    <3> DEFINE x == e(TRUE, filler, Null)
    <3>2. x \in Entries /\ x.block = Null /\ x.blank /\ x.id = s.id
          /\ x.filler = filler /\ x.err = s.err /\ x.len = s.len
      BY <1>4 DEF Entries, Null
    <3>3. set(x)
      BY <3>1
    <3> HIDE DEF x
    <3>4. ValueOf(store', x) = FileValue(s)
      BY <3>1, <3>2 DEF ValueOf, FileValue
    <3> QED BY <2>1, <3>2, <3>3, <3>4, <1>9 DEF Loads, Whole
  <2>2. CASE set(e(FALSE, Unformatted, put.id)) /\ store' = put.store
    <3> DEFINE x == e(FALSE, Unformatted, put.id)
    <3>1. x \in Entries /\ x.block = put.id /\ x.blank = FALSE /\ x.id = s.id
          /\ x.err = s.err /\ x.len = s.len
      BY <1>4, <1>8, ContentsAssumption DEF Entries
    <3>2. set(x)
      BY <2>2
    <3> HIDE DEF x
    <3>3. ValueOf(store', x) = FileValue(s)
      BY <2>2, <3>1, <1>8 DEF ValueOf, FileValue
    <3> QED BY <2>2, <3>1, <3>2, <3>3, <1>4, <1>8 DEF Loads, Whole
  <2> QED BY <2>1, <2>2, <1>6
<1> QED BY <1>1, <1>2, <1>10

\* The header in memory has one more entry, and the store what it needs.
LEMMA HeadGrows ==
  ASSUME IInv, LoadSector, NEW x \in Entries, NEW s, Loads(x, s)
  PROVE  LET head == Append(cur.head, x)
         IN /\ StoreInv(store') /\ Owned(store', dir, HeadsOf(store', dir, cur'))
            /\ cur' \in Cur /\ cur'.track = cur.track /\ cur'.head = head
            /\ head \in Seq(Entries)
            /\ HeadsOf(store', dir, cur') = [HNow EXCEPT ![cur.track] = head]
            /\ OthersKept(store, store', HNow, cur.track, Len(cur.head) + 1)
<1> DEFINE t == cur.track
           n == Len(cur.head) + 1
           head == Append(cur.head, x)
<1>1. t \in Tracks /\ cur.head \in Seq(Entries)
  BY SectorLoaded
<1>2. StoreInv(store) /\ Owned(store, dir, HeadsOf(store, dir, cur)) /\ cur \in Cur
  BY HeldNow DEF HNow
<1>3. /\ head \in Seq(Entries) /\ DOMAIN head = 1 .. n /\ DOMAIN cur.head = 1 .. n - 1
      /\ n \in Nat \ {0} /\ head[n] = x /\ \A k \in 1 .. n - 1 : head[k] = cur.head[k]
  BY <1>1
<1> HIDE DEF head, n
<1>4. cur'.track = t /\ cur'.head = head /\ cur' \in Cur
  BY <1>2, <1>3 DEF head, Loads, Cur
<1>5. n \in DOMAIN head /\ n \notin DOMAIN cur.head
  BY <1>3
<1>6. /\ \A k \in Nat \ {n} : k \in DOMAIN head <=> k \in DOMAIN cur.head
      /\ \A k \in Nat \ {n} : k \in DOMAIN cur.head => head[k] = cur.head[k]
  BY <1>3
<1>7. Exchanged(store, store', IF n \in DOMAIN cur.head THEN cur.head[n].block ELSE Null,
                head[n].block)
  BY <1>3, <1>5 DEF Loads
<1>8. /\ head[n].block = Null => head[n].blank
      /\ head[n].block # Null => /\ store'.blocks[head[n].block].data \in Contents
                                 /\ store'.blocks[head[n].block].ulen \in Nat \ {0}
  BY <1>3 DEF Loads
<1>9. Changed(store, cur, store', cur', t, n, head)
  BY <1>1, <1>3, <1>4, <1>5, <1>6, <1>7, <1>8 DEF Changed
<1>10. /\ Owned(store', dir, HeadsOf(store', dir, cur'))
       /\ HeadsOf(store', dir, cur') = [HNow EXCEPT ![t] = head]
       /\ OthersKept(store, store', HNow, t, n)
  BY <1>1, <1>2, <1>9, CurrentChanges DEF HNow
<1>11. StoreInv(store')
  BY DEF Loads, Exchanged
<1> QED BY <1>3, <1>4, <1>10, <1>11 DEF head, n

LEMMA LoadSectorKeeps == IInv /\ LoadSector => IInv'
<1> SUFFICES ASSUME IInv, LoadSector PROVE IInv'
  OBVIOUS
<1>1. /\ phase = "loading" /\ cur.track # NoTrack
      /\ at \in DOMAIN file.tracks /\ cur.track = file.tracks[at].track
      /\ UNCHANGED <<file, readonly, phase, dir, dirty, at, pos, err, failed, reply, writes>>
  BY SectorLoaded
<1>2. PICK x \in Entries : Loads(x, file.tracks[at].sectors[Len(cur.head) + 1])
  BY SectorLoaded
<1>3. /\ StoreInv(store') /\ Owned(store', dir, HeadsOf(store', dir, cur'))
      /\ cur' \in Cur /\ cur'.track = cur.track /\ cur'.head \in Seq(Entries)
  BY <1>2, HeadGrows
<1>4. TypeOK'
  BY <1>1, <1>3 DEF IInv, TypeOK, StoreInv, Cur
<1>5. OwnInv'
  BY <1>1, <1>3 DEF OwnInv, StoreInv, HeadsOf, StoredHead
<1> QED BY <1>1, <1>3, <1>4, <1>5
        DEF IInv, ClosedInv, SavingInv, LoadingInv, OpenInv, FileInv, Proper

\* The header of a loaded track goes into the store.
LEMMA TrackEnds ==
  ASSUME IInv, EndTrack
  PROVE  /\ StoreInv(store') /\ Owned(store', dir', HNow) /\ SectorsKept(store, store', HNow)
         /\ \A u \in Tracks \ {cur.track} : dir'[u] = dir[u]
         /\ HeadsOf(store', dir', cur') = HNow
         /\ HNow[cur.track] = cur.head
         /\ at \in 1 .. Len(file.tracks) /\ Len(file.tracks) \in Nat
         /\ cur.track = file.tracks[at].track /\ cur.track \in Tracks
         /\ cur.head \in Seq(Entries)
<1> DEFINE t == cur.track
           put == PutHead(store, dir, t, cur.head)
<1>1. phase = "loading" /\ t # NoTrack /\ store' = put.store /\ dir' = put.dir /\ cur' = NoCur
  BY DEF EndTrack
<1>2. /\ at \in DOMAIN file.tracks /\ t = file.tracks[at].track /\ cur.head \in Seq(Entries)
      /\ t \in Tracks /\ at \in 1 .. Len(file.tracks) /\ Len(file.tracks) \in Nat
  BY <1>1, TrackOfFile DEF IInv, LoadingInv
<1>3. HNow[t] = cur.head
  BY <1>2 DEF HNow, HeadsOf
<1>4. /\ StoreInv(store') /\ Owned(store', dir', HNow) /\ SectorsKept(store, store', HNow)
      /\ \A u \in Tracks \ {t} : dir'[u] = dir[u]
      /\ \A u \in Tracks \ {t} : StoredHead(store', dir', u) = StoredHead(store, dir, u)
      /\ StoredHead(store', dir', t) = cur.head
  BY <1>1, <1>2, <1>3, HeldNow, HeadOwned
<1> HIDE DEF put
<1>5. HeadsOf(store', dir', cur') = HNow
  <2>1. \A u \in Tracks : HeadsOf(store', dir', cur')[u] = HNow[u]
    BY <1>1, <1>2, <1>4, MarkersAssumption DEF HeadsOf, HNow, NoCur
  <2>2. HeadsOf(store', dir', cur') = [u \in Tracks |-> HeadsOf(store', dir', cur')[u]]
    BY DEF HeadsOf
  <2> QED BY <2>1, <2>2, HeldNow
<1> QED BY <1>2, <1>3, <1>4, <1>5

LEMMA EndTrackKeeps == IInv /\ EndTrack => IInv'
<1> SUFFICES ASSUME IInv, EndTrack PROVE IInv'
  OBVIOUS
<1> DEFINE t == cur.track
<1>1. /\ phase = "loading" /\ cur' = NoCur /\ at' = at + 1
      /\ UNCHANGED <<file, readonly, phase, dirty, pos, err, failed, reply, writes>>
  BY DEF EndTrack
<1>2. /\ t = file.tracks[at].track /\ t \in Tracks
      /\ at \in 1 .. Len(file.tracks) /\ Len(file.tracks) \in Nat
  BY TrackEnds
<1>3. /\ StoreInv(store') /\ Owned(store', dir', HNow) /\ HeadsOf(store', dir', cur') = HNow
      /\ \A u \in Tracks \ {t} : dir'[u] = dir[u]
  BY TrackEnds
<1>4. OwnInv'
  BY <1>3 DEF OwnInv, StoreInv, HeadsOf, StoredHead
<1>5. TypeOK'
  <2>1. at' \in Nat
    BY <1>1, <1>2
  <2> QED BY <2>1, <1>1, <1>3, NothingOwned DEF IInv, TypeOK, StoreInv, Owned, Typed
<1>6. LoadingInv'
  <2>1. at' \in 1 .. Len(file'.tracks) + 1
    BY <1>1, <1>2
  <2>2. ASSUME NEW u \in Tracks, dir'[u] # Null
        PROVE  \E i \in 1 .. at' - 1 : file'.tracks[i].track = u
    <3>1. CASE u = t
      BY <3>1, <1>1, <1>2
    <3>2. CASE u # t
      <4>1. PICK i \in 1 .. at - 1 : file.tracks[i].track = u
        BY <1>1, <1>3, <2>2, <3>2 DEF IInv, LoadingInv
      <4> QED BY <4>1, <1>1, <1>2
    <3> QED BY <3>1, <3>2
  <2> QED BY <2>1, <2>2, <1>1 DEF LoadingInv, NoCur
<1> QED BY <1>1, <1>4, <1>5, <1>6
        DEF IInv, ClosedInv, SavingInv, OpenInv, FileInv, Proper

LEMMA AttachKeeps == IInv /\ Attach => IInv'
<1> SUFFICES ASSUME IInv, Attach PROVE IInv'
  OBVIOUS
<1>1. CASE file.torn
  <2>1. Drop /\ reply' = "error" /\ UNCHANGED <<file, readonly>>
    BY <1>1 DEF Attach
  <2> QED BY <2>1, DropKeeps DEF IInv, FileInv, Proper, TypeOK
<1>2. CASE ~ file.torn
  <2>1. /\ phase = "loading" /\ cur.track = NoTrack
        /\ phase' = "open" /\ reply' = "ok" /\ at' = 0
        /\ UNCHANGED <<file, readonly, store, dir, cur, dirty, writes, pos, err, failed>>
    BY <1>2 DEF Attach, session
  <2>2. cur' = NoCur
    BY <2>1 DEF IInv, LoadingInv
  <2>3. TypeOK'
    BY <2>1 DEF IInv, TypeOK
  <2>4. OwnInv'
    BY <2>1 DEF IInv, OwnInv, HeadsOf, StoredHead
  <2>5. OpenInv'
    BY <2>2 DEF OpenInv, NoCur
  <2> QED BY <2>1, <2>3, <2>4, <2>5
          DEF IInv, ClosedInv, SavingInv, LoadingInv, FileInv, Proper
<1> QED BY <1>1, <1>2

------------------------------------------------------------------------------
(* An open image *)

\* The header in memory goes into the store: every header there is then the
\* current one.
LEMMA FlushKeepsHeads ==
  ASSUME IInv, phase = "open"
  PROVE  /\ StoreInv(Flushed.store) /\ Owned(Flushed.store, Flushed.dir, HNow)
         /\ SectorsKept(store, Flushed.store, HNow)
         /\ \A u \in Tracks : StoredHead(Flushed.store, Flushed.dir, u) = HNow[u]
<1>1. CASE cur.dirty /\ ~ readonly
  <2> DEFINE t == cur.track
             put == PutHead(store, dir, t, cur.head)
  <2>1. t \in Tracks /\ cur.head \in Seq(Entries)
    BY <1>1, HeldNow DEF IInv, OpenInv, Cur
  <2>2. HNow[t] = cur.head
    BY <2>1 DEF HNow, HeadsOf
  <2>3. Flushed = put
    BY <1>1 DEF Flushed
  <2>4. /\ StoreInv(put.store) /\ Owned(put.store, put.dir, HNow)
        /\ \A u \in Tracks \ {t} : StoredHead(put.store, put.dir, u) = StoredHead(store, dir, u)
        /\ StoredHead(put.store, put.dir, t) = cur.head
        /\ SectorsKept(store, put.store, HNow)
    BY <2>1, <2>2, HeldNow, HeadOwned
  <2> HIDE DEF put
  <2>5. \A u \in Tracks : StoredHead(put.store, put.dir, u) = HNow[u]
    BY <2>4 DEF HNow, HeadsOf
  <2> QED BY <2>3, <2>4, <2>5
<1>2. CASE ~ (cur.dirty /\ ~ readonly)
  <2>1. Flushed.store = store /\ Flushed.dir = dir
    BY <1>2 DEF Flushed
  <2>2. ~ cur.dirty
    BY <1>2, HeldNow DEF IInv, OpenInv, Cur
  <2>3. \A u \in Tracks : StoredHead(store, dir, u) = HNow[u]
    BY <2>2, MarkersAssumption DEF HNow, HeadsOf, IInv, OpenInv
  <2>4. SectorsKept(store, store, HNow)
    BY DEF SectorsKept, SectorKept
  <2> QED BY <2>1, <2>3, <2>4, HeldNow
<1> QED BY <1>1, <1>2

\* Selecting a track changes no header.
LEMMA SelectKeepsHeads ==
  ASSUME IInv, phase = "open", NEW t \in Tracks
  PROVE  LET sel == Selected(t)
         IN /\ StoreInv(sel.store) /\ Owned(sel.store, sel.dir, HNow)
            /\ SectorsKept(store, sel.store, HNow)
            /\ HeadsOf(sel.store, sel.dir, sel.cur) = HNow
            /\ sel.cur \in Cur /\ sel.cur.track = t /\ sel.cur.head = HNow[t]
            /\ sel.cur.dirty => sel.cur.head # NoHead /\ ~ readonly
            /\ ~ sel.cur.dirty => sel.cur.head = StoredHead(sel.store, sel.dir, t)
<1> DEFINE sel == Selected(t)
<1>1. CASE cur.track = t
  <2>1. sel.store = store /\ sel.dir = dir /\ sel.cur = cur
    BY <1>1 DEF Selected
  <2>2. cur.head = HNow[t] /\ t # NoTrack
    BY <1>1, MarkersAssumption DEF HNow, HeadsOf
  <2>3. HeadsOf(sel.store, sel.dir, sel.cur) = HNow
    BY <2>1 DEF HNow
  <2>4. SectorsKept(store, sel.store, HNow)
    BY <2>1 DEF SectorsKept, SectorKept
  <2> HIDE DEF sel
  <2> QED BY <1>1, <2>1, <2>2, <2>3, <2>4, HeldNow DEF IInv, OpenInv, sel
<1>2. CASE cur.track # t
  <2> DEFINE st == Flushed.store
             d == Flushed.dir
             c == [track |-> t, head |-> StoredHead(st, d, t), dirty |-> FALSE]
  <2>1. sel.store = st /\ sel.dir = d /\ sel.cur = c
    BY <1>2 DEF Selected
  <2>2. /\ StoreInv(st) /\ Owned(st, d, HNow) /\ SectorsKept(store, st, HNow)
        /\ \A u \in Tracks : StoredHead(st, d, u) = HNow[u]
    BY FlushKeepsHeads
  <2>3. c \in Cur /\ c.track = t /\ c.head = HNow[t] /\ ~ c.dirty /\ c.head = StoredHead(st, d, t)
    <3>1. HNow[t] \in Seq(Entries) \cup {NoHead}
      BY HeldNow DEF Owned, Typed, TrackHeads
    <3> QED BY <3>1, <2>2 DEF Cur
  <2> HIDE DEF c, st, d
  <2>4. HeadsOf(st, d, c) = HNow
    <3>1. \A u \in Tracks : HeadsOf(st, d, c)[u] = HNow[u]
      BY <2>2, <2>3 DEF HeadsOf
    <3>2. HeadsOf(st, d, c) = [u \in Tracks |-> HeadsOf(st, d, c)[u]]
      BY DEF HeadsOf
    <3> QED BY <3>1, <3>2, HeldNow
  <2> QED BY <2>1, <2>2, <2>3, <2>4
<1> QED BY <1>1, <1>2

LEMMA ReadKeeps == ASSUME IInv, NEW t \in Tracks, Read(t) PROVE IInv'
<1> DEFINE sel == Selected(t)
<1>1. /\ phase = "open"
      /\ store' = sel.store /\ dir' = sel.dir /\ cur' = sel.cur
      /\ UNCHANGED <<file, readonly, phase, dirty, at, pos, err, failed, reply, writes>>
  BY DEF Read
<1>2. /\ StoreInv(store') /\ Owned(store', dir', HNow)
      /\ HeadsOf(store', dir', cur') = HNow
      /\ cur' \in Cur /\ cur'.track = t
      /\ cur'.dirty => cur'.head # NoHead /\ ~ readonly
      /\ ~ cur'.dirty => cur'.head = StoredHead(store', dir', t)
  BY <1>1, SelectKeepsHeads
<1> HIDE DEF sel
<1>3. TypeOK'
  BY <1>1, <1>2 DEF IInv, TypeOK, StoreInv, Owned, Typed, Cur
<1>4. OwnInv'
  BY <1>2 DEF OwnInv, StoreInv, HeadsOf, StoredHead
<1>5. OpenInv'
  BY <1>1, <1>2, MarkersAssumption DEF OpenInv, StoredHead
<1> QED BY <1>1, <1>3, <1>4, <1>5
        DEF IInv, ClosedInv, SavingInv, LoadingInv, FileInv, Proper

\* Sector contents go into a sector's block, a new one, or nowhere: entry n of the
\* header is e now, one block is exchanged, and reading the sector gives v unless
\* the image has an error or another length for it.
Writes(t, id, v, n, e) ==
  LET head == HNow[t]
      s == head[n]
  IN /\ head # NoHead /\ head \in Seq(Entries) /\ n \in Matches(head, id)
     /\ cur' = [track |-> t, head |-> [head EXCEPT ![n] = e], dirty |-> TRUE]
     /\ StoreInv(store') /\ Owned(store', dir', HeadsOf(store', dir', cur'))
     /\ HeadsOf(store', dir', cur') = [HNow EXCEPT ![t] = [head EXCEPT ![n] = e]]
     /\ OthersKept(store, store', HNow, t, n)
     /\ e.id = s.id /\ Whole(store', e)
     /\ ValueOf(store', e) = IF s.len # SectorLength \/ s.err # "none" THEN Bad ELSE v
     /\ dirty' = Dirtied(s, v)

LEMMA SectorWritten ==
  ASSUME IInv, NEW t \in Tracks, NEW id \in SectorIds, NEW v \in Contents, Write(t, id, v)
  PROVE  \E n \in Nat, e \in Entries : Writes(t, id, v, n, e)
<1> DEFINE sel == Selected(t)
           st == sel.store
           d == sel.dir
           c == sel.cur
           hits == Matches(c.head, id)
           n == CHOOSE k \in hits : TRUE
           new == IF v \in Plain THEN Blanked(sel, n, v) ELSE Filled(sel, n, t, id, v)
           s == c.head[n]
<1>1. /\ phase = "open" /\ hits # {}
      /\ store' = new.store /\ dir' = d
      /\ cur' = [track |-> t, head |-> [c.head EXCEPT ![n] = new.entry], dirty |-> TRUE]
      /\ dirty' = Dirtied(s, v)
  BY DEF Write
<1>2. /\ StoreInv(st) /\ Owned(st, d, HNow) /\ HeadsOf(st, d, c) = HNow
      /\ c.track = t /\ c.head = HNow[t] /\ SectorsKept(store, st, HNow)
  BY <1>1, SelectKeepsHeads
<1>3. n \in hits
  BY <1>1
<1>4. c.head # NoHead /\ n \in DOMAIN c.head /\ c.head \in Seq(Entries)
  <2>1. c.head # NoHead /\ n \in DOMAIN c.head
    BY <1>3 DEF Matches
  <2>2. HNow[t] \in TrackHeads
    BY <1>2 DEF Owned, Typed
  <2> QED BY <2>1, <2>2, <1>2 DEF TrackHeads
<1> HIDE DEF sel, n, hits
<1>5. s \in Entries /\ n \in 1 .. Len(c.head) /\ n \in Nat /\ DOMAIN c.head = 1 .. Len(c.head)
  BY <1>4
<1>6. /\ s.block # Null => /\ s.block \in st.used
                           /\ st.blocks[s.block].data \in Contents
                           /\ st.blocks[s.block].ulen \in Nat \ {0}
  BY <1>2, <1>4, <1>5 DEF Owned, SectorsIn, Entry, SectorBlock
<1> DEFINE value == IF s.len # SectorLength \/ s.err # "none" THEN Bad ELSE v
           e == new.entry
<1>7. /\ e \in Entries /\ e.id = s.id
      /\ Exchanged(st, new.store, s.block, e.block)
      /\ e.block = Null => e.blank
      /\ e.block # Null => /\ new.store.blocks[e.block].data \in Contents
                           /\ new.store.blocks[e.block].ulen \in Nat \ {0}
      /\ Whole(new.store, e) /\ ValueOf(new.store, e) = value
  <2>1. CASE v \in Plain
    <3> DEFINE f == [s EXCEPT !.filler = v, !.blank = TRUE, !.block = Null]
               kept == IF s.block = Null THEN st ELSE DelBlock(st, s.block)
    <3>1. e = f /\ new.store = kept
      BY <2>1 DEF Blanked
    <3>2. /\ f \in Entries /\ f.block = Null /\ f.blank /\ f.id = s.id /\ f.filler = v
          /\ f.len = s.len /\ f.err = s.err
      BY <2>1, <1>5 DEF Entries, Null
    <3>3. Exchanged(st, kept, s.block, Null)
      <4>1. CASE s.block = Null
        BY <4>1, <1>2, NullIsNoBlock DEF Exchanged
      <4>2. CASE s.block # Null
        BY <4>2, <1>2, <1>6, DelFrees, NullIsNoBlock DEF Exchanged
      <4> QED BY <4>1, <4>2
    <3> HIDE DEF f, kept, new
    <3>4. Whole(kept, f) /\ ValueOf(kept, f) = value
      BY <3>2 DEF Whole, ValueOf
    <3> HIDE DEF value
    <3> QED BY <3>1, <3>2, <3>3, <3>4
  <2>2. CASE v \notin Plain
    <3> DEFINE put == PutBlock(st, s.block, SectorType(t, id), v, SectorLength)
               f == [s EXCEPT !.blank = FALSE, !.block = put.id]
    <3>1. e = f /\ new.store = put.store
      BY <2>2 DEF Filled
    <3>2. Replaced(st, s.block, put, SectorType(t, id), v, SectorLength)
      <4>1. SectorType(t, id) \in BlockTypes \ {Free}
        BY DEF BlockTypes, SectorType, Free
      <4>2. v \in Payloads /\ SectorLength \in Nat \ {0} /\ s.block \in st.used \cup {Null}
        BY <1>6, TracksAssumption DEF Payloads
      <4> QED BY <4>1, <4>2, <1>2, PutReplaces
    <3> HIDE DEF put, new
    <3>3. Exchanged(st, put.store, s.block, put.id) /\ put.id \in Nat \ {Null}
      BY <3>2, ReplacedIsExchanged
    <3>4. /\ f \in Entries /\ f.block = put.id /\ f.blank = FALSE /\ f.id = s.id
          /\ f.len = s.len /\ f.err = s.err
      BY <3>3, <1>5 DEF Entries
    <3>5. /\ put.store.blocks[put.id].data = v
          /\ put.store.blocks[put.id].ulen = SectorLength
      BY <3>2 DEF Replaced
    <3> HIDE DEF f
    <3>6. Whole(put.store, f) /\ ValueOf(put.store, f) = value
      BY <3>3, <3>4, <3>5 DEF Whole, ValueOf
    <3> HIDE DEF value
    <3> QED BY <3>1, <3>3, <3>4, <3>5, <3>6, TracksAssumption
  <2> QED BY <2>1, <2>2
<1> HIDE DEF new, value
<1> DEFINE head == [c.head EXCEPT ![n] = e]
<1>8. /\ head \in Seq(Entries) /\ DOMAIN head = DOMAIN c.head /\ head[n] = e
      /\ \A k \in DOMAIN c.head \ {n} : head[k] = c.head[k]
      /\ cur' = [track |-> t, head |-> head, dirty |-> TRUE]
  BY <1>1, <1>4, <1>5, <1>7
<1> HIDE DEF head, e
<1>9. cur'.track = t /\ cur'.head = head /\ cur'.dirty /\ cur' \in Cur
  BY <1>8 DEF Cur
<1>10. /\ Owned(new.store, d, HeadsOf(new.store, d, cur'))
       /\ HeadsOf(new.store, d, cur') = [HNow EXCEPT ![t] = head]
       /\ OthersKept(st, new.store, HNow, t, n)
  <2>1. Exchanged(st, new.store, IF n \in DOMAIN c.head THEN c.head[n].block ELSE Null, head[n].block)
    BY <1>4, <1>7, <1>8 DEF e
  <2>2. /\ head[n].block = Null => head[n].blank
        /\ head[n].block # Null => /\ new.store.blocks[head[n].block].data \in Contents
                                   /\ new.store.blocks[head[n].block].ulen \in Nat \ {0}
    BY <1>7, <1>8 DEF e
  <2>3. /\ n \in DOMAIN head
        /\ \A k \in Nat \ {n} : k \in DOMAIN head <=> k \in DOMAIN c.head
        /\ \A k \in Nat \ {n} : k \in DOMAIN c.head => head[k] = c.head[k]
    BY <1>4, <1>8
  <2>4. Owned(st, d, HeadsOf(st, d, c))
    BY <1>2
  <2>5. c.track = t /\ c.head \in Seq(Entries) /\ head \in Seq(Entries) /\ StoreInv(st)
    BY <1>2, <1>4, <1>8
  <2>6. Changed(st, c, new.store, cur', t, n, head)
    <3> HIDE DEF st, d, c
    <3> QED BY <2>1, <2>2, <2>3, <2>5, <1>9 DEF Changed
  <2>7. HeadsOf(st, d, c) = HNow
    BY <1>2
  <2> HIDE DEF st, d, c
  <2>8. /\ Owned(new.store, d, HeadsOf(new.store, d, cur'))
        /\ HeadsOf(new.store, d, cur') = [HeadsOf(st, d, c) EXCEPT ![t] = head]
        /\ OthersKept(st, new.store, HeadsOf(st, d, c), t, n)
    BY <2>4, <2>5, <2>6, CurrentChanges
  <2> QED BY <2>7, <2>8
<1>11. StoreInv(store')
  BY <1>1, <1>7 DEF Exchanged
<1>12. OthersKept(store, store', HNow, t, n)
  BY <1>1, <1>2, <1>10 DEF OthersKept, SectorsKept, SectorKept
<1>13. Writes(t, id, v, n, e)
  <2>1. HNow[t] = c.head /\ HNow[t][n] = s /\ n \in Matches(HNow[t], id)
    BY <1>2, <1>3 DEF hits
  <2>2. /\ Owned(store', dir', HeadsOf(store', dir', cur'))
        /\ HeadsOf(store', dir', cur') = [HNow EXCEPT ![t] = head]
    BY <1>1, <1>10
  <2>3. Whole(store', e) /\ ValueOf(store', e) = value /\ e.id = s.id /\ dirty' = Dirtied(s, v)
    BY <1>1, <1>7 DEF e
  <2>4. head = [HNow[t] EXCEPT ![n] = e]
    BY <2>1 DEF head
  <2>5. value = IF HNow[t][n].len # SectorLength \/ HNow[t][n].err # "none" THEN Bad ELSE v
    BY <2>1 DEF value
  <2> HIDE DEF s, c, d, st
  <2> QED BY <2>1, <2>2, <2>3, <2>4, <2>5, <1>4, <1>8, <1>11, <1>12 DEF Writes
<1> QED BY <1>5, <1>7, <1>13 DEF e

LEMMA WriteKeeps ==
  ASSUME IInv, NEW t \in Tracks, NEW id \in SectorIds, NEW v \in Contents, Write(t, id, v)
  PROVE  IInv'
<1>1. /\ phase = "open" /\ ~ readonly /\ writes' = writes + 1 /\ writes < MaxWrites
      /\ UNCHANGED <<file, readonly, phase, at, pos, err, failed, reply>>
  BY DEF Write
<1>2. PICK n \in Nat, e \in Entries : Writes(t, id, v, n, e)
  BY SectorWritten
<1> DEFINE head == [HNow[t] EXCEPT ![n] = e]
<1>3. /\ StoreInv(store') /\ Owned(store', dir', HeadsOf(store', dir', cur'))
      /\ cur' = [track |-> t, head |-> head, dirty |-> TRUE]
      /\ HNow[t] \in Seq(Entries) /\ dirty' = Dirtied(HNow[t][n], v)
  BY <1>2 DEF Writes
<1>4. head \in Seq(Entries)
  <2>1. n \in DOMAIN HNow[t]
    BY <1>2 DEF Writes, Matches
  <2> QED BY <2>1, <1>3
<1> HIDE DEF head
<1>5. cur' \in Cur /\ cur'.track = t /\ cur'.dirty /\ cur'.head # NoHead
  BY <1>3, <1>4, MarkersAssumption DEF Cur
<1>6. TypeOK'
  <2>1. dirty' \in BOOLEAN
    BY <1>3 DEF Dirtied, Accepted, IInv, TypeOK
  <2>2. writes' \in 0 .. MaxWrites
    BY <1>1, TracksAssumption DEF IInv, TypeOK
  <2> QED BY <1>1, <1>3, <1>5, <2>1, <2>2 DEF IInv, TypeOK, Cur, StoreInv, Owned, Typed
<1>7. OwnInv'
  BY <1>3 DEF OwnInv, StoreInv, HeadsOf, StoredHead
<1>8. OpenInv'
  BY <1>1, <1>5, MarkersAssumption DEF OpenInv
<1> QED BY <1>1, <1>6, <1>7, <1>8
        DEF IInv, ClosedInv, SavingInv, LoadingInv, FileInv, Proper

------------------------------------------------------------------------------
(* Closing and saving *)

\* A file that ends somewhere before its end is a proper file too.
LEMMA CutIsProper ==
  ASSUME NEW f, Proper(f), NEW k \in 0 .. Len(f.tracks), NEW part \in BOOLEAN
  PROVE  /\ Proper([tracks |-> SubSeq(f.tracks, 1, k), torn |-> part])
         /\ DOMAIN SubSeq(f.tracks, 1, k) \subseteq DOMAIN f.tracks
         /\ \A i \in DOMAIN SubSeq(f.tracks, 1, k) : SubSeq(f.tracks, 1, k)[i] = f.tracks[i]
<1> DEFINE c == SubSeq(f.tracks, 1, k)
<1>1. f.tracks \in Seq(FileTracks) /\ Len(f.tracks) \in Nat /\ DOMAIN f.tracks = 1 .. Len(f.tracks)
  BY DEF Proper, Files
<1>2. /\ c \in Seq(FileTracks) /\ DOMAIN c = 1 .. k
      /\ \A i \in 1 .. k : c[i] = f.tracks[i]
  BY <1>1
<1>3. DOMAIN c \subseteq DOMAIN f.tracks
  BY <1>1, <1>2
<1> HIDE DEF c
<1>4. Proper([tracks |-> c, torn |-> part])
  BY <1>1, <1>2, <1>3 DEF Proper, Files
<1> QED BY <1>2, <1>3, <1>4 DEF c

LEMMA CloseUnsavedKeeps == IInv /\ CloseUnsaved => IInv'
<1> SUFFICES ASSUME IInv, CloseUnsaved PROVE IInv'
  OBVIOUS
<1>1. Drop /\ reply' \in {"ok", "error", "crashed"} /\ UNCHANGED <<file, readonly>>
  BY DEF CloseUnsaved
<1> QED BY <1>1, DropKeeps DEF IInv, FileInv, Proper, TypeOK

\* The empty file that is saved to.
LEMMA EmptyFileIsProper ==
  ASSUME NEW torn \in BOOLEAN
  PROVE  Proper([tracks |-> <<>>, torn |-> torn])
<1>1. <<>> \in Seq(FileTracks) /\ DOMAIN <<>> = {}
  OBVIOUS
<1> QED BY <1>1 DEF Proper, Files

\* The headers that saving begins with are the current ones.
LEMMA SaveBegins ==
  ASSUME IInv, BeginSave
  PROVE  /\ StoreInv(store') /\ Owned(store', dir', HNow) /\ SectorsKept(store, store', HNow)
         /\ HeadsOf(store', dir', cur') = HNow
<1>1. phase = "open" /\ store' = Flushed.store /\ dir' = Flushed.dir /\ cur' = NoCur
  BY DEF BeginSave
<1>2. /\ StoreInv(store') /\ Owned(store', dir', HNow) /\ SectorsKept(store, store', HNow)
      /\ \A u \in Tracks : StoredHead(store', dir', u) = HNow[u]
  BY <1>1, FlushKeepsHeads
<1>3. HeadsOf(store', dir', cur') = HNow
  <2>1. \A u \in Tracks : HeadsOf(store', dir', cur')[u] = HNow[u]
    BY <1>1, <1>2, MarkersAssumption DEF HeadsOf, NoCur
  <2>2. HeadsOf(store', dir', cur') = [u \in Tracks |-> HeadsOf(store', dir', cur')[u]]
    BY DEF HeadsOf
  <2> QED BY <2>1, <2>2, HeldNow
<1> QED BY <1>2, <1>3

LEMMA BeginSaveKeeps == IInv /\ BeginSave => IInv'
<1> SUFFICES ASSUME IInv, BeginSave PROVE IInv'
  OBVIOUS
<1>1. /\ phase' = "saving" /\ cur' = NoCur
      /\ file' = [tracks |-> <<>>, torn |-> FALSE]
      /\ UNCHANGED <<readonly, dirty, at, pos, err, failed, reply, writes>>
  BY DEF BeginSave
<1>2. StoreInv(store') /\ Owned(store', dir', HNow) /\ HeadsOf(store', dir', cur') = HNow
  BY SaveBegins
<1>3. OwnInv'
  BY <1>2 DEF OwnInv, StoreInv, HeadsOf, StoredHead
<1>4. Proper(file') /\ DOMAIN file'.tracks = {}
  <2>1. Proper([tracks |-> <<>>, torn |-> FALSE])
    BY EmptyFileIsProper
  <2>2. file'.tracks = <<>> /\ DOMAIN <<>> = {}
    BY <1>1
  <2> QED BY <2>1, <2>2, <1>1
<1>5. TypeOK'
  BY <1>1, <1>2, <1>4, NothingOwned DEF IInv, TypeOK, StoreInv, Owned, Typed, Proper
<1> QED BY <1>1, <1>3, <1>4, <1>5
        DEF IInv, ClosedInv, SavingInv, LoadingInv, OpenInv, FileInv, Proper

LEMMA BeginSaveFailsKeeps == IInv /\ BeginSaveFails => IInv'
<1> SUFFICES ASSUME IInv, BeginSaveFails PROVE IInv'
  OBVIOUS
<1>1. /\ Drop /\ reply' \in {"ok", "error", "crashed"} /\ readonly' = readonly
      /\ file' = [tracks |-> <<>>, torn |-> TRUE]
  BY DEF BeginSaveFails
<1>2. Proper(file')
  BY <1>1, EmptyFileIsProper
<1> QED BY <1>1, <1>2, DropKeeps DEF IInv, TypeOK

\* The next cylinder and head come after those saved.
LEMMA Advances ==
  ASSUME IInv, phase = "saving", Advance \/ NextCylinder
  PROVE  /\ pos' \in [cyl : Nat, head : Nat]
         /\ \A t \in Tracks : Before(t, pos) => Before(t, pos')
         /\ Before(Here, pos') /\ ~ Before(Here, pos)
<1>1. pos \in [cyl : Nat, head : Nat] /\ pos.cyl \in Nat /\ pos.head \in Nat
  BY DEF IInv, TypeOK
<1>2. \/ pos' = [cyl |-> pos.cyl, head |-> pos.head + 1]
      \/ pos' = [cyl |-> pos.cyl + 1, head |-> 0]
  <2>1. [pos EXCEPT !.head = @ + 1] = [cyl |-> pos.cyl, head |-> pos.head + 1]
    BY <1>1
  <2> QED BY <2>1 DEF Advance, NextCylinder
<1>3. \A t \in Tracks : t[1] \in Nat /\ t[2] \in Nat
  BY TracksAssumption
<1> DEFINE c == pos.cyl
           h == pos.head
<1>4. Here[1] = c /\ Here[2] = h
  BY DEF Here
<1>5. c \in Nat /\ h \in Nat
  BY <1>1
<1>6. ~ Before(Here, pos)
  <2>1. ~ (c < c \/ (c = c /\ h < h))
    <3> HIDE DEF c, h
    <3> QED BY <1>5
  <2> QED BY <1>4, <2>1 DEF Before
<1>7. CASE pos' = [cyl |-> c, head |-> h + 1]
  <2>1. pos'.cyl = c /\ pos'.head = h + 1 /\ pos' \in [cyl : Nat, head : Nat]
    BY <1>1, <1>7
  <2>2. \A x, y \in Nat :
          x < c \/ (x = c /\ y < h) => x < c \/ (x = c /\ y < h + 1)
    <3> HIDE DEF c, h
    <3> QED BY <1>5
  <2>3. \A t \in Tracks : Before(t, pos) => Before(t, pos')
    BY <1>3, <2>1, <2>2 DEF Before
  <2>4. c < c \/ (c = c /\ h < h + 1)
    <3> HIDE DEF c, h
    <3> QED BY <1>5
  <2>5. Before(Here, pos')
    BY <1>4, <2>1, <2>4 DEF Before
  <2> QED BY <2>1, <2>3, <2>5, <1>6
<1>8. CASE pos' = [cyl |-> c + 1, head |-> 0]
  <2>1. pos'.cyl = c + 1 /\ pos'.head = 0 /\ pos' \in [cyl : Nat, head : Nat]
    BY <1>1, <1>8
  <2>2. \A x, y \in Nat :
          x < c \/ (x = c /\ y < h) => x < c + 1 \/ (x = c + 1 /\ y < 0)
    <3> HIDE DEF c, h
    <3> QED BY <1>5
  <2>3. \A t \in Tracks : Before(t, pos) => Before(t, pos')
    BY <1>3, <2>1, <2>2 DEF Before
  <2>4. c < c + 1 \/ (c = c + 1 /\ h < 0)
    <3> HIDE DEF c, h
    <3> QED BY <1>5
  <2>5. Before(Here, pos')
    BY <1>4, <2>1, <2>4 DEF Before
  <2> QED BY <2>1, <2>3, <2>5, <1>6
<1> QED BY <1>2, <1>7, <1>8

\* A track of the store is written as one of a proper file.
LEMMA SavedIsProper ==
  ASSUME IInv, phase = "saving", NEW t \in Held
  PROVE  /\ SavedTrack(t) \in FileTracks /\ SavedTrack(t).track = t
         /\ \A n \in DOMAIN SavedTrack(t).sectors :
              SavedTrack(t).sectors[n].packed => SavedTrack(t).sectors[n].data \in Plain
<1> DEFINE head == StoredHead(store, dir, t)
           rec == [n \in DOMAIN head |-> Recorded(store, head[n])]
<1>1. t \in Tracks /\ dir[t] # Null /\ cur = NoCur
  BY DEF Held, IInv, SavingInv
<1>2. HNow[t] = head
  BY <1>1, MarkersAssumption DEF HNow, HeadsOf, NoCur
<1>3. head \in Seq(Entries)
  BY <1>1, HeldNow DEF StoredHead, Owned, HeadersIn
<1>4. SectorsIn(store, HNow)
  BY HeldNow DEF Owned
<1> HIDE DEF head
<1>5. ASSUME NEW n \in DOMAIN head
      PROVE  /\ Recorded(store, head[n]) \in FileSectors
             /\ Recorded(store, head[n]).packed => Recorded(store, head[n]).data \in Plain
  <2> DEFINE s == head[n]
             len == IF s.block = Null THEN s.len ELSE store.blocks[s.block].ulen
             data == IF s.err = "nodata" THEN Unformatted
                     ELSE IF s.blank THEN s.filler ELSE store.blocks[s.block].data
             packed == (s.err = "nodata") \/ s.blank
  <2>1. s \in Entries /\ n \in Nat
    BY <1>3
  <2>2. Entry(HNow, t, n) /\ SectorBlock(HNow, t, n) = s.block /\ HNow[t][n] = s
    BY <1>2, <1>3, MarkersAssumption DEF Entry, SectorBlock
  <2>3. /\ s.block = Null => s.blank
        /\ s.block # Null => /\ store.blocks[s.block].data \in Contents
                             /\ store.blocks[s.block].ulen \in Nat \ {0}
    <3>1. SectorBlock(HNow, t, n) = Null => HNow[t][n].blank
      BY <1>1, <1>4, <2>1, <2>2 DEF SectorsIn
    <3>2. SectorBlock(HNow, t, n) # Null =>
            /\ store.blocks[SectorBlock(HNow, t, n)].data \in Contents
            /\ store.blocks[SectorBlock(HNow, t, n)].ulen \in Nat \ {0}
      BY <1>1, <1>4, <2>1, <2>2 DEF SectorsIn
    <3> QED BY <3>1, <3>2, <2>2
  <2>4. /\ s.id \in SectorIds /\ s.err \in Statuses /\ s.blank \in BOOLEAN
        /\ s.filler \in Plain /\ s.len \in Nat \ {0}
    BY <2>1 DEF Entries
  <2>5. Recorded(store, s) = [id |-> s.id, err |-> s.err, packed |-> packed,
                              data |-> data, len |-> len]
    BY DEF Recorded
  <2> HIDE DEF s
  <2>6. len \in Nat \ {0}
    BY <2>3, <2>4
  <2>7. data \in Contents /\ (packed => data \in Plain)
    BY <2>3, <2>4, ContentsAssumption DEF Contents
  <2>8. packed \in BOOLEAN
    OBVIOUS
  <2> HIDE DEF len, data, packed
  <2> QED BY <2>4, <2>5, <2>6, <2>7, <2>8 DEF FileSectors, s
<1>6. SavedTrack(t) = [track |-> t, sectors |-> rec]
  BY DEF SavedTrack, head
<1>7. DOMAIN rec = DOMAIN head /\ \A n \in DOMAIN head : rec[n] = Recorded(store, head[n])
  OBVIOUS
<1>8. rec \in Seq(FileSectors)
  <2>1. DOMAIN head = 1 .. Len(head) /\ Len(head) \in Nat
    BY <1>3
  <2>2. rec \in [1 .. Len(head) -> FileSectors]
    BY <2>1, <1>5
  <2> HIDE DEF rec
  <2> QED BY <2>1, <2>2
<1> HIDE DEF rec
<1> QED BY <1>1, <1>5, <1>6, <1>7, <1>8 DEF FileTracks

LEMMA SaveTrackKeeps == IInv /\ SaveTrack => IInv'
<1> SUFFICES ASSUME IInv, SaveTrack PROVE IInv'
  OBVIOUS
<1>1. /\ phase = "saving" /\ Advance /\ err' = FALSE
      /\ file' = IF Here \in Held /\ ~ file.torn
                 THEN [file EXCEPT !.tracks = Append(@, SavedTrack(Here))] ELSE file
      /\ UNCHANGED <<store, dir, cur, dirty, writes, readonly, phase, at, failed, reply>>
  BY DEF SaveTrack, Saving, session
<1>2. /\ pos' \in [cyl : Nat, head : Nat]
      /\ \A t \in Tracks : Before(t, pos) => Before(t, pos')
      /\ Before(Here, pos') /\ ~ Before(Here, pos)
  BY <1>1, Advances
<1>3. /\ file \in Files /\ Proper(file)
      /\ \A i \in DOMAIN file.tracks : Before(file.tracks[i].track, pos)
      /\ \A i \in DOMAIN file.tracks : file.tracks[i].track \in Tracks
  BY <1>1, TrackOfFile DEF IInv, FileInv, TypeOK
<1>4. FileInv'
  <2>1. CASE file' = file
    BY <2>1, <1>1, <1>2, <1>3 DEF FileInv, Proper
  <2>2. CASE /\ Here \in Held
             /\ file' = [file EXCEPT !.tracks = Append(@, SavedTrack(Here))]
    <3> DEFINE new == SavedTrack(Here)
               ts == file.tracks
               m == Len(ts) + 1
               us == Append(ts, new)
    <3>1. /\ new \in FileTracks /\ new.track = Here
          /\ \A n \in DOMAIN new.sectors : new.sectors[n].packed => new.sectors[n].data \in Plain
      BY <2>2, <1>1, SavedIsProper
    <3>2. file' = [tracks |-> us, torn |-> file.torn] /\ ts \in Seq(FileTracks)
          /\ file.torn \in BOOLEAN
      BY <2>2, <1>3 DEF Files
    <3> HIDE DEF new, ts
    <3>3. /\ us \in Seq(FileTracks) /\ m \in Nat /\ DOMAIN us = 1 .. m /\ DOMAIN ts = 1 .. m - 1
          /\ us[m] = new /\ \A i \in 1 .. m - 1 : us[i] = ts[i]
      BY <3>1, <3>2
    <3> HIDE DEF us, m
    <3>4. \A i \in DOMAIN us : i = m \/ i \in DOMAIN ts
      BY <3>3
    <3>5. \A i \in DOMAIN ts : Before(us[i].track, pos) /\ us[i].track \in Tracks /\ us[i] = ts[i]
      BY <1>3, <3>3 DEF ts
    <3>6. us[m].track = Here
      BY <3>1, <3>3
    <3>7. \A i, j \in DOMAIN us : us[i].track = us[j].track => i = j
      <4>1. \A i, j \in DOMAIN ts : ts[i].track = ts[j].track => i = j
        BY <1>3 DEF Proper, ts
      <4> QED BY <4>1, <1>2, <3>4, <3>5, <3>6
    <3>8. \A i \in DOMAIN us : \A n \in DOMAIN us[i].sectors :
            us[i].sectors[n].packed => us[i].sectors[n].data \in Plain
      <4>1. \A i \in DOMAIN ts : \A n \in DOMAIN ts[i].sectors :
              ts[i].sectors[n].packed => ts[i].sectors[n].data \in Plain
        BY <1>3 DEF Proper, ts
      <4> QED BY <4>1, <3>1, <3>3, <3>4, <3>5
    <3>9. file' \in Files
      BY <3>2, <3>3 DEF Files
    <3>10. Proper(file')
      BY <3>2, <3>7, <3>8, <3>9 DEF Proper
    <3>11. \A i \in DOMAIN us : Before(us[i].track, pos')
      BY <1>2, <3>4, <3>5, <3>6
    <3> QED BY <3>2, <3>10, <3>11 DEF FileInv, Proper
  <2> QED BY <2>1, <2>2, <1>1
<1>5. TypeOK'
  BY <1>1, <1>2, <1>4 DEF IInv, TypeOK, FileInv, Proper
<1>6. OwnInv'
  BY <1>1 DEF IInv, OwnInv, HeadsOf, StoredHead
<1> QED BY <1>1, <1>4, <1>5, <1>6 DEF IInv, ClosedInv, SavingInv, LoadingInv, OpenInv

LEMMA SaveTrackFailsKeeps == IInv /\ SaveTrackFails => IInv'
<1> SUFFICES ASSUME IInv, SaveTrackFails PROVE IInv'
  OBVIOUS
<1>1. PICK part \in BOOLEAN :
        /\ phase = "saving" /\ NextCylinder /\ err' = TRUE /\ failed' = TRUE
        /\ file' = [file EXCEPT !.torn = @ \/ part]
        /\ UNCHANGED <<store, dir, cur, dirty, writes, readonly, phase, at, reply>>
  BY DEF SaveTrackFails, Saving, session
<1>2. /\ pos' \in [cyl : Nat, head : Nat]
      /\ \A t \in Tracks : Before(t, pos) => Before(t, pos')
  BY <1>1, Advances
<1>3. /\ file \in Files /\ Proper(file)
      /\ \A i \in DOMAIN file.tracks : Before(file.tracks[i].track, pos)
      /\ \A i \in DOMAIN file.tracks : file.tracks[i].track \in Tracks
  BY <1>1, TrackOfFile DEF IInv, FileInv, TypeOK
<1>4. file' \in Files /\ file'.tracks = file.tracks
  BY <1>1, <1>3 DEF Files
<1>5. FileInv'
  BY <1>1, <1>2, <1>3, <1>4 DEF FileInv, Proper
<1>6. TypeOK'
  BY <1>1, <1>2, <1>4 DEF IInv, TypeOK
<1>7. OwnInv'
  BY <1>1 DEF IInv, OwnInv, HeadsOf, StoredHead
<1> QED BY <1>1, <1>5, <1>6, <1>7 DEF IInv, ClosedInv, SavingInv, LoadingInv, OpenInv

LEMMA CutKeepsProper == ASSUME IInv, Cut PROVE Proper(file')
<1>1. PICK k \in 0 .. Len(file.tracks), part \in BOOLEAN :
        file' = [tracks |-> SubSeq(file.tracks, 1, k), torn |-> part]
  BY DEF Cut
<1> QED BY <1>1, CutIsProper DEF IInv, FileInv

LEMMA EndSaveKeeps == IInv /\ EndSave => IInv'
<1> SUFFICES ASSUME IInv, EndSave PROVE IInv'
  OBVIOUS
<1>1. Drop /\ readonly' = readonly /\ reply' \in {"ok", "error", "crashed"}
  BY DEF EndSave
<1>2. Proper(file')
  BY CutKeepsProper DEF EndSave, IInv, FileInv
<1> QED BY <1>1, <1>2, DropKeeps DEF IInv, TypeOK

LEMMA CrashKeeps == IInv /\ Crash => IInv'
<1> SUFFICES ASSUME IInv, Crash PROVE IInv'
  OBVIOUS
<1>1. Drop /\ readonly' = readonly /\ reply' \in {"ok", "error", "crashed"}
  BY DEF Crash
<1>2. Proper(file')
  BY CutKeepsProper DEF Crash, IInv, FileInv
<1> QED BY <1>1, <1>2, DropKeeps DEF IInv, TypeOK

LEMMA ReplaceKeeps == IInv /\ Replace => IInv'
<1> SUFFICES ASSUME IInv, Replace PROVE IInv'
  OBVIOUS
<1>1. /\ phase = "closed" /\ file' \in Images /\ readonly' \in BOOLEAN
      /\ UNCHANGED <<phase, store, dir, cur, dirty, writes, at, pos, err, failed, reply>>
  BY DEF Replace, session
<1>2. Proper(file')
  BY <1>1, ImagesAssumption
<1>3. TypeOK'
  BY <1>1, <1>2 DEF IInv, TypeOK, Proper
<1>4. OwnInv'
  BY <1>1 DEF IInv, OwnInv, HeadsOf, StoredHead
<1> QED BY <1>1, <1>2, <1>3, <1>4
        DEF IInv, ClosedInv, SavingInv, LoadingInv, OpenInv, FileInv, Proper

LEMMA StutterKeeps == IInv /\ UNCHANGED vars => IInv'
<1> SUFFICES ASSUME IInv, UNCHANGED vars PROVE IInv'
  OBVIOUS
<1>1. UNCHANGED <<file, readonly, phase, store, dir, cur, dirty, at, pos, err, failed, reply, writes>>
  BY DEF vars
<1>2. TypeOK' /\ OwnInv'
  BY <1>1 DEF IInv, TypeOK, OwnInv, HeadsOf, StoredHead
<1> QED BY <1>1, <1>2
        DEF IInv, ClosedInv, SavingInv, LoadingInv, OpenInv, FileInv, Proper

\* Every step keeps the invariant.
LEMMA StepKeeps == IInv /\ [Next]_vars => IInv'
<1> SUFFICES ASSUME IInv, [Next]_vars PROVE IInv'
  OBVIOUS
<1>1. CASE \E t \in Tracks : Read(t)
  BY <1>1, ReadKeeps
<1>2. CASE \E t \in Tracks, id \in SectorIds, v \in Contents : Write(t, id, v)
  BY <1>2, WriteKeeps
<1>3. CASE Open \/ BeginTrack \/ LoadSector \/ EndTrack \/ Attach
  BY <1>3, OpenKeeps, BeginTrackKeeps, LoadSectorKeeps, EndTrackKeeps, AttachKeeps
<1>4. CASE CloseUnsaved \/ BeginSave \/ BeginSaveFails \/ SaveTrack \/ SaveTrackFails \/ EndSave
  BY <1>4, CloseUnsavedKeeps, BeginSaveKeeps, BeginSaveFailsKeeps, SaveTrackKeeps,
     SaveTrackFailsKeeps, EndSaveKeeps
<1>5. CASE Crash \/ Replace
  BY <1>5, CrashKeeps, ReplaceKeeps
<1>6. CASE UNCHANGED vars
  BY <1>6, StutterKeeps
<1> QED BY <1>1, <1>2, <1>3, <1>4, <1>5, <1>6 DEF Next

------------------------------------------------------------------------------
(* The theorems *)

\* IInv is an invariant.
THEOREM Invariance == Spec => []IInv
<1>1. Init => IInv
  BY InitKeeps
<1>2. IInv /\ [Next]_vars => IInv'
  BY StepKeeps
<1> QED BY <1>1, <1>2, PTL DEF Spec

\* Every variable keeps its type: LibDsk's header in memory, the store, its
\* directory and the file are what ldbs.c and drvimd.c take them for.
THEOREM TypesCorrect == Spec => []TypeOK
<1>1. IInv => TypeOK
  BY DEF IInv
<1> QED BY <1>1, Invariance, PTL

\* What Holders and BlockOf say of the headers.
LEMMA HoldersAre ==
  ASSUME IInv
  PROVE  /\ \A t \in Tracks : HeadNow(t) = HNow[t]
         /\ \A g : g \in Holders <=>
              \/ \E t \in Tracks : dir[t] # Null /\ g = <<t, 0>>
              \/ \E t \in Tracks, n \in Nat \ {0} :
                   Entry(HNow, t, n) /\ SectorBlock(HNow, t, n) # Null /\ g = <<t, n>>
<1>1. \A t \in Tracks : HeadNow(t) = HNow[t]
  BY DEF HeadNow, HNow, HeadsOf
<1>2. ASSUME NEW t \in Tracks, NEW n
      PROVE  n \in Filed(t) <=>
               n \in Nat \ {0} /\ Entry(HNow, t, n) /\ SectorBlock(HNow, t, n) # Null
  <2>1. HNow[t] # NoHead => HNow[t] \in Seq(Entries)
    BY HeldNow DEF Owned, Typed, TrackHeads
  <2>2. HNow[t] # NoHead => DOMAIN HNow[t] \subseteq Nat \ {0}
    BY <2>1
  <2> QED BY <2>2, <1>1 DEF Filed, Entry, SectorBlock
<1>3. ASSUME NEW g
      PROVE  g \in UNION {{t} \X Filed(t) : t \in Tracks} <=>
               \E t \in Tracks : \E n \in Filed(t) : g = <<t, n>>
  OBVIOUS
<1>4. ASSUME NEW g
      PROVE  g \in {<<t, 0>> : t \in Held} <=> \E t \in Tracks : dir[t] # Null /\ g = <<t, 0>>
  BY DEF Held
<1> QED BY <1>1, <1>2, <1>3, <1>4 DEF Holders

\* No block of the store is lost or held twice, however often sectors are written,
\* tracks selected and blocks freed and taken over again: BlocksHeldOnce.
THEOREM BlocksAreHeldOnce == Spec => []BlocksHeldOnce
<1>1. IInv => BlocksHeldOnce
  <2> SUFFICES ASSUME IInv PROVE BlocksHeldOnce
    OBVIOUS
  <2>1. /\ Sound(store)
        /\ HeadersIn(store, dir) /\ SectorsIn(store, HNow) /\ HeadersApart(dir)
        /\ SectorsApart(HNow) /\ KindsApart(dir, HNow) /\ NoneLost(store, dir, HNow)
    BY HeldNow DEF StoreInv, Owned
  <2> DEFINE header(g) == \E t \in Tracks : dir[t] # Null /\ g = <<t, 0>>
             sector(g) == \E t \in Tracks, n \in Nat \ {0} :
                            /\ Entry(HNow, t, n) /\ SectorBlock(HNow, t, n) # Null
                            /\ g = <<t, n>>
  <2>2. \A g : g \in Holders <=> header(g) \/ sector(g)
    BY HoldersAre
  <2>3. ASSUME NEW t \in Tracks PROVE BlockOf(<<t, 0>>) = dir[t]
    BY DEF BlockOf
  <2>4. ASSUME NEW t \in Tracks, NEW n \in Nat \ {0}
        PROVE  BlockOf(<<t, n>>) = SectorBlock(HNow, t, n)
    BY HoldersAre DEF BlockOf, SectorBlock
  <2>5. ASSUME NEW g \in Holders PROVE BlockOf(g) \in store.used
    <3>1. CASE header(g)
      BY <3>1, <2>1, <2>3 DEF HeadersIn
    <3>2. CASE sector(g)
      BY <3>2, <2>1, <2>4 DEF SectorsIn
    <3> QED BY <3>1, <3>2, <2>2
  <2>6. ASSUME NEW g \in Holders, NEW k \in Holders, BlockOf(g) = BlockOf(k) PROVE g = k
    <3>1. CASE header(g) /\ header(k)
      BY <3>1, <2>1, <2>3, <2>6 DEF HeadersApart
    <3>2. CASE header(g) /\ sector(k)
      BY <3>2, <2>1, <2>3, <2>4, <2>6 DEF KindsApart
    <3>3. CASE sector(g) /\ header(k)
      BY <3>3, <2>1, <2>3, <2>4, <2>6 DEF KindsApart
    <3>4. CASE sector(g) /\ sector(k)
      BY <3>4, <2>1, <2>4, <2>6 DEF SectorsApart
    <3> QED BY <3>1, <3>2, <3>3, <3>4, <2>2
  <2>7. ASSUME NEW b \in store.used PROVE \E g \in Holders : BlockOf(g) = b
    <3>1. b # Null
      BY HeldNow, NullIsNoBlock
    <3>2. CASE \E t \in Tracks : dir[t] = b
      <4>1. PICK t \in Tracks : dir[t] = b
        BY <3>2
      <4>2. <<t, 0>> \in Holders /\ BlockOf(<<t, 0>>) = b
        BY <4>1, <3>1, <2>2, <2>3
      <4> QED BY <4>2
    <3>3. CASE \E t \in Tracks, n \in Nat : Entry(HNow, t, n) /\ SectorBlock(HNow, t, n) = b
      <4>1. PICK t \in Tracks, n \in Nat : Entry(HNow, t, n) /\ SectorBlock(HNow, t, n) = b
        BY <3>3
      <4>2. HNow[t] \in Seq(Entries)
        BY <4>1, HeldNow DEF Entry, Owned, Typed, TrackHeads
      <4>3. n \in Nat \ {0}
        BY <4>1, <4>2 DEF Entry
      <4>4. <<t, n>> \in Holders /\ BlockOf(<<t, n>>) = b
        BY <4>1, <4>3, <3>1, <2>2, <2>4
      <4> QED BY <4>4
    <3> QED BY <3>2, <3>3, <2>1 DEF NoneLost
  <2> QED BY <2>1, <2>5, <2>6, <2>7 DEF BlocksHeldOnce
<1> QED BY <1>1, Invariance, PTL

\* The file is one that imd_open can load, or begins as one: through failed
\* writes, cuts and crashes it has no track twice and no packed sector whose
\* contents are not one byte.
THEOREM FileStaysProper == Spec => []Proper(file)
<1>1. IInv => Proper(file)
  BY DEF IInv, FileInv
<1> QED BY <1>1, Invariance, PTL
==============================================================================
