----------------------------- MODULE BlockStore -----------------------------
(***************************************************************************)
(* LibDsk's block store (ldbs.c), in which several drivers keep a whole    *)
(* disk image: blocks of a type and a length, in use or on a chain of free *)
(* blocks that later blocks of the same length take over.  A store in      *)
(* memory, as the drivers use it, has no other header than its two chains. *)
(* The order of the chain of used blocks decides nothing and is left out;  *)
(* the payload of a free block is dropped, since nothing reads it.         *)
(***************************************************************************)
EXTENDS Integers, SequencesExt

CONSTANT NoData

Null == 0                              \* LDBLOCKID_NULL
Free == <<"FREE", 0, 0, 0>>            \* FREEBLOCK

EmptyStore == [blocks |-> <<>>, used |-> {}, free |-> <<>>]

Ids(store) == DOMAIN store.blocks

\* A free block comes off its chain.
Take(store, i, type, data, len) ==
  LET id == store.free[i]
  IN [store |-> [blocks |-> [store.blocks EXCEPT ![id] =
                               [type |-> type, dlen |-> @.dlen, ulen |-> len, data |-> data]],
                 used |-> store.used \cup {id}, free |-> RemoveAt(store.free, i)],
      id |-> id]

\* ldbs_newblock: the store grows.
Grow(store, type, data, len) ==
  LET id == Len(store.blocks) + 1
  IN [store |-> [blocks |-> Append(store.blocks,
                               [type |-> type, dlen |-> len, ulen |-> len, data |-> data]),
                 used |-> store.used \cup {id}, free |-> store.free],
      id |-> id]

\* ldbs_addblock takes the first free block of exactly the length; what its
\* second walk finds among the longer ones it never uses.
AddBlock(store, type, data, len) ==
  LET exact(i) == store.blocks[store.free[i]].dlen = len
  IN IF len = 0 THEN [store |-> store, id |-> Null]
     ELSE IF \E i \in DOMAIN store.free : exact(i)
     THEN LET first == CHOOSE i \in DOMAIN store.free :
                         exact(i) /\ \A j \in 1 .. i - 1 : ~ exact(j)
          IN Take(store, first, type, data, len)
     ELSE Grow(store, type, data, len)

\* ldbs_delblock.
DelBlock(store, id) ==
  [blocks |-> [store.blocks EXCEPT ![id] =
                 [type |-> Free, dlen |-> @.dlen, ulen |-> 0, data |-> NoData]],
   used |-> store.used \ {id},
   free |-> <<id>> \o store.free]

\* ldbs_rewriteblock.
RewriteBlock(store, id, data, len) ==
  [blocks |-> [store.blocks EXCEPT ![id] =
                 [type |-> @.type, dlen |-> @.dlen, ulen |-> len, data |-> data]],
   used |-> store.used, free |-> store.free]

\* ldbs_putblock: in place if the type is the same and the length fits.
PutBlock(store, id, type, data, len) ==
  IF id = Null THEN AddBlock(store, type, data, len)
  ELSE IF store.blocks[id].type = type /\ store.blocks[id].ulen >= len /\ len # 0
  THEN [store |-> RewriteBlock(store, id, data, len), id |-> id]
  ELSE AddBlock(DelBlock(store, id), type, data, len)

------------------------------------------------------------------------------
Stores(types, payloads) ==
  [blocks : Seq([type : types, dlen : Nat, ulen : Nat, data : payloads]),
   used : SUBSET Nat, free : Seq(Nat)]

\* A sound store: every block is in use or once on the free chain, as its type
\* says.
Sound(store) ==
  /\ store.used \cup Range(store.free) = Ids(store)
  /\ store.used \cap Range(store.free) = {}
  /\ IsInjective(store.free)
  /\ \A id \in Ids(store) : store.blocks[id].type = Free <=> id \notin store.used
==============================================================================
