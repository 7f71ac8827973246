--------------------------- MODULE ObjectsProofs ---------------------------
(***************************************************************************)
(* Proofs about Objects, for every description of tables, every number of  *)
(* blocks and every number of rows.                                        *)
(*                                                                         *)
(* Neither OneOwner nor FreedRight is inductive: that a free is right in   *)
(* the next step needs to be known of every block that the result reaches. *)
(* The invariant Inv describes the heap by trees.  A result is a head (an  *)
(* array of rows, or a list of entries with one object each) and whatever  *)
(* its members own:                                                        *)
(*   HeapOK      every block is of its kind (only arrays have rows);       *)
(*   Tree        the head, the entries and the objects are in use, of the  *)
(*               table and made by the caller's allocator, no two entries  *)
(*               share an object; a member with NEEDFREE points at a text  *)
(*               in use, and no two such members at one text;              *)
(*   Good        the results of two tables use no block in common;         *)
(*   HeldOK, IteratorOK, MadeOK, CallOK                                    *)
(*               what the caller, the iterator and the running select      *)
(*               refer to is of the kind they take it for;                 *)
(*   FreshRows   the rows of an array that a select has not reached hold   *)
(*               nothing yet: the next row overwrites no owned text.       *)
(* A step is then shown to build a tree of blocks that were unused, to     *)
(* change one tree and to leave the others alone (TreeFrame), or to free   *)
(* blocks of one tree only.                                                *)
(***************************************************************************)
EXTENDS Objects, CountingTheorems, SequenceTheorems

----------------------------------------------------------------------------
(* Blocks that _malloc returns                                             *)

\* The k-th block of _malloc is unused, if there are k unused blocks.
LEMMA MallocIs ==
    ASSUME NEW h, NEW k \in 1..Cardinality(Unused(h))
    PROVE  /\ Malloc(h, k) \in Unused(h)
           /\ Cardinality({x \in Unused(h) : x < Malloc(h, k)}) = k - 1
  <1>1. MaxBlocks \in Nat /\ Unused(h) \in SUBSET (1..MaxBlocks)
    BY ConstantsAssumption DEF Unused, Blocks
  <1>2. \E b \in Unused(h) : Cardinality({x \in Unused(h) : x < b}) = k - 1
    BY <1>1, RankExists
  <1> QED
    BY <1>2 DEF Malloc

\* There are finitely many blocks, so the unused ones can be counted.
LEMMA UnusedFinite ==
    ASSUME NEW h
    PROVE  IsFiniteSet(Unused(h)) /\ Cardinality(Unused(h)) \in Nat
  <1>1. IsFiniteSet(1..MaxBlocks)
    BY FS_Interval, ConstantsAssumption
  <1>2. Unused(h) \subseteq 1..MaxBlocks
    BY DEF Unused, Blocks
  <1> QED
    BY <1>1, <1>2, FS_Subset, FS_CardinalityType

\* Two calls of _malloc return two blocks.
LEMMA MallocApart ==
    ASSUME NEW h, NEW k \in 1..Cardinality(Unused(h)),
           NEW l \in 1..Cardinality(Unused(h)), Malloc(h, k) = Malloc(h, l)
    PROVE  k = l
  <1>1. k - 1 = l - 1
    BY MallocIs
  <1>2. k \in Int /\ l \in Int
    OBVIOUS
  <1> QED
    BY <1>1, <1>2

\* The tables are the numbers of their descriptions.
LEMMA TablesAre ==
    /\ Tables = 1..Len(Columns) /\ Len(Columns) \in Nat
    /\ IsFiniteSet(Tables) /\ Cardinality(Tables) \in Nat
  <1>1. Tables = 1..Len(Columns) /\ Len(Columns) \in Nat
    BY ConstantsAssumption DEF Tables
  <1>2. IsFiniteSet(1..Len(Columns))
    BY <1>1, FS_Interval
  <1> QED
    BY <1>1, <1>2, FS_CardinalityType

\* The number of a member of a set of tables or columns, in their order.
Rank(W, t) == Cardinality({u \in W : u <= t})

\* A member of W has a rank of 1 up to the size of W.
LEMMA RankIs ==
    ASSUME NEW n \in Nat, NEW W \in SUBSET (1..n), NEW t \in W
    PROVE  Rank(W, t) \in 1..Cardinality(W)
  <1> DEFINE V == {u \in W : u <= t}
  <1>1. IsFiniteSet(W) /\ Cardinality(W) \in Nat
    <2>1. IsFiniteSet(1..n)
      BY FS_Interval
    <2> QED
      BY <2>1, FS_Subset, FS_CardinalityType
  <1>2. V \subseteq W /\ t \in V
    OBVIOUS
  <1> HIDE DEF V
  <1>3. IsFiniteSet(V) /\ Cardinality(V) <= Cardinality(W)
    BY <1>1, <1>2, FS_Subset
  <1>4. Cardinality(V) # 0 /\ Cardinality(V) \in Nat
    <2>1. V # {}
      BY <1>2
    <2> QED
      BY <1>3, <2>1, FS_EmptySet, FS_CardinalityType
  <1> QED
    BY <1>1, <1>3, <1>4 DEF Rank, V

\* No two members of W have one rank.
LEMMA RankApart ==
    ASSUME NEW n \in Nat, NEW W \in SUBSET (1..n), NEW t \in W, NEW u \in W,
           Rank(W, t) = Rank(W, u)
    PROVE  t = u
  <1> DEFINE V(x) == {y \in W : y <= x}
  <1>1. IsFiniteSet(W)
    <2>1. IsFiniteSet(1..n)
      BY FS_Interval
    <2> QED
      BY <2>1, FS_Subset
  <1>2. ASSUME NEW x \in W, NEW y \in W, x < y, Rank(W, x) = Rank(W, y) PROVE FALSE
    <2>0. \A z \in W : z \in Int
      OBVIOUS
    <2>1. V(x) \subseteq V(y) /\ y \in V(y) /\ y \notin V(x) /\ V(y) \subseteq W
      <3>1. x < y /\ x \in Int /\ y \in Int
        BY <1>2
      <3>2. y <= y /\ ~(y <= x)
        BY <3>1
      <3>3. \A z \in W : z <= x => z <= y
        BY <2>0, <3>1
      <3> QED
        BY <3>2, <3>3
    <2> HIDE DEF V
    <2>2. IsFiniteSet(V(y))
      BY <1>1, <2>1, FS_Subset
    <2>3. Cardinality(V(x)) = Cardinality(V(y))
      BY <1>2 DEF Rank, V
    <2> QED
      BY <2>1, <2>2, <2>3, FS_Subset
  <1> QED
    BY <1>2

\* The first of a set of tables.
LEMMA FirstIs ==
    ASSUME NEW W \in SUBSET Tables, W # {}
    PROVE  First(W) \in W /\ \A u \in W : First(W) <= u
  <1>1. W \in SUBSET Nat
    BY TablesAre
  <1>2. \E t \in W : \A u \in W : t <= u
    BY <1>1, LeastNumber
  <1> QED
    BY <1>2 DEF First

----------------------------------------------------------------------------
(* Who owns what                                                           *)

Kinds == {"free", "rows", "list", "entry", "text", "columns", "iterator",
          "tables"}
Members == [ptr : Blocks \cup {Null, Theirs, Gone},
            valued : BOOLEAN, needfree : BOOLEAN]
RowSet(t) == [DOMAIN Columns[t] -> Members]
EntrySet  == [entry : Blocks, data : Blocks]

\* What a block may hold: only arrays have rows, only lists have entries.
BlockOK(x) ==
    /\ x = Block(x.kind, x.by, x.table, x.rows, x.entries)
    /\ x.kind \in Kinds /\ x.by \in {NoAllocator, Allocator}
    /\ x.table \in {0} \cup Tables
    /\ IF x.kind = "rows"
       THEN x.table \in Tables /\ x.rows \in Seq(RowSet(x.table))
       ELSE x.rows = <<>>
    /\ IF x.kind = "list" THEN x.entries \in Seq(EntrySet) ELSE x.entries = <<>>
HeapOK(h) == h = [b \in Blocks |-> h[b]] /\ \A b \in Blocks : BlockOK(h[b])

\* The blocks with rows of the result at block a: a itself, or the objects of
\* the list a.  A place of such a block, and one whose NEEDFREE is set.
Holds(h, a, b) ==
    b \in Blocks /\ (b = a \/ \E k \in DOMAIN h[a].entries : b = h[a].entries[k].data)
Place(h, a, b, r, c) ==
    Holds(h, a, b) /\ r \in DOMAIN h[b].rows /\ c \in DOMAIN h[b].rows[r]
Owner(h, a, b, r, c) == Place(h, a, b, r, c) /\ h[b].rows[r][c].needfree
Uses(h, a, x) ==
    \/ Holds(h, a, x)
    \/ \E k \in DOMAIN h[a].entries : x = h[a].entries[k].entry
    \/ \E b \in Blocks, r, c \in Nat :
           Owner(h, a, b, r, c) /\ x = h[b].rows[r][c].ptr

\* For the reading of members: the key of a table is no heap text or blob.
KeysInside == \A t \in Tables : PK[t] # 0 => ~IsHeap(t, PK[t])
ReadOK(t, c, m) ==
    IsHeap(t, c) /\ m.valued =>
        \/ m.ptr = Theirs
        \/ m.ptr = Null /\ Columns[t][c] = "blob"
        \/ m.needfree

\* A result of table t at block a that owns its memory.
EntryKind(h, t, e) ==
    /\ h[e.entry].kind = "entry" /\ h[e.entry].by = Allocator
    /\ h[e.data].kind = "rows" /\ h[e.data].table = t
    /\ h[e.data].by = Allocator /\ Len(h[e.data].rows) = 1
EntryKinds(h, t, a) ==
    \A k \in DOMAIN h[a].entries : EntryKind(h, t, h[a].entries[k])
EntriesApart(h, a) ==
    \A k, l \in DOMAIN h[a].entries :
        h[a].entries[k].data = h[a].entries[l].data => k = l
EntriesOK(h, t, a) == EntryKinds(h, t, a) /\ EntriesApart(h, a)

\* A copy that a member owns, a member that can be read, and no two members
\* that own one copy.
TextAt(h, p) == p \in Blocks /\ h[p].kind = "text" /\ h[p].by = Allocator
MembersText(h, a) ==
    \A b \in Blocks, r, c \in Nat :
        Owner(h, a, b, r, c) => TextAt(h, h[b].rows[r][c].ptr)
MembersRead(h, t, a) ==
    \A b \in Blocks, r, c \in Nat :
        KeysInside /\ Place(h, a, b, r, c) => ReadOK(t, c, h[b].rows[r][c])
MembersApart(h, a) ==
    \A b, b2 \in Blocks, r, r2, c, c2 \in Nat :
        /\ Owner(h, a, b, r, c) /\ Owner(h, a, b2, r2, c2)
        /\ h[b].rows[r][c].ptr = h[b2].rows[r2][c2].ptr
        => b = b2 /\ r = r2 /\ c = c2
MembersOK(h, t, a) ==
    MembersText(h, a) /\ MembersRead(h, t, a) /\ MembersApart(h, a)
Tree(h, t, a) ==
    /\ a \in Blocks
    /\ h[a].kind \in {"rows", "list"} /\ h[a].table = t /\ h[a].by = Allocator
    /\ EntriesOK(h, t, a)
    /\ MembersOK(h, t, a)

\* The results A[t] of the tables: each owns its memory, no two share a block.
Good(h, A) ==
    /\ \A t \in Tables : A[t] # Null => Tree(h, t, A[t])
    /\ \A t, u \in Tables : t # u /\ A[t] # Null /\ A[u] # Null =>
           \A x \in Blocks : ~(Uses(h, A[t], x) /\ Uses(h, A[u], x))

----------------------------------------------------------------------------
(* The inductive invariant                                                 *)

\* The results as the caller holds them or as the select that runs makes them.
Results(hd, c) ==
    [t \in Tables |-> IF c = NoCall THEN hd[t].at ELSE c.at[t]]

HeldOK(h, hd) ==
    /\ hd = [t \in Tables |-> hd[t]]
    /\ \A t \in Tables :
        \/ hd[t] = NoResult
        \/ /\ hd[t] = [shape |-> hd[t].shape, at |-> hd[t].at]
           /\ hd[t].at \in Blocks
           /\ hd[t].shape \in {"rows", "list"}
           /\ h[hd[t].at].kind = hd[t].shape

IteratorOK(h, it) ==
    \/ it = NoIterator
    \/ /\ it = [open |-> TRUE, self |-> it.self,
                columns |-> it.columns, tables |-> it.tables]
       /\ it.self \in Blocks /\ it.columns \in Blocks /\ it.tables \in Blocks
       /\ h[it.self].kind = "iterator"
       /\ h[it.columns].kind = "iterator"
       /\ h[it.tables].kind = "tables" /\ h[it.tables].by = Allocator

CallType ==
    [mode : Modes \cup {"iterate"}, wanted : (SUBSET Tables) \ {{}},
     max : 1..MaxRows, got : Nat, next : Tables,
     at : [Tables -> Blocks \cup {Null}], columns : Blocks \cup {Null}]

\* What the running select has made: in an iteration objects, in other modes
\* arrays or lists for all wanted tables and the column arrays.
MadeOK(h, c) ==
    IF c.mode = "iterate"
    THEN /\ c.columns = Null
         /\ \A t \in Tables : c.at[t] # Null => h[c.at[t]].kind = "rows"
    ELSE /\ c.columns # Null
         /\ h[c.columns].kind = "columns" /\ h[c.columns].by = NoAllocator
         /\ \A t \in c.wanted :
             /\ c.at[t] # Null
             /\ IF c.mode = ArrayMode
                THEN h[c.at[t]].kind = "rows" /\ Len(h[c.at[t]].rows) = c.max
                ELSE h[c.at[t]].kind = "list"
CallOK(h, hd, c) ==
    \/ c = NoCall
    \/ /\ \A t \in Tables : hd[t] = NoResult
       /\ c \in CallType
       /\ c.next \in c.wanted /\ c.got <= c.max
       /\ \A t \in Tables \ c.wanted : c.at[t] = Null
       /\ MadeOK(h, c)

Sound(h, hd, it, c) ==
    /\ HeapOK(h)
    /\ Good(h, Results(hd, c))
    /\ HeldOK(h, hd)
    /\ IteratorOK(h, it)
    /\ CallOK(h, hd, c)

\* The rows of the arrays that the select has not come to own nothing.
FreshRows(h, c) ==
    \A t \in c.wanted : \A r \in 1..c.max :
        r > c.got + 1 \/ (r = c.got + 1 /\ t >= c.next) =>
            \A d \in DOMAIN Columns[t] : ~h[c.at[t]].rows[r][d].needfree

Inv ==
    /\ Sound(heap, held, iterator, call)
    /\ call.mode = ArrayMode => FreshRows(heap, call)
    /\ FreedRight

----------------------------------------------------------------------------
(* What the members of a result own                                        *)

\* What NEEDFREE of a member stands for.
LEMMA MemberTextAt ==
    ASSUME NEW h, NEW t, NEW a, MembersOK(h, t, a),
           NEW b \in Blocks, NEW r \in Nat, NEW c \in Nat, Owner(h, a, b, r, c)
    PROVE  TextAt(h, h[b].rows[r][c].ptr)
  BY DEF MembersOK, MembersText

\* The same, written out.
LEMMA MemberText ==
    ASSUME NEW h, NEW t, NEW a, MembersOK(h, t, a),
           NEW b \in Blocks, NEW r \in Nat, NEW c \in Nat, Owner(h, a, b, r, c)
    PROVE  /\ h[b].rows[r][c].ptr \in Blocks
           /\ h[h[b].rows[r][c].ptr].kind = "text"
           /\ h[h[b].rows[r][c].ptr].by = Allocator
  <1>1. TextAt(h, h[b].rows[r][c].ptr)
    BY MemberTextAt
  <1> QED
    BY <1>1 DEF TextAt

\* A member that is valued can be read, if no key is a heap text.
LEMMA MemberRead ==
    ASSUME NEW h, NEW t, NEW a, MembersOK(h, t, a), KeysInside,
           NEW b \in Blocks, NEW r \in Nat, NEW c \in Nat, Place(h, a, b, r, c)
    PROVE  ReadOK(t, c, h[b].rows[r][c])
  BY DEF MembersOK, MembersRead

\* Two members with NEEDFREE and one address are one member.
LEMMA MemberApart ==
    ASSUME NEW h, NEW t, NEW a, MembersOK(h, t, a),
           NEW b \in Blocks, NEW r \in Nat, NEW c \in Nat, Owner(h, a, b, r, c),
           NEW b2 \in Blocks, NEW r2 \in Nat, NEW c2 \in Nat, Owner(h, a, b2, r2, c2),
           h[b].rows[r][c].ptr = h[b2].rows[r2][c2].ptr
    PROVE  b = b2 /\ r = r2 /\ c = c2
  BY DEF MembersOK, MembersApart

\* What there is to show of the members of a result.
LEMMA MembersIntro ==
    ASSUME NEW h, NEW t, NEW a,
           \A b \in Blocks, r, c \in Nat : Owner(h, a, b, r, c) =>
               /\ h[b].rows[r][c].ptr \in Blocks
               /\ h[h[b].rows[r][c].ptr].kind = "text"
               /\ h[h[b].rows[r][c].ptr].by = Allocator,
           \A b \in Blocks, r, c \in Nat :
               KeysInside /\ Place(h, a, b, r, c) => ReadOK(t, c, h[b].rows[r][c]),
           \A b, b2 \in Blocks, r, r2, c, c2 \in Nat :
               /\ Owner(h, a, b, r, c) /\ Owner(h, a, b2, r2, c2)
               /\ h[b].rows[r][c].ptr = h[b2].rows[r2][c2].ptr
               => b = b2 /\ r = r2 /\ c = c2
    PROVE  MembersOK(h, t, a)
  <1>1. MembersText(h, a)
    BY DEF MembersText, TextAt
  <1>2. MembersRead(h, t, a)
    BY DEF MembersRead
  <1>3. MembersApart(h, a)
    BY DEF MembersApart
  <1> QED
    BY <1>1, <1>2, <1>3 DEF MembersOK

----------------------------------------------------------------------------
(* Results that a step leaves alone                                        *)

\* The kinds of blocks that results are made of.
Owned == {"rows", "list", "entry", "text"}

\* What a result is made of: an array has no entries, a list no rows.
LEMMA TreeTypes ==
    ASSUME NEW h, HeapOK(h), NEW t \in Tables, NEW a, Tree(h, t, a)
    PROVE  /\ a \in Blocks /\ BlockOK(h[a]) /\ Holds(h, a, a)
           /\ \A k \in DOMAIN h[a].entries :
                  h[a].entries[k].entry \in Blocks /\ h[a].entries[k].data \in Blocks
           /\ h[a].kind = "rows" => h[a].entries = <<>>
           /\ h[a].kind = "list" => h[a].rows = <<>> /\ h[a].entries \in Seq(EntrySet)
  <1>1. a \in Blocks /\ h[a].kind \in {"rows", "list"}
    BY DEF Tree
  <1>2. BlockOK(h[a])
    BY <1>1 DEF HeapOK
  <1>3. /\ h[a].kind = "rows" => h[a].entries = <<>>
        /\ h[a].kind = "list" => h[a].rows = <<>> /\ h[a].entries \in Seq(EntrySet)
    BY <1>1, <1>2 DEF BlockOK
  <1>4. ASSUME NEW k \in DOMAIN h[a].entries
        PROVE  h[a].entries[k].entry \in Blocks /\ h[a].entries[k].data \in Blocks
    <2>1. CASE h[a].kind = "rows"
      BY <1>3, <2>1
    <2>2. CASE h[a].kind = "list"
      <3>1. h[a].entries[k] \in EntrySet
        BY <1>3, <2>2
      <3> QED
        BY <3>1 DEF EntrySet
    <2> QED
      BY <1>1, <2>1, <2>2
  <1> QED
    BY <1>1, <1>2, <1>3, <1>4 DEF Holds

\* What a result uses is of these kinds and made by the caller's allocator.
LEMMA UsesKinds ==
    ASSUME NEW h, HeapOK(h), NEW t \in Tables, NEW a, Tree(h, t, a),
           NEW x \in Blocks, Uses(h, a, x)
    PROVE  h[x].kind \in Owned /\ h[x].by = Allocator
  <1>1. CASE Holds(h, a, x)
    BY <1>1 DEF Holds, Tree, EntriesOK, EntryKinds, EntryKind, Owned
  <1>2. CASE \E k \in DOMAIN h[a].entries : x = h[a].entries[k].entry
    BY <1>2 DEF Tree, EntriesOK, EntryKinds, EntryKind, Owned
  <1>3. CASE \E b \in Blocks, r, c \in Nat :
                 Owner(h, a, b, r, c) /\ x = h[b].rows[r][c].ptr
    <2>1. PICK b \in Blocks, r \in Nat, c \in Nat :
              Owner(h, a, b, r, c) /\ x = h[b].rows[r][c].ptr
      BY <1>3
    <2>2. MembersOK(h, t, a)
      BY DEF Tree
    <2>3. Owner(h, a, b, r, c)
      BY <2>1
    <2>4. TextAt(h, h[b].rows[r][c].ptr)
      BY <2>2, <2>3, MemberTextAt
    <2>5. TextAt(h, x)
      BY <2>1, <2>4
    <2> QED
      BY <2>5 DEF Owned, TextAt
  <1> QED
    BY <1>1, <1>2, <1>3 DEF Uses

\* A result is what it was if the blocks it uses are.
LEMMA TreeFrame ==
    ASSUME NEW h, HeapOK(h), NEW t \in Tables, NEW a, Tree(h, t, a),
           NEW h2, \A x \in Blocks : Uses(h, a, x) => h2[x] = h[x]
    PROVE  Tree(h2, t, a) /\ \A x \in Blocks : Uses(h2, a, x) <=> Uses(h, a, x)
  <1>1. a \in Blocks /\ Uses(h, a, a) /\ h2[a] = h[a]
    BY TreeTypes DEF Uses
  <1>2. \A b : Holds(h2, a, b) <=> Holds(h, a, b)
    BY <1>1 DEF Holds
  <1>3. \A b : Holds(h, a, b) => h2[b] = h[b]
    BY DEF Holds, Uses
  <1>4. \A b, r, c : /\ Place(h2, a, b, r, c) <=> Place(h, a, b, r, c)
                     /\ Owner(h2, a, b, r, c) <=> Owner(h, a, b, r, c)
                     /\ Place(h, a, b, r, c) => h2[b] = h[b]
    BY <1>2, <1>3 DEF Place, Owner
  <1>5. ASSUME NEW b \in Blocks, NEW r \in Nat, NEW c \in Nat, Owner(h, a, b, r, c)
        PROVE  h2[b] = h[b] /\ h[b].rows[r][c].ptr \in Blocks
               /\ h2[h[b].rows[r][c].ptr] = h[h[b].rows[r][c].ptr]
    <2>1. h[b].rows[r][c].ptr \in Blocks
      <3>1. MembersOK(h, t, a)
        BY DEF Tree
      <3> QED
        BY <1>5, <3>1, MemberText
    <2>2. Uses(h, a, h[b].rows[r][c].ptr)
      BY <1>5 DEF Uses
    <2> QED
      BY <1>4, <1>5, <2>1, <2>2 DEF Owner
  <1>6. EntriesOK(h2, t, a)
    <2>1. ASSUME NEW k \in DOMAIN h[a].entries
          PROVE  /\ h2[h[a].entries[k].entry] = h[h[a].entries[k].entry]
                 /\ h2[h[a].entries[k].data] = h[h[a].entries[k].data]
      <3>1. h[a].entries[k].entry \in Blocks /\ h[a].entries[k].data \in Blocks
        BY TreeTypes
      <3> QED
        BY <3>1 DEF Uses, Holds
    <2> QED
      <3>1. EntryKinds(h, t, a) /\ EntriesApart(h, a)
        BY DEF Tree, EntriesOK
      <3>2. EntryKinds(h2, t, a)
        <4>1. ASSUME NEW k \in DOMAIN h[a].entries
              PROVE  EntryKind(h2, t, h[a].entries[k])
          <5>1. EntryKind(h, t, h[a].entries[k])
            BY <3>1 DEF EntryKinds
          <5> QED
            BY <2>1, <5>1 DEF EntryKind
        <4> QED
          BY <1>1, <4>1 DEF EntryKinds
      <3>3. EntriesApart(h2, a)
        BY <1>1, <3>1 DEF EntriesApart
      <3> QED
        BY <3>2, <3>3 DEF EntriesOK
  <1>7. MembersOK(h2, t, a)
    <2>1. MembersOK(h, t, a)
      BY DEF Tree
    <2>2. ASSUME NEW b \in Blocks, NEW r \in Nat, NEW c \in Nat
          PROVE  /\ Owner(h2, a, b, r, c) =>
                      /\ h2[b].rows[r][c].ptr \in Blocks
                      /\ h2[h2[b].rows[r][c].ptr].kind = "text"
                      /\ h2[h2[b].rows[r][c].ptr].by = Allocator
                 /\ KeysInside /\ Place(h2, a, b, r, c) =>
                      ReadOK(t, c, h2[b].rows[r][c])
      <3>1. ASSUME Owner(h2, a, b, r, c)
            PROVE  /\ h2[b].rows[r][c].ptr \in Blocks
                   /\ h2[h2[b].rows[r][c].ptr].kind = "text"
                   /\ h2[h2[b].rows[r][c].ptr].by = Allocator
        <4>1. Owner(h, a, b, r, c)
          BY <1>4, <3>1
        <4>2. /\ h[b].rows[r][c].ptr \in Blocks
              /\ h[h[b].rows[r][c].ptr].kind = "text"
              /\ h[h[b].rows[r][c].ptr].by = Allocator
          BY <2>1, <4>1, MemberText
        <4> QED
          BY <1>5, <4>1, <4>2
      <3>2. KeysInside /\ Place(h2, a, b, r, c) => ReadOK(t, c, h2[b].rows[r][c])
        <4> SUFFICES ASSUME KeysInside, Place(h2, a, b, r, c)
                     PROVE  ReadOK(t, c, h2[b].rows[r][c])
          OBVIOUS
        <4>1. Place(h, a, b, r, c) /\ h2[b] = h[b]
          BY <1>4
        <4>2. ReadOK(t, c, h[b].rows[r][c])
          BY <2>1, <4>1, MemberRead
        <4> QED
          BY <4>1, <4>2
      <3> QED
        BY <3>1, <3>2
    <2>3. ASSUME NEW b \in Blocks, NEW r \in Nat, NEW c \in Nat,
                 NEW b2 \in Blocks, NEW r2 \in Nat, NEW c2 \in Nat,
                 Owner(h2, a, b, r, c), Owner(h2, a, b2, r2, c2),
                 h2[b].rows[r][c].ptr = h2[b2].rows[r2][c2].ptr
          PROVE  b = b2 /\ r = r2 /\ c = c2
      <3>1. Owner(h, a, b, r, c) /\ Owner(h, a, b2, r2, c2)
            /\ h2[b] = h[b] /\ h2[b2] = h[b2]
        BY <1>4, <2>3 DEF Owner
      <3>2. h[b].rows[r][c].ptr = h[b2].rows[r2][c2].ptr
        BY <3>1, <2>3
      <3> QED
        BY <3>1, <3>2, <2>1, MemberApart
    <2> QED
      <3>1. MembersText(h2, a) /\ MembersRead(h2, t, a)
        BY <2>2 DEF MembersText, TextAt, MembersRead
      <3>2. MembersApart(h2, a)
        BY <2>3 DEF MembersApart
      <3> QED
        BY <3>1, <3>2 DEF MembersOK
  <1>8. ASSUME NEW x \in Blocks PROVE Uses(h2, a, x) <=> Uses(h, a, x)
    <2>1. ASSUME NEW b \in Blocks, NEW r \in Nat, NEW c \in Nat
          PROVE  Owner(h2, a, b, r, c) /\ x = h2[b].rows[r][c].ptr
                 <=> Owner(h, a, b, r, c) /\ x = h[b].rows[r][c].ptr
      BY <1>4 DEF Owner
    <2> QED
      BY <1>1, <1>2, <2>1 DEF Uses
  <1> QED
    BY <1>1, <1>6, <1>7, <1>8 DEF Tree

\* A step that frees results and leaves the blocks of the others alone.
LEMMA GoodFrame ==
    ASSUME NEW h, HeapOK(h), NEW A, Good(h, A), NEW h2, NEW A2,
           \A t \in Tables : A2[t] = A[t] \/ A2[t] = Null,
           \A t \in Tables, x \in Blocks :
               A2[t] # Null /\ Uses(h, A[t], x) => h2[x] = h[x]
    PROVE  Good(h2, A2)
  <1>1. ASSUME NEW t \in Tables, A2[t] # Null
        PROVE  /\ A2[t] = A[t] /\ A[t] # Null /\ Tree(h2, t, A[t])
               /\ \A x \in Blocks : Uses(h2, A[t], x) <=> Uses(h, A[t], x)
    <2>1. A2[t] = A[t] /\ A[t] # Null
      BY <1>1
    <2>2. Tree(h, t, A[t])
      BY <2>1 DEF Good
    <2>3. \A x \in Blocks : Uses(h, A[t], x) => h2[x] = h[x]
      BY <1>1
    <2> QED
      BY <2>1, <2>2, <2>3, TreeFrame
  <1> QED
    BY <1>1 DEF Good

\* The same for a step that changes blocks of other kinds only.
LEMMA GoodKept ==
    ASSUME NEW h, HeapOK(h), NEW A, Good(h, A), NEW h2,
           \A x \in Blocks : h[x].kind \in Owned => h2[x] = h[x]
    PROVE  Good(h2, A)
  <1>1. ASSUME NEW t \in Tables, NEW x \in Blocks, A[t] # Null, Uses(h, A[t], x)
        PROVE  h2[x] = h[x]
    BY <1>1, UsesKinds DEF Good
  <1> QED
    BY <1>1, GoodFrame

\* A step that makes the result of one table, or changes it.
LEMMA GoodStep ==
    ASSUME NEW h, HeapOK(h), NEW A, Good(h, A), NEW t \in Tables, NEW h2, NEW A2,
           \A u \in Tables \ {t} : A2[u] = A[u],
           A2[t] # Null => Tree(h2, t, A2[t]),
           \A x \in Blocks : h[x].kind \in Owned
                             /\ ~(A[t] # Null /\ Uses(h, A[t], x)) => h2[x] = h[x],
           \A x \in Blocks : A2[t] # Null /\ Uses(h2, A2[t], x) =>
               \/ h[x].kind = "free"
               \/ A[t] # Null /\ Uses(h, A[t], x)
    PROVE  Good(h2, A2)
  <1>1. ASSUME NEW u \in Tables, u # t, A2[u] # Null
        PROVE  /\ Tree(h2, u, A2[u])
               /\ \A x \in Blocks : Uses(h2, A2[u], x) <=> Uses(h, A[u], x)
               /\ \A x \in Blocks : Uses(h, A[u], x) => h[x].kind \in Owned
    <2>1. A2[u] = A[u] /\ A[u] # Null /\ Tree(h, u, A[u])
      BY <1>1 DEF Good
    <2>2. \A x \in Blocks : Uses(h, A[u], x) => h[x].kind \in Owned
      BY <2>1, UsesKinds
    <2>3. \A x \in Blocks : Uses(h, A[u], x) => h2[x] = h[x]
      BY <1>1, <2>1, <2>2 DEF Good
    <2> QED
      BY <2>1, <2>2, <2>3, TreeFrame
  <1>2. ASSUME NEW u \in Tables, u # t, A2[u] # Null, A2[t] # Null, NEW x \in Blocks,
               Uses(h2, A2[t], x), Uses(h2, A2[u], x)
        PROVE  FALSE
    <2>1. A2[u] = A[u] /\ A[u] # Null
      BY <1>2
    <2>2. Uses(h, A[u], x) /\ h[x].kind \in Owned
      BY <1>1, <1>2
    <2>3. A[t] # Null /\ Uses(h, A[t], x)
      BY <1>2, <2>2 DEF Owned
    <2> QED
      BY <1>2, <2>1, <2>2, <2>3 DEF Good
  <1>3. ASSUME NEW u \in Tables, NEW v \in Tables, u # v, u # t, v # t,
               A2[u] # Null, A2[v] # Null, NEW x \in Blocks,
               Uses(h2, A2[v], x), Uses(h2, A2[u], x)
        PROVE  FALSE
    <2>1. A2[u] = A[u] /\ A2[v] = A[v] /\ Uses(h, A[u], x) /\ Uses(h, A[v], x)
      BY <1>1, <1>3
    <2> QED
      BY <1>3, <2>1 DEF Good
  <1>4. ASSUME NEW u \in Tables, A2[u] # Null PROVE Tree(h2, u, A2[u])
    BY <1>1, <1>4
  <1> QED
    BY <1>2, <1>3, <1>4 DEF Good

----------------------------------------------------------------------------
(* What steps do to the heap                                               *)

\* Blocks f are written into heap h.
LEMMA HeapPut ==
    ASSUME NEW h, HeapOK(h), NEW f,
           \A x \in Blocks \cap DOMAIN f : BlockOK(f[x])
    PROVE  /\ HeapOK(With(h, f))
           /\ \A x \in Blocks : With(h, f)[x] = IF x \in DOMAIN f THEN f[x] ELSE h[x]
  <1> DEFINE g == With(h, f)
  <1>3. g = [x \in Blocks |-> IF x \in DOMAIN f THEN f[x] ELSE h[x]]
    BY DEF With
  <1> HIDE DEF g
  <1>4. \A x \in Blocks : g[x] = IF x \in DOMAIN f THEN f[x] ELSE h[x]
    BY <1>3
  <1>5. \A x \in Blocks : BlockOK(g[x])
    BY <1>4 DEF HeapOK
  <1>6. g = [x \in Blocks |-> g[x]]
    BY <1>3
  <1> QED
    BY <1>4, <1>5, <1>6 DEF HeapOK, g

\* A block is written, the others stay.
LEMMA HeapPutOne ==
    ASSUME NEW h, HeapOK(h), NEW b \in Blocks, NEW x, BlockOK(x),
           NEW g, g = [h EXCEPT ![b] = x]
    PROVE  HeapOK(g) /\ g[b] = x /\ \A y \in Blocks \ {b} : g[y] = h[y]
  <1>1. h = [y \in Blocks |-> h[y]]
    BY DEF HeapOK
  <1>2. g = [y \in Blocks |-> IF y = b THEN x ELSE h[y]]
    BY <1>1
  <1>3. g[b] = x /\ \A y \in Blocks \ {b} : g[y] = h[y]
    BY <1>2
  <1>4. \A y \in Blocks : BlockOK(g[y])
    BY <1>3 DEF HeapOK
  <1>5. g = [y \in Blocks |-> g[y]]
    BY <1>2
  <1> QED
    BY <1>3, <1>4, <1>5 DEF HeapOK

\* Blocks without rows or entries.
LEMMA PlainBlockOK ==
    ASSUME NEW kind \in Kinds \ {"rows"}, NEW by \in {NoAllocator, Allocator},
           NEW t \in {0} \cup Tables
    PROVE  BlockOK(Block(kind, by, t, <<>>, <<>>))
  <1>1. <<>> \in Seq(EntrySet)
    OBVIOUS
  <1> QED
    BY <1>1 DEF BlockOK, Block

\* What _free was called for is free, the other blocks stay.
LEMMA FreeAllIs ==
    ASSUME NEW h, HeapOK(h), NEW frees
    PROVE  /\ HeapOK(FreeAll(h, frees))
           /\ \A x \in Blocks : FreeAll(h, frees)[x] =
                  IF \E f \in frees : f.ptr = x THEN Free ELSE h[x]
  <1> DEFINE g == FreeAll(h, frees)
  <1>1. g = [x \in Blocks |-> IF \E f \in frees : f.ptr = x THEN Free ELSE h[x]]
    BY DEF FreeAll
  <1> HIDE DEF g
  <1>2. \A x \in Blocks : g[x] = IF \E f \in frees : f.ptr = x THEN Free ELSE h[x]
    BY <1>1
  <1>3. BlockOK(Free)
    BY PlainBlockOK DEF Free, Kinds
  <1>4. \A x \in Blocks : BlockOK(g[x])
    BY <1>2, <1>3 DEF HeapOK
  <1>5. g = [x \in Blocks |-> g[x]]
    BY <1>1
  <1> QED
    BY <1>2, <1>4, <1>5 DEF HeapOK, g

\* A new array has n rows of members without a value.
LEMMA NewArrayIs ==
    ASSUME NEW t \in Tables, NEW n \in Nat
    PROVE  LET x == NewArray(t, n, Allocator)
           IN  /\ BlockOK(x)
               /\ x.kind = "rows" /\ x.by = Allocator /\ x.table = t
               /\ x.entries = <<>> /\ DOMAIN x.rows = 1..n /\ Len(x.rows) = n
               /\ \A r \in 1..n : /\ x.rows[r] \in RowSet(t)
                                  /\ \A c \in DOMAIN Columns[t] : x.rows[r][c] = Unset
  <1> DEFINE row == [c \in DOMAIN Columns[t] |-> Unset]
             rows == [r \in 1..n |-> row]
             x == NewArray(t, n, Allocator)
  <1>1. Unset \in Members
    BY DEF Unset, Members
  <1>2. row \in RowSet(t)
    BY <1>1 DEF RowSet
  <1>3. x = Block("rows", Allocator, t, rows, <<>>)
    BY DEF NewArray
  <1>4. rows \in [1..n -> RowSet(t)]
    <2> HIDE DEF row
    <2> QED
      BY <1>2
  <1>5. DOMAIN rows = 1..n
    OBVIOUS
  <1>6. \A r \in 1..n : rows[r] = row /\ \A c \in DOMAIN Columns[t] : row[c] = Unset
    OBVIOUS
  <1> HIDE DEF rows, x, row
  <1>7. rows \in Seq(RowSet(t))
    BY <1>4, SeqDef, Zenon
  <1>8. Len(rows) = n
    BY <1>5, <1>7, LenProperties
  <1>9. /\ x.kind = "rows" /\ x.by = Allocator /\ x.table = t
        /\ x.entries = <<>> /\ x.rows = rows
    BY <1>3 DEF Block
  <1>10. x = Block(x.kind, x.by, x.table, x.rows, x.entries)
    BY <1>3, <1>9
  <1>11. BlockOK(x)
    BY <1>7, <1>9, <1>10 DEF BlockOK, Kinds
  <1>12. \A r \in 1..n : /\ x.rows[r] \in RowSet(t)
                         /\ \A c \in DOMAIN Columns[t] : x.rows[r][c] = Unset
    BY <1>2, <1>6, <1>9
  <1> QED
    BY <1>5, <1>8, <1>9, <1>11, <1>12 DEF x

\* A result without entries whose members have no value owns its block only.
LEMMA TreeBare ==
    ASSUME NEW h, NEW t \in Tables, NEW a \in Blocks,
           h[a].kind \in {"rows", "list"}, h[a].table = t, h[a].by = Allocator,
           h[a].entries = <<>>,
           \A r \in DOMAIN h[a].rows : \A c \in DOMAIN h[a].rows[r] :
               h[a].rows[r][c] = Unset
    PROVE  Tree(h, t, a) /\ \A x \in Blocks : Uses(h, a, x) <=> x = a
  <1>1. DOMAIN h[a].entries = {}
    OBVIOUS
  <1>2. \A b : Holds(h, a, b) <=> b = a
    BY <1>1 DEF Holds
  <1>3. \A b, r, c : Place(h, a, b, r, c) => h[b].rows[r][c] = Unset
    BY <1>2 DEF Place
  <1>4. \A b, r, c : ~Owner(h, a, b, r, c)
    BY <1>3 DEF Owner, Unset
  <1>5. EntriesOK(h, t, a)
    BY <1>1 DEF EntriesOK, EntryKinds, EntryKind, EntriesApart
  <1>6. \A c : ReadOK(t, c, Unset)
    BY DEF ReadOK, Unset
  <1>7. MembersOK(h, t, a)
    BY <1>3, <1>4, <1>6 DEF MembersOK, MembersText, TextAt, MembersRead, MembersApart
  <1>8. \A x \in Blocks : Uses(h, a, x) <=> x = a
    BY <1>1, <1>2, <1>4 DEF Uses
  <1> QED
    BY <1>5, <1>7, <1>8 DEF Tree

\* Results that are all new.
LEMMA GoodNew ==
    ASSUME NEW h, NEW A,
           \A t \in Tables : A[t] # Null =>
               /\ A[t] \in Blocks
               /\ h[A[t]].kind \in {"rows", "list"} /\ h[A[t]].table = t
               /\ h[A[t]].by = Allocator /\ h[A[t]].entries = <<>>
               /\ \A r \in DOMAIN h[A[t]].rows : \A c \in DOMAIN h[A[t]].rows[r] :
                      h[A[t]].rows[r][c] = Unset
    PROVE  Good(h, A)
  <1>1. ASSUME NEW t \in Tables, A[t] # Null
        PROVE  /\ Tree(h, t, A[t]) /\ \A x \in Blocks : Uses(h, A[t], x) <=> x = A[t]
               /\ h[A[t]].table = t
    <2> DEFINE a == A[t]
    <2>1. /\ a \in Blocks
          /\ h[a].kind \in {"rows", "list"} /\ h[a].table = t
          /\ h[a].by = Allocator /\ h[a].entries = <<>>
          /\ \A r \in DOMAIN h[a].rows : \A c \in DOMAIN h[a].rows[r] :
                 h[a].rows[r][c] = Unset
      BY <1>1
    <2> HIDE DEF a
    <2>2. Tree(h, t, a) /\ \A x \in Blocks : Uses(h, a, x) <=> x = a
      BY <2>1, TreeBare
    <2> QED
      BY <2>1, <2>2 DEF a
  <1> QED
    BY <1>1 DEF Good

\* Where there are no results none share a block.
LEMMA GoodNone ==
    ASSUME NEW h, NEW A, \A t \in Tables : A[t] = Null
    PROVE  Good(h, A)
  BY GoodNew

----------------------------------------------------------------------------
(* Results that a step changes                                             *)

\* In heap g, row r of block b of heap h is row; the block is as it was else.
RowWritten(g, h, b, r, row) ==
    /\ g[b].kind = h[b].kind /\ g[b].by = h[b].by /\ g[b].table = h[b].table
    /\ g[b].entries = h[b].entries
    /\ DOMAIN g[b].rows = DOMAIN h[b].rows /\ Len(g[b].rows) = Len(h[b].rows)
    /\ g[b].rows[r] = row
    /\ \A q \in DOMAIN h[b].rows : q # r => g[b].rows[q] = h[b].rows[q]

\* The members of a new row: one that needs to be freed keeps its copy or has
\* a new one, of its own.
RowFits(g, h, t, b, r, row) ==
    /\ \A c \in DOMAIN Columns[t] : KeysInside => ReadOK(t, c, row[c])
    /\ \A c \in DOMAIN Columns[t] : row[c].needfree =>
           \/ h[b].rows[r][c].needfree /\ row[c].ptr = h[b].rows[r][c].ptr
           \/ /\ row[c].ptr \in Blocks /\ h[row[c].ptr].kind = "free"
              /\ g[row[c].ptr].kind = "text" /\ g[row[c].ptr].by = Allocator
    /\ \A c, d \in DOMAIN Columns[t] :
           row[c].needfree /\ row[d].needfree /\ row[c].ptr = row[d].ptr => c = d

\* A row of a result is written: a member that needs to be freed keeps its
\* copy or gets a new one of its own.
LEMMA TreeRow ==
    ASSUME NEW h, HeapOK(h), NEW t \in Tables, NEW a, Tree(h, t, a),
           NEW b, Holds(h, a, b), NEW r \in DOMAIN h[b].rows, NEW row \in RowSet(t),
           h[b].kind = "rows",
           NEW h2, RowWritten(h2, h, b, r, row), RowFits(h2, h, t, b, r, row),
           \A x \in Blocks \ {b} : h[x].kind # "free" => h2[x] = h[x]
    PROVE  /\ Tree(h2, t, a)
           /\ \A x \in Blocks : Uses(h2, a, x) => Uses(h, a, x) \/ h[x].kind = "free"
  <1>1. /\ a \in Blocks /\ b \in Blocks /\ Holds(h, a, a)
        /\ h[a].kind \in {"rows", "list"} /\ h[a].table = t /\ h[a].by = Allocator
        /\ EntriesOK(h, t, a) /\ MembersOK(h, t, a)
    BY TreeTypes DEF Tree, Holds
  <1>2. h[b].table = t
    BY <1>1 DEF Holds, EntriesOK, EntryKinds, EntryKind
  <1>3. h[b].rows \in Seq(RowSet(t)) /\ DOMAIN h[b].rows \subseteq Nat
    BY <1>1, <1>2 DEF HeapOK, BlockOK
  <1>4. /\ DOMAIN h2[b].rows = DOMAIN h[b].rows
        /\ Len(h2[b].rows) = Len(h[b].rows)
        /\ h2[b].rows[r] = row
        /\ \A q \in DOMAIN h[b].rows : q # r => h2[b].rows[q] = h[b].rows[q]
    BY DEF RowWritten
  <1>5. \A x \in Blocks : h[x].kind # "free" =>
            /\ h2[x].kind = h[x].kind /\ h2[x].by = h[x].by
            /\ h2[x].table = h[x].table /\ h2[x].entries = h[x].entries
            /\ DOMAIN h2[x].rows = DOMAIN h[x].rows
            /\ Len(h2[x].rows) = Len(h[x].rows)
    <2> SUFFICES ASSUME NEW x \in Blocks, h[x].kind # "free"
                 PROVE  /\ h2[x].kind = h[x].kind /\ h2[x].by = h[x].by
                        /\ h2[x].table = h[x].table /\ h2[x].entries = h[x].entries
                        /\ DOMAIN h2[x].rows = DOMAIN h[x].rows
                        /\ Len(h2[x].rows) = Len(h[x].rows)
      OBVIOUS
    <2>1. CASE x = b
      BY <2>1 DEF RowWritten
    <2>2. CASE x # b
      BY <2>2
    <2> QED
      BY <2>1, <2>2
  <1>6. h2[a].kind = h[a].kind /\ h2[a].by = h[a].by
        /\ h2[a].table = h[a].table /\ h2[a].entries = h[a].entries
    BY <1>1, <1>5
  <1>7. \A y : Holds(h2, a, y) <=> Holds(h, a, y)
    BY <1>6 DEF Holds
  <1>8. \A y : Holds(h, a, y) => y \in Blocks /\ h[y].kind # "free"
    BY <1>1 DEF Holds, EntriesOK, EntryKinds, EntryKind
  <1>9. EntriesOK(h2, t, a)
    <2>1. ASSUME NEW k \in DOMAIN h[a].entries
          PROVE  /\ h[a].entries[k].entry \in Blocks
                 /\ h[a].entries[k].data \in Blocks
                 /\ h[h[a].entries[k].entry].kind # "free"
                 /\ h[h[a].entries[k].data].kind # "free"
      BY <1>1, TreeTypes DEF EntriesOK, EntryKinds, EntryKind
    <2> QED
      <3>1. EntryKinds(h, t, a) /\ EntriesApart(h, a)
        BY <1>1 DEF EntriesOK
      <3>2. EntriesApart(h2, a)
        BY <1>6, <3>1 DEF EntriesApart
      <3>3. EntryKinds(h2, t, a)
        <4>1. ASSUME NEW k \in DOMAIN h[a].entries
              PROVE  EntryKind(h2, t, h[a].entries[k])
          <5>1. EntryKind(h, t, h[a].entries[k])
            BY <3>1 DEF EntryKinds
          <5> DEFINE e == h[a].entries[k].entry
                     d == h[a].entries[k].data
          <5>2. /\ e \in Blocks /\ d \in Blocks
                /\ h[e].kind # "free" /\ h[d].kind # "free"
            BY <2>1
          <5>3. /\ h[e].kind = "entry" /\ h[e].by = Allocator
                /\ h[d].kind = "rows" /\ h[d].table = t /\ h[d].by = Allocator
                /\ Len(h[d].rows) = 1
            BY <5>1 DEF EntryKind
          <5>4. /\ h2[e].kind = "entry" /\ h2[e].by = Allocator
                /\ h2[d].kind = "rows" /\ h2[d].table = t /\ h2[d].by = Allocator
                /\ Len(h2[d].rows) = 1
            <6> HIDE DEF e, d
            <6> QED
              BY <1>5, <5>2, <5>3
          <5> QED
            BY <5>4 DEF EntryKind
        <4> QED
          BY <1>6, <4>1 DEF EntryKinds
      <3> QED
        BY <3>2, <3>3 DEF EntriesOK
  <1>10. DOMAIN row = DOMAIN Columns[t] /\ DOMAIN h[b].rows[r] = DOMAIN Columns[t]
    <2>1. h[b].rows[r] \in RowSet(t)
      BY <1>3
    <2> QED
      BY <2>1 DEF RowSet
  \* Every place is the changed row's or an old one.
  <1>11. ASSUME NEW y, NEW q, NEW c, Place(h2, a, y, q, c)
         PROVE  /\ Place(h, a, y, q, c)
                /\ (y = b /\ q = r) => c \in DOMAIN Columns[t] /\ h2[y].rows[q][c] = row[c]
                /\ ~(y = b /\ q = r) => h2[y].rows[q] = h[y].rows[q]
    <2>1. Holds(h, a, y) /\ q \in DOMAIN h[y].rows /\ c \in DOMAIN h2[y].rows[q]
      BY <1>5, <1>7, <1>8, <1>11 DEF Place
    <2>2. CASE y = b /\ q = r
      BY <1>4, <1>10, <2>1, <2>2 DEF Place
    <2>3. CASE ~(y = b /\ q = r)
      <3>1. h2[y].rows[q] = h[y].rows[q]
        BY <1>4, <1>8, <2>1, <2>3
      <3> QED
        BY <2>1, <2>3, <3>1 DEF Place
    <2> QED
      BY <2>2, <2>3
  \* A member that needs to be freed has its old copy or a new one.
  <1> DEFINE P(y, q, c) == h2[y].rows[q][c].ptr
             Old(y, q, c) == Owner(h, a, y, q, c) /\ P(y, q, c) = h[y].rows[q][c].ptr
             New(y, q, c) == /\ y = b /\ q = r /\ c \in DOMAIN Columns[t]
                             /\ row[c].needfree /\ P(y, q, c) = row[c].ptr
                             /\ P(y, q, c) \in Blocks
                             /\ h[P(y, q, c)].kind = "free"
                             /\ h2[P(y, q, c)].kind = "text"
                             /\ h2[P(y, q, c)].by = Allocator
  <1> HIDE DEF P, Old, New
  <1>12. ASSUME NEW y, NEW q, NEW c, Owner(h2, a, y, q, c)
         PROVE  Old(y, q, c) \/ New(y, q, c)
    <2>1. Place(h2, a, y, q, c) /\ h2[y].rows[q][c].needfree
      BY <1>12 DEF Owner
    <2>2. CASE y = b /\ q = r
      <3>1. c \in DOMAIN Columns[t] /\ h2[y].rows[q][c] = row[c] /\ row[c].needfree
        BY <1>11, <2>1, <2>2
      <3>2. CASE h[b].rows[r][c].needfree /\ row[c].ptr = h[b].rows[r][c].ptr
        BY <1>11, <2>1, <2>2, <3>1, <3>2 DEF Owner, Old, P
      <3>3. CASE /\ row[c].ptr \in Blocks /\ h[row[c].ptr].kind = "free"
                 /\ h2[row[c].ptr].kind = "text" /\ h2[row[c].ptr].by = Allocator
        BY <2>2, <3>1, <3>3 DEF New, P
      <3> QED
        BY <3>1, <3>2, <3>3 DEF RowFits
    <2>3. CASE ~(y = b /\ q = r)
      BY <1>11, <2>1, <2>3 DEF Owner, Old, P
    <2> QED
      BY <2>2, <2>3
  <1>13. ASSUME NEW y \in Blocks, NEW q \in Nat, NEW c \in Nat, Old(y, q, c)
         PROVE  /\ P(y, q, c) \in Blocks /\ h[P(y, q, c)].kind = "text"
                /\ h[P(y, q, c)].by = Allocator
    <2>1. Owner(h, a, y, q, c) /\ P(y, q, c) = h[y].rows[q][c].ptr
      BY <1>13 DEF Old
    <2>2. MembersOK(h, t, a) /\ Owner(h, a, y, q, c)
      BY <1>1, <2>1
    <2>3. TextAt(h, h[y].rows[q][c].ptr)
      BY <2>2, MemberTextAt
    <2>4. TextAt(h, P(y, q, c))
      BY <2>1, <2>3
    <2> QED
      BY <2>4 DEF TextAt
  <1>14. MembersOK(h2, t, a)
    <2>1. ASSUME NEW y \in Blocks, NEW q \in Nat, NEW c \in Nat, Owner(h2, a, y, q, c)
          PROVE  /\ P(y, q, c) \in Blocks /\ h2[P(y, q, c)].kind = "text"
                 /\ h2[P(y, q, c)].by = Allocator
      <3>1. CASE Old(y, q, c)
        <4>1. /\ P(y, q, c) \in Blocks /\ h[P(y, q, c)].kind = "text"
              /\ h[P(y, q, c)].by = Allocator
          BY <1>13, <3>1
        <4> QED
          BY <1>5, <4>1
      <3>2. CASE New(y, q, c)
        BY <3>2 DEF New
      <3> QED
        BY <1>12, <2>1, <3>1, <3>2
    <2>2. ASSUME NEW y \in Blocks, NEW q \in Nat, NEW c \in Nat,
                 Place(h2, a, y, q, c), KeysInside
          PROVE  ReadOK(t, c, h2[y].rows[q][c])
      <3>1. CASE y = b /\ q = r
        BY <1>11, <2>2, <3>1 DEF RowFits
      <3>2. CASE ~(y = b /\ q = r)
        <4>1. Place(h, a, y, q, c) /\ h2[y].rows[q] = h[y].rows[q]
          BY <1>11, <2>2, <3>2
        <4> QED
          <5>1. ReadOK(t, c, h[y].rows[q][c])
            BY <1>1, <2>2, <4>1, MemberRead
          <5> QED
            BY <4>1, <5>1
      <3> QED
        BY <3>1, <3>2
    <2>3. ASSUME NEW y \in Blocks, NEW q \in Nat, NEW c \in Nat,
                 NEW y2 \in Blocks, NEW q2 \in Nat, NEW c2 \in Nat,
                 Owner(h2, a, y, q, c), Owner(h2, a, y2, q2, c2),
                 P(y, q, c) = P(y2, q2, c2)
          PROVE  y = y2 /\ q = q2 /\ c = c2
      <3>1. CASE Old(y, q, c) /\ Old(y2, q2, c2)
        <4>1. h[y].rows[q][c].ptr = h[y2].rows[q2][c2].ptr
          BY <2>3, <3>1 DEF Old
        <4>2. Owner(h, a, y, q, c) /\ Owner(h, a, y2, q2, c2)
          BY <3>1 DEF Old
        <4> QED
          BY <1>1, <4>1, <4>2, MemberApart
      <3>2. CASE New(y, q, c) /\ New(y2, q2, c2)
        BY <2>3, <3>2 DEF New, RowFits
      <3>3. ~(Old(y, q, c) /\ New(y2, q2, c2)) /\ ~(New(y, q, c) /\ Old(y2, q2, c2))
        <4>1. \A z, p, d : New(z, p, d) => h[P(z, p, d)].kind = "free"
          BY DEF New
        <4>2. /\ Old(y, q, c) => h[P(y, q, c)].kind = "text"
              /\ Old(y2, q2, c2) => h[P(y2, q2, c2)].kind = "text"
          BY <1>13
        <4> QED
          BY <2>3, <4>1, <4>2
      <3> QED
        BY <1>12, <2>3, <3>1, <3>2, <3>3
    <2>4. \A y \in Blocks, q, c \in Nat : Owner(h2, a, y, q, c) =>
              /\ h2[y].rows[q][c].ptr \in Blocks
              /\ h2[h2[y].rows[q][c].ptr].kind = "text"
              /\ h2[h2[y].rows[q][c].ptr].by = Allocator
      BY <2>1, Zenon DEF P
    <2>5. \A y, y2 \in Blocks, q, q2, c, c2 \in Nat :
              /\ Owner(h2, a, y, q, c) /\ Owner(h2, a, y2, q2, c2)
              /\ h2[y].rows[q][c].ptr = h2[y2].rows[q2][c2].ptr
              => y = y2 /\ q = q2 /\ c = c2
      <3> TAKE y, y2 \in Blocks, q, q2, c, c2 \in Nat
      <3> HAVE /\ Owner(h2, a, y, q, c) /\ Owner(h2, a, y2, q2, c2)
               /\ h2[y].rows[q][c].ptr = h2[y2].rows[q2][c2].ptr
      <3>1. P(y, q, c) = P(y2, q2, c2)
        BY DEF P
      <3> QED
        BY <2>3, <3>1
    <2>6. \A y \in Blocks, q, c \in Nat :
              KeysInside /\ Place(h2, a, y, q, c) => ReadOK(t, c, h2[y].rows[q][c])
      BY <2>2
    <2> QED
      BY <2>4, <2>5, <2>6, MembersIntro
  <1>15. ASSUME NEW x \in Blocks, Uses(h2, a, x)
         PROVE  Uses(h, a, x) \/ h[x].kind = "free"
    <2>1. CASE Holds(h2, a, x)
      BY <1>7, <2>1 DEF Uses
    <2>2. CASE \E k \in DOMAIN h2[a].entries : x = h2[a].entries[k].entry
      BY <1>6, <2>2 DEF Uses
    <2>3. CASE \E y \in Blocks, q, c \in Nat : Owner(h2, a, y, q, c) /\ x = P(y, q, c)
      <3>1. PICK y \in Blocks, q \in Nat, c \in Nat :
                     Owner(h2, a, y, q, c) /\ x = P(y, q, c)
        BY <2>3
      <3>2. CASE Old(y, q, c)
        BY <3>1, <3>2 DEF Uses, Old, P
      <3>3. CASE New(y, q, c)
        BY <3>1, <3>3 DEF New
      <3> QED
        BY <1>12, <3>1, <3>2, <3>3
    <2> QED
      BY <1>15, <2>1, <2>2, <2>3 DEF Uses, P
  <1> QED
    BY <1>1, <1>6, <1>9, <1>14, <1>15 DEF Tree

\* A new object without values becomes the last of a list.
LEMMA TreeAppend ==
    ASSUME NEW h, HeapOK(h), NEW t \in Tables, NEW a, Tree(h, t, a),
           h[a].kind = "list", NEW n \in Blocks, NEW d \in Blocks,
           h[n].kind = "free", h[d].kind = "free",
           NEW h2, h2[a].kind = h[a].kind, h2[a].by = h[a].by,
           h2[a].table = h[a].table, h2[a].rows = h[a].rows,
           h2[a].entries = Append(h[a].entries, [entry |-> n, data |-> d]),
           h2[n].kind = "entry", h2[n].by = Allocator,
           h2[d].kind = "rows", h2[d].table = t, h2[d].by = Allocator,
           Len(h2[d].rows) = 1,
           \A r \in DOMAIN h2[d].rows : \A c \in DOMAIN h2[d].rows[r] :
               h2[d].rows[r][c] = Unset,
           \A x \in Blocks \ {a} : h[x].kind # "free" => h2[x] = h[x]
    PROVE  /\ Tree(h2, t, a) /\ Holds(h2, a, d)
           /\ \A x \in Blocks : Uses(h2, a, x) => Uses(h, a, x) \/ h[x].kind = "free"
  <1>1. /\ a \in Blocks /\ Holds(h, a, a)
        /\ h[a].kind \in {"rows", "list"} /\ h[a].table = t /\ h[a].by = Allocator
        /\ EntriesOK(h, t, a) /\ MembersOK(h, t, a)
    BY TreeTypes DEF Tree
  <1> DEFINE E == h[a].entries  E2 == h2[a].entries  e == [entry |-> n, data |-> d]
             m == Len(E) + 1
  <1>2. E \in Seq(EntrySet) /\ e \in EntrySet /\ E2 = Append(E, e)
    BY TreeTypes DEF EntrySet
  <1>3. e.entry = n /\ e.data = d
    OBVIOUS
  <1> HIDE DEF E, E2, e
  <1>4. /\ Len(E) \in Nat /\ DOMAIN E = 1..Len(E) /\ DOMAIN E2 = 1..m
        /\ E2[m] = e /\ \A k \in DOMAIN E : E2[k] = E[k]
    BY <1>2
  <1>5. \A k \in DOMAIN E2 : k \in DOMAIN E \/ k = m
    BY <1>4
  <1>6. m \in DOMAIN E2 /\ m \notin DOMAIN E /\ DOMAIN E \subseteq DOMAIN E2
    BY <1>4
  <1> HIDE DEF m
  <1>7. \A k \in DOMAIN E : /\ E[k].entry \in Blocks /\ E[k].data \in Blocks
                            /\ h[E[k].entry].kind = "entry" /\ h[E[k].entry].by = Allocator
                            /\ h[E[k].data].kind = "rows" /\ h[E[k].data].table = t
                            /\ h[E[k].data].by = Allocator
                            /\ Len(h[E[k].data].rows) = 1
    BY <1>1, TreeTypes DEF EntriesOK, EntryKinds, EntryKind, E
  <1>8. \A k \in DOMAIN E : /\ E[k].entry # a /\ E[k].data # a /\ E[k].data # d
                            /\ h2[E[k].entry] = h[E[k].entry]
                            /\ h2[E[k].data] = h[E[k].data]
    BY <1>7
  <1>9. EntriesOK(h2, t, a)
    <2>1. ASSUME NEW k \in DOMAIN E2
          PROVE  /\ h2[E2[k].entry].kind = "entry" /\ h2[E2[k].entry].by = Allocator
                 /\ h2[E2[k].data].kind = "rows" /\ h2[E2[k].data].table = t
                 /\ h2[E2[k].data].by = Allocator
                 /\ Len(h2[E2[k].data].rows) = 1
      <3>1. CASE k \in DOMAIN E
        BY <1>4, <1>7, <1>8, <3>1
      <3>2. CASE k = m
        BY <1>3, <1>4, <3>2
      <3> QED
        BY <1>5, <3>1, <3>2
    <2>2. ASSUME NEW k \in DOMAIN E2, NEW l \in DOMAIN E2, E2[k].data = E2[l].data
          PROVE  k = l
      <3>1. CASE k \in DOMAIN E /\ l \in DOMAIN E
        BY <1>1, <1>4, <2>2, <3>1 DEF EntriesOK, EntryKinds, EntryKind, EntriesApart, E
      <3>2. CASE k = m /\ l = m
        BY <3>2
      <3>3. CASE k = m /\ l \in DOMAIN E
        BY <1>3, <1>4, <1>8, <2>2, <3>3
      <3>4. CASE k \in DOMAIN E /\ l = m
        BY <1>3, <1>4, <1>8, <2>2, <3>4
      <3> QED
        BY <1>5, <3>1, <3>2, <3>3, <3>4
    <2> QED
      BY <2>1, <2>2 DEF EntriesOK, EntryKinds, EntryKind, EntriesApart, E2
  <1>10. \A y : Holds(h2, a, y) <=> Holds(h, a, y) \/ y = d
    <2>1. ASSUME NEW y
          PROVE  (\E k \in DOMAIN E2 : y = E2[k].data)
                 <=> (\E k \in DOMAIN E : y = E[k].data) \/ y = d
      BY <1>3, <1>4, <1>5, <1>6
    <2> QED
      BY <2>1 DEF Holds, E, E2
  <1>11. \A y : Holds(h, a, y) => y # d /\ h2[y].rows = h[y].rows
    BY <1>1, <1>8 DEF Holds, E
  <1>12. \A y, r, c : Place(h2, a, y, r, c) =>
             \/ Place(h, a, y, r, c) /\ h2[y].rows = h[y].rows
             \/ h2[y].rows[r][c] = Unset
    BY <1>10, <1>11 DEF Place
  <1>13. \A y, r, c : Owner(h2, a, y, r, c) =>
             Owner(h, a, y, r, c) /\ h2[y].rows = h[y].rows
    BY <1>12 DEF Owner, Unset
  <1>14. MembersOK(h2, t, a)
    <2>1. \A y \in Blocks, r, c \in Nat : Owner(h2, a, y, r, c) =>
              /\ h2[y].rows[r][c].ptr \in Blocks
              /\ h2[h2[y].rows[r][c].ptr].kind = "text"
              /\ h2[h2[y].rows[r][c].ptr].by = Allocator
      <3> SUFFICES ASSUME NEW y \in Blocks, NEW r \in Nat, NEW c \in Nat,
                          Owner(h2, a, y, r, c)
                   PROVE  /\ h2[y].rows[r][c].ptr \in Blocks
                          /\ h2[h2[y].rows[r][c].ptr].kind = "text"
                          /\ h2[h2[y].rows[r][c].ptr].by = Allocator
        OBVIOUS
      <3>1. Owner(h, a, y, r, c) /\ h2[y].rows = h[y].rows
        BY <1>13
      <3>2. /\ h[y].rows[r][c].ptr \in Blocks
            /\ h[h[y].rows[r][c].ptr].kind = "text"
            /\ h[h[y].rows[r][c].ptr].by = Allocator
        <4>1. MembersOK(h, t, a) /\ Owner(h, a, y, r, c)
          BY <1>1, <3>1
        <4>2. TextAt(h, h[y].rows[r][c].ptr)
          BY <4>1, MemberTextAt
        <4> QED
          BY <4>2 DEF TextAt
      <3>3. h[y].rows[r][c].ptr # a
        BY <3>2
      <3> QED
        BY <3>1, <3>2, <3>3
    <2>2. \A y \in Blocks, r, c \in Nat :
              KeysInside /\ Place(h2, a, y, r, c) => ReadOK(t, c, h2[y].rows[r][c])
      <3>1. \A c : ReadOK(t, c, Unset)
        BY DEF ReadOK, Unset
      <3> QED
        BY <1>1, <1>12, <3>1, MemberRead
    <2>3. \A y, y2 \in Blocks, r, r2, c, c2 \in Nat :
              /\ Owner(h2, a, y, r, c) /\ Owner(h2, a, y2, r2, c2)
              /\ h2[y].rows[r][c].ptr = h2[y2].rows[r2][c2].ptr
              => y = y2 /\ r = r2 /\ c = c2
      <3> TAKE y, y2 \in Blocks, r, r2, c, c2 \in Nat
      <3> HAVE /\ Owner(h2, a, y, r, c) /\ Owner(h2, a, y2, r2, c2)
               /\ h2[y].rows[r][c].ptr = h2[y2].rows[r2][c2].ptr
      <3>1. /\ Owner(h, a, y, r, c) /\ Owner(h, a, y2, r2, c2)
            /\ h[y].rows[r][c].ptr = h[y2].rows[r2][c2].ptr
        BY <1>13
      <3> QED
        BY <1>1, <3>1, MemberApart
    <2> QED
      BY <2>1, <2>2, <2>3, MembersIntro
  <1>15. ASSUME NEW x \in Blocks, Uses(h2, a, x)
         PROVE  Uses(h, a, x) \/ h[x].kind = "free"
    <2>1. CASE Holds(h2, a, x)
      BY <1>10, <2>1 DEF Uses
    <2>2. CASE \E k \in DOMAIN E2 : x = E2[k].entry
      <3>1. PICK k \in DOMAIN E2 : x = E2[k].entry
        BY <2>2
      <3>2. CASE k \in DOMAIN E
        BY <1>4, <3>1, <3>2 DEF Uses, E
      <3>3. CASE k = m
        BY <1>3, <1>4, <3>1, <3>3
      <3> QED
        BY <1>5, <3>2, <3>3
    <2>3. CASE \E y \in Blocks, r, c \in Nat :
                   Owner(h2, a, y, r, c) /\ x = h2[y].rows[r][c].ptr
      BY <1>13, <2>3 DEF Uses
    <2> QED
      BY <1>15, <2>1, <2>2, <2>3 DEF Uses, E2
  <1> QED
    BY <1>1, <1>9, <1>10, <1>14, <1>15 DEF Tree

\* The rows of the objects of a list move into an array.
LEMMA CopiedRowsIs ==
    ASSUME NEW h, HeapOK(h), NEW t \in Tables, NEW a, Tree(h, t, a),
           h[a].kind = "list"
    PROVE  /\ CopiedRows(h, a) \in Seq(RowSet(t))
           /\ BlockOK(Block("rows", Allocator, t, CopiedRows(h, a), <<>>))
  <1> DEFINE E == h[a].entries  rows == CopiedRows(h, a)
             x == Block("rows", Allocator, t, rows, <<>>)
  <1>1. E \in Seq(EntrySet) /\ EntriesOK(h, t, a)
    BY TreeTypes DEF Tree
  <1>2. ASSUME NEW k \in DOMAIN E PROVE h[E[k].data].rows[1] \in RowSet(t)
    <2>1. E[k].data \in Blocks /\ h[E[k].data].kind = "rows"
          /\ h[E[k].data].table = t /\ Len(h[E[k].data].rows) = 1
      BY <1>1, TreeTypes DEF EntriesOK, EntryKinds, EntryKind
    <2>2. h[E[k].data].rows \in Seq(RowSet(t))
      BY <2>1 DEF HeapOK, BlockOK
    <2> QED
      BY <2>1, <2>2
  <1>3. rows = [k \in DOMAIN E |-> h[E[k].data].rows[1]]
    BY DEF CopiedRows
  <1> HIDE DEF E, rows
  <1>4. Len(E) \in Nat /\ DOMAIN E = 1..Len(E)
    BY <1>1
  <1>5. rows \in [1..Len(E) -> RowSet(t)]
    BY <1>2, <1>3, <1>4
  <1>6. rows \in Seq(RowSet(t))
    BY <1>4, <1>5, SeqDef, Zenon
  <1>7. /\ x.kind = "rows" /\ x.by = Allocator /\ x.table = t /\ x.rows = rows
        /\ x.entries = <<>>
    BY DEF Block
  <1>8. x = Block(x.kind, x.by, x.table, x.rows, x.entries)
    BY <1>7
  <1> HIDE DEF x
  <1>9. BlockOK(x)
    BY <1>6, <1>7, <1>8 DEF BlockOK, Kinds
  <1> QED
    BY <1>6, <1>9 DEF rows, x

\* _list_to_array: the array of the rows of a list owns the copies that the
\* objects of the list own, and nothing else of the list.
LEMMA TreeCopy ==
    ASSUME NEW h, HeapOK(h), NEW t \in Tables, NEW a, Tree(h, t, a),
           h[a].kind = "list", NEW n \in Blocks, NEW h2,
           h2[n] = Block("rows", Allocator, t, CopiedRows(h, a), <<>>),
           \A x \in Blocks : h[x].kind = "text" => h2[x] = h[x]
    PROVE  /\ Tree(h2, t, n)
           /\ \A x \in Blocks : Uses(h2, n, x) =>
                  x = n \/ (Uses(h, a, x) /\ h[x].kind = "text")
  <1> DEFINE E == h[a].entries
  <1>1. EntriesOK(h, t, a) /\ MembersOK(h, t, a) /\ E \in Seq(EntrySet)
    BY TreeTypes DEF Tree
  <1>2. /\ h2[n].kind = "rows" /\ h2[n].by = Allocator /\ h2[n].table = t
        /\ h2[n].rows = CopiedRows(h, a) /\ h2[n].entries = <<>>
    BY DEF Block
  <1>3. DOMAIN h2[n].entries = {}
    BY <1>2
  <1>4. \A y : Holds(h2, n, y) <=> y = n
    BY <1>3 DEF Holds
  <1>5. /\ DOMAIN h2[n].rows = DOMAIN E
        /\ \A k \in DOMAIN E : h2[n].rows[k] = h[E[k].data].rows[1]
    BY <1>2 DEF CopiedRows
  <1>6. \A k \in DOMAIN E : Holds(h, a, E[k].data) /\ 1 \in DOMAIN h[E[k].data].rows
                            /\ E[k].data \in Blocks
    <2> SUFFICES ASSUME NEW k \in DOMAIN E
                 PROVE  Holds(h, a, E[k].data) /\ 1 \in DOMAIN h[E[k].data].rows
                        /\ E[k].data \in Blocks
      OBVIOUS
    <2>1. E[k].data \in Blocks /\ h[E[k].data].kind = "rows"
          /\ h[E[k].data].table = t /\ Len(h[E[k].data].rows) = 1
      BY <1>1, TreeTypes DEF EntriesOK, EntryKinds, EntryKind
    <2>2. h[E[k].data].rows \in Seq(RowSet(t))
      BY <2>1 DEF HeapOK, BlockOK
    <2> QED
      BY <2>1, <2>2 DEF Holds
  <1>7. \A y, r, c : Place(h2, n, y, r, c) =>
            /\ y = n /\ r \in DOMAIN E /\ Place(h, a, E[r].data, 1, c)
            /\ h2[n].rows[r] = h[E[r].data].rows[1]
    BY <1>4, <1>5, <1>6 DEF Place
  <1> HIDE DEF E
  <1>8. \A y, r, c : Owner(h2, n, y, r, c) =>
            /\ y = n /\ r \in DOMAIN E /\ Owner(h, a, E[r].data, 1, c)
            /\ h2[y].rows[r][c].ptr = h[E[r].data].rows[1][c].ptr
    BY <1>7 DEF Owner
  <1>9. ASSUME NEW y \in Blocks, NEW r \in Nat, NEW c \in Nat, Owner(h2, n, y, r, c)
        PROVE  /\ h2[y].rows[r][c].ptr \in Blocks
               /\ h[h2[y].rows[r][c].ptr].kind = "text"
               /\ h[h2[y].rows[r][c].ptr].by = Allocator
               /\ h2[h2[y].rows[r][c].ptr] = h[h2[y].rows[r][c].ptr]
    <2> DEFINE b == E[r].data
    <2>1. /\ b \in Blocks /\ Owner(h, a, b, 1, c)
          /\ h2[y].rows[r][c].ptr = h[b].rows[1][c].ptr
      BY <1>6, <1>8, <1>9
    <2> HIDE DEF b
    <2>2. /\ h[b].rows[1][c].ptr \in Blocks
          /\ h[h[b].rows[1][c].ptr].kind = "text"
          /\ h[h[b].rows[1][c].ptr].by = Allocator
      <3>1. MembersOK(h, t, a) /\ Owner(h, a, b, 1, c) /\ b \in Blocks
        BY <1>1, <2>1
      <3>2. TextAt(h, h[b].rows[1][c].ptr)
        BY <3>1, MemberTextAt
      <3> QED
        BY <3>2 DEF TextAt
    <2> QED
      BY <2>1, <2>2
  <1>10. MembersOK(h2, t, n)
    <2>1. \A y \in Blocks, r, c \in Nat : Owner(h2, n, y, r, c) =>
              /\ h2[y].rows[r][c].ptr \in Blocks
              /\ h2[h2[y].rows[r][c].ptr].kind = "text"
              /\ h2[h2[y].rows[r][c].ptr].by = Allocator
      <3> SUFFICES ASSUME NEW y \in Blocks, NEW r \in Nat, NEW c \in Nat,
                          Owner(h2, n, y, r, c)
                   PROVE  /\ h2[y].rows[r][c].ptr \in Blocks
                          /\ h2[h2[y].rows[r][c].ptr].kind = "text"
                          /\ h2[h2[y].rows[r][c].ptr].by = Allocator
        OBVIOUS
      <3> DEFINE p == h2[y].rows[r][c].ptr
      <3>1. p \in Blocks /\ h[p].kind = "text" /\ h[p].by = Allocator /\ h2[p] = h[p]
        BY <1>9
      <3>2. h2[p].kind = "text" /\ h2[p].by = Allocator
        <4> HIDE DEF p
        <4> QED
          BY <3>1
      <3> QED
        BY <3>1, <3>2
    <2>2. \A y \in Blocks, r, c \in Nat :
              KeysInside /\ Place(h2, n, y, r, c) => ReadOK(t, c, h2[y].rows[r][c])
      <3> SUFFICES ASSUME NEW y \in Blocks, NEW r \in Nat, NEW c \in Nat,
                          KeysInside, Place(h2, n, y, r, c)
                   PROVE  ReadOK(t, c, h2[y].rows[r][c])
        OBVIOUS
      <3> DEFINE b == E[r].data
      <3>1. /\ b \in Blocks /\ Place(h, a, b, 1, c)
            /\ h2[y].rows[r] = h[b].rows[1]
        BY <1>6, <1>7
      <3> HIDE DEF b
      <3>2. ReadOK(t, c, h[b].rows[1][c])
        BY <1>1, <3>1, MemberRead
      <3> QED
        BY <3>1, <3>2
    <2>3. \A y, y2 \in Blocks, r, r2, c, c2 \in Nat :
              /\ Owner(h2, n, y, r, c) /\ Owner(h2, n, y2, r2, c2)
              /\ h2[y].rows[r][c].ptr = h2[y2].rows[r2][c2].ptr
              => y = y2 /\ r = r2 /\ c = c2
      <3> TAKE y, y2 \in Blocks, r, r2, c, c2 \in Nat
      <3> HAVE /\ Owner(h2, n, y, r, c) /\ Owner(h2, n, y2, r2, c2)
               /\ h2[y].rows[r][c].ptr = h2[y2].rows[r2][c2].ptr
      <3> DEFINE b == E[r].data  b2 == E[r2].data
      <3>1. /\ Owner(h, a, b, 1, c) /\ Owner(h, a, b2, 1, c2)
            /\ h[b].rows[1][c].ptr = h[b2].rows[1][c2].ptr
            /\ y = n /\ y2 = n /\ r \in DOMAIN E /\ r2 \in DOMAIN E
            /\ b \in Blocks /\ b2 \in Blocks
        BY <1>6, <1>8
      <3>2. b = b2 /\ c = c2
        <4> HIDE DEF b, b2
        <4> QED
          BY <1>1, <3>1, MemberApart
      <3>3. r = r2
        BY <1>1, <3>1, <3>2 DEF EntriesOK, EntryKinds, EntryKind, EntriesApart, E
      <3> QED
        BY <3>1, <3>2, <3>3
    <2> QED
      BY <2>1, <2>2, <2>3, MembersIntro
  <1>11. EntriesOK(h2, t, n)
    BY <1>3 DEF EntriesOK, EntryKinds, EntryKind, EntriesApart
  <1>12. ASSUME NEW x \in Blocks, Uses(h2, n, x)
         PROVE  x = n \/ (Uses(h, a, x) /\ h[x].kind = "text")
    <2>1. CASE Holds(h2, n, x)
      BY <1>4, <2>1
    <2>2. CASE \E y \in Blocks, r, c \in Nat :
                   Owner(h2, n, y, r, c) /\ x = h2[y].rows[r][c].ptr
      <3>1. PICK y \in Blocks, r \in Nat, c \in Nat :
                   Owner(h2, n, y, r, c) /\ x = h2[y].rows[r][c].ptr
        BY <2>2
      <3>2. h[x].kind = "text"
        BY <1>9, <3>1
      <3>3. E[r].data \in Blocks /\ Owner(h, a, E[r].data, 1, c)
            /\ x = h[E[r].data].rows[1][c].ptr
        BY <1>6, <1>8, <3>1
      <3> QED
        BY <3>2, <3>3 DEF Uses
    <2> QED
      BY <1>3, <1>12, <2>1, <2>2 DEF Uses
  <1> QED
    BY <1>2, <1>10, <1>11, <1>12 DEF Tree

----------------------------------------------------------------------------
(* Calls of _free                                                          *)

\* Calls that free live blocks of the right allocator, each once.
LEMMA NoFaults ==
    ASSUME NEW h, NEW by, NEW frees,
           \A f \in frees : /\ f.ptr \in Blocks /\ h[f.ptr].kind # "free"
                            /\ h[f.ptr].by = by,
           \A f, g \in frees : f.ptr = g.ptr => f = g
    PROVE  Faults(h, by, frees) = {}
  <1>1. {g \in frees : g.ptr \notin Blocks \cup {Null}} = {}
    OBVIOUS
  <1>2. {g \in frees : /\ g.ptr \in Blocks
                       /\ \/ g.ptr \in Unused(h)
                          \/ \E e \in frees \ {g} : e.ptr = g.ptr} = {}
    BY DEF Unused, Live
  <1>3. {g \in frees : g.ptr \in Live(h) /\ h[g.ptr].by # by} = {}
    OBVIOUS
  <1> QED
    BY <1>1, <1>2, <1>3 DEF Faults

\* Calls of _free for blocks that are in use, with the allocator that made
\* them, are right.
LEMMA BlockFreesRight ==
    ASSUME NEW h, NEW by, NEW frees,
           \A f \in frees : \E b \in Blocks :
               f = FreeBlock(b) /\ h[b].kind # "free" /\ h[b].by = by
    PROVE  Faults(h, by, frees) = {}
  <1>1. ASSUME NEW f \in frees
        PROVE  /\ f.ptr \in Blocks /\ h[f.ptr].kind # "free" /\ h[f.ptr].by = by
               /\ f = FreeBlock(f.ptr)
    BY DEF FreeBlock, Call
  <1>2. \A f, g \in frees : f.ptr = g.ptr => f = g
    BY <1>1
  <1> QED
    BY <1>1, <1>2, NoFaults

\* A call that frees what the result at a owns.
FreeOf(h, a, f) ==
    \/ \E b \in Blocks, r, c \in Nat :
           Owner(h, a, b, r, c) /\ f = Call(b, r, c, h[b].rows[r][c].ptr)
    \/ \E b \in Blocks : Uses(h, a, b) /\ h[b].kind # "text" /\ f = FreeBlock(b)

\* A call of _free for something of a result is for a block that the result
\* uses and that the allocator of the caller made.
LEMMA FreeOfIs ==
    ASSUME NEW h, HeapOK(h), NEW t \in Tables, NEW a, Tree(h, t, a),
           NEW f, FreeOf(h, a, f)
    PROVE  /\ f.ptr \in Blocks /\ Uses(h, a, f.ptr)
           /\ h[f.ptr].kind # "free" /\ h[f.ptr].by = Allocator
  <1>1. f.ptr \in Blocks /\ Uses(h, a, f.ptr)
    <2>1. ASSUME NEW b \in Blocks, NEW r \in Nat, NEW c \in Nat, Owner(h, a, b, r, c),
                 f = Call(b, r, c, h[b].rows[r][c].ptr)
          PROVE  f.ptr \in Blocks /\ Uses(h, a, f.ptr)
      <3>1. f.ptr = h[b].rows[r][c].ptr
        BY <2>1 DEF Call
      <3>2. MembersOK(h, t, a)
        BY DEF Tree
      <3>3. h[b].rows[r][c].ptr \in Blocks
        BY <2>1, <3>2, MemberText
      <3> QED
        BY <2>1, <3>1, <3>3 DEF Uses
    <2>2. ASSUME NEW b \in Blocks, Uses(h, a, b), f = FreeBlock(b)
          PROVE  f.ptr \in Blocks /\ Uses(h, a, f.ptr)
      <3>1. f.ptr = b
        BY <2>2 DEF FreeBlock, Call
      <3> QED
        BY <2>2, <3>1
    <2> QED
      BY <2>1, <2>2 DEF FreeOf
  <1> DEFINE p == f.ptr
  <1>2. p \in Blocks /\ Uses(h, a, p)
    BY <1>1
  <1> HIDE DEF p
  <1>3. h[p].kind \in Owned /\ h[p].by = Allocator
    BY <1>2, UsesKinds
  <1> QED
    BY <1>2, <1>3 DEF p, Owned

\* One result is freed by calls that free different blocks.
LEMMA FreeOfApart ==
    ASSUME NEW h, NEW t \in Tables, NEW a, Tree(h, t, a),
           NEW f, FreeOf(h, a, f), NEW g, FreeOf(h, a, g), f.ptr = g.ptr
    PROVE  f = g
  <1>1. MembersOK(h, t, a)
    BY DEF Tree
  <1> DEFINE Of(x, b, r, c) == Owner(h, a, b, r, c) /\ x = Call(b, r, c, h[b].rows[r][c].ptr)
             Block1(x) == \E b \in Blocks : h[b].kind # "text" /\ x = FreeBlock(b)
  <1>2. \A x : Block1(x) => h[x.ptr].kind # "text" /\ x = FreeBlock(x.ptr)
    BY DEF FreeBlock, Call
  <1>3. ASSUME NEW x, NEW b \in Blocks, NEW r \in Nat, NEW c \in Nat, Of(x, b, r, c)
        PROVE  /\ x.ptr = h[b].rows[r][c].ptr /\ h[x.ptr].kind = "text"
               /\ Owner(h, a, b, r, c)
    <2>1. x.ptr = h[b].rows[r][c].ptr /\ Owner(h, a, b, r, c)
      BY <1>3 DEF Call
    <2>2. TextAt(h, h[b].rows[r][c].ptr)
      <3> HIDE DEF Of, Block1
      <3> QED
        BY <1>1, <2>1, MemberTextAt
    <2>3. TextAt(h, x.ptr)
      <3> HIDE DEF Of, Block1
      <3> QED
        BY <2>1, <2>2
    <2> QED
      BY <2>1, <2>3 DEF TextAt
  <1>4. CASE Block1(f) /\ Block1(g)
    BY <1>2, <1>4
  <1>5. ASSUME NEW b \in Blocks, NEW r \in Nat, NEW c \in Nat, Of(f, b, r, c),
               NEW b2 \in Blocks, NEW r2 \in Nat, NEW c2 \in Nat, Of(g, b2, r2, c2)
        PROVE  f = g
    <2>1. /\ h[b].rows[r][c].ptr = h[b2].rows[r2][c2].ptr
          /\ Owner(h, a, b, r, c) /\ Owner(h, a, b2, r2, c2)
      <3>1. f.ptr = h[b].rows[r][c].ptr /\ Owner(h, a, b, r, c)
        BY <1>5 DEF Call
      <3>2. g.ptr = h[b2].rows[r2][c2].ptr /\ Owner(h, a, b2, r2, c2)
        BY <1>5 DEF Call
      <3> HIDE DEF Of, Block1
      <3> QED
        BY <3>1, <3>2
    <2>2. b = b2 /\ r = r2 /\ c = c2
      <3> HIDE DEF Of, Block1
      <3>1. MembersOK(h, t, a)
        BY <1>1
      <3> QED
        BY <2>1, <3>1, MemberApart
    <2> QED
      BY <1>5, <2>2
  <1>6. \A x : FreeOf(h, a, x) =>
            Block1(x) \/ \E b \in Blocks, r, c \in Nat : Of(x, b, r, c)
    BY DEF FreeOf
  <1>7. \A x : (\E b \in Blocks, r, c \in Nat : Of(x, b, r, c)) => h[x.ptr].kind = "text"
    BY <1>3
  <1> HIDE DEF Of, Block1
  <1> QED
    BY <1>2, <1>4, <1>5, <1>6, <1>7

\* Calls that free what results own are right.
LEMMA FreesRight ==
    ASSUME NEW h, HeapOK(h), NEW A, Good(h, A), NEW frees,
           \A f \in frees : \E t \in Tables : A[t] # Null /\ FreeOf(h, A[t], f)
    PROVE  Faults(h, Allocator, frees) = {}
  <1>1. ASSUME NEW f \in frees
        PROVE  f.ptr \in Blocks /\ h[f.ptr].kind # "free" /\ h[f.ptr].by = Allocator
    <2>1. PICK t \in Tables : A[t] # Null /\ FreeOf(h, A[t], f)
      OBVIOUS
    <2>2. Tree(h, t, A[t])
      BY <2>1 DEF Good
    <2> QED
      BY <2>1, <2>2, FreeOfIs
  <1>2. ASSUME NEW f \in frees, NEW g \in frees, f.ptr = g.ptr
        PROVE  f = g
    <2>1. PICK t \in Tables : A[t] # Null /\ FreeOf(h, A[t], f)
      OBVIOUS
    <2>2. PICK u \in Tables : A[u] # Null /\ FreeOf(h, A[u], g)
      OBVIOUS
    <2>3. Tree(h, t, A[t]) /\ Tree(h, u, A[u])
      BY <2>1, <2>2 DEF Good
    <2>4. f.ptr \in Blocks /\ Uses(h, A[t], f.ptr) /\ Uses(h, A[u], g.ptr)
      BY <2>1, <2>2, <2>3, FreeOfIs
    <2>5. t = u
      BY <1>2, <2>1, <2>2, <2>4 DEF Good
    <2> QED
      BY <1>2, <2>1, <2>2, <2>3, <2>5, FreeOfApart
  <1> QED
    BY <1>1, <1>2, NoFaults

\* The frees of members, arrays and lists free what the result owns.
LEMMA MemberFreesOf ==
    ASSUME NEW h, HeapOK(h), NEW t \in Tables, NEW a, Tree(h, t, a),
           NEW b, Holds(h, a, b), h[b].kind = "rows", NEW f \in MemberFrees(h, b)
    PROVE  FreeOf(h, a, f)
  <1>1. b \in Blocks
    BY DEF Holds
  <1>2. h[b].table = t
    BY DEF Holds, Tree, EntriesOK, EntryKinds, EntryKind
  <1>3. h[b].rows \in Seq(RowSet(t))
    BY <1>1, <1>2 DEF HeapOK, BlockOK
  <1>4. Columns[t] \in Seq({"number", "text", "blob", "stack"})
    BY ConstantsAssumption DEF Tables
  <1>5. PICK x \in (DOMAIN h[b].rows) \X (DOMAIN Columns[t]) :
                 h[b].rows[x[1]][x[2]].needfree
                 /\ f = Call(b, x[1], x[2], h[b].rows[x[1]][x[2]].ptr)
    BY <1>2 DEF MemberFrees
  <1> DEFINE r == x[1]  c == x[2]
  <1>6. r \in DOMAIN h[b].rows /\ c \in DOMAIN Columns[t]
        /\ h[b].rows[r][c].needfree /\ f = Call(b, r, c, h[b].rows[r][c].ptr)
    BY <1>5
  <1> HIDE DEF r, c
  <1>7. r \in Nat /\ c \in Nat /\ h[b].rows[r] \in RowSet(t)
    BY <1>3, <1>4, <1>6
  <1>8. c \in DOMAIN h[b].rows[r]
    BY <1>6, <1>7 DEF RowSet
  <1>9. Owner(h, a, b, r, c)
    BY <1>6, <1>8 DEF Owner, Place
  <1> QED
    BY <1>1, <1>6, <1>7, <1>9 DEF FreeOf

\* sorm_free and sorm_free_array free what is of the result.
LEMMA ArrayFreesOf ==
    ASSUME NEW h, HeapOK(h), NEW t \in Tables, NEW a, Tree(h, t, a),
           h[a].kind = "rows", NEW f \in ArrayFrees(h, a)
    PROVE  FreeOf(h, a, f)
  <1>1. a \in Blocks /\ Holds(h, a, a)
    BY TreeTypes
  <1>2. CASE f \in MemberFrees(h, a)
    BY <1>1, <1>2, MemberFreesOf
  <1>3. CASE f = FreeBlock(a)
    BY <1>1, <1>3 DEF FreeOf, Uses
  <1> QED
    BY <1>2, <1>3 DEF ArrayFrees

\* The head of a list is of the list.
LEMMA HeadFreeOf ==
    ASSUME NEW h, HeapOK(h), NEW t \in Tables, NEW a, Tree(h, t, a)
    PROVE  FreeOf(h, a, FreeBlock(a))
  <1>1. a \in Blocks /\ Holds(h, a, a) /\ h[a].kind # "text"
    BY TreeTypes DEF Tree
  <1> QED
    BY <1>1 DEF FreeOf, Uses

\* sorm_list_free frees what is of the list.
LEMMA ListFreesOf ==
    ASSUME NEW h, HeapOK(h), NEW t \in Tables, NEW a, Tree(h, t, a),
           NEW f \in ListFrees(h, a)
    PROVE  FreeOf(h, a, f)
  <1> DEFINE E == h[a].entries
  <1>1. CASE f = FreeBlock(a)
    BY <1>1, HeadFreeOf
  <1>2. ASSUME NEW e \in Range(E), f \in MemberFrees(h, e.data) \cup {FreeBlock(e.entry)}
        PROVE  FreeOf(h, a, f)
    <2>1. PICK k \in DOMAIN E : e = E[k]
      BY <1>2 DEF Range
    <2>2. /\ e.entry \in Blocks /\ e.data \in Blocks
          /\ h[e.entry].kind = "entry" /\ h[e.data].kind = "rows"
      BY <2>1, TreeTypes DEF Tree, EntriesOK, EntryKinds, EntryKind
    <2>3. Holds(h, a, e.data)
      BY <2>1, <2>2 DEF Holds
    <2>4. CASE f \in MemberFrees(h, e.data)
      <3> DEFINE d == e.data
      <3>1. Holds(h, a, d) /\ h[d].kind = "rows" /\ f \in MemberFrees(h, d)
        BY <2>2, <2>3, <2>4
      <3> HIDE DEF d
      <3> QED
        BY <3>1, MemberFreesOf
    <2>5. CASE f = FreeBlock(e.entry)
      BY <2>1, <2>2, <2>5 DEF FreeOf, Uses
    <2> QED
      BY <1>2, <2>4, <2>5
  <1>3. f = FreeBlock(a) \/ \E e \in Range(E) :
                                f \in MemberFrees(h, e.data) \cup {FreeBlock(e.entry)}
    BY DEF ListFrees
  <1> QED
    BY <1>1, <1>2, <1>3

----------------------------------------------------------------------------
(* Parts of the invariant that a step leaves alone                         *)

\* The unused blocks are the ones marked free.
LEMMA UnusedIs ==
    ASSUME NEW h
    PROVE  \A x : x \in Unused(h) <=> x \in Blocks /\ h[x].kind = "free"
  BY DEF Unused, Live

\* With room for n blocks, the first n calls of _malloc return unused blocks.
LEMMA RoomIs ==
    ASSUME NEW n \in Nat, Room(n), NEW k \in 1..n
    PROVE  /\ k \in 1..Cardinality(Unused(heap))
           /\ Malloc(heap, k) \in Blocks /\ heap[Malloc(heap, k)].kind = "free"
  <1> DEFINE m == Cardinality(Unused(heap))
  <1>1. m \in Nat /\ m >= n
    BY UnusedFinite DEF Room
  <1> HIDE DEF m
  <1>2. k \in 1..m
    BY <1>1
  <1>3. k \in 1..Cardinality(Unused(heap))
    BY <1>2 DEF m
  <1> QED
    BY <1>3, MallocIs, UnusedIs

\* What the caller holds is held as long as its head stays what it is.
LEMMA HeldKept ==
    ASSUME NEW h, NEW hd, HeldOK(h, hd), NEW h2,
           \A t \in Tables : hd[t] # NoResult /\ hd[t].at \in Blocks =>
               h2[hd[t].at].kind = h[hd[t].at].kind
    PROVE  HeldOK(h2, hd)
  BY DEF HeldOK

\* A caller with nothing holds nothing, whatever happens to the heap.
LEMMA HeldNone ==
    ASSUME NEW h, NEW hd, HeldOK(h, hd), NEW h2, \A t \in Tables : hd[t] = NoResult
    PROVE  HeldOK(h2, hd)
  BY DEF HeldOK

\* An open iterator stays sound as long as its three blocks are left alone.
LEMMA IteratorKept ==
    ASSUME NEW h, NEW it, IteratorOK(h, it), NEW h2,
           \A x \in Blocks : h[x].kind \in {"iterator", "tables"} => h2[x] = h[x]
    PROVE  IteratorOK(h2, it)
  BY DEF IteratorOK

\* Between selects the results are what the caller holds.
LEMMA ResultsIdle ==
    ASSUME NEW hd
    PROVE  /\ \A t \in Tables : Results(hd, NoCall)[t] = hd[t].at
           /\ \A t \in Tables : hd[t] = NoResult => Results(hd, NoCall)[t] = Null
  BY DEF Results, NoResult

\* During a select the results are what the select has made.
LEMMA ResultsBusy ==
    ASSUME NEW hd, NEW c, c # NoCall
    PROVE  \A t \in Tables : Results(hd, c)[t] = c.at[t]
  BY DEF Results

\* The fields of a select that runs.
LEMMA CallTypeIs ==
    ASSUME NEW c \in CallType
    PROVE  /\ c # NoCall /\ c.mode \in Modes \cup {"iterate"}
           /\ c.wanted \subseteq Tables /\ c.wanted # {}
           /\ c.max \in 1..MaxRows /\ c.got \in Nat /\ c.next \in Tables
           /\ c.at \in [Tables -> Blocks \cup {Null}]
           /\ c.columns \in Blocks \cup {Null}
  <1>1. /\ c.mode \in Modes \cup {"iterate"} /\ c.wanted \in (SUBSET Tables) \ {{}}
        /\ c.max \in 1..MaxRows /\ c.got \in Nat /\ c.next \in Tables
        /\ c.at \in [Tables -> Blocks \cup {Null}]
        /\ c.columns \in Blocks \cup {Null}
    BY DEF CallType
  <1>2. NoCall.mode = "idle"
    BY DEF NoCall
  <1>3. c # NoCall
    BY <1>1, <1>2 DEF Modes, ArrayMode, ListModes
  <1> QED
    BY <1>1, <1>3

\* With no call running, the results are the caller's.
LEMMA SoundIdle ==
    ASSUME NEW h, NEW hd, NEW it, HeapOK(h), HeldOK(h, hd), IteratorOK(h, it),
           NEW A, Good(h, A), \A t \in Tables : A[t] = hd[t].at
    PROVE  Sound(h, hd, it, NoCall)
  <1>1. \A t \in Tables : Results(hd, NoCall)[t] = A[t]
    BY ResultsIdle
  <1>2. Good(h, Results(hd, NoCall))
    <2> DEFINE B == Results(hd, NoCall)
    <2>1. \A t \in Tables : B[t] = A[t]
      BY <1>1
    <2> HIDE DEF B
    <2>2. Good(h, B)
      BY <2>1 DEF Good
    <2> QED
      BY <2>2 DEF B
  <1> QED
    BY <1>2 DEF Sound, CallOK

\* What the invariant says between selects.
LEMMA IdleIs ==
    ASSUME Inv, call = NoCall
    PROVE  /\ HeapOK(heap) /\ HeldOK(heap, held) /\ IteratorOK(heap, iterator)
           /\ Good(heap, Results(held, NoCall))
           /\ \A t \in Tables : Results(held, NoCall)[t] = held[t].at
  BY ResultsIdle DEF Inv, Sound

\* The end of an action that leaves faults and no call.
LEMMA IdleEnd ==
    ASSUME FreedRight, call' = NoCall, Sound(heap', held', iterator', NoCall),
           \A f \in faults' \ faults : f.what = "allocator" /\ f.kind = "iterator"
    PROVE  Inv'
  <1>1. NoCall.mode # ArrayMode
    BY DEF NoCall, ArrayMode
  <1>2. FreedRight'
    BY DEF FreedRight
  <1> QED
    BY <1>1, <1>2 DEF Inv

----------------------------------------------------------------------------
(* Calls on objects                                                        *)

\* sorm_new and sorm_new_array.
LEMMA SormNewStep ==
    ASSUME Inv, call = NoCall, NEW t \in Tables, NEW n \in 1..MaxRows, SormNew(t, n)
    PROVE  Inv'
  <1> DEFINE b == Malloc(heap, 1)  x == NewArray(t, n, Allocator)
  <1>1. HeapOK(heap) /\ HeldOK(heap, held) /\ IteratorOK(heap, iterator)
    BY IdleIs
  <1>2. /\ b \in Blocks /\ heap[b].kind = "free"
        /\ heap' = [heap EXCEPT ![b] = x]
        /\ held' = [held EXCEPT ![t] = [shape |-> "rows", at |-> b]]
        /\ iterator' = iterator /\ call' = NoCall /\ faults' = faults
        /\ \A u \in Tables : held[u] = NoResult
    BY RoomIs DEF SormNew, NothingHeld
  <1>3. n \in Nat
    BY ConstantsAssumption
  <1>4. /\ BlockOK(x) /\ x.kind = "rows" /\ x.by = Allocator /\ x.table = t
        /\ x.entries = <<>>
        /\ \A r \in DOMAIN x.rows : \A c \in DOMAIN x.rows[r] : x.rows[r][c] = Unset
    <2>1. /\ BlockOK(x) /\ x.kind = "rows" /\ x.by = Allocator /\ x.table = t
          /\ x.entries = <<>> /\ DOMAIN x.rows = 1..n
          /\ \A r \in 1..n : x.rows[r] \in RowSet(t) /\
                 \A c \in DOMAIN Columns[t] : x.rows[r][c] = Unset
      BY <1>3, NewArrayIs
    <2> QED
      BY <2>1 DEF RowSet
  <1> HIDE DEF b, x
  <1>5. /\ HeapOK(heap') /\ heap'[b] = x /\ \A y \in Blocks \ {b} : heap'[y] = heap[y]
    <2>1. HeapOK(heap')
      BY <1>1, <1>2, <1>4, HeapPutOne
    <2>2. heap = [y \in Blocks |-> heap[y]]
      BY <1>1 DEF HeapOK
    <2>3. heap'[b] = x /\ \A y \in Blocks \ {b} : heap'[y] = heap[y]
      BY <1>2, <2>2
    <2> QED
      BY <2>1, <2>3
  <1>6. held = [u \in Tables |-> held[u]]
    BY <1>1 DEF HeldOK
  <1>7. /\ held' = [u \in Tables |-> held'[u]]
        /\ held'[t] = [shape |-> "rows", at |-> b]
        /\ \A u \in Tables \ {t} : held'[u] = NoResult
    BY <1>2, <1>6
  <1>8. HeldOK(heap', held')
    BY <1>2, <1>4, <1>5, <1>7 DEF HeldOK
  <1> DEFINE A == [u \in Tables |-> held'[u].at]
  <1>9. A[t] = b /\ \A u \in Tables \ {t} : A[u] = Null
    BY <1>7 DEF NoResult
  <1>10. \A u \in Tables : A[u] = held'[u].at
    OBVIOUS
  <1> HIDE DEF A
  <1>11. Good(heap', A)
    <2>1. ASSUME NEW u \in Tables, A[u] # Null PROVE u = t /\ A[u] = b
      BY <1>9, <2>1
    <2>2. ASSUME NEW u \in Tables, A[u] # Null
          PROVE  /\ A[u] \in Blocks
                 /\ heap'[A[u]].kind \in {"rows", "list"} /\ heap'[A[u]].table = u
                 /\ heap'[A[u]].by = Allocator /\ heap'[A[u]].entries = <<>>
                 /\ \A r \in DOMAIN heap'[A[u]].rows :
                        \A c \in DOMAIN heap'[A[u]].rows[r] :
                            heap'[A[u]].rows[r][c] = Unset
      BY <1>2, <1>4, <1>5, <2>1, <2>2
    <2> QED
      BY <2>2, GoodNew
  <1>12. IteratorOK(heap', iterator')
    <2>1. \A y \in Blocks : heap[y].kind \in {"iterator", "tables"} => heap'[y] = heap[y]
      BY <1>2, <1>5
    <2> QED
      BY <1>1, <1>2, <2>1, IteratorKept
  <1>13. Sound(heap', held', iterator', NoCall)
    BY <1>5, <1>8, <1>10, <1>11, <1>12, SoundIdle
  <1> QED
    BY <1>2, <1>13, IdleEnd DEF Inv

\* The rows of the caller belong to a result it holds.
LEMMA CallersRowsIs ==
    ASSUME Inv, call = NoCall, NEW b \in CallersRows
    PROVE  \E t \in Tables : /\ held[t] # NoResult /\ held[t].at # Null
                             /\ Tree(heap, t, held[t].at)
                             /\ Holds(heap, held[t].at, b)
                             /\ b \in Blocks /\ heap[b].kind = "rows"
                             /\ heap[b].table = t
  <1>1. b \in Blocks /\ heap[b].kind = "rows"
    BY DEF CallersRows
  <1>2. ASSUME NEW t \in Tables, held[t].at \in Blocks
        PROVE  held[t] # NoResult /\ held[t].at # Null /\ Tree(heap, t, held[t].at)
    <2>1. held[t].at # Null
      BY <1>2 DEF Null, Blocks
    <2>2. Good(heap, Results(held, NoCall)) /\ Results(held, NoCall)[t] = held[t].at
      BY IdleIs
    <2> QED
      BY <2>1, <2>2 DEF Good, NoResult
  <1>3. CASE \E t \in Tables : b = held[t].at
    BY <1>1, <1>2, <1>3 DEF Holds, Tree
  <1>4. CASE b \in {e.data : e \in Entries({held[t].at : t \in Tables})}
    <2>1. PICK e \in Entries({held[t].at : t \in Tables}) : b = e.data
      BY <1>4
    <2>2. PICK a \in {held[t].at : t \in Tables} \cap Blocks : e \in Range(heap[a].entries)
      BY <2>1 DEF Entries
    <2>3. PICK t \in Tables : a = held[t].at
      BY <2>2
    <2>4. PICK k \in DOMAIN heap[a].entries : e = heap[a].entries[k]
      BY <2>2 DEF Range
    <2>5. Holds(heap, a, b)
      BY <1>1, <2>1, <2>4 DEF Holds
    <2>6. held[t] # NoResult /\ a # Null /\ Tree(heap, t, a)
      BY <1>2, <2>2, <2>3
    <2>7. heap[b].table = t
      BY <2>5, <2>6 DEF Holds, Tree, EntriesOK, EntryKinds, EntryKind
    <2> QED
      BY <1>1, <2>3, <2>5, <2>6, <2>7
  <1> QED
    BY <1>3, <1>4 DEF CallersRows

\* Columns are numbered.
LEMMA ColumnNumbers ==
    \A t \in Tables : DOMAIN Columns[t] \subseteq Nat
  BY ConstantsAssumption DEF Tables

\* A row of block b is written.
RowPut(g, h, b, r, row) == g = [h EXCEPT ![b].rows[r] = row]

\* One row of an array is written: the heap keeps its type, the other rows and
\* the other blocks stay.
LEMMA HeapPutRow ==
    ASSUME NEW h, HeapOK(h), NEW b \in Blocks, h[b].kind = "rows",
           NEW r \in DOMAIN h[b].rows, NEW row \in RowSet(h[b].table),
           NEW g, RowPut(g, h, b, r, row)
    PROVE  /\ HeapOK(g)
           /\ RowWritten(g, h, b, r, row)
           /\ \A y \in Blocks \ {b} : g[y] = h[y]
  <1>1. h = [y \in Blocks |-> h[y]] /\ BlockOK(h[b])
    BY DEF HeapOK
  <1> DEFINE x == h[b]  rows == [x.rows EXCEPT ![r] = row]
             x2 == [x EXCEPT !.rows = rows]
  <1>2. x = Block(x.kind, x.by, x.table, x.rows, x.entries)
    BY <1>1 DEF BlockOK
  <1>3. g = [h EXCEPT ![b] = x2]
    <2>1. g = [h EXCEPT ![b] = [h[b] EXCEPT !.rows = [h[b].rows EXCEPT ![r] = row]]]
      BY Zenon DEF RowPut
    <2> QED
      BY <2>1, Zenon
  <1>4. x2 = Block(x.kind, x.by, x.table, rows, x.entries)
    <2> HIDE DEF x, rows
    <2> QED
      BY <1>2 DEF Block
  <1>5. x.rows \in Seq(RowSet(x.table)) /\ x.table \in Tables
    BY <1>1 DEF BlockOK
  <1>6. /\ rows \in Seq(RowSet(x.table)) /\ Len(rows) = Len(x.rows)
        /\ DOMAIN rows = DOMAIN x.rows /\ rows[r] = row
        /\ \A q \in DOMAIN x.rows : q # r => rows[q] = x.rows[q]
    BY <1>5
  <1>7. /\ x2.kind = x.kind /\ x2.by = x.by /\ x2.table = x.table
        /\ x2.rows = rows /\ x2.entries = x.entries
    <2> HIDE DEF x2, x, rows
    <2> QED
      BY <1>4 DEF Block
  <1>8. BlockOK(x2)
    <2>1. /\ x.kind \in Kinds /\ x.by \in {NoAllocator, Allocator}
          /\ x.table \in {0} \cup Tables /\ x.kind = "rows" /\ x.entries = <<>>
      BY <1>1 DEF BlockOK
    <2>2. x2 = Block(x2.kind, x2.by, x2.table, x2.rows, x2.entries)
      <3> HIDE DEF x2, x, rows
      <3> QED
        BY <1>4, <1>7
    <2> HIDE DEF x2, x, rows
    <2> QED
      BY <1>5, <1>6, <1>7, <2>1, <2>2 DEF BlockOK
  <1>9. HeapOK(g) /\ g[b] = x2 /\ \A y \in Blocks \ {b} : g[y] = h[y]
    <2> HIDE DEF x2
    <2>1. HeapOK(g)
      BY <1>3, <1>8, HeapPutOne
    <2>2. g[b] = x2 /\ \A y \in Blocks \ {b} : g[y] = h[y]
      BY <1>1, <1>3
    <2> QED
      BY <2>1, <2>2
  <1>10. RowWritten(g, h, b, r, row)
    <2> HIDE DEF x2, rows
    <2> QED
      BY <1>6, <1>7, <1>9 DEF RowWritten
  <1> QED
    BY <1>9, <1>10

\* What sorm_set_column_value writes.
LEMMA SetMemberIs ==
    ASSUME NEW t \in Tables, NEW c \in DOMAIN Columns[t], NEW row \in RowSet(t),
           NEW p \in {Theirs, Gone}
    PROVE  /\ SetMember(t, c, row, p) \in RowSet(t)
           /\ ~SetMember(t, c, row, p)[c].needfree
           /\ IsHeap(t, c) => SetMember(t, c, row, p)[c].ptr = p
           /\ \A d \in DOMAIN Columns[t] : d # c => SetMember(t, c, row, p)[d] = row[d]
  <1> DEFINE m == [ptr |-> IF IsHeap(t, c) THEN p ELSE Null,
                   valued |-> TRUE, needfree |-> FALSE]
  <1>1. SetMember(t, c, row, p) = [row EXCEPT ![c] = m]
    BY DEF SetMember
  <1>2. m \in Members /\ m.needfree = FALSE /\ (IsHeap(t, c) => m.ptr = p)
    BY DEF Members
  <1> HIDE DEF m
  <1>3. row \in [DOMAIN Columns[t] -> Members]
    BY DEF RowSet
  <1>4. /\ [row EXCEPT ![c] = m] \in [DOMAIN Columns[t] -> Members]
        /\ [row EXCEPT ![c] = m][c] = m
        /\ \A d \in DOMAIN Columns[t] : d # c => [row EXCEPT ![c] = m][d] = row[d]
    BY <1>2, <1>3
  <1> QED
    BY <1>1, <1>2, <1>4 DEF RowSet

\* sorm_set_column_value and the copying back of a key change a row of the
\* caller; memory it owned is no longer owned by anybody.
LEMMA SetRowStep ==
    ASSUME Inv, call = NoCall, NEW b \in CallersRows, NEW r \in DOMAIN heap[b].rows,
           NEW c \in DOMAIN Columns[heap[b].table], NEW p \in {Theirs, Gone},
           KeysInside /\ IsHeap(heap[b].table, c) => p = Theirs,
           RowPut(heap', heap, b, r, SetMember(heap[b].table, c, heap[b].rows[r], p)),
           UNCHANGED <<held, iterator, call, faults>>
    PROVE  Inv'
  <1>1. /\ HeapOK(heap) /\ HeldOK(heap, held) /\ IteratorOK(heap, iterator)
        /\ Good(heap, Results(held, NoCall))
        /\ \A t \in Tables : Results(held, NoCall)[t] = held[t].at
    BY IdleIs
  <1>2. PICK t \in Tables : /\ held[t] # NoResult /\ held[t].at # Null
                            /\ Tree(heap, t, held[t].at)
                            /\ Holds(heap, held[t].at, b)
                            /\ b \in Blocks /\ heap[b].kind = "rows"
                            /\ heap[b].table = t
    BY CallersRowsIs
  <1> DEFINE a == held[t].at  A == Results(held, NoCall)
             old == heap[b].rows[r]  row == SetMember(t, c, old, p)
  <1>3. heap[b].rows \in Seq(RowSet(t)) /\ old \in RowSet(t) /\ r \in Nat
    BY <1>1, <1>2 DEF HeapOK, BlockOK
  <1>4. c \in DOMAIN Columns[t]
    BY <1>2
  <1> HIDE DEF old
  <1>5. /\ row \in RowSet(t) /\ ~row[c].needfree
        /\ IsHeap(t, c) => row[c].ptr = p
        /\ \A d \in DOMAIN Columns[t] : d # c => row[d] = old[d]
    BY <1>3, <1>4, SetMemberIs
  <1>6. RowPut(heap', heap, b, r, row)
    BY <1>2 DEF old
  <1> HIDE DEF row, A
  <1>7. /\ HeapOK(heap') /\ RowWritten(heap', heap, b, r, row)
        /\ \A y \in Blocks \ {b} : heap'[y] = heap[y]
    <2>1. row \in RowSet(heap[b].table)
      BY <1>2, <1>5
    <2>2. HeapOK(heap) /\ b \in Blocks /\ heap[b].kind = "rows"
      BY <1>1, <1>2
    <2>3. /\ HeapOK(heap') /\ RowWritten(heap', heap, b, r, row)
          /\ \A y \in Blocks \ {b} : heap'[y] = heap[y]
      BY <1>6, <2>1, <2>2, HeapPutRow
    <2> QED
      BY <2>3
  <1>8. ASSUME NEW d \in DOMAIN Columns[t]
        PROVE  /\ KeysInside => ReadOK(t, d, row[d])
               /\ row[d].needfree => old[d].needfree /\ row[d].ptr = old[d].ptr
    <2>1. CASE d = c
      BY <1>2, <1>5, <2>1 DEF ReadOK
    <2>2. CASE d # c
      <3>1. row[d] = old[d]
        BY <1>5, <2>2
      <3>2. d \in Nat
        BY ColumnNumbers
      <3>3. Place(heap, a, b, r, d)
        BY <1>2, <1>3 DEF Place, RowSet, old
      <3>4. KeysInside => ReadOK(t, d, old[d])
        BY <1>2, <1>3, <3>2, <3>3, MemberRead DEF Tree, old
      <3> QED
        BY <3>1, <3>4
    <2> QED
      BY <2>1, <2>2
  <1>9. ASSUME NEW d \in DOMAIN Columns[t], NEW e \in DOMAIN Columns[t],
               row[d].needfree, row[e].needfree, row[d].ptr = row[e].ptr
        PROVE  d = e
    <2>1. d \in Nat /\ e \in Nat
      BY ColumnNumbers
    <2>2. /\ old[d].needfree /\ old[e].needfree /\ old[d].ptr = old[e].ptr
      BY <1>8, <1>9
    <2>3. Owner(heap, a, b, r, d) /\ Owner(heap, a, b, r, e)
      BY <1>2, <1>3, <2>2 DEF Owner, Place, RowSet, old
    <2> QED
      BY <1>2, <1>3, <2>1, <2>2, <2>3, MemberApart DEF Tree, old
  <1>10. /\ Tree(heap', t, a)
         /\ \A x \in Blocks : Uses(heap', a, x) => Uses(heap, a, x) \/ heap[x].kind = "free"
    <2> HIDE DEF a
    <2>1. \A x \in Blocks \ {b} : heap[x].kind # "free" => heap'[x] = heap[x]
      BY <1>7
    <2>2. Tree(heap, t, a) /\ Holds(heap, a, b) /\ heap[b].kind = "rows"
      BY <1>2 DEF a
    <2>3. RowFits(heap', heap, t, b, r, row)
      BY <1>8, <1>9 DEF RowFits, old
    <2>6. row \in RowSet(t)
      BY <1>5
    <2> QED
      <3>1. HeapOK(heap) /\ RowWritten(heap', heap, b, r, row)
        BY <1>1, <1>7
      <3> QED
        BY <2>1, <2>2, <2>3, <2>6, <3>1, TreeRow
  <1>11. Good(heap', A)
    <2>1. A[t] = a /\ A[t] # Null /\ Uses(heap, a, b)
      BY <1>1, <1>2 DEF A, Uses
    <2>2. \A x \in Blocks : heap[x].kind \in Owned
                            /\ ~(A[t] # Null /\ Uses(heap, A[t], x)) => heap'[x] = heap[x]
      BY <1>7, <2>1
    <2>3. /\ Tree(heap', t, A[t])
          /\ \A x \in Blocks : Uses(heap', A[t], x) =>
                 heap[x].kind = "free" \/ (A[t] # Null /\ Uses(heap, A[t], x))
      BY <1>10, <2>1
    <2>4. Good(heap, A)
      BY <1>1 DEF A
    <2> QED
      BY <1>1, <2>2, <2>3, <2>4, GoodStep
  <1>12. HeldOK(heap', held)
    <2>1. \A x \in Blocks : heap'[x].kind = heap[x].kind
      BY <1>7 DEF RowWritten
    <2>2. \A u \in Tables : held[u] # NoResult /\ held[u].at \in Blocks =>
              heap'[held[u].at].kind = heap[held[u].at].kind
      BY <2>1
    <2> QED
      <3>1. HeldOK(heap, held)
        BY <1>1
      <3> QED
        BY <2>2, <3>1, HeldKept
  <1>13. IteratorOK(heap', iterator)
    <2>1. \A x \in Blocks : heap[x].kind \in {"iterator", "tables"} => heap'[x] = heap[x]
      BY <1>2, <1>7
    <2> QED
      BY <1>1, <2>1, IteratorKept
  <1>14. Sound(heap', held', iterator', NoCall)
    BY <1>1, <1>7, <1>11, <1>12, <1>13, SoundIdle DEF A
  <1> QED
    BY <1>14, IdleEnd DEF Inv

\* sorm_set_column_value.
LEMMA SetColumnValueStep ==
    ASSUME Inv, call = NoCall, NEW b \in CallersRows, NEW r \in DOMAIN heap[b].rows,
           NEW c \in DOMAIN heap[b].rows[r], SetColumnValue(b, r, c)
    PROVE  Inv'
  <1>1. heap[b].table \in Tables /\ heap[b].rows[r] \in RowSet(heap[b].table)
    <2>1. BlockOK(heap[b]) /\ heap[b].kind = "rows"
      BY IdleIs DEF HeapOK, CallersRows
    <2> QED
      BY <2>1 DEF BlockOK
  <1>2. c \in DOMAIN Columns[heap[b].table]
    BY <1>1 DEF RowSet
  <1>3. RowPut(heap', heap, b, r, SetMember(heap[b].table, c, heap[b].rows[r], Theirs))
    BY DEF SetColumnValue, RowPut
  <1>4. UNCHANGED <<held, iterator, call, faults>>
    BY DEF SetColumnValue
  <1> QED
    BY <1>2, <1>3, <1>4, SetRowStep

\* sorm_save, which writes the key that SQLite chose to the object.
LEMMA SaveStep ==
    ASSUME Inv, call = NoCall, NEW b \in CallersRows, NEW r \in DOMAIN heap[b].rows,
           Save(b, r)
    PROVE  Inv'
  <1> DEFINE t == heap[b].table  c == PK[t]
  <1>1. t \in Tables
    <2>1. BlockOK(heap[b]) /\ heap[b].kind = "rows"
      BY IdleIs DEF HeapOK, CallersRows
    <2> QED
      BY <2>1 DEF BlockOK
  <1>2. c # 0 /\ UNCHANGED <<held, iterator, call, faults>>
    BY DEF Save
  <1>3. RowPut(heap', heap, b, r, SetMember(heap[b].table, c, heap[b].rows[r], Gone))
    BY DEF Save, RowPut
  <1>4. c \in DOMAIN Columns[t]
    <2> HIDE DEF t
    <2> QED
      BY <1>1, <1>2, ConstantsAssumption DEF Tables
  <1>5. KeysInside => ~IsHeap(t, c)
    BY <1>1, <1>2 DEF KeysInside
  <1> HIDE DEF c
  <1> QED
    BY <1>2, <1>3, <1>4, <1>5, SetRowStep

\* The caller frees a result: the calls free what the result owns.
LEMMA DropStep ==
    ASSUME Inv, call = NoCall, NEW t \in Tables, held[t] # NoResult,
           NEW frees, \A f \in frees : FreeOf(heap, held[t].at, f), Drop(t, frees)
    PROVE  Inv'
  <1> DEFINE A == Results(held, NoCall)  A2 == [u \in Tables |-> held'[u].at]
             a == held[t].at
  <1>1. /\ HeapOK(heap) /\ HeldOK(heap, held) /\ IteratorOK(heap, iterator)
        /\ Good(heap, A) /\ \A u \in Tables : A[u] = held[u].at
    BY IdleIs
  <1> HIDE DEF A
  <1>2. /\ heap' = FreeAll(heap, frees) /\ call' = NoCall /\ iterator' = iterator
        /\ faults' = faults \cup Faults(heap, Allocator, frees)
        /\ held' = [held EXCEPT ![t] = NoResult]
    BY DEF Drop
  <1>3. a \in Blocks /\ a # Null /\ A[t] = a /\ Tree(heap, t, a)
    BY <1>1 DEF HeldOK, Blocks, Null, Good
  <1>4. faults' = faults
    <2>1. \A f \in frees : \E u \in Tables : A[u] # Null /\ FreeOf(heap, A[u], f)
      BY <1>3
    <2>2. Faults(heap, Allocator, frees) = {}
      BY <1>1, <2>1, FreesRight
    <2> QED
      BY <1>2, <2>2
  <1>5. /\ held' = [u \in Tables |-> held'[u]]
        /\ held'[t] = NoResult /\ \A u \in Tables \ {t} : held'[u] = held[u]
    BY <1>1, <1>2 DEF HeldOK
  <1>6. /\ HeapOK(heap')
        /\ \A x \in Blocks : heap'[x] =
               IF \E f \in frees : f.ptr = x THEN Free ELSE heap[x]
    BY <1>1, <1>2, FreeAllIs
  <1>7. ASSUME NEW x \in Blocks, ~Uses(heap, a, x) PROVE heap'[x] = heap[x]
    <2>1. \A f \in frees : Uses(heap, a, f.ptr)
      BY <1>1, <1>3, FreeOfIs
    <2> QED
      BY <1>6, <1>7, <2>1
  <1>8. A2[t] = Null /\ \A u \in Tables \ {t} : A2[u] = A[u]
    BY <1>1, <1>5 DEF NoResult
  <1>9. \A u \in Tables : A2[u] = held'[u].at
    OBVIOUS
  <1> HIDE DEF A2, a
  <1>10. ASSUME NEW u \in Tables, NEW x \in Blocks, A2[u] # Null, Uses(heap, A[u], x)
         PROVE  heap'[x] = heap[x]
    <2>1. u # t /\ A[u] # Null
      BY <1>8, <1>10
    <2>2. ~Uses(heap, a, x)
      BY <1>1, <1>3, <1>10, <2>1 DEF Good
    <2> QED
      BY <1>7, <2>2
  <1>11. Good(heap', A2)
    <2>1. \A u \in Tables : A2[u] = A[u] \/ A2[u] = Null
      BY <1>8
    <2>2. Good(heap, A) /\ HeapOK(heap)
      BY <1>1
    <2> QED
      BY <1>10, <2>1, <2>2, GoodFrame
  <1>12. HeldOK(heap', held')
    <2>1. ASSUME NEW u \in Tables, held'[u] # NoResult
          PROVE  /\ held'[u] = held[u] /\ held[u].at \in Blocks
                 /\ heap'[held[u].at] = heap[held[u].at]
      <3>1. u # t /\ held'[u] = held[u]
        BY <1>5, <2>1
      <3>2. held[u].at \in Blocks /\ held[u].at # Null
        BY <1>1, <2>1, <3>1 DEF HeldOK, Blocks, Null
      <3>3. A2[u] # Null /\ Tree(heap, u, held[u].at) /\ A[u] = held[u].at
        BY <1>1, <1>8, <3>1, <3>2 DEF Good
      <3>4. Uses(heap, A[u], held[u].at)
        BY <3>2, <3>3 DEF Uses, Holds
      <3> QED
        BY <1>10, <3>1, <3>2, <3>3, <3>4
    <2> QED
      BY <1>1, <1>5, <2>1 DEF HeldOK
  <1>13. IteratorOK(heap', iterator')
    <2>1. ASSUME NEW x \in Blocks, heap[x].kind \in {"iterator", "tables"}
          PROVE  heap'[x] = heap[x]
      <3>1. ~Uses(heap, a, x)
        BY <1>1, <1>3, <2>1, UsesKinds DEF Owned
      <3> QED
        BY <1>7, <3>1
    <2>2. IteratorOK(heap, iterator) /\ iterator' = iterator
      BY <1>1, <1>2
    <2>3. IteratorOK(heap', iterator)
      BY <2>1, <2>2, IteratorKept
    <2> QED
      BY <2>2, <2>3
  <1>14. Sound(heap', held', iterator', NoCall)
    BY <1>6, <1>9, <1>11, <1>12, <1>13, SoundIdle
  <1> QED
    BY <1>2, <1>4, <1>14, IdleEnd DEF Inv

\* A result that the caller holds.
LEMMA HeldIs ==
    ASSUME Inv, call = NoCall, NEW t \in Tables, held[t].shape \in {"rows", "list"}
    PROVE  /\ held[t] # NoResult /\ HeapOK(heap) /\ Tree(heap, t, held[t].at)
           /\ heap[held[t].at].kind = held[t].shape
  <1>1. held[t] # NoResult
    BY DEF NoResult
  <1>2. /\ HeapOK(heap) /\ HeldOK(heap, held)
        /\ Good(heap, Results(held, NoCall)) /\ Results(held, NoCall)[t] = held[t].at
    BY IdleIs
  <1>3. held[t].at # Null /\ heap[held[t].at].kind = held[t].shape
    BY <1>1, <1>2 DEF HeldOK, Blocks, Null
  <1> QED
    BY <1>1, <1>2, <1>3 DEF Good

\* sorm_free, sorm_free_array and sorm_list_free.
LEMMA FreeSteps ==
    ASSUME Inv, call = NoCall, NEW t \in Tables,
           SormFree(t) \/ SormFreeArray(t) \/ SormListFree(t)
    PROVE  Inv'
  <1> DEFINE a == held[t].at
  <1>1. CASE SormFree(t)
    <2>1. held[t].shape = "rows" /\ Drop(t, MemberFrees(heap, a))
      BY <1>1 DEF SormFree
    <2>2. held[t] # NoResult /\ HeapOK(heap) /\ Tree(heap, t, a) /\ heap[a].kind = "rows"
      BY <2>1, HeldIs
    <2> HIDE DEF a
    <2>3. Holds(heap, a, a)
      BY <2>2, TreeTypes
    <2>4. \A f \in MemberFrees(heap, a) : FreeOf(heap, a, f)
      BY <2>2, <2>3, MemberFreesOf
    <2> QED
      BY <2>1, <2>2, <2>4, DropStep DEF a
  <1>2. CASE SormFreeArray(t)
    <2>1. held[t].shape = "rows" /\ Drop(t, ArrayFrees(heap, a))
      BY <1>2 DEF SormFreeArray
    <2>2. held[t] # NoResult /\ HeapOK(heap) /\ Tree(heap, t, a) /\ heap[a].kind = "rows"
      BY <2>1, HeldIs
    <2> HIDE DEF a
    <2>3. \A f \in ArrayFrees(heap, a) : FreeOf(heap, a, f)
      BY <2>2, ArrayFreesOf
    <2> QED
      BY <2>1, <2>2, <2>3, DropStep DEF a
  <1>3. CASE SormListFree(t)
    <2>1. held[t].shape = "list" /\ Drop(t, ListFrees(heap, a))
      BY <1>3 DEF SormListFree
    <2>2. held[t] # NoResult /\ HeapOK(heap) /\ Tree(heap, t, a)
      BY <2>1, HeldIs
    <2> HIDE DEF a
    <2>3. \A f \in ListFrees(heap, a) : FreeOf(heap, a, f)
      BY <2>2, ListFreesOf
    <2> QED
      BY <2>1, <2>2, <2>3, DropStep DEF a
  <1> QED
    BY <1>1, <1>2, <1>3

----------------------------------------------------------------------------
(* Iterators                                                               *)

\* With no call running, a step that changes blocks of no result.
LEMMA IdleKept ==
    ASSUME Inv, call = NoCall, HeapOK(heap'),
           \A x \in Blocks : heap[x].kind \in Owned => heap'[x] = heap[x],
           IteratorOK(heap', iterator'), held' = held, call' = call,
           \A f \in faults' \ faults : f.what = "allocator" /\ f.kind = "iterator"
    PROVE  Inv'
  <1> DEFINE A == Results(held, NoCall)
  <1>1. /\ HeapOK(heap) /\ HeldOK(heap, held) /\ Good(heap, A)
        /\ \A t \in Tables : A[t] = held[t].at
    BY IdleIs
  <1> HIDE DEF A
  <1>2. Good(heap', A)
    BY <1>1, GoodKept
  <1>3. HeldOK(heap', held)
    <2>1. ASSUME NEW t \in Tables, held[t] # NoResult, held[t].at \in Blocks
          PROVE  heap'[held[t].at].kind = heap[held[t].at].kind
      <3>1. heap[held[t].at].kind \in Owned
        BY <1>1, <2>1 DEF HeldOK, Owned
      <3> QED
        BY <2>1, <3>1
    <2>2. HeldOK(heap, held)
      BY <1>1
    <2> QED
      BY <2>1, <2>2, HeldKept
  <1>4. Sound(heap', held', iterator', NoCall)
    BY <1>1, <1>2, <1>3, SoundIdle
  <1> QED
    BY <1>4, IdleEnd DEF Inv

\* sorm_select_iterate_by_open, done or given up.
LEMMA IterOpenStep ==
    ASSUME Inv, call = NoCall, NEW ok \in BOOLEAN, IterOpen(ok)
    PROVE  Inv'
  <1> DEFINE self == Malloc(heap, 1)  columns == Malloc(heap, 2)
             tables == Malloc(heap, 3)
             own == Block("iterator", NoAllocator, 0, <<>>, <<>>)
             lst == Block("tables", Allocator, 0, <<>>, <<>>)
             h == [heap EXCEPT ![self] = own, ![columns] = own, ![tables] = lst]
             mine == {FreeBlock(columns), FreeBlock(self)}
  <1>1. HeapOK(heap) /\ IteratorOK(heap, iterator)
    BY IdleIs
  <1>2. /\ self \in Blocks /\ columns \in Blocks /\ tables \in Blocks
        /\ heap[self].kind = "free" /\ heap[columns].kind = "free"
        /\ heap[tables].kind = "free"
    BY RoomIs DEF IterOpen
  <1>3. self # columns /\ self # tables /\ columns # tables
    <2>1. {1, 2, 3} \subseteq 1..Cardinality(Unused(heap))
      BY RoomIs DEF IterOpen
    <2> QED
      BY <2>1, MallocApart
  <1>4. BlockOK(own) /\ BlockOK(lst)
    BY PlainBlockOK DEF Kinds
  <1>5. own.kind = "iterator" /\ own.by = NoAllocator /\ lst.kind = "tables"
        /\ lst.by = Allocator
    BY DEF Block
  <1> HIDE DEF self, columns, tables, own, lst
  <1>6. /\ HeapOK(h) /\ h[self] = own /\ h[columns] = own /\ h[tables] = lst
        /\ \A x \in Blocks \ {self, columns, tables} : h[x] = heap[x]
    <2>1. heap = [x \in Blocks |-> heap[x]] /\ \A x \in Blocks : BlockOK(heap[x])
      BY <1>1 DEF HeapOK
    <2>2. h = [x \in Blocks |-> IF x = tables THEN lst
                                ELSE IF x \in {self, columns} THEN own ELSE heap[x]]
      BY <2>1
    <2>3. /\ h[self] = own /\ h[columns] = own /\ h[tables] = lst
          /\ \A x \in Blocks \ {self, columns, tables} : h[x] = heap[x]
          /\ h = [x \in Blocks |-> h[x]]
      <3> HIDE DEF h
      <3> QED
        BY <1>2, <1>3, <2>2
    <2> HIDE DEF h
    <2>4. \A x \in Blocks : BlockOK(h[x])
      BY <1>4, <2>1, <2>3
    <2> QED
      BY <2>3, <2>4 DEF HeapOK
  <1>7. /\ held' = held /\ call' = call
        /\ IF ok
           THEN /\ heap' = h
                /\ iterator' = [open |-> TRUE, self |-> self,
                                columns |-> columns, tables |-> tables]
                /\ faults' = faults
           ELSE /\ heap' = FreeAll(FreeAll(h, mine), {FreeBlock(tables)})
                /\ faults' = (faults \cup Faults(h, NoAllocator, mine))
                                     \cup Faults(h, Allocator, {FreeBlock(tables)})
                /\ iterator' = iterator
    BY DEF IterOpen, self, columns, tables, own, lst
  <1> HIDE DEF h
  <1>8. CASE ok
    <2>1. heap' = h /\ faults' = faults
      BY <1>7, <1>8
    <2>2. /\ iterator' = [open |-> TRUE, self |-> self,
                          columns |-> columns, tables |-> tables]
      BY <1>7, <1>8
    <2>3. IteratorOK(h, iterator')
      BY <1>2, <1>5, <1>6, <2>2 DEF IteratorOK
    <2>4. \A x \in Blocks : heap[x].kind \in Owned => h[x] = heap[x]
      BY <1>2, <1>6 DEF Owned
    <2> QED
      BY <1>6, <1>7, <2>1, <2>3, <2>4, IdleKept
  <1>9. CASE ~ok
    <2> DEFINE h2 == FreeAll(h, mine)  h3 == FreeAll(h2, {FreeBlock(tables)})
    <2>1. heap' = h3 /\ iterator' = iterator
          /\ faults' = (faults \cup Faults(h, NoAllocator, mine))
                               \cup Faults(h, Allocator, {FreeBlock(tables)})
      BY <1>7, <1>9
    <2>2. Faults(h, NoAllocator, mine) = {}
      <3>1. \A f \in mine : \E b \in Blocks :
                f = FreeBlock(b) /\ h[b].kind # "free" /\ h[b].by = NoAllocator
        BY <1>2, <1>5, <1>6
      <3> HIDE DEF mine
      <3> QED
        BY <3>1, BlockFreesRight
    <2>3. Faults(h, Allocator, {FreeBlock(tables)}) = {}
      <3>1. \A f \in {FreeBlock(tables)} : \E b \in Blocks :
                f = FreeBlock(b) /\ h[b].kind # "free" /\ h[b].by = Allocator
        BY <1>2, <1>5, <1>6
      <3> QED
        BY <3>1, BlockFreesRight
    <2>4. faults' = faults
      BY <2>1, <2>2, <2>3
    <2>5. \A f \in mine \cup {FreeBlock(tables)} : f.ptr \in {self, columns, tables}
      BY DEF FreeBlock, Call
    <2> HIDE DEF mine
    <2>6. HeapOK(h2) /\ \A x \in Blocks \ {self, columns, tables} : h2[x] = heap[x]
      BY <1>6, <2>5, FreeAllIs
    <2> HIDE DEF h2
    <2>7. HeapOK(h3) /\ \A x \in Blocks \ {self, columns, tables} : h3[x] = heap[x]
      BY <2>5, <2>6, FreeAllIs
    <2> HIDE DEF h3
    <2>8. \A x \in Blocks : heap[x].kind # "free" => h3[x] = heap[x]
      BY <1>2, <2>7
    <2>9. IteratorOK(h3, iterator)
      BY <1>1, <2>8, IteratorKept
    <2>10. \A x \in Blocks : heap[x].kind \in Owned => h3[x] = heap[x]
      BY <2>8 DEF Owned
    <2> QED
      BY <1>7, <2>1, <2>4, <2>7, <2>9, <2>10, IdleKept
  <1> QED
    BY <1>8, <1>9

\* sorm_select_iterate_close.
LEMMA IterCloseStep ==
    ASSUME Inv, call = NoCall, IterClose
    PROVE  Inv'
  <1> DEFINE frees == {FreeBlock(iterator.columns), FreeBlock(iterator.tables),
                       FreeBlock(iterator.self)}
  <1>1. HeapOK(heap) /\ IteratorOK(heap, iterator)
    BY IdleIs
  <1>2. /\ iterator.open /\ heap' = FreeAll(heap, frees)
        /\ faults' = faults \cup Faults(heap, Allocator, frees)
        /\ iterator' = NoIterator /\ held' = held /\ call' = call
    BY DEF IterClose
  <1>3. /\ iterator.self \in Blocks /\ iterator.columns \in Blocks
        /\ iterator.tables \in Blocks
        /\ heap[iterator.self].kind = "iterator"
        /\ heap[iterator.columns].kind = "iterator"
        /\ heap[iterator.tables].kind = "tables"
        /\ heap[iterator.tables].by = Allocator
    BY <1>1, <1>2 DEF IteratorOK, NoIterator
  <1>4. \A f \in frees : /\ f.ptr \in Blocks /\ f = FreeBlock(f.ptr)
                         /\ heap[f.ptr].kind \in {"iterator", "tables"}
                         /\ heap[f.ptr].kind = "tables" => heap[f.ptr].by = Allocator
    BY <1>3 DEF FreeBlock, Call
  <1> HIDE DEF frees
  <1>5. HeapOK(heap') /\ \A x \in Blocks : heap[x].kind \in Owned => heap'[x] = heap[x]
    <2>1. /\ HeapOK(heap')
          /\ \A x \in Blocks : heap'[x] =
                 IF \E f \in frees : f.ptr = x THEN Free ELSE heap[x]
      BY <1>1, <1>2, FreeAllIs
    <2> QED
      BY <1>4, <2>1 DEF Owned
  <1>6. ASSUME NEW f \in Faults(heap, Allocator, frees)
        PROVE  f.what = "allocator" /\ f.kind = "iterator"
    <2>1. {g \in frees : g.ptr \notin Blocks \cup {Null}} = {}
      BY <1>4
    <2>2. {g \in frees : /\ g.ptr \in Blocks
                         /\ \/ g.ptr \in Unused(heap)
                            \/ \E e \in frees \ {g} : e.ptr = g.ptr} = {}
      <3>1. \A g \in frees : g.ptr \notin Unused(heap)
        BY <1>4, UnusedIs
      <3>2. \A e, g \in frees : e.ptr = g.ptr => e = g
        BY <1>4
      <3> QED
        BY <3>1, <3>2
    <2>3. PICK g \in frees : /\ g.ptr \in Live(heap) /\ heap[g.ptr].by # Allocator
                             /\ f = [what |-> "allocator", kind |-> heap[g.ptr].kind]
      BY <2>1, <2>2 DEF Faults
    <2> QED
      BY <1>4, <2>3
  <1>7. \A f \in faults' \ faults : f.what = "allocator" /\ f.kind = "iterator"
    BY <1>2, <1>6
  <1>8. IteratorOK(heap', iterator')
    BY <1>2 DEF IteratorOK
  <1> QED
    BY <1>2, <1>5, <1>7, <1>8, IdleKept

----------------------------------------------------------------------------
(* Selects begin                                                           *)

\* The end of an action with a call running.
LEMMA BusyEnd ==
    ASSUME FreedRight, faults' = faults, Sound(heap', held', iterator', call'),
           call'.mode = ArrayMode => FreshRows(heap', call')
    PROVE  Inv'
  <1>1. FreedRight'
    BY DEF FreedRight
  <1> QED
    BY <1>1 DEF Inv

\* What there is to show of a state in which a select runs.
LEMMA SoundBusy ==
    ASSUME NEW h, NEW hd, NEW it, NEW c \in CallType, HeapOK(h), HeldOK(h, hd),
           IteratorOK(h, it), \A t \in Tables : hd[t] = NoResult,
           c.next \in c.wanted, c.got <= c.max,
           \A t \in Tables \ c.wanted : c.at[t] = Null,
           MadeOK(h, c), Good(h, c.at)
    PROVE  Sound(h, hd, it, c)
  <1> DEFINE A == c.at  B == Results(hd, c)
  <1>1. \A t \in Tables : B[t] = A[t]
    BY CallTypeIs, ResultsBusy
  <1> HIDE DEF A, B
  <1>2. Good(h, B)
    <2>1. Good(h, A)
      BY DEF A
    <2> QED
      BY <1>1, <2>1 DEF Good
  <1> QED
    BY <1>2 DEF Sound, CallOK, B

\* A record of a call from its fields.
LEMMA CallTypeIntro ==
    ASSUME NEW mode \in Modes \cup {"iterate"}, NEW W \in (SUBSET Tables) \ {{}},
           NEW max \in 1..MaxRows, NEW got \in Nat, NEW next \in Tables,
           NEW at \in [Tables -> Blocks \cup {Null}], NEW columns \in Blocks \cup {Null},
           NEW c, c = [mode |-> mode, wanted |-> W, max |-> max, got |-> got,
                       next |-> next, at |-> at, columns |-> columns]
    PROVE  /\ c \in CallType
           /\ c.mode = mode /\ c.wanted = W /\ c.max = max /\ c.got = got
           /\ c.next = next /\ c.at = at /\ c.columns = columns
  BY DEF CallType

\* sorm_select_iterate begins a step.
LEMMA IterateBeginStep ==
    ASSUME Inv, call = NoCall, NEW W \in (SUBSET Tables) \ {{}}, IterateBegin(W)
    PROVE  Inv'
  <1> DEFINE at == [t \in Tables |-> Null]  c == call'
  <1>1. HeapOK(heap) /\ HeldOK(heap, held) /\ IteratorOK(heap, iterator)
    BY IdleIs
  <1>2. /\ UNCHANGED <<heap, held, iterator, faults>>
        /\ \A t \in Tables : held[t] = NoResult
        /\ call' = [mode |-> "iterate", wanted |-> W, max |-> 1, got |-> 0,
                    next |-> First(W), at |-> at, columns |-> Null]
    BY DEF IterateBegin, NoCall, NothingHeld
  <1>3. First(W) \in W /\ First(W) \in Tables
    BY FirstIs
  <1>4. 1 \in 1..MaxRows
    BY ConstantsAssumption
  <1>5. at \in [Tables -> Blocks \cup {Null}] /\ \A t \in Tables : at[t] = Null
    OBVIOUS
  <1> HIDE DEF at
  <1>6. /\ c \in CallType
        /\ c.mode = "iterate" /\ c.wanted = W /\ c.max = 1 /\ c.got = 0
        /\ c.next = First(W) /\ c.at = at /\ c.columns = Null
    BY <1>2, <1>3, <1>4, <1>5, CallTypeIntro
  <1> HIDE DEF c
  <1>7. Good(heap, c.at)
    BY <1>5, <1>6, GoodNone
  <1>8. MadeOK(heap, c)
    BY <1>5, <1>6 DEF MadeOK
  <1>9. c.next \in c.wanted /\ c.got <= c.max /\ \A t \in Tables \ c.wanted : c.at[t] = Null
    BY <1>3, <1>5, <1>6
  <1>10. \A t \in Tables : held[t] = NoResult
    BY <1>2
  <1>11. Sound(heap, held, iterator, c)
    BY <1>1, <1>6, <1>7, <1>8, <1>9, <1>10, SoundBusy
  <1>12. Sound(heap', held', iterator', call') /\ faults' = faults
    BY <1>2, <1>11 DEF c
  <1>13. call'.mode # ArrayMode
    BY <1>6 DEF ArrayMode, c
  <1> QED
    BY <1>12, <1>13, BusyEnd DEF Inv

\* A select allocates its arrays or its lists, and its column arrays.
LEMMA SelectBeginStep ==
    ASSUME Inv, call = NoCall, NEW mode \in Modes, NEW W \in (SUBSET Tables) \ {{}},
           NEW max \in 1..MaxRows, SelectBegin(mode, W, max)
    PROVE  Inv'
  <1> DEFINE At(t) == Malloc(heap, 1 + Cardinality({u \in W : u <= t}))
             X(t) == IF mode = ArrayMode THEN NewArray(t, max, Allocator)
                     ELSE Block("list", Allocator, t, <<>>, <<>>)
             made == [b \in {At(t) : t \in W} |-> X(CHOOSE u \in W : At(u) = b)]
             cols == Malloc(heap, 1)
             colsBlock == Block("columns", NoAllocator, 0, <<>>, <<>>)
             h1 == [heap EXCEPT ![cols] = colsBlock]
             h2 == With(h1, made)
             at == [t \in Tables |-> IF t \in W THEN At(t) ELSE Null]
             c == call'
  <1>1. HeapOK(heap) /\ HeldOK(heap, held) /\ IteratorOK(heap, iterator)
    BY IdleIs
  <1>2. /\ Room(1 + Cardinality(W)) /\ \A t \in Tables : held[t] = NoResult
        /\ UNCHANGED <<held, iterator, faults>>
    BY DEF SelectBegin, NothingHeld
  <1>3. call' = [mode |-> mode, wanted |-> W, max |-> max, got |-> 0,
                 next |-> First(W), at |-> at, columns |-> cols]
    BY DEF SelectBegin
  <1>4. heap' = h2
    BY DEF SelectBegin
  \* The blocks that _malloc returns.
  <1>5. Len(Columns) \in Nat /\ W \in SUBSET (1..Len(Columns))
        /\ IsFiniteSet(W) /\ Cardinality(W) \in Nat
    BY TablesAre, FS_Subset, FS_CardinalityType
  <1>6. \A t \in W : Rank(W, t) \in 1..Cardinality(W)
    BY <1>5, RankIs
  <1>7. \A t \in W : 1 + Rank(W, t) \in 1..(1 + Cardinality(W)) /\ 1 + Rank(W, t) # 1
    BY <1>5, <1>6
  <1>8. /\ 1 + Cardinality(W) \in Nat /\ 1 \in 1..(1 + Cardinality(W))
    BY <1>5
  <1>9. \A t \in W : At(t) = Malloc(heap, 1 + Rank(W, t))
    BY DEF Rank
  <1>10. \A k \in 1..(1 + Cardinality(W)) :
             /\ k \in 1..Cardinality(Unused(heap))
             /\ Malloc(heap, k) \in Blocks /\ heap[Malloc(heap, k)].kind = "free"
    BY <1>2, <1>8, RoomIs
  <1> HIDE DEF At
  <1>11. /\ cols \in Blocks /\ heap[cols].kind = "free"
         /\ \A t \in W : At(t) \in Blocks /\ heap[At(t)].kind = "free"
    BY <1>7, <1>8, <1>9, <1>10
  <1>12. \A t \in W : At(t) # cols
    <2> SUFFICES ASSUME NEW t \in W, At(t) = cols PROVE FALSE
      OBVIOUS
    <2>1. 1 + Rank(W, t) = 1
      BY <1>7, <1>8, <1>9, <1>10, MallocApart
    <2> QED
      BY <1>7, <2>1
  <1>13. ASSUME NEW t \in W, NEW u \in W, At(t) = At(u) PROVE t = u
    <2>1. 1 + Rank(W, t) = 1 + Rank(W, u)
      BY <1>7, <1>9, <1>10, <1>13, MallocApart
    <2>2. Rank(W, t) = Rank(W, u)
      BY <1>6, <2>1
    <2> QED
      BY <1>5, <2>2, RankApart
  \* What they hold.
  <1>14. \A t \in W : (CHOOSE u \in W : At(u) = At(t)) = t
    BY <1>13
  <1>15. max \in Nat
    BY ConstantsAssumption
  <1>16. ASSUME NEW t \in W
         PROVE  /\ BlockOK(X(t)) /\ X(t).table = t /\ X(t).by = Allocator
                /\ X(t).entries = <<>>
                /\ \A r \in DOMAIN X(t).rows : \A d \in DOMAIN X(t).rows[r] :
                       X(t).rows[r][d] = Unset
                /\ IF mode = ArrayMode
                   THEN /\ X(t).kind = "rows" /\ Len(X(t).rows) = max
                        /\ \A r \in 1..max : \A d \in DOMAIN Columns[t] :
                               X(t).rows[r][d] = Unset
                   ELSE X(t).kind = "list"
    <2>1. t \in Tables
      OBVIOUS
    <2>2. CASE mode = ArrayMode
      <3> DEFINE x == NewArray(t, max, Allocator)
      <3>1. /\ BlockOK(x)
            /\ x.kind = "rows" /\ x.by = Allocator /\ x.table = t
            /\ x.entries = <<>> /\ DOMAIN x.rows = 1..max /\ Len(x.rows) = max
            /\ \A r \in 1..max : /\ x.rows[r] \in RowSet(t)
                                 /\ \A d \in DOMAIN Columns[t] : x.rows[r][d] = Unset
        BY <1>15, <2>1, NewArrayIs
      <3>2. X(t) = x
        BY <2>2
      <3> HIDE DEF x, X
      <3> QED
        BY <2>2, <3>1, <3>2 DEF RowSet
    <2>3. CASE mode # ArrayMode
      <3> DEFINE x == Block("list", Allocator, t, <<>>, <<>>)
      <3>1. BlockOK(x)
        BY <2>1, PlainBlockOK DEF Kinds
      <3>2. /\ x.kind = "list" /\ x.by = Allocator /\ x.table = t
            /\ x.entries = <<>> /\ x.rows = <<>>
        BY DEF Block
      <3>3. X(t) = x
        BY <2>3
      <3> HIDE DEF x, X
      <3> QED
        BY <2>3, <3>1, <3>2, <3>3
    <2> QED
      BY <2>2, <2>3
  <1> HIDE DEF X
  <1>17. /\ DOMAIN made = {At(t) : t \in W}
         /\ \A t \in W : made[At(t)] = X(t)
    BY <1>14
  <1>18. BlockOK(colsBlock) /\ colsBlock.kind = "columns" /\ colsBlock.by = NoAllocator
    BY PlainBlockOK DEF Kinds, Block
  <1> HIDE DEF made, colsBlock, cols
  <1>19. HeapOK(h1) /\ h1[cols] = colsBlock /\ \A x \in Blocks \ {cols} : h1[x] = heap[x]
    <2>1. HeapOK(h1)
      BY <1>1, <1>11, <1>18, HeapPutOne
    <2>2. heap = [x \in Blocks |-> heap[x]]
      BY <1>1 DEF HeapOK
    <2>3. h1[cols] = colsBlock /\ \A x \in Blocks \ {cols} : h1[x] = heap[x]
      BY <1>11, <2>2
    <2> QED
      BY <2>1, <2>3
  <1> HIDE DEF h1
  <1>20. /\ HeapOK(h2)
         /\ \A x \in Blocks : h2[x] = IF x \in DOMAIN made THEN made[x] ELSE h1[x]
    <2>1. \A x \in Blocks \cap DOMAIN made : BlockOK(made[x])
      BY <1>16, <1>17
    <2> QED
      BY <1>19, <2>1, HeapPut
  <1> HIDE DEF h2
  <1>21. /\ \A t \in W : h2[At(t)] = X(t)
         /\ h2[cols] = colsBlock
         /\ \A x \in Blocks : heap[x].kind # "free" => h2[x] = heap[x]
    BY <1>11, <1>12, <1>17, <1>19, <1>20
  \* The call.
  <1>22. /\ at \in [Tables -> Blocks \cup {Null}]
         /\ \A t \in W : at[t] = At(t) /\ at[t] # Null
         /\ \A t \in Tables \ W : at[t] = Null
    BY <1>11 DEF Blocks, Null
  <1> HIDE DEF at
  <1>23. First(W) \in W /\ First(W) \in Tables
    BY FirstIs
  <1>24. /\ c \in CallType
         /\ c.mode = mode /\ c.wanted = W /\ c.max = max /\ c.got = 0
         /\ c.next = First(W) /\ c.at = at /\ c.columns = cols
    <2>1. c = [mode |-> mode, wanted |-> W, max |-> max, got |-> 0,
               next |-> First(W), at |-> at, columns |-> cols]
      BY <1>3
    <2>2. /\ First(W) \in Tables /\ cols \in Blocks \cup {Null} /\ 0 \in Nat
          /\ at \in [Tables -> Blocks \cup {Null}] /\ mode \in Modes \cup {"iterate"}
      BY <1>11, <1>22, <1>23
    <2> HIDE DEF c, cols
    <2> QED
      BY <2>1, <2>2, CallTypeIntro
  <1> HIDE DEF c
  <1>25. Good(h2, at)
    <2>1. ASSUME NEW t \in Tables, at[t] # Null
          PROVE  /\ at[t] \in Blocks
                 /\ h2[at[t]].kind \in {"rows", "list"} /\ h2[at[t]].table = t
                 /\ h2[at[t]].by = Allocator /\ h2[at[t]].entries = <<>>
                 /\ \A r \in DOMAIN h2[at[t]].rows : \A d \in DOMAIN h2[at[t]].rows[r] :
                        h2[at[t]].rows[r][d] = Unset
      <3>1. t \in W /\ at[t] = At(t) /\ h2[at[t]] = X(t) /\ at[t] \in Blocks
        BY <1>11, <1>21, <1>22, <2>1
      <3> QED
        BY <1>16, <3>1
    <2> QED
      BY <2>1, GoodNew
  <1>26. MadeOK(h2, c)
    <2>1. mode # "iterate" /\ cols # Null
      BY <1>11 DEF Modes, ArrayMode, ListModes, Blocks, Null
    <2>2. \A t \in W : /\ at[t] # Null
                       /\ IF mode = ArrayMode
                          THEN h2[at[t]].kind = "rows" /\ Len(h2[at[t]].rows) = max
                          ELSE h2[at[t]].kind = "list"
      BY <1>16, <1>21, <1>22
    <2> QED
      BY <1>18, <1>21, <1>24, <2>1, <2>2 DEF MadeOK
  <1>27. IteratorOK(h2, iterator)
    <2>1. \A x \in Blocks : heap[x].kind \in {"iterator", "tables"} => h2[x] = heap[x]
      BY <1>21
    <2> QED
      BY <1>1, <2>1, IteratorKept
  <1>28. HeldOK(h2, held)
    BY <1>1, <1>2, HeldNone
  <1>29. Sound(h2, held, iterator, c)
    <2>1. /\ c.next \in c.wanted /\ c.got <= c.max
          /\ \A t \in Tables \ c.wanted : c.at[t] = Null
      BY <1>15, <1>22, <1>23, <1>24
    <2>2. \A t \in Tables : held[t] = NoResult
      BY <1>2
    <2>3. Good(h2, c.at)
      BY <1>24, <1>25
    <2> QED
      BY <1>20, <1>24, <1>26, <1>27, <1>28, <2>1, <2>2, <2>3, SoundBusy
  <1>30. c.mode = ArrayMode => FreshRows(h2, c)
    <2> SUFFICES ASSUME c.mode = ArrayMode PROVE FreshRows(h2, c)
      OBVIOUS
    <2>1. \A t \in W : \A r \in 1..max : \A d \in DOMAIN Columns[t] :
              h2[at[t]].rows[r][d] = Unset
      BY <1>16, <1>21, <1>22, <1>24
    <2> QED
      BY <1>24, <2>1 DEF FreshRows, Unset
  <1>31. Sound(heap', held', iterator', call') /\ faults' = faults
         /\ (call'.mode = ArrayMode => FreshRows(heap', call'))
    BY <1>2, <1>4, <1>29, <1>30 DEF c
  <1> QED
    BY <1>31, BusyEnd DEF Inv

----------------------------------------------------------------------------
(* Selects end                                                             *)

\* What the invariant says while a call runs.
LEMMA BusyIs ==
    ASSUME NEW h, NEW hd, NEW it, NEW c, Sound(h, hd, it, c), c # NoCall
    PROVE  /\ HeapOK(h) /\ HeldOK(h, hd) /\ IteratorOK(h, it)
           /\ \A t \in Tables : hd[t] = NoResult
           /\ c \in CallType /\ c.next \in c.wanted /\ c.got <= c.max
           /\ \A t \in Tables \ c.wanted : c.at[t] = Null
           /\ MadeOK(h, c) /\ Good(h, c.at)
  <1> DEFINE A == c.at  B == Results(hd, c)
  <1>1. \A t \in Tables : B[t] = A[t]
    BY ResultsBusy
  <1>2. Good(h, B)
    BY DEF Sound
  <1> HIDE DEF A, B
  <1>3. Good(h, A)
    BY <1>1, <1>2 DEF Good
  <1> QED
    BY <1>3 DEF Sound, CallOK, A

\* A select that fails or finds nothing frees what it made, with the
\* allocators that made it.
LEMMA ReturnNothingStep ==
    ASSUME NEW h, Sound(h, held, iterator, call), call # NoCall,
           call.mode # "iterate", FreedRight, ReturnNothing(h)
    PROVE  Inv'
  <1> DEFINE A == call.at  cols == {FreeBlock(call.columns)}
             h2 == FreeAll(h, Cleanup(h))  h3 == FreeAll(h2, cols)
             N == Results(held, NoCall)
  <1>1. /\ HeapOK(h) /\ HeldOK(h, held) /\ IteratorOK(h, iterator)
        /\ \A t \in Tables : held[t] = NoResult
        /\ call \in CallType /\ MadeOK(h, call) /\ Good(h, A)
    BY BusyIs
  <1>2. /\ call' = NoCall /\ heap' = h3 /\ held' = held /\ iterator' = iterator
        /\ faults' = (faults \cup Faults(h, Allocator, Cleanup(h)))
                             \cup Faults(h, NoAllocator, cols)
    BY DEF ReturnNothing
  <1>3. call.wanted \subseteq Tables /\ call.columns \in Blocks \cup {Null}
    BY <1>1, CallTypeIs
  <1>4. /\ call.columns # Null /\ h[call.columns].kind = "columns"
        /\ h[call.columns].by = NoAllocator
        /\ \A t \in call.wanted :
            /\ A[t] # Null
            /\ call.mode # ArrayMode => h[A[t]].kind = "list"
    BY <1>1 DEF MadeOK
  <1> HIDE DEF A
  <1>5. ASSUME NEW f \in Cleanup(h)
        PROVE  \E t \in Tables : A[t] # Null /\ FreeOf(h, A[t], f)
    <2>1. PICK t \in call.wanted :
              f \in IF call.mode = ArrayMode THEN {FreeBlock(A[t])}
                    ELSE ListFrees(h, A[t])
      BY DEF Cleanup, A
    <2>2. t \in Tables /\ A[t] # Null /\ Tree(h, t, A[t])
      BY <1>1, <1>3, <1>4 DEF Good
    <2>3. CASE call.mode = ArrayMode
      <3>1. f = FreeBlock(A[t])
        BY <2>1, <2>3
      <3> QED
        BY <1>1, <2>2, <3>1, HeadFreeOf
    <2>4. CASE call.mode # ArrayMode
      <3>1. f \in ListFrees(h, A[t])
        BY <2>1, <2>4
      <3> QED
        BY <1>1, <2>2, <3>1, ListFreesOf
    <2> QED
      BY <2>3, <2>4
  <1>6. Faults(h, Allocator, Cleanup(h)) = {}
    BY <1>1, <1>5, FreesRight
  <1>7. Faults(h, NoAllocator, cols) = {}
    <2>1. \A f \in cols : \E b \in Blocks :
              f = FreeBlock(b) /\ h[b].kind # "free" /\ h[b].by = NoAllocator
      BY <1>3, <1>4
    <2> HIDE DEF cols
    <2> QED
      BY <2>1, BlockFreesRight
  <1>8. \A f \in Cleanup(h) : f.ptr \in Blocks /\ h[f.ptr].kind \in Owned
    <2> SUFFICES ASSUME NEW f \in Cleanup(h)
                 PROVE  f.ptr \in Blocks /\ h[f.ptr].kind \in Owned
      OBVIOUS
    <2>1. PICK t \in Tables : A[t] # Null /\ FreeOf(h, A[t], f)
      BY <1>5
    <2>2. Tree(h, t, A[t])
      BY <1>1, <2>1 DEF Good
    <2>3. f.ptr \in Blocks /\ Uses(h, A[t], f.ptr)
      BY <1>1, <2>1, <2>2, FreeOfIs
    <2> QED
      BY <1>1, <2>2, <2>3, UsesKinds
  <1>9. \A f \in cols : f.ptr = call.columns
    BY DEF FreeBlock, Call
  <1> HIDE DEF cols
  <1>10. HeapOK(h2) /\ \A x \in Blocks : h2[x] =
             IF \E f \in Cleanup(h) : f.ptr = x THEN Free ELSE h[x]
    BY <1>1, FreeAllIs
  <1> HIDE DEF h2
  <1>11. HeapOK(h3) /\ \A x \in Blocks : h3[x] =
             IF \E f \in cols : f.ptr = x THEN Free ELSE h2[x]
    BY <1>10, FreeAllIs
  <1> HIDE DEF h3
  <1>12. \A x \in Blocks : h[x].kind \in {"iterator", "tables"} => h3[x] = h[x]
    BY <1>4, <1>8, <1>9, <1>10, <1>11 DEF Owned
  <1>13. IteratorOK(h3, iterator)
    BY <1>1, <1>12, IteratorKept
  <1>14. HeldOK(h3, held)
    BY <1>1, HeldNone
  <1>15. \A t \in Tables : N[t] = held[t].at /\ N[t] = Null
    BY <1>1, ResultsIdle
  <1> HIDE DEF N
  <1>16. Good(h3, N)
    BY <1>15, GoodNone
  <1>17. Sound(h3, held, iterator, NoCall)
    BY <1>11, <1>13, <1>14, <1>15, <1>16, SoundIdle
  <1>18. faults' \ faults = {}
    BY <1>2, <1>6, <1>7
  <1> QED
    BY <1>2, <1>17, <1>18, IdleEnd

\* The running call with the results at.
CallAt(at) == [call EXCEPT !.at = at]

\* The running select with other results is a running select.
LEMMA CallAtIs ==
    ASSUME call \in CallType, NEW at \in [Tables -> Blocks \cup {Null}]
    PROVE  LET c == CallAt(at)
           IN  /\ c \in CallType
               /\ c.mode = call.mode /\ c.wanted = call.wanted /\ c.max = call.max
               /\ c.got = call.got /\ c.next = call.next /\ c.at = at
               /\ c.columns = call.columns
  BY DEF CallAt, CallType

\* The caller holds the results A.
Given(hd, A, shape) ==
    hd = [t \in Tables |-> IF A[t] # Null THEN [shape |-> shape, at |-> A[t]]
                           ELSE NoResult]

\* What a select gives to the caller is held by the caller.
LEMMA GivenIs ==
    ASSUME NEW h, NEW A, NEW shape \in {"rows", "list"}, NEW hd, Given(hd, A, shape),
           \A t \in Tables : A[t] # Null => A[t] \in Blocks /\ h[A[t]].kind = shape
    PROVE  HeldOK(h, hd) /\ \A t \in Tables : A[t] = hd[t].at
  <1>1. ASSUME NEW t \in Tables
        PROVE  /\ A[t] = hd[t].at
               /\ \/ hd[t] = NoResult
                  \/ /\ hd[t] = [shape |-> hd[t].shape, at |-> hd[t].at]
                     /\ hd[t].at \in Blocks
                     /\ hd[t].shape \in {"rows", "list"}
                     /\ h[hd[t].at].kind = hd[t].shape
    <2>1. CASE A[t] # Null
      <3>1. hd[t] = [shape |-> shape, at |-> A[t]]
        BY <2>1 DEF Given
      <3>2. hd[t].at = A[t] /\ hd[t].shape = shape
        BY <3>1
      <3> QED
        BY <2>1, <3>1, <3>2
    <2>2. CASE A[t] = Null
      <3>1. hd[t] = NoResult
        BY <2>2 DEF Given
      <3> QED
        BY <2>2, <3>1 DEF NoResult
    <2> QED
      BY <2>1, <2>2
  <1>2. hd = [t \in Tables |-> hd[t]]
    BY DEF Given
  <1> QED
    BY <1>1, <1>2 DEF HeldOK

\* An iteration hands over the objects it made.
LEMMA ReturnObjectsStep ==
    ASSUME NEW h, NEW at \in [Tables -> Blocks \cup {Null}], call \in CallType,
           Sound(h, held, iterator, CallAt(at)), call.mode = "iterate",
           FreedRight, ReturnObjects(h, at)
    PROVE  Inv'
  <1> DEFINE c == CallAt(at)
  <1>1. c \in CallType /\ c.mode = "iterate" /\ c.wanted = call.wanted /\ c.at = at
    BY CallAtIs
  <1>2. c # NoCall
    BY <1>1, CallTypeIs
  <1> HIDE DEF c
  <1>3. Sound(h, held, iterator, c)
    BY DEF c
  <1>4. /\ HeapOK(h) /\ HeldOK(h, held) /\ IteratorOK(h, iterator)
        /\ \A t \in Tables : held[t] = NoResult
        /\ \A t \in Tables \ c.wanted : c.at[t] = Null
        /\ MadeOK(h, c) /\ Good(h, c.at)
    BY <1>2, <1>3, BusyIs
  <1>5. /\ call' = NoCall /\ heap' = h /\ iterator' = iterator /\ faults' = faults
        /\ held' = [t \in Tables |-> IF t \in call.wanted /\ at[t] # Null
                                     THEN [shape |-> "rows", at |-> at[t]]
                                     ELSE held[t]]
    BY DEF ReturnObjects, Give
  <1>6. Given(held', at, "rows")
    BY <1>1, <1>4, <1>5 DEF Given
  <1>7. \A t \in Tables : at[t] # Null => at[t] \in Blocks /\ h[at[t]].kind = "rows"
    BY <1>1, <1>4 DEF MadeOK
  <1>9. HeldOK(h, held') /\ \A t \in Tables : at[t] = held'[t].at
    BY <1>6, <1>7, GivenIs
  <1>10. Good(h, at)
    BY <1>1, <1>4
  <1>11. Sound(h, held', iterator, NoCall)
    BY <1>4, <1>9, <1>10, SoundIdle
  <1>12. faults' \ faults = {}
    BY <1>5
  <1>13. Sound(heap', held', iterator', NoCall)
    BY <1>5, <1>11
  <1> QED
    BY <1>5, <1>12, <1>13, IdleEnd

\* A select goes on to the next table or the next row.
LEMMA ContinueStep ==
    ASSUME NEW h, NEW at \in [Tables -> Blocks \cup {Null}], call \in CallType,
           Sound(h, held, iterator, CallAt(at)), call.got < call.max,
           call.mode = ArrayMode =>
               \A t \in call.wanted : \A r \in 1..call.max :
                   r > call.got + 1 \/ (r = call.got + 1 /\ t > call.next) =>
                       \A d \in DOMAIN Columns[t] : ~h[at[t]].rows[r][d].needfree,
           FreedRight, Continue(h, at)
    PROVE  Inv'
  <1> DEFINE c == CallAt(at)  c2 == call'
             later == {u \in call.wanted : u > call.next}
             next == IF later # {} THEN First(later) ELSE First(call.wanted)
             got == IF later # {} THEN call.got ELSE call.got + 1
  <1>1. /\ c \in CallType /\ c.mode = call.mode /\ c.wanted = call.wanted
        /\ c.max = call.max /\ c.got = call.got /\ c.next = call.next /\ c.at = at
        /\ c.columns = call.columns
    BY CallAtIs
  <1>2. c # NoCall
    BY <1>1, CallTypeIs
  <1> HIDE DEF c
  <1>3. Sound(h, held, iterator, c)
    BY DEF c
  <1>4. /\ HeapOK(h) /\ HeldOK(h, held) /\ IteratorOK(h, iterator)
        /\ \A t \in Tables : held[t] = NoResult
        /\ \A t \in Tables \ c.wanted : c.at[t] = Null
        /\ MadeOK(h, c) /\ Good(h, c.at)
    BY <1>2, <1>3, BusyIs
  <1>5. /\ heap' = h /\ held' = held /\ iterator' = iterator /\ faults' = faults
        /\ call' = IF later # {}
                   THEN [call EXCEPT !.next = First(later), !.at = at]
                   ELSE [call EXCEPT !.next = First(call.wanted), !.at = at,
                                     !.got = call.got + 1]
    BY DEF Continue
  <1>6. /\ call.mode \in Modes \cup {"iterate"}
        /\ call.wanted \subseteq Tables /\ call.wanted # {}
        /\ call.max \in 1..MaxRows /\ call.got \in Nat /\ call.next \in Tables
        /\ call.columns \in Blocks \cup {Null}
    BY CallTypeIs
  <1>7. /\ next \in call.wanted /\ next \in Tables
        /\ later # {} => next \in later /\ \A u \in later : next <= u
    <2>1. later \subseteq Tables
      BY <1>6
    <2> HIDE DEF later
    <2>2. later # {} => First(later) \in later /\ \A u \in later : First(later) <= u
      BY <2>1, FirstIs
    <2>3. First(call.wanted) \in call.wanted
      BY <1>6, FirstIs
    <2> QED
      BY <1>6, <2>2, <2>3 DEF later
  <1>8. got \in Nat /\ got <= call.max
    BY <1>6
  <1>9. call = [mode |-> call.mode, wanted |-> call.wanted, max |-> call.max,
                got |-> call.got, next |-> call.next, at |-> call.at,
                columns |-> call.columns]
    BY DEF CallType
  <1>10. call' = [mode |-> call.mode, wanted |-> call.wanted, max |-> call.max,
                  got |-> got, next |-> next, at |-> at, columns |-> call.columns]
    <2> HIDE DEF later
    <2>1. CASE later # {}
      <3>1. call' = [call EXCEPT !.next = First(later), !.at = at]
        BY <1>5, <2>1
      <3> QED
        BY <1>9, <2>1, <3>1
    <2>2. CASE later = {}
      <3>1. call' = [call EXCEPT !.next = First(call.wanted), !.at = at,
                                 !.got = call.got + 1]
        BY <1>5, <2>2
      <3> QED
        BY <1>9, <2>2, <3>1
    <2> QED
      BY <2>1, <2>2
  <1>11. later # {} => \A u \in call.wanted : u >= next => u > call.next
    <2> SUFFICES ASSUME later # {}, NEW u \in call.wanted, u >= next
                 PROVE  u > call.next
      OBVIOUS
    <2>1. next \in later
      BY <1>7
    <2>2. next > call.next
      BY <2>1
    <2>3. u \in Int /\ next \in Int /\ call.next \in Int
      BY <1>6, <1>7, TablesAre
    <2> HIDE DEF next
    <2> QED
      BY <2>2, <2>3
  <1>12. later # {} => got = call.got
    OBVIOUS
  <1>13. later = {} => got = call.got + 1
    OBVIOUS
  <1> HIDE DEF next, got, later
  <1>14. /\ c2 \in CallType
         /\ c2.mode = call.mode /\ c2.wanted = call.wanted /\ c2.max = call.max
         /\ c2.got = got /\ c2.next = next /\ c2.at = at
         /\ c2.columns = call.columns
    <2>1. call.wanted \in (SUBSET Tables) \ {{}}
      BY <1>6
    <2> QED
      BY <1>6, <1>7, <1>8, <1>10, <2>1 DEF CallType
  <1> HIDE DEF c2
  <1>15. MadeOK(h, c2)
    BY <1>1, <1>4, <1>14 DEF MadeOK
  <1>16. Sound(h, held, iterator, c2)
    <2>1. c2.next \in c2.wanted /\ c2.got <= c2.max
      BY <1>7, <1>8, <1>14
    <2>2. Good(h, c2.at) /\ \A t \in Tables \ c2.wanted : c2.at[t] = Null
      BY <1>1, <1>4, <1>14
    <2> QED
      BY <1>4, <1>14, <1>15, <2>1, <2>2, SoundBusy
  <1>17. c2.mode = ArrayMode => FreshRows(h, c2)
    <2> SUFFICES ASSUME call.mode = ArrayMode, NEW t \in call.wanted,
                        NEW r \in 1..call.max,
                        r > got + 1 \/ (r = got + 1 /\ t >= next),
                        NEW d \in DOMAIN Columns[t]
                 PROVE  ~h[at[t]].rows[r][d].needfree
      BY <1>14 DEF FreshRows
    <2>1. r \in Nat
      BY <1>6
    <2>2. r > call.got + 1 \/ (r = call.got + 1 /\ t > call.next)
      <3>1. CASE later # {}
        BY <1>11, <1>12, <3>1
      <3>2. CASE later = {}
        BY <1>6, <1>13, <2>1, <3>2
      <3> QED
        BY <3>1, <3>2
    <2> QED
      BY <2>2
  <1>18. /\ Sound(heap', held', iterator', call') /\ faults' = faults
         /\ (call'.mode = ArrayMode => FreshRows(heap', call'))
    BY <1>5, <1>16, <1>17 DEF c2
  <1> QED
    BY <1>18, BusyEnd

\* __list_cpy_free frees the head, the entries and the objects of a list, and
\* none of the copies that the rows point to.
LEMMA CopyFreesOf ==
    ASSUME NEW h, HeapOK(h), NEW t \in Tables, NEW a, Tree(h, t, a),
           NEW f \in CopyFrees(h, a)
    PROVE  \E b \in Blocks : f = FreeBlock(b) /\ Uses(h, a, b) /\ h[b].kind # "text"
  <1> DEFINE E == h[a].entries
  <1>1. CASE f = FreeBlock(a)
    <2>1. a \in Blocks /\ Holds(h, a, a) /\ h[a].kind # "text"
      BY TreeTypes DEF Tree
    <2> QED
      BY <1>1, <2>1 DEF Uses
  <1>2. ASSUME NEW e \in Range(E), f \in {FreeBlock(e.data), FreeBlock(e.entry)}
        PROVE  \E b \in Blocks : f = FreeBlock(b) /\ Uses(h, a, b) /\ h[b].kind # "text"
    <2>1. PICK k \in DOMAIN E : e = E[k]
      BY <1>2 DEF Range
    <2>2. /\ e.entry \in Blocks /\ e.data \in Blocks
          /\ h[e.entry].kind = "entry" /\ h[e.data].kind = "rows"
      BY <2>1, TreeTypes DEF Tree, EntriesOK, EntryKinds, EntryKind
    <2>3. Uses(h, a, e.data) /\ Uses(h, a, e.entry)
      BY <2>1, <2>2 DEF Holds, Uses
    <2> QED
      BY <1>2, <2>2, <2>3
  <1>3. f = FreeBlock(a) \/ \E e \in Range(E) :
                                f \in {FreeBlock(e.data), FreeBlock(e.entry)}
    BY DEF CopyFrees
  <1> QED
    BY <1>1, <1>2, <1>3

\* A select of arrays or lists hands over what it made and frees its columns.
LEMMA ReturnMadeStep ==
    ASSUME NEW h, Sound(h, held, iterator, call), call # NoCall,
           call.mode \in {ArrayMode, "some_list", "all_list"}, FreedRight, ReturnRows(h)
    PROVE  Inv'
  <1> DEFINE A == call.at  cols == {FreeBlock(call.columns)}
             h2 == FreeAll(h, {})  h3 == FreeAll(h2, cols)
             shape == IF call.mode = ArrayMode THEN "rows" ELSE "list"
  <1>1. /\ HeapOK(h) /\ HeldOK(h, held) /\ IteratorOK(h, iterator)
        /\ \A t \in Tables : held[t] = NoResult
        /\ call \in CallType /\ MadeOK(h, call) /\ Good(h, A)
        /\ \A t \in Tables \ call.wanted : A[t] = Null
    BY BusyIs
  <1>2. call.mode # "iterate" /\ call.mode # "all_array"
    BY DEF ArrayMode
  <1>3. /\ call' = NoCall /\ heap' = h3 /\ iterator' = iterator
        /\ faults' = (faults \cup Faults(h, Allocator, {}))
                             \cup Faults(h, NoAllocator, cols)
        /\ held' = [t \in Tables |-> IF t \in call.wanted /\ A[t] # Null
                                     THEN [shape |-> shape, at |-> A[t]] ELSE held[t]]
    BY <1>2 DEF ReturnRows, Give
  <1>4. /\ call.wanted \subseteq Tables /\ call.columns \in Blocks \cup {Null}
        /\ A \in [Tables -> Blocks \cup {Null}]
    BY <1>1, CallTypeIs
  <1>5. /\ call.columns # Null /\ h[call.columns].kind = "columns"
        /\ h[call.columns].by = NoAllocator
        /\ \A t \in call.wanted : A[t] # Null /\ h[A[t]].kind = shape
    BY <1>1, <1>2 DEF MadeOK
  <1>6. shape \in {"rows", "list"}
    OBVIOUS
  <1> HIDE DEF A, shape
  <1>7. Faults(h, Allocator, {}) = {}
    BY NoFaults
  <1>8. Faults(h, NoAllocator, cols) = {}
    <2>1. \A f \in cols : \E b \in Blocks :
              f = FreeBlock(b) /\ h[b].kind # "free" /\ h[b].by = NoAllocator
      BY <1>4, <1>5
    <2> HIDE DEF cols
    <2> QED
      BY <2>1, BlockFreesRight
  <1>9. \A f \in cols : f.ptr = call.columns
    BY DEF FreeBlock, Call
  <1> HIDE DEF cols
  <1>10. HeapOK(h2) /\ \A x \in Blocks : h2[x] = h[x]
    BY <1>1, FreeAllIs
  <1> HIDE DEF h2
  <1>11. HeapOK(h3) /\ \A x \in Blocks : h3[x] =
             IF \E f \in cols : f.ptr = x THEN Free ELSE h2[x]
    BY <1>10, FreeAllIs
  <1> HIDE DEF h3
  <1>12. \A x \in Blocks : h[x].kind # "columns" => h3[x] = h[x]
    BY <1>5, <1>9, <1>10, <1>11
  <1>13. IteratorOK(h3, iterator)
    <2>1. \A x \in Blocks : h[x].kind \in {"iterator", "tables"} => h3[x] = h[x]
      BY <1>12
    <2> QED
      BY <1>1, <2>1, IteratorKept
  <1>14. Good(h3, A)
    <2>1. \A x \in Blocks : h[x].kind \in Owned => h3[x] = h[x]
      BY <1>12 DEF Owned
    <2> QED
      BY <1>1, <2>1, GoodKept
  <1>15. HeldOK(h3, held') /\ \A t \in Tables : A[t] = held'[t].at
    <2>1. Given(held', A, shape)
      BY <1>1, <1>3 DEF Given
    <2>2. ASSUME NEW t \in Tables, A[t] # Null
          PROVE  A[t] \in Blocks /\ h3[A[t]].kind = shape
      <3>1. t \in call.wanted /\ A[t] \in Blocks
        BY <1>1, <1>4, <2>2
      <3>2. h[A[t]].kind = shape
        BY <1>5, <3>1
      <3>3. h3[A[t]] = h[A[t]]
        BY <1>6, <1>12, <3>1, <3>2
      <3> QED
        BY <3>1, <3>2, <3>3
    <2> HIDE DEF A, h3, shape
    <2> QED
      BY SMTT(30), <1>6, <2>1, <2>2, GivenIs
  <1>16. Sound(h3, held', iterator, NoCall)
    BY <1>11, <1>13, <1>14, <1>15, SoundIdle
  <1>17. faults' \ faults = {}
    BY <1>3, <1>7, <1>8
  <1>18. Sound(heap', held', iterator', NoCall)
    BY <1>3, <1>16
  <1> QED
    BY <1>3, <1>17, <1>18, IdleEnd

\* A select of all rows into arrays moves the rows out of its lists: each row
\* keeps its copies, and the lists are freed without them.
LEMMA ReturnArraysStep ==
    ASSUME Sound(heap, held, iterator, call), call # NoCall,
           call.mode = "all_array", FreedRight, Room(Cardinality(call.wanted)),
           ReturnRows(heap)
    PROVE  Inv'
  <1> DEFINE A == call.at  W == call.wanted  cols == {FreeBlock(call.columns)}
             arr(t) == ArrayOf(heap, t)
             X(t) == Block("rows", Allocator, t, CopiedRows(heap, A[t]), <<>>)
             made == [b \in {arr(t) : t \in W} |-> X(CHOOSE u \in W : arr(u) = b)]
             h1 == With(heap, made)
             frees == AllCopyFrees(heap)
             h2 == FreeAll(h1, frees)  h3 == FreeAll(h2, cols)
             B == [t \in Tables |-> IF t \in W THEN arr(t) ELSE Null]
  <1>1. /\ HeapOK(heap) /\ HeldOK(heap, held) /\ IteratorOK(heap, iterator)
        /\ \A t \in Tables : held[t] = NoResult
        /\ call \in CallType /\ MadeOK(heap, call) /\ Good(heap, A)
    BY BusyIs
  <1>2. WithArrays(heap) = h1
    BY DEF WithArrays
  <1>3. /\ call' = NoCall /\ heap' = h3 /\ iterator' = iterator
        /\ faults' = (faults \cup Faults(h1, Allocator, frees))
                             \cup Faults(h1, NoAllocator, cols)
        /\ Give("rows", [t \in W |-> arr(t)])
    <2> HIDE DEF h1
    <2> QED
      BY <1>2 DEF ReturnRows
  <1>4. /\ W \subseteq Tables /\ W # {} /\ call.columns \in Blocks \cup {Null}
        /\ A \in [Tables -> Blocks \cup {Null}]
    BY <1>1, CallTypeIs
  <1>5. /\ call.columns # Null /\ heap[call.columns].kind = "columns"
        /\ heap[call.columns].by = NoAllocator
        /\ \A t \in W : A[t] # Null /\ heap[A[t]].kind = "list"
    BY <1>1 DEF MadeOK, ArrayMode
  <1>6. \A t \in W : arr(t) = Malloc(heap, Rank(W, t))
    BY DEF ArrayOf, Rank
  <1>7. frees = UNION {CopyFrees(heap, A[t]) : t \in W}
    BY DEF AllCopyFrees
  <1>8. Room(Cardinality(W))
    OBVIOUS
  <1> HIDE DEF A, arr, frees
  <1>9. \A t \in W : t \in Tables /\ Tree(heap, t, A[t])
    BY <1>1, <1>4, <1>5 DEF Good
  \* The arrays.
  <1>10. Len(Columns) \in Nat /\ W \in SUBSET (1..Len(Columns))
         /\ IsFiniteSet(W) /\ Cardinality(W) \in Nat
    BY <1>4, TablesAre, FS_Subset, FS_CardinalityType
  <1> HIDE DEF W
  <1>11. \A t \in W : Rank(W, t) \in 1..Cardinality(W)
    BY <1>10, RankIs
  <1>12. \A k \in 1..Cardinality(W) :
             /\ k \in 1..Cardinality(Unused(heap))
             /\ Malloc(heap, k) \in Blocks /\ heap[Malloc(heap, k)].kind = "free"
    BY <1>8, <1>10, RoomIs
  <1>13. \A t \in W : arr(t) \in Blocks /\ heap[arr(t)].kind = "free"
    BY <1>6, <1>11, <1>12
  <1>14. ASSUME NEW t \in W, NEW u \in W, arr(t) = arr(u) PROVE t = u
    <2>1. Rank(W, t) = Rank(W, u)
      BY <1>6, <1>11, <1>12, <1>14, MallocApart
    <2> QED
      BY <1>10, <2>1, RankApart
  <1>15. \A t \in W : (CHOOSE u \in W : arr(u) = arr(t)) = t
    BY <1>14
  <1>16. \A t \in W : BlockOK(X(t))
    <2> SUFFICES ASSUME NEW t \in W PROVE BlockOK(X(t))
      OBVIOUS
    <2> DEFINE a == A[t]
    <2>1. t \in Tables /\ Tree(heap, t, a) /\ heap[a].kind = "list"
      BY <1>5, <1>9
    <2> HIDE DEF a
    <2>2. BlockOK(Block("rows", Allocator, t, CopiedRows(heap, a), <<>>))
      BY <1>1, <2>1, CopiedRowsIs
    <2> QED
      BY <2>2 DEF a
  <1>17. \A t \in W : X(t).kind = "rows" /\ X(t).by = Allocator
    BY DEF Block
  <1> HIDE DEF X
  <1>18. DOMAIN made = {arr(t) : t \in W} /\ \A t \in W : made[arr(t)] = X(t)
    BY <1>15
  <1> HIDE DEF made
  <1>19. HeapOK(h1) /\ \A x \in Blocks : h1[x] =
             IF x \in DOMAIN made THEN made[x] ELSE heap[x]
    <2>1. \A x \in Blocks \cap DOMAIN made : BlockOK(made[x])
      BY <1>16, <1>18
    <2> QED
      BY <1>1, <2>1, HeapPut
  <1> HIDE DEF h1
  <1>20. /\ \A t \in W : h1[arr(t)] = X(t)
         /\ \A x \in Blocks : heap[x].kind # "free" => h1[x] = heap[x]
    BY <1>13, <1>18, <1>19
  \* What is freed.
  <1>21. ASSUME NEW f \in frees
         PROVE  \E b \in Blocks :
                    /\ f = FreeBlock(b) /\ heap[b].kind \in Owned \ {"text"}
                    /\ h1[b].kind # "free" /\ h1[b].by = Allocator
    <2>1. PICK t \in W : f \in CopyFrees(heap, A[t])
      BY <1>7
    <2> DEFINE a == A[t]
    <2>2. t \in Tables /\ Tree(heap, t, a) /\ f \in CopyFrees(heap, a)
      BY <1>9, <2>1
    <2> HIDE DEF a
    <2>3. PICK b \in Blocks : f = FreeBlock(b) /\ Uses(heap, a, b) /\ heap[b].kind # "text"
      BY <1>1, <2>2, CopyFreesOf
    <2>4. heap[b].kind \in Owned /\ heap[b].by = Allocator
      BY <1>1, <2>2, <2>3, UsesKinds
    <2>5. heap[b].kind # "free" /\ h1[b] = heap[b]
      BY <1>20, <2>4 DEF Owned
    <2> QED
      BY <2>3, <2>4, <2>5
  <1>22. Faults(h1, Allocator, frees) = {}
    <2>1. \A f \in frees : \E b \in Blocks :
              f = FreeBlock(b) /\ h1[b].kind # "free" /\ h1[b].by = Allocator
      BY <1>21
    <2> QED
      BY <2>1, BlockFreesRight
  <1>23. Faults(h1, NoAllocator, cols) = {}
    <2>1. call.columns \in Blocks /\ h1[call.columns] = heap[call.columns]
      BY <1>4, <1>5, <1>20
    <2>2. \A f \in cols : \E b \in Blocks :
              f = FreeBlock(b) /\ h1[b].kind # "free" /\ h1[b].by = NoAllocator
      BY <1>5, <2>1
    <2> HIDE DEF cols
    <2> QED
      BY <2>2, BlockFreesRight
  <1>24. \A f \in cols : f.ptr = call.columns
    BY DEF FreeBlock, Call
  <1>25. \A f \in frees : f.ptr \in Blocks /\ heap[f.ptr].kind \in Owned \ {"text"}
    <2>1. \A b \in Blocks : FreeBlock(b).ptr = b
      BY DEF FreeBlock, Call
    <2> QED
      BY <1>21, <2>1
  <1> HIDE DEF cols
  <1>26. HeapOK(h2) /\ \A x \in Blocks : h2[x] =
             IF \E f \in frees : f.ptr = x THEN Free ELSE h1[x]
    BY <1>19, FreeAllIs
  <1> HIDE DEF h2
  <1>27. HeapOK(h3) /\ \A x \in Blocks : h3[x] =
             IF \E f \in cols : f.ptr = x THEN Free ELSE h2[x]
    BY <1>26, FreeAllIs
  <1> HIDE DEF h3
  <1>28. \A x \in Blocks : heap[x].kind \notin (Owned \ {"text"}) \cup {"columns"} =>
             h3[x] = h1[x]
    BY <1>5, <1>24, <1>25, <1>26, <1>27
  <1>29. \A x \in Blocks : heap[x].kind \in {"text", "iterator", "tables"} =>
             h3[x] = heap[x]
    BY <1>20, <1>28 DEF Owned
  <1>30. \A t \in W : h3[arr(t)] = X(t)
    BY <1>13, <1>20, <1>28 DEF Owned
  \* The results.
  <1>31. ASSUME NEW t \in W
         PROVE  /\ Tree(h3, t, arr(t))
                /\ \A x \in Blocks : Uses(h3, arr(t), x) =>
                       x = arr(t) \/ (Uses(heap, A[t], x) /\ heap[x].kind = "text")
    <2> DEFINE a == A[t]  n == arr(t)
    <2>1. t \in Tables /\ Tree(heap, t, a) /\ heap[a].kind = "list" /\ n \in Blocks
      BY <1>5, <1>9, <1>13
    <2>2. h3[n] = Block("rows", Allocator, t, CopiedRows(heap, a), <<>>)
      BY <1>30 DEF X
    <2>3. \A x \in Blocks : heap[x].kind = "text" => h3[x] = heap[x]
      BY <1>29
    <2> HIDE DEF a, n
    <2>4. /\ Tree(h3, t, n)
          /\ \A x \in Blocks : Uses(h3, n, x) =>
                 x = n \/ (Uses(heap, a, x) /\ heap[x].kind = "text")
      BY <1>1, <2>1, <2>2, <2>3, TreeCopy
    <2> QED
      BY <2>4 DEF a, n
  <1>32. /\ \A t \in W : B[t] = arr(t) /\ B[t] # Null
         /\ \A t \in Tables \ W : B[t] = Null
    BY <1>4, <1>13 DEF Blocks, Null, W
  <1> HIDE DEF B
  <1>33. Good(h3, B)
    <2>1. \A t \in Tables : B[t] # Null => Tree(h3, t, B[t])
      BY <1>31, <1>32
    <2>2. ASSUME NEW t \in Tables, NEW u \in Tables, t # u, B[t] # Null, B[u] # Null,
                 NEW x \in Blocks, Uses(h3, B[t], x), Uses(h3, B[u], x)
          PROVE  FALSE
      <3>1. t \in W /\ u \in W /\ B[t] = arr(t) /\ B[u] = arr(u)
        BY <1>32, <2>2
      <3>2. x = arr(t) \/ (Uses(heap, A[t], x) /\ heap[x].kind = "text")
        BY <1>31, <2>2, <3>1
      <3>3. x = arr(u) \/ (Uses(heap, A[u], x) /\ heap[x].kind = "text")
        BY <1>31, <2>2, <3>1
      <3>4. arr(t) # arr(u) /\ heap[arr(t)].kind = "free" /\ heap[arr(u)].kind = "free"
        BY <1>13, <1>14, <2>2, <3>1
      <3>5. Uses(heap, A[t], x) /\ Uses(heap, A[u], x)
        BY <3>2, <3>3, <3>4
      <3>6. A[t] # Null /\ A[u] # Null
        BY <1>5, <3>1
      <3> QED
        BY <1>1, <2>2, <3>5, <3>6 DEF Good
    <2> QED
      BY <2>1, <2>2 DEF Good
  <1>34. HeldOK(h3, held') /\ \A t \in Tables : B[t] = held'[t].at
    <2>1. held' = [t \in Tables |-> IF t \in W /\ [v \in W |-> arr(v)][t] # Null
                                    THEN [shape |-> "rows", at |-> [v \in W |-> arr(v)][t]]
                                    ELSE held[t]]
      BY <1>3 DEF Give, W
    <2>2. Given(held', B, "rows")
      BY <1>1, <1>32, <2>1 DEF Given
    <2>3. \A t \in Tables : B[t] # Null => B[t] \in Blocks /\ h3[B[t]].kind = "rows"
      BY <1>13, <1>17, <1>30, <1>32
    <2> QED
      BY <2>2, <2>3, GivenIs
  <1>35. IteratorOK(h3, iterator)
    <2>1. \A x \in Blocks : heap[x].kind \in {"iterator", "tables"} => h3[x] = heap[x]
      BY <1>29
    <2> QED
      BY <1>1, <2>1, IteratorKept
  <1>36. Sound(h3, held', iterator, NoCall)
    BY <1>27, <1>33, <1>34, <1>35, SoundIdle
  <1>37. faults' \ faults = {}
    BY <1>3, <1>22, <1>23
  <1>38. Sound(heap', held', iterator', NoCall)
    BY <1>3, <1>36
  <1> QED
    BY <1>3, <1>37, <1>38, IdleEnd

----------------------------------------------------------------------------
(* Rows of a select                                                        *)

\* The columns that _parse_select_result copies.
LEMMA CopiedIs ==
    ASSUME NEW t \in Tables, NEW vals \in RowValues(t)
    PROVE  /\ Len(Columns[t]) \in Nat /\ DOMAIN Columns[t] = 1..Len(Columns[t])
           /\ Copied(t, vals) \in SUBSET (1..Len(Columns[t]))
           /\ Cardinality(Copied(t, vals)) \in Nat
           /\ \A c \in Converted(vals) \ Copied(t, vals) :
                  IsHeap(t, c) => Columns[t][c] = "blob"
  <1>1. Columns[t] \in Seq({"number", "text", "blob", "stack"})
    BY ConstantsAssumption DEF Tables
  <1>2. Len(Columns[t]) \in Nat /\ DOMAIN Columns[t] = 1..Len(Columns[t])
    BY <1>1
  <1>3. /\ DOMAIN vals = DOMAIN Columns[t]
        /\ \A c \in DOMAIN vals : vals[c] \in ValuesOf(Columns[t][c])
    BY DEF RowValues
  <1>4. Copied(t, vals) \in SUBSET (1..Len(Columns[t]))
    BY <1>2, <1>3 DEF Copied, Converted
  <1>5. Cardinality(Copied(t, vals)) \in Nat
    <2>1. IsFiniteSet(1..Len(Columns[t]))
      BY <1>2, FS_Interval
    <2> QED
      BY <1>4, <2>1, FS_Subset, FS_CardinalityType
  <1>6. ASSUME NEW c \in Converted(vals) \ Copied(t, vals), IsHeap(t, c)
        PROVE  Columns[t][c] = "blob"
    <2>1. c \in DOMAIN vals /\ vals[c] # "null" /\ vals[c] # "fits"
      BY <1>6 DEF Converted, Copied
    <2>2. vals[c] \in ValuesOf(Columns[t][c]) /\ Columns[t][c] \in {"text", "blob"}
      BY <1>3, <1>6, <2>1 DEF IsHeap
    <2> QED
      BY <2>1, <2>2 DEF ValuesOf
  <1> QED
    BY <1>2, <1>4, <1>5, <1>6

\* Each copy is a block of its own.
LEMMA CopyOfIs ==
    ASSUME NEW t \in Tables, NEW vals \in RowValues(t), NEW h,
           Cardinality(Unused(h)) >= Cardinality(Copied(t, vals))
    PROVE  /\ \A c \in Copied(t, vals) :
                  CopyOf(h, t, vals, c) \in Blocks /\ h[CopyOf(h, t, vals, c)].kind = "free"
           /\ \A c, d \in Copied(t, vals) :
                  CopyOf(h, t, vals, c) = CopyOf(h, t, vals, d) => c = d
  <1> DEFINE C == Copied(t, vals)  n == Len(Columns[t])
  <1>1. n \in Nat /\ C \in SUBSET (1..n) /\ Cardinality(C) \in Nat
    BY CopiedIs
  <1>2. Cardinality(Unused(h)) \in Nat /\ Cardinality(Unused(h)) >= Cardinality(C)
    BY UnusedFinite
  <1>3. \A c \in C : CopyOf(h, t, vals, c) = Malloc(h, Rank(C, c))
    BY DEF CopyOf, Rank
  <1> HIDE DEF C, n
  <1>4. \A c \in C : Rank(C, c) \in 1..Cardinality(C)
    BY <1>1, RankIs
  <1>5. \A c \in C : Rank(C, c) \in 1..Cardinality(Unused(h))
    BY <1>1, <1>2, <1>4
  <1>6. \A c \in C : Malloc(h, Rank(C, c)) \in Unused(h)
    BY <1>5, MallocIs
  <1>7. \A c \in C : CopyOf(h, t, vals, c) \in Blocks
                     /\ h[CopyOf(h, t, vals, c)].kind = "free"
    BY <1>3, <1>6, UnusedIs
  <1>8. ASSUME NEW c \in C, NEW d \in C, CopyOf(h, t, vals, c) = CopyOf(h, t, vals, d)
        PROVE  c = d
    <2>1. Malloc(h, Rank(C, c)) = Malloc(h, Rank(C, d))
      BY <1>3, <1>8
    <2>2. Rank(C, c) = Rank(C, d)
      BY <1>5, <2>1, MallocApart
    <2> QED
      BY <1>1, <2>2, RankApart
  <1> QED
    BY <1>7, <1>8 DEF C

\* The heap with the copies in it.
LEMMA WithCopiesIs ==
    ASSUME NEW t \in Tables, NEW vals \in RowValues(t), NEW h, HeapOK(h),
           Cardinality(Unused(h)) >= Cardinality(Copied(t, vals))
    PROVE  LET g == WithCopies(h, t, vals, Allocator)
           IN  /\ HeapOK(g)
               /\ \A x \in Blocks : h[x].kind # "free" => g[x] = h[x]
               /\ \A c \in Copied(t, vals) :
                      /\ g[CopyOf(h, t, vals, c)].kind = "text"
                      /\ g[CopyOf(h, t, vals, c)].by = Allocator
  <1> DEFINE C == Copied(t, vals)  K(c) == CopyOf(h, t, vals, c)
             text == Block("text", Allocator, 0, <<>>, <<>>)
             f == [b \in {K(c) : c \in C} |-> text]
             g == With(h, f)
  <1>1. WithCopies(h, t, vals, Allocator) = g
    BY DEF WithCopies
  <1>2. \A c \in C : K(c) \in Blocks /\ h[K(c)].kind = "free"
    BY CopyOfIs
  <1>3. BlockOK(text) /\ text.kind = "text" /\ text.by = Allocator
    BY PlainBlockOK DEF Kinds, Block
  <1> HIDE DEF C, K, text
  <1>4. DOMAIN f = {K(c) : c \in C} /\ \A x \in DOMAIN f : f[x] = text
    OBVIOUS
  <1> HIDE DEF f
  <1>5. HeapOK(g) /\ \A x \in Blocks : g[x] = IF x \in DOMAIN f THEN f[x] ELSE h[x]
    <2>1. \A x \in Blocks \cap DOMAIN f : BlockOK(f[x])
      BY <1>3, <1>4
    <2> QED
      BY <2>1, HeapPut
  <1> HIDE DEF g
  <1>6. \A x \in Blocks : h[x].kind # "free" => g[x] = h[x]
    BY <1>2, <1>4, <1>5
  <1>7. \A c \in C : g[K(c)].kind = "text" /\ g[K(c)].by = Allocator
    BY <1>2, <1>3, <1>4, <1>5
  <1> QED
    BY <1>1, <1>5, <1>6, <1>7 DEF C, K

\* The row after _parse_select_result: NEEDFREE is set where a copy was made.
LEMMA ParsedRowIs ==
    ASSUME NEW t \in Tables, NEW vals \in RowValues(t), NEW h,
           Cardinality(Unused(h)) >= Cardinality(Copied(t, vals)),
           NEW row \in RowSet(t), \A c \in DOMAIN Columns[t] : ~row[c].needfree,
           \A c \in DOMAIN Columns[t] : KeysInside => ReadOK(t, c, row[c])
    PROVE  LET new == ParsedRow(h, t, row, vals)
           IN  /\ new \in RowSet(t)
               /\ \A c \in DOMAIN Columns[t] : new[c].needfree =>
                      c \in Copied(t, vals) /\ new[c].ptr = CopyOf(h, t, vals, c)
               /\ \A c \in DOMAIN Columns[t] : KeysInside => ReadOK(t, c, new[c])
  <1> DEFINE new == ParsedRow(h, t, row, vals)  C == Copied(t, vals)
             K(c) == CopyOf(h, t, vals, c)  D == DOMAIN Columns[t]
             M(c) == [ptr |-> IF c \in C THEN K(c) ELSE Null, valued |-> TRUE,
                      needfree |-> row[c].needfree \/ c \in C]
  <1>1. DOMAIN row = D /\ \A c \in D : row[c] \in Members
    BY DEF RowSet
  <1>2. new = [c \in D |-> IF c \notin Converted(vals) THEN row[c] ELSE M(c)]
    BY <1>1 DEF ParsedRow
  <1>3. \A c \in C : K(c) \in Blocks
    BY CopyOfIs
  <1>4. C \subseteq Converted(vals)
    BY DEF Copied
  <1>5. \A c \in Converted(vals) \ C : IsHeap(t, c) => Columns[t][c] = "blob"
    BY CopiedIs
  <1> HIDE DEF C, K, new
  <1>6. ASSUME NEW c \in D
        PROVE  /\ new[c] \in Members
               /\ new[c].needfree => c \in C /\ new[c].ptr = K(c)
               /\ KeysInside => ReadOK(t, c, new[c])
    <2>0. ~row[c].needfree /\ row[c] \in Members /\ (KeysInside => ReadOK(t, c, row[c]))
      BY <1>1
    <2>1. CASE c \notin Converted(vals)
      <3>1. new[c] = row[c]
        BY <1>2, <2>1
      <3> QED
        BY <2>0, <3>1
    <2>2. CASE c \in C
      <3>1. new[c] = M(c) /\ row[c].needfree \in BOOLEAN
        BY <1>2, <1>4, <2>0, <2>2 DEF Members
      <3>2. M(c) = [ptr |-> K(c), valued |-> TRUE, needfree |-> TRUE]
        BY <2>2
      <3> HIDE DEF M
      <3>3. new[c].ptr = K(c) /\ new[c].needfree
        BY <3>1, <3>2
      <3>4. new[c] \in Members
        BY <1>3, <2>2, <3>1, <3>2 DEF Members
      <3> QED
        BY <2>2, <3>3, <3>4 DEF ReadOK
    <2>3. CASE c \in Converted(vals) \ C
      <3>1. new[c] = M(c)
        BY <1>2, <2>3
      <3>2. M(c) = [ptr |-> Null, valued |-> TRUE, needfree |-> FALSE]
        BY <2>0, <2>3
      <3> HIDE DEF M
      <3>3. new[c].ptr = Null /\ ~new[c].needfree /\ new[c] \in Members
        BY <3>1, <3>2 DEF Members
      <3>4. ReadOK(t, c, new[c])
        BY <1>5, <2>3, <3>3 DEF ReadOK
      <3> QED
        BY <3>3, <3>4
    <2> QED
      BY <2>1, <2>2, <2>3
  <1>7. new \in [D -> Members]
    <2>1. new = [c \in D |-> new[c]]
      BY <1>2
    <2> QED
      BY <1>6, <2>1
  <1> QED
    BY <1>6, <1>7 DEF RowSet, new, C, K

\* Row r of block b, of the result of table t, takes the values of a row.
RowReady(h, c, t, b, r, vals) ==
    /\ t \in c.wanted /\ c.at[t] # Null /\ vals \in RowValues(t)
    /\ Cardinality(Unused(h)) >= Cardinality(Copied(t, vals))
    /\ Holds(h, c.at[t], b) /\ h[b].kind = "rows" /\ r \in DOMAIN h[b].rows
    /\ \A d \in DOMAIN Columns[t] : ~h[b].rows[r][d].needfree
RowTaken(h2, h, t, b, r, vals) ==
    RowPut(h2, WithCopies(h, t, vals, Allocator), b, r,
           ParsedRow(h, t, h[b].rows[r], vals))

\* _parse_select_result converts a row into row r of block b, which owns
\* nothing yet.
LEMMA RowConverted ==
    ASSUME NEW h, NEW hd, NEW it, NEW c \in CallType, Sound(h, hd, it, c),
           NEW t, NEW vals, NEW b, NEW r, RowReady(h, c, t, b, r, vals),
           NEW h2, RowTaken(h2, h, t, b, r, vals)
    PROVE  /\ Sound(h2, hd, it, c)
           /\ \A x \in Blocks \ {b} : h[x].kind # "free" => h2[x] = h[x]
           /\ \A q \in DOMAIN h[b].rows : q # r => h2[b].rows[q] = h[b].rows[q]
  <1> DEFINE A == c.at  a == A[t]  g == WithCopies(h, t, vals, Allocator)
             row == h[b].rows[r]  new == ParsedRow(h, t, row, vals)
             C == Copied(t, vals)  K(d) == CopyOf(h, t, vals, d)
  <1>0. /\ t \in c.wanted /\ A[t] # Null /\ vals \in RowValues(t)
        /\ Cardinality(Unused(h)) >= Cardinality(C)
        /\ Holds(h, a, b) /\ h[b].kind = "rows" /\ r \in DOMAIN h[b].rows
        /\ \A d \in DOMAIN Columns[t] : ~row[d].needfree
        /\ RowPut(h2, g, b, r, new)
    BY DEF RowReady, RowTaken
  <1>1. c # NoCall /\ t \in Tables
    BY <1>0, CallTypeIs
  <1>2. /\ HeapOK(h) /\ HeldOK(h, hd) /\ IteratorOK(h, it)
        /\ \A u \in Tables : hd[u] = NoResult
        /\ c.next \in c.wanted /\ c.got <= c.max
        /\ \A u \in Tables \ c.wanted : A[u] = Null
        /\ MadeOK(h, c) /\ Good(h, A)
    BY <1>1, BusyIs
  <1>3. Tree(h, t, a) /\ a # Null
    BY <1>0, <1>1, <1>2 DEF Good
  <1>4. b \in Blocks /\ h[b].table = t /\ BlockOK(h[b])
    <2>1. b \in Blocks /\ (b = a \/ \E k \in DOMAIN h[a].entries : b = h[a].entries[k].data)
      BY <1>0 DEF Holds
    <2>2. h[b].table = t
      BY <1>3, <2>1 DEF Tree, EntriesOK, EntryKinds, EntryKind
    <2> QED
      BY <1>2, <2>1, <2>2 DEF HeapOK
  <1>5. h[b].rows \in Seq(RowSet(t))
    BY <1>0, <1>4 DEF BlockOK
  <1>6. row \in RowSet(t) /\ r \in Nat /\ DOMAIN row = DOMAIN Columns[t]
    BY <1>0, <1>5 DEF RowSet
  <1>7. \A d \in DOMAIN Columns[t] : KeysInside => ReadOK(t, d, row[d])
    <2> SUFFICES ASSUME NEW d \in DOMAIN Columns[t], KeysInside
                 PROVE  ReadOK(t, d, row[d])
      OBVIOUS
    <2>1. d \in Nat
      BY <1>1, ColumnNumbers
    <2>2. Place(h, a, b, r, d)
      BY <1>0, <1>6 DEF Place
    <2>3. MembersOK(h, t, a)
      BY <1>3 DEF Tree
    <2> HIDE DEF a
    <2> QED
      BY <1>4, <1>6, <2>1, <2>2, <2>3, MemberRead
  <1>8. \A d \in DOMAIN Columns[t] : ~row[d].needfree
    BY <1>0
  <1>9. RowPut(h2, g, b, r, new)
    BY <1>0
  <1>10. Holds(h, a, b)
    BY <1>0
  <1> HIDE DEF a, row
  <1>11. /\ new \in RowSet(t)
         /\ \A d \in DOMAIN Columns[t] : new[d].needfree => d \in C /\ new[d].ptr = K(d)
         /\ \A d \in DOMAIN Columns[t] : KeysInside => ReadOK(t, d, new[d])
    BY <1>0, <1>1, <1>6, <1>7, <1>8, ParsedRowIs
  <1>12. /\ HeapOK(g)
         /\ \A x \in Blocks : h[x].kind # "free" => g[x] = h[x]
         /\ \A d \in C : g[K(d)].kind = "text" /\ g[K(d)].by = Allocator
    BY <1>0, <1>1, <1>2, WithCopiesIs
  <1>13. /\ \A d \in C : K(d) \in Blocks /\ h[K(d)].kind = "free"
         /\ \A d, e \in C : K(d) = K(e) => d = e
    BY <1>0, <1>1, CopyOfIs
  <1> HIDE DEF g, new, C, K
  <1>14. g[b] = h[b]
    BY <1>0, <1>4, <1>12
  <1>15. /\ HeapOK(h2) /\ RowWritten(h2, g, b, r, new)
         /\ \A y \in Blocks \ {b} : h2[y] = g[y]
    <2>1. g[b].kind = "rows" /\ r \in DOMAIN g[b].rows /\ new \in RowSet(g[b].table)
      BY <1>0, <1>4, <1>11, <1>14
    <2> QED
      BY <1>4, <1>9, <1>12, <2>1, HeapPutRow
  <1>16. RowWritten(h2, h, b, r, new)
    BY <1>14, <1>15 DEF RowWritten
  <1>17. \A x \in Blocks \ {b} : h[x].kind # "free" => h2[x] = h[x]
    BY <1>12, <1>15
  <1>18. RowFits(h2, h, t, b, r, new)
    <2>1. \A d \in C : K(d) # b
      BY <1>0, <1>4, <1>13
    <2>2. \A d \in C : h2[K(d)].kind = "text" /\ h2[K(d)].by = Allocator
      BY <1>12, <1>13, <1>15, <2>1
    <2>3. \A d \in DOMAIN Columns[t] : new[d].needfree =>
              /\ new[d].ptr \in Blocks /\ h[new[d].ptr].kind = "free"
              /\ h2[new[d].ptr].kind = "text" /\ h2[new[d].ptr].by = Allocator
      BY <1>11, <1>13, <2>2
    <2>4. \A d, e \in DOMAIN Columns[t] :
              new[d].needfree /\ new[e].needfree /\ new[d].ptr = new[e].ptr => d = e
      BY <1>11, <1>13
    <2> QED
      BY <1>11, <2>3, <2>4 DEF RowFits
  <1>19. /\ Tree(h2, t, a)
         /\ \A x \in Blocks : Uses(h2, a, x) => Uses(h, a, x) \/ h[x].kind = "free"
    BY <1>0, <1>1, <1>2, <1>3, <1>10, <1>11, <1>16, <1>17, <1>18, TreeRow
  <1>20. Good(h2, A)
    <2>1. Uses(h, a, b)
      BY <1>10 DEF Uses
    <2>2. \A x \in Blocks : h[x].kind \in Owned /\ ~(A[t] # Null /\ Uses(h, A[t], x))
                                => h2[x] = h[x]
      BY <1>3, <1>17, <2>1 DEF Owned, a
    <2>3. \A x \in Blocks : A[t] # Null /\ Uses(h2, A[t], x) =>
              \/ h[x].kind = "free"
              \/ A[t] # Null /\ Uses(h, A[t], x)
      BY <1>19 DEF a
    <2>4. A[t] # Null => Tree(h2, t, A[t])
      BY <1>19 DEF a
    <2>5. Good(h, A) /\ \A u \in Tables \ {t} : A[u] = A[u]
      BY <1>2
    <2> HIDE DEF A
    <2> QED
      BY <1>1, <1>2, <2>2, <2>3, <2>4, <2>5, GoodStep
  <1>21. \A x \in Blocks : h[x].kind # "free" =>
             /\ h2[x].kind = h[x].kind /\ h2[x].by = h[x].by
             /\ Len(h2[x].rows) = Len(h[x].rows)
    BY <1>0, <1>16, <1>17 DEF RowWritten
  <1>22. MadeOK(h2, c)
    <2>1. \A u \in Tables : c.at[u] # Null => c.at[u] \in Blocks /\ h[c.at[u]].kind # "free"
      <3> SUFFICES ASSUME NEW u \in Tables, c.at[u] # Null
                   PROVE  c.at[u] \in Blocks /\ h[c.at[u]].kind # "free"
        OBVIOUS
      <3>1. Tree(h, u, c.at[u])
        BY <1>2 DEF Good
      <3> QED
        BY <3>1 DEF Tree
    <2>2. c.wanted \subseteq Tables /\ c.columns \in Blocks \cup {Null}
      BY CallTypeIs
    <2>3. CASE c.mode = "iterate"
      BY <1>2, <1>21, <2>1, <2>3 DEF MadeOK
    <2>4. CASE c.mode # "iterate"
      <3>1. /\ c.columns # Null
            /\ h[c.columns].kind = "columns" /\ h[c.columns].by = NoAllocator
            /\ \A u \in c.wanted :
                /\ c.at[u] # Null
                /\ IF c.mode = ArrayMode
                   THEN h[c.at[u]].kind = "rows" /\ Len(h[c.at[u]].rows) = c.max
                   ELSE h[c.at[u]].kind = "list"
        BY <1>2, <2>4 DEF MadeOK
      <3>2. h2[c.columns].kind = "columns" /\ h2[c.columns].by = NoAllocator
        BY <1>21, <2>2, <3>1
      <3>3. \A u \in c.wanted :
                /\ c.at[u] # Null
                /\ IF c.mode = ArrayMode
                   THEN h2[c.at[u]].kind = "rows" /\ Len(h2[c.at[u]].rows) = c.max
                   ELSE h2[c.at[u]].kind = "list"
        BY <1>21, <2>1, <2>2, <3>1
      <3> QED
        BY <2>4, <3>1, <3>2, <3>3 DEF MadeOK
    <2> QED
      BY <2>3, <2>4
  <1>23. IteratorOK(h2, it)
    <2>1. \A x \in Blocks : h[x].kind \in {"iterator", "tables"} => h2[x] = h[x]
      BY <1>0, <1>17
    <2> QED
      BY <1>2, <2>1, IteratorKept
  <1>24. HeldOK(h2, hd)
    BY <1>2, HeldNone
  <1>25. Sound(h2, hd, it, c)
    <2>1. Good(h2, c.at)
      BY <1>20
    <2> QED
      BY <1>2, <1>15, <1>22, <1>23, <1>24, <2>1, SoundBusy
  <1> QED
    BY <1>16, <1>17, <1>25 DEF RowWritten

\* Two more blocks in use leave room for the rest.
LEMMA UnusedLeft ==
    ASSUME NEW h, NEW g, NEW n, NEW d,
           \A x \in Blocks \ {n, d} : h[x].kind = "free" => g[x].kind = "free"
    PROVE  Cardinality(Unused(g)) >= Cardinality(Unused(h)) - 2
  <1> DEFINE S == Unused(h)  S1 == S \ {n}  S2 == S1 \ {d}  T == Unused(g)
  <1>1. IsFiniteSet(S) /\ IsFiniteSet(T)
    BY UnusedFinite
  <1>2. S2 \subseteq T
    BY UnusedIs
  <1> HIDE DEF S, T
  <1>3. IsFiniteSet(S1) /\ Cardinality(S1) >= Cardinality(S) - 1
    <2>1. /\ IsFiniteSet(S1)
          /\ Cardinality(S1) = IF n \in S THEN Cardinality(S) - 1 ELSE Cardinality(S)
      BY <1>1, FS_RemoveElement
    <2>2. Cardinality(S) \in Nat
      BY <1>1, FS_CardinalityType
    <2> QED
      BY <2>1, <2>2
  <1> HIDE DEF S1
  <1>4. IsFiniteSet(S2) /\ Cardinality(S2) >= Cardinality(S1) - 1
    <2>1. /\ IsFiniteSet(S2)
          /\ Cardinality(S2) = IF d \in S1 THEN Cardinality(S1) - 1 ELSE Cardinality(S1)
      BY <1>3, FS_RemoveElement
    <2>2. Cardinality(S1) \in Nat
      BY <1>3, FS_CardinalityType
    <2> QED
      BY <2>1, <2>2
  <1> HIDE DEF S2
  <1>5. Cardinality(S2) <= Cardinality(T)
    BY <1>1, <1>2, FS_Subset
  <1>6. /\ Cardinality(S) \in Nat /\ Cardinality(S1) \in Nat /\ Cardinality(S2) \in Nat
        /\ Cardinality(T) \in Nat
    BY <1>1, <1>3, <1>4, FS_CardinalityType
  <1>7. Cardinality(T) >= Cardinality(S) - 2
    BY <1>3, <1>4, <1>5, <1>6
  <1> QED
    BY <1>7 DEF S, T

\* The room that a row of a select asks for.
LEMMA RowRoom ==
    ASSUME NEW t \in Tables, NEW vals \in RowValues(t),
           Room(2 + Cardinality(Tables) + Cardinality(Copied(t, vals))),
           NEW g, NEW n, NEW d,
           \A x \in Blocks \ {n, d} : heap[x].kind = "free" => g[x].kind = "free"
    PROVE  Cardinality(Unused(g)) >= Cardinality(Copied(t, vals))
  <1> DEFINE C == Cardinality(Copied(t, vals))  T == Cardinality(Tables)
             U == Cardinality(Unused(heap))  V == Cardinality(Unused(g))
  <1>1. C \in Nat /\ T \in Nat /\ U \in Nat /\ V \in Nat
    BY CopiedIs, TablesAre, UnusedFinite
  <1>2. U >= 2 + T + C
    BY DEF Room
  <1>3. V >= U - 2
    BY UnusedLeft
  <1> HIDE DEF C, T, U, V
  <1>4. V >= C
    BY <1>1, <1>2, <1>3
  <1> QED
    BY <1>4 DEF V, C

\* A place for a row is there: row r of block b owns nothing.
Prepared(h, at, b, r, vals) ==
    /\ at \in [Tables -> Blocks \cup {Null}]
    /\ Sound(h, held, iterator, CallAt(at))
    /\ at[call.next] # Null
    /\ Holds(h, at[call.next], b) /\ h[b].kind = "rows" /\ r \in DOMAIN h[b].rows
    /\ \A d \in DOMAIN Columns[call.next] : ~h[b].rows[r][d].needfree
    /\ Cardinality(Unused(h)) >= Cardinality(Copied(call.next, vals))

\* The running select with its own results is itself.
LEMMA CallAtSame ==
    ASSUME call \in CallType
    PROVE  CallAt(call.at) = call /\ call.at \in [Tables -> Blocks \cup {Null}]
  BY DEF CallAt, CallType

\* The row is converted into its place, and the select goes on or ends.
LEMMA RowStep ==
    ASSUME Inv, call # NoCall, call.got < call.max, NEW vals \in RowValues(call.next),
           NEW h, NEW at, NEW b, NEW r, Prepared(h, at, b, r, vals),
           call.mode # "iterate" => at = call.at,
           call.mode = ArrayMode =>
               h = heap /\ b = call.at[call.next] /\ r = call.got + 1,
           NEW h2, RowPut(h2, WithCopies(h, call.next, vals, Allocator), b, r,
                          ParsedRow(h, call.next,
                                    WithCopies(h, call.next, vals, Allocator)[b].rows[r],
                                    vals)),
           \/ ~ParseFails(vals) /\ Continue(h2, at)
           \/ ParseFails(vals) /\ call.mode = "iterate" /\ ReturnObjects(h2, at)
           \/ ParseFails(vals) /\ call.mode # "iterate" /\ ReturnNothing(h2)
    PROVE  Inv'
  <1> DEFINE t == call.next  c == CallAt(at)  g == WithCopies(h, t, vals, Allocator)
  <1>1. /\ call \in CallType /\ t \in call.wanted /\ call.wanted \subseteq Tables
        /\ t \in Tables /\ FreedRight /\ call.max \in 1..MaxRows /\ call.got \in Nat
        /\ HeapOK(heap) /\ MadeOK(heap, call) /\ Good(heap, call.at)
    <2>1. Sound(heap, held, iterator, call) /\ FreedRight
      BY DEF Inv
    <2>2. /\ call \in CallType /\ t \in call.wanted /\ HeapOK(heap)
          /\ MadeOK(heap, call) /\ Good(heap, call.at)
      BY <2>1, BusyIs
    <2> QED
      BY <2>1, <2>2, CallTypeIs
  <1>2. /\ at \in [Tables -> Blocks \cup {Null}] /\ Sound(h, held, iterator, c)
        /\ at[t] # Null /\ Holds(h, at[t], b) /\ h[b].kind = "rows"
        /\ r \in DOMAIN h[b].rows
        /\ \A d \in DOMAIN Columns[t] : ~h[b].rows[r][d].needfree
        /\ Cardinality(Unused(h)) >= Cardinality(Copied(t, vals))
    BY DEF Prepared
  <1>3. c \in CallType /\ c.wanted = call.wanted /\ c.at = at
    BY <1>1, <1>2, CallAtIs
  <1>4. c # NoCall
    BY <1>3, CallTypeIs
  <1>5. RowPut(h2, g, b, r, ParsedRow(h, t, g[b].rows[r], vals))
    OBVIOUS
  <1>6. vals \in RowValues(t)
    OBVIOUS
  <1> HIDE DEF c
  <1>7. RowPut(h2, g, b, r, ParsedRow(h, t, h[b].rows[r], vals))
    <2>1. HeapOK(h) /\ b \in Blocks
      BY <1>2, <1>4, BusyIs DEF Holds
    <2>2. g[b] = h[b]
      BY <1>1, <1>2, <1>6, <2>1, WithCopiesIs
    <2> HIDE DEF g, t
    <2> QED
      BY <1>5, <2>2
  <1>8. c.at[t] # Null /\ Holds(h, c.at[t], b) /\ t \in c.wanted
    BY <1>1, <1>2, <1>3
  <1> HIDE DEF t
  <1>9. /\ Sound(h2, held, iterator, c)
        /\ \A x \in Blocks \ {b} : h[x].kind # "free" => h2[x] = h[x]
        /\ \A q \in DOMAIN h[b].rows : q # r => h2[b].rows[q] = h[b].rows[q]
    <2>1. RowTaken(h2, h, t, b, r, vals)
      BY <1>7 DEF RowTaken
    <2>2. c \in CallType
      BY <1>3
    <2>3. RowReady(h, c, t, b, r, vals)
      BY <1>2, <1>6, <1>8 DEF RowReady
    <2>4. Sound(h, held, iterator, c)
      BY <1>2
    <2> HIDE DEF g
    <2> QED
      BY <2>1, <2>2, <2>3, <2>4, RowConverted
  <1>10. CASE ~ParseFails(vals)
    <2>1. Continue(h2, at)
      BY <1>10
    <2>2. ASSUME call.mode = ArrayMode, NEW u \in call.wanted, NEW q \in 1..call.max,
                 q > call.got + 1 \/ (q = call.got + 1 /\ u > call.next),
                 NEW d \in DOMAIN Columns[u]
          PROVE  ~h2[at[u]].rows[q][d].needfree
      <3>1. h = heap /\ b = call.at[t] /\ r = call.got + 1 /\ at = call.at
        BY <2>2 DEF t, ArrayMode
      <3>2. u \in Tables /\ u \in Int /\ t \in Int
        BY <1>1, TablesAre
      <3>3. ~heap[call.at[u]].rows[q][d].needfree
        <4>1. FreshRows(heap, call)
          BY <2>2 DEF Inv
        <4>2. q > call.got + 1 \/ (q = call.got + 1 /\ u >= call.next)
          BY <2>2, <3>2 DEF t
        <4> QED
          BY <4>1, <4>2 DEF FreshRows
      <3>4. /\ heap[call.at[u]].kind = "rows" /\ Len(heap[call.at[u]].rows) = call.max
            /\ call.at[u] # Null /\ call.at[t] # Null
        BY <1>1, <2>2 DEF MadeOK, ArrayMode
      <3>5. Tree(heap, u, call.at[u]) /\ Tree(heap, t, call.at[t])
        BY <1>1, <3>2, <3>4 DEF Good
      <3>6. call.at[u] \in Blocks /\ heap[call.at[u]].rows \in Seq(RowSet(u))
        BY <1>1, <3>4, <3>5 DEF Tree, HeapOK, BlockOK
      <3>7. q \in DOMAIN heap[call.at[u]].rows
        BY <3>4, <3>6
      <3>8. CASE u = t
        <4>1. q # r /\ call.at[u] = b
          BY <1>1, <2>2, <3>1, <3>2, <3>8 DEF t
        <4>2. h2[b].rows[q] = heap[b].rows[q]
          BY <1>9, <3>1, <3>7, <4>1
        <4> QED
          BY <3>1, <3>3, <4>1, <4>2
      <3>9. CASE u # t
        <4>1. call.at[u] # b
          <5>1. Uses(heap, call.at[u], call.at[u]) /\ Uses(heap, call.at[t], call.at[t])
            BY <1>1, <3>2, <3>5, TreeTypes DEF Uses
          <5> QED
            BY <1>1, <3>1, <3>2, <3>4, <3>6, <3>9, <5>1 DEF Good
        <4>2. h2[call.at[u]] = heap[call.at[u]]
          BY <1>9, <3>1, <3>4, <3>6, <4>1
        <4> QED
          BY <3>1, <3>3, <4>2
      <3> QED
        BY <3>8, <3>9
    <2>3. Sound(h2, held, iterator, CallAt(at))
      BY <1>9 DEF c
    <2> QED
      BY <1>1, <1>2, <2>1, <2>2, <2>3, ContinueStep
  <1>11. CASE ParseFails(vals) /\ call.mode = "iterate"
    <2>1. ReturnObjects(h2, at)
      BY <1>11
    <2>2. Sound(h2, held, iterator, CallAt(at))
      BY <1>9 DEF c
    <2> QED
      BY <1>1, <1>2, <1>11, <2>1, <2>2, ReturnObjectsStep
  <1>12. CASE ParseFails(vals) /\ call.mode # "iterate"
    <2>1. ReturnNothing(h2)
      BY <1>12
    <2>2. c = call
      BY <1>1, <1>12, CallAtSame DEF c
    <2>3. Sound(h2, held, iterator, call)
      BY <1>9, <2>2
    <2> QED
      BY <1>1, <1>12, <2>1, <2>3, ReturnNothingStep
  <1> QED
    BY <1>10, <1>11, <1>12

\* One object of zeroed members.
LEMMA NewObjectIs ==
    ASSUME NEW t \in Tables, NEW x, x = NewArray(t, 1, Allocator)
    PROVE  /\ BlockOK(x) /\ x.kind = "rows" /\ x.by = Allocator /\ x.table = t
           /\ x.entries = <<>> /\ DOMAIN x.rows = 1..1 /\ Len(x.rows) = 1
           /\ \A r \in 1..1 : /\ x.rows[r] \in RowSet(t)
                              /\ \A k \in DOMAIN Columns[t] : x.rows[r][k] = Unset
  <1> DEFINE n == 1  y == NewArray(t, n, Allocator)
  <1>1. n \in Nat /\ n = 1 /\ x = y
    OBVIOUS
  <1> HIDE DEF n
  <1>2. /\ BlockOK(y) /\ y.kind = "rows" /\ y.by = Allocator /\ y.table = t
        /\ y.entries = <<>> /\ DOMAIN y.rows = 1..n /\ Len(y.rows) = n
        /\ \A r \in 1..n : /\ y.rows[r] \in RowSet(t)
                           /\ \A k \in DOMAIN Columns[t] : y.rows[r][k] = Unset
    BY ZenonT(40), <1>1, NewArrayIs
  <1> HIDE DEF y
  <1> QED
    BY <1>1, <1>2

\* A new object of an iteration.
LEMMA ObjectMade ==
    ASSUME Inv, call # NoCall, call.mode = "iterate", NEW vals \in RowValues(call.next),
           Room(2 + Cardinality(Tables) + Cardinality(Copied(call.next, vals)))
    PROVE  LET d == Malloc(heap, 1)
           IN  Prepared([heap EXCEPT ![d] = NewArray(call.next, 1, Allocator)],
                        [call.at EXCEPT ![call.next] = d], d, 1, vals)
  <1> DEFINE d == Malloc(heap, 1)  t == call.next  x == NewArray(t, 1, Allocator)
             h == [heap EXCEPT ![d] = x]  at == [call.at EXCEPT ![t] = d]
             c == CallAt(at)  A == call.at
  <1>1. /\ HeapOK(heap) /\ HeldOK(heap, held) /\ IteratorOK(heap, iterator)
        /\ \A u \in Tables : held[u] = NoResult
        /\ call \in CallType /\ t \in call.wanted /\ call.got <= call.max
        /\ \A u \in Tables \ call.wanted : A[u] = Null
        /\ MadeOK(heap, call) /\ Good(heap, A)
    BY BusyIs DEF Inv
  <1>2. t \in Tables /\ A \in [Tables -> Blocks \cup {Null}]
    BY <1>1, CallTypeIs
  <1>3. vals \in RowValues(t)
        /\ Room(2 + Cardinality(Tables) + Cardinality(Copied(t, vals)))
    OBVIOUS
  <1>4. call.columns = Null /\ \A u \in Tables : A[u] # Null => heap[A[u]].kind = "rows"
    BY <1>1 DEF MadeOK
  <1> HIDE DEF t, A
  <1>5. d \in Blocks /\ heap[d].kind = "free" /\ d # Null
    <2>1. Cardinality(Copied(t, vals)) \in Nat /\ Cardinality(Tables) \in Nat
      BY <1>2, <1>3, CopiedIs, TablesAre
    <2> DEFINE n == 2 + Cardinality(Tables) + Cardinality(Copied(t, vals))
    <2>2. n \in Nat /\ 1 \in 1..n /\ Room(n)
      BY <1>3, <2>1
    <2> HIDE DEF n
    <2>3. d \in Blocks /\ heap[d].kind = "free"
      BY <2>2, RoomIs
    <2> QED
      BY <2>3 DEF Blocks, Null
  <1>6. /\ BlockOK(x) /\ x.kind = "rows" /\ x.by = Allocator /\ x.table = t
        /\ x.entries = <<>> /\ DOMAIN x.rows = 1..1
        /\ \A r \in 1..1 : /\ x.rows[r] \in RowSet(t)
                           /\ \A k \in DOMAIN Columns[t] : x.rows[r][k] = Unset
    BY <1>2, NewObjectIs
  <1> HIDE DEF d, x
  <1>7. HeapOK(h) /\ h[d] = x /\ \A y \in Blocks \ {d} : h[y] = heap[y]
    <2>1. HeapOK(h)
      BY <1>1, <1>5, <1>6, HeapPutOne
    <2>2. heap = [y \in Blocks |-> heap[y]]
      BY <1>1 DEF HeapOK
    <2> QED
      BY <1>5, <2>1, <2>2
  <1> HIDE DEF h
  <1>8. /\ at \in [Tables -> Blocks \cup {Null}] /\ at[t] = d
        /\ \A u \in Tables \ {t} : at[u] = A[u]
    BY <1>2, <1>5 DEF A
  <1> HIDE DEF at
  <1>9. /\ c \in CallType /\ c.mode = "iterate" /\ c.wanted = call.wanted
        /\ c.max = call.max /\ c.got = call.got /\ c.next = call.next /\ c.at = at
        /\ c.columns = call.columns
    BY <1>1, <1>8, CallAtIs
  <1> HIDE DEF c
  <1>10. Tree(h, t, d) /\ \A y \in Blocks : Uses(h, d, y) <=> y = d
    <2>1. /\ h[d].kind \in {"rows", "list"} /\ h[d].table = t /\ h[d].by = Allocator
          /\ h[d].entries = <<>>
      BY <1>6, <1>7
    <2>2. \A r \in DOMAIN h[d].rows : \A k \in DOMAIN h[d].rows[r] :
              h[d].rows[r][k] = Unset
      BY <1>6, <1>7 DEF RowSet
    <2> QED
      BY <1>2, <1>5, <2>1, <2>2, TreeBare
  <1>11. Good(h, at)
    <2>1. at[t] # Null => Tree(h, t, at[t])
      BY <1>8, <1>10
    <2>2. \A y \in Blocks : heap[y].kind \in Owned /\ ~(A[t] # Null /\ Uses(heap, A[t], y))
                                => h[y] = heap[y]
      BY <1>5, <1>7 DEF Owned
    <2>3. \A y \in Blocks : at[t] # Null /\ Uses(h, at[t], y) =>
              heap[y].kind = "free" \/ (A[t] # Null /\ Uses(heap, A[t], y))
      BY <1>5, <1>8, <1>10
    <2> QED
      BY <1>1, <1>2, <1>8, <2>1, <2>2, <2>3, GoodStep
  <1>12. MadeOK(h, c)
    <2>1. ASSUME NEW u \in Tables, at[u] # Null PROVE h[at[u]].kind = "rows"
      <3>1. CASE u = t
        BY <1>6, <1>7, <1>8, <3>1
      <3>2. CASE u # t
        <4>1. at[u] = A[u] /\ heap[A[u]].kind = "rows" /\ A[u] \in Blocks
          BY <1>2, <1>4, <1>8, <2>1, <3>2
        <4> QED
          BY <1>5, <1>7, <4>1
      <3> QED
        BY <3>1, <3>2
    <2> QED
      BY <1>4, <1>9, <2>1 DEF MadeOK
  <1>13. IteratorOK(h, iterator)
    <2>1. \A y \in Blocks : heap[y].kind \in {"iterator", "tables"} => h[y] = heap[y]
      BY <1>5, <1>7
    <2> QED
      BY <1>1, <2>1, IteratorKept
  <1>14. HeldOK(h, held)
    BY <1>1, HeldNone
  <1>15. Sound(h, held, iterator, c)
    <2>1. c.next \in c.wanted /\ c.got <= c.max
      BY <1>1, <1>9 DEF t
    <2>2. \A u \in Tables \ c.wanted : c.at[u] = Null
      BY <1>1, <1>8, <1>9
    <2>3. Good(h, c.at)
      BY <1>9, <1>11
    <2> QED
      BY <1>1, <1>7, <1>9, <1>12, <1>13, <1>14, <2>1, <2>2, <2>3, SoundBusy
  <1>16. Holds(h, at[t], d) /\ h[d].kind = "rows" /\ 1 \in DOMAIN h[d].rows /\ at[t] # Null
    BY <1>5, <1>6, <1>7, <1>8 DEF Holds
  <1>17. \A k \in DOMAIN Columns[t] : ~h[d].rows[1][k].needfree
    BY <1>6, <1>7 DEF Unset
  <1>18. Cardinality(Unused(h)) >= Cardinality(Copied(t, vals))
    <2>1. \A y \in Blocks \ {d, d} : heap[y].kind = "free" => h[y].kind = "free"
      BY <1>7
    <2> QED
      BY <1>2, <1>3, <2>1, RowRoom
  <1>19. Prepared(h, at, d, 1, vals)
    BY <1>8, <1>15, <1>16, <1>17, <1>18 DEF Prepared, t, c
  <1> QED
    BY <1>19 DEF h, at, d, x, t, A

\* A new entry and object of a list.
LEMMA EntryMade ==
    ASSUME Inv, call # NoCall, call.mode \in ListModes,
           NEW vals \in RowValues(call.next),
           Room(2 + Cardinality(Tables) + Cardinality(Copied(call.next, vals)))
    PROVE  LET n == Malloc(heap, 1)  d == Malloc(heap, 2)
           IN  Prepared([heap EXCEPT ![call.at[call.next]].entries =
                                         Append(@, [entry |-> n, data |-> d]),
                                     ![n] = Block("entry", Allocator, 0, <<>>, <<>>),
                                     ![d] = NewArray(call.next, 1, Allocator)],
                        call.at, d, 1, vals)
  <1> DEFINE n == Malloc(heap, 1)  d == Malloc(heap, 2)  t == call.next
             A == call.at  a == A[t]  x == NewArray(t, 1, Allocator)
             e == Block("entry", Allocator, 0, <<>>, <<>>)
             es == Append(heap[a].entries, [entry |-> n, data |-> d])
             h == [heap EXCEPT ![a].entries = Append(@, [entry |-> n, data |-> d]),
                               ![n] = e, ![d] = x]
  <1>1. /\ HeapOK(heap) /\ HeldOK(heap, held) /\ IteratorOK(heap, iterator)
        /\ \A u \in Tables : held[u] = NoResult
        /\ call \in CallType /\ t \in call.wanted /\ call.got <= call.max
        /\ \A u \in Tables \ call.wanted : A[u] = Null
        /\ MadeOK(heap, call) /\ Good(heap, A)
    BY BusyIs DEF Inv
  <1>2. /\ t \in Tables /\ A \in [Tables -> Blocks \cup {Null}]
        /\ call.columns \in Blocks \cup {Null} /\ call.wanted \subseteq Tables
    BY <1>1, CallTypeIs
  <1>3. vals \in RowValues(t)
        /\ Room(2 + Cardinality(Tables) + Cardinality(Copied(t, vals)))
    OBVIOUS
  <1>4. /\ call.mode # "iterate" /\ call.mode # ArrayMode
    BY DEF ListModes, ArrayMode
  <1>5. /\ call.columns # Null
        /\ heap[call.columns].kind = "columns" /\ heap[call.columns].by = NoAllocator
        /\ \A u \in call.wanted : A[u] # Null /\ heap[A[u]].kind = "list"
    BY <1>1, <1>4 DEF MadeOK
  <1>6. a # Null /\ heap[a].kind = "list" /\ Tree(heap, t, a) /\ a \in Blocks
    BY <1>1, <1>2, <1>5 DEF Good, Tree
  <1> HIDE DEF t, A
  <1>7. /\ n \in Blocks /\ heap[n].kind = "free" /\ d \in Blocks /\ heap[d].kind = "free"
        /\ n # d
    <2>1. Cardinality(Copied(t, vals)) \in Nat /\ Cardinality(Tables) \in Nat
      BY <1>2, <1>3, CopiedIs, TablesAre
    <2> DEFINE m == 2 + Cardinality(Tables) + Cardinality(Copied(t, vals))
    <2>2. m \in Nat /\ 1 \in 1..m /\ 2 \in 1..m /\ Room(m)
      BY <1>3, <2>1
    <2> HIDE DEF m
    <2>3. /\ n \in Blocks /\ heap[n].kind = "free" /\ d \in Blocks /\ heap[d].kind = "free"
          /\ 1 \in 1..Cardinality(Unused(heap)) /\ 2 \in 1..Cardinality(Unused(heap))
      BY <2>2, RoomIs
    <2>4. n # d
      BY <2>3, MallocApart
    <2> QED
      BY <2>3, <2>4
  <1>8. /\ BlockOK(x) /\ x.kind = "rows" /\ x.by = Allocator /\ x.table = t
        /\ x.entries = <<>> /\ DOMAIN x.rows = 1..1 /\ Len(x.rows) = 1
        /\ \A r \in 1..1 : /\ x.rows[r] \in RowSet(t)
                           /\ \A k \in DOMAIN Columns[t] : x.rows[r][k] = Unset
    <2> DEFINE o == NewArray(t, 1, Allocator)
    <2>1. x = o
      OBVIOUS
    <2> HIDE DEF x
    <2> QED
      BY <1>2, <2>1, NewObjectIs
  <1>9. BlockOK(e) /\ e.kind = "entry" /\ e.by = Allocator
    BY PlainBlockOK DEF Kinds, Block
  <1> HIDE DEF n, d, x, e, a
  <1>10. a # n /\ a # d
    BY <1>6, <1>7
  \* The list with its new entry.
  <1> DEFINE y == heap[a]  z == [y EXCEPT !.entries = es]
  <1>11. /\ BlockOK(z) /\ z.kind = "list" /\ z.by = y.by /\ z.table = y.table
         /\ z.rows = y.rows /\ z.entries = es
    <2>1. BlockOK(y) /\ y.kind = "list"
      BY <1>1, <1>6 DEF HeapOK
    <2> DEFINE old == y.entries  new == [entry |-> n, data |-> d]
    <2>2. old \in Seq(EntrySet)
      BY <2>1 DEF BlockOK
    <2>3. new \in EntrySet
      BY <1>7 DEF EntrySet
    <2>4. es = Append(old, new)
      OBVIOUS
    <2> HIDE DEF old, new, es
    <2>5. es \in Seq(EntrySet)
      BY <2>2, <2>3, <2>4
    <2> HIDE DEF y
    <2>6. y = Block(y.kind, y.by, y.table, y.rows, y.entries)
      BY <2>1 DEF BlockOK
    <2>7. /\ z.kind = y.kind /\ z.by = y.by /\ z.table = y.table
          /\ z.rows = y.rows /\ z.entries = es
      BY <2>6 DEF Block
    <2>8. z = Block(z.kind, z.by, z.table, z.rows, z.entries)
      BY <2>6 DEF Block
    <2>9. /\ y.kind \in Kinds /\ y.by \in {NoAllocator, Allocator}
          /\ y.table \in {0} \cup Tables /\ y.rows = <<>>
      BY <2>1 DEF BlockOK
    <2> HIDE DEF z
    <2> QED
      BY <2>1, <2>5, <2>7, <2>8, <2>9 DEF BlockOK
  <1>12. /\ HeapOK(h) /\ h[a] = z /\ h[n] = e /\ h[d] = x
         /\ \A b \in Blocks \ {a, n, d} : h[b] = heap[b]
    <2>1. heap = [b \in Blocks |-> heap[b]] /\ \A b \in Blocks : BlockOK(heap[b])
      BY <1>1 DEF HeapOK
    <2>2. h = [b \in Blocks |-> IF b = d THEN x ELSE IF b = n THEN e
                                ELSE IF b = a THEN z ELSE heap[b]]
      <3> HIDE DEF y
      <3>1. h = [heap EXCEPT ![a] = z, ![n] = e, ![d] = x]
        BY DEF y
      <3> HIDE DEF h, z
      <3> QED
        BY <2>1, <3>1
    <2> HIDE DEF h, z
    <2>3. /\ h[a] = z /\ h[n] = e /\ h[d] = x
          /\ \A b \in Blocks \ {a, n, d} : h[b] = heap[b]
          /\ h = [b \in Blocks |-> h[b]]
      BY <1>6, <1>7, <1>10, <2>2
    <2>4. \A b \in Blocks : BlockOK(h[b])
      BY <1>8, <1>9, <1>11, <2>1, <2>3
    <2> QED
      BY <2>3, <2>4 DEF HeapOK
  <1>13. /\ h[a].kind = heap[a].kind /\ h[a].by = heap[a].by
         /\ h[a].table = heap[a].table /\ h[a].rows = heap[a].rows
         /\ h[a].entries = Append(heap[a].entries, [entry |-> n, data |-> d])
    <2> HIDE DEF h, z
    <2> QED
      BY <1>6, <1>11, <1>12
  <1> HIDE DEF h, z, y, es
  <1>14. \A b \in Blocks \ {a} : heap[b].kind # "free" => h[b] = heap[b]
    BY <1>7, <1>12
  <1>15. /\ Tree(h, t, a) /\ Holds(h, a, d)
         /\ \A b \in Blocks : Uses(h, a, b) => Uses(heap, a, b) \/ heap[b].kind = "free"
    <2>1. \A r \in DOMAIN h[d].rows : \A k \in DOMAIN h[d].rows[r] :
              h[d].rows[r][k] = Unset
      BY <1>8, <1>12 DEF RowSet
    <2>2. /\ h[n].kind = "entry" /\ h[n].by = Allocator
          /\ h[d].kind = "rows" /\ h[d].table = t /\ h[d].by = Allocator
          /\ Len(h[d].rows) = 1
      BY <1>8, <1>9, <1>12
    <2> QED
      BY <1>1, <1>2, <1>6, <1>7, <1>13, <1>14, <2>1, <2>2, TreeAppend
  <1>16. Good(h, A)
    <2>1. Uses(heap, a, a)
      BY <1>1, <1>2, <1>6, TreeTypes DEF Uses
    <2>2. \A b \in Blocks : heap[b].kind \in Owned /\ ~(A[t] # Null /\ Uses(heap, A[t], b))
                                => h[b] = heap[b]
      BY <1>6, <1>14, <2>1 DEF Owned, a
    <2>3. \A b \in Blocks : A[t] # Null /\ Uses(h, A[t], b) =>
              heap[b].kind = "free" \/ (A[t] # Null /\ Uses(heap, A[t], b))
      BY <1>15 DEF a
    <2>4. A[t] # Null => Tree(h, t, A[t])
      BY <1>15 DEF a
    <2>5. \A u \in Tables \ {t} : A[u] = A[u]
      OBVIOUS
    <2> QED
      BY <1>1, <1>2, <2>2, <2>3, <2>4, <2>5, GoodStep
  <1>17. \A b \in Blocks : heap[b].kind # "free" =>
             h[b].kind = heap[b].kind /\ h[b].by = heap[b].by
    BY <1>13, <1>14
  <1>18. MadeOK(h, call)
    <2>1. h[call.columns].kind = "columns" /\ h[call.columns].by = NoAllocator
      BY <1>2, <1>5, <1>17
    <2>2. \A u \in call.wanted : A[u] # Null /\ h[A[u]].kind = "list"
      <3> SUFFICES ASSUME NEW u \in call.wanted PROVE A[u] # Null /\ h[A[u]].kind = "list"
        OBVIOUS
      <3>1. A[u] # Null /\ heap[A[u]].kind = "list" /\ A[u] \in Blocks
        BY <1>2, <1>5
      <3> QED
        BY <1>17, <3>1
    <2> QED
      BY <1>4, <1>5, <2>1, <2>2 DEF MadeOK, A
  <1>19. IteratorOK(h, iterator)
    <2>1. \A b \in Blocks : heap[b].kind \in {"iterator", "tables"} => h[b] = heap[b]
      BY <1>6, <1>14
    <2> QED
      BY <1>1, <2>1, IteratorKept
  <1>20. HeldOK(h, held)
    BY <1>1, HeldNone
  <1>21. Sound(h, held, iterator, call)
    <2>1. call.next \in call.wanted /\ Good(h, call.at)
          /\ \A u \in Tables \ call.wanted : call.at[u] = Null
      BY <1>1, <1>16 DEF t, A
    <2> QED
      BY <1>1, <1>12, <1>18, <1>19, <1>20, <2>1, SoundBusy
  <1>22. h[d].kind = "rows" /\ 1 \in DOMAIN h[d].rows
         /\ \A k \in DOMAIN Columns[t] : ~h[d].rows[1][k].needfree
    BY <1>8, <1>12 DEF Unset
  <1>23. Cardinality(Unused(h)) >= Cardinality(Copied(t, vals))
    <2>1. \A b \in Blocks \ {n, d} : heap[b].kind = "free" => h[b].kind = "free"
      BY <1>6, <1>12
    <2> QED
      BY <1>2, <1>3, <2>1, RowRoom
  <1>24. Prepared(h, A, d, 1, vals)
    <2>1. Sound(h, held, iterator, CallAt(A))
      BY <1>1, <1>21, CallAtSame DEF A
    <2>2. A[t] # Null /\ Holds(h, A[t], d)
      BY <1>6, <1>15 DEF a
    <2> QED
      BY <1>2, <1>22, <1>23, <2>1, <2>2 DEF Prepared, t
  <1> QED
    BY <1>24 DEF h, n, d, x, e, a, t, A

\* The next row of an array.
LEMMA ArrayPlace ==
    ASSUME Inv, call # NoCall, call.mode = ArrayMode, call.got < call.max,
           NEW vals \in RowValues(call.next),
           Room(2 + Cardinality(Tables) + Cardinality(Copied(call.next, vals)))
    PROVE  Prepared(heap, call.at, call.at[call.next], call.got + 1, vals)
  <1> DEFINE t == call.next  A == call.at  a == A[t]  r == call.got + 1
  <1>1. /\ HeapOK(heap) /\ call \in CallType /\ t \in call.wanted
        /\ MadeOK(heap, call) /\ Good(heap, A) /\ Sound(heap, held, iterator, call)
    BY BusyIs DEF Inv
  <1>2. /\ t \in Tables /\ A \in [Tables -> Blocks \cup {Null}]
        /\ call.max \in 1..MaxRows /\ call.got \in Nat
    BY <1>1, CallTypeIs
  <1>3. a # Null /\ heap[a].kind = "rows" /\ Len(heap[a].rows) = call.max
    BY <1>1 DEF MadeOK, ArrayMode
  <1>4. Tree(heap, t, a)
    BY <1>1, <1>2, <1>3 DEF Good
  <1>5. a \in Blocks /\ Holds(heap, a, a) /\ heap[a].table = t
    BY <1>1, <1>2, <1>4, TreeTypes DEF Tree
  <1>6. heap[a].rows \in Seq(RowSet(t))
    BY <1>1, <1>3, <1>5 DEF HeapOK, BlockOK
  <1>7. r \in 1..call.max
    BY <1>2
  <1>8. r \in DOMAIN heap[a].rows
    BY <1>3, <1>6, <1>7
  <1>9. \A d \in DOMAIN Columns[t] : ~heap[a].rows[r][d].needfree
    <2>1. FreshRows(heap, call)
      BY DEF Inv
    <2>2. t \in Int /\ t >= call.next
      BY <1>2, TablesAre
    <2>3. r > call.got + 1 \/ (r = call.got + 1 /\ t >= call.next)
      BY <2>2
    <2> QED
      BY <1>1, <1>7, <2>1, <2>3 DEF FreshRows
  <1>10. Cardinality(Unused(heap)) >= Cardinality(Copied(t, vals))
    <2>1. \A x \in Blocks \ {a, a} : heap[x].kind = "free" => heap[x].kind = "free"
      OBVIOUS
    <2> HIDE DEF a
    <2> QED
      BY <1>2, <2>1, RowRoom
  <1>11. Sound(heap, held, iterator, CallAt(call.at))
    BY <1>1, CallAtSame
  <1> QED
    BY <1>2, <1>3, <1>5, <1>8, <1>9, <1>10, <1>11 DEF Prepared

\* A row of a select.
LEMMA SelectRowStep ==
    ASSUME Inv, call # NoCall, NEW vals \in RowValues(call.next), SelectRow(vals)
    PROVE  Inv'
  <1> DEFINE t == call.next
             entry == Malloc(heap, 1)
             data == IF call.mode = "iterate" THEN Malloc(heap, 1) ELSE Malloc(heap, 2)
             object == NewArray(t, 1, Allocator)
             place == IF call.mode = ArrayMode THEN call.at[t] ELSE data
             r == IF call.mode = ArrayMode THEN call.got + 1 ELSE 1
             hi == [heap EXCEPT ![data] = object]
             hl == [heap EXCEPT ![call.at[t]].entries =
                                    Append(@, [entry |-> entry, data |-> data]),
                                ![entry] = Block("entry", Allocator, 0, <<>>, <<>>),
                                ![data] = object]
             h1 == CASE call.mode = ArrayMode -> heap
                     [] call.mode = "iterate" -> hi
                     [] OTHER -> hl
             h2 == [WithCopies(h1, t, vals, Allocator) EXCEPT
                       ![place].rows[r] = ParsedRow(h1, t, @, vals)]
             ai == [call.at EXCEPT ![t] = data]
             at == IF call.mode = "iterate" THEN ai ELSE call.at
  <1>1. /\ call.got < call.max
        /\ Room(2 + Cardinality(Tables) + Cardinality(Copied(t, vals)))
        /\ \/ ~ParseFails(vals) /\ Continue(h2, at)
           \/ ParseFails(vals) /\ call.mode = "iterate" /\ ReturnObjects(h2, at)
           \/ ParseFails(vals) /\ call.mode # "iterate" /\ ReturnNothing(h2)
    BY DEF SelectRow
  <1>2. RowPut(h2, WithCopies(h1, t, vals, Allocator), place, r,
               ParsedRow(h1, t, WithCopies(h1, t, vals, Allocator)[place].rows[r], vals))
    <2> HIDE DEF h1, place, r, t
    <2> QED
      BY DEF RowPut
  <1> HIDE DEF h2, hi, hl
  <1>3. call.mode \in Modes \cup {"iterate"}
    <2>1. call \in CallType
      BY BusyIs DEF Inv
    <2> QED
      BY <2>1, CallTypeIs
  <1>4. CASE call.mode = ArrayMode
    <2>1. /\ h1 = heap /\ at = call.at /\ place = call.at[call.next]
          /\ r = call.got + 1
      BY <1>4 DEF ArrayMode
    <2>2. Prepared(heap, call.at, call.at[call.next], call.got + 1, vals)
      BY <1>1, <1>4, ArrayPlace
    <2>3. Prepared(h1, at, place, r, vals)
      BY <2>1, <2>2
    <2>4. call.mode # "iterate"
      BY <1>4 DEF ArrayMode
    <2> HIDE DEF h1, at, place, r
    <2> QED
      BY <1>1, <1>2, <2>1, <2>3, <2>4, RowStep
  <1>5. CASE call.mode = "iterate"
    <2>1. call.mode # ArrayMode
      BY <1>5 DEF ArrayMode
    <2>2. h1 = hi /\ at = ai /\ place = data /\ r = 1
      BY <1>5, <2>1
    <2>3. data = Malloc(heap, 1)
      BY <1>5
    <2>4. Prepared(hi, ai, data, 1, vals)
      <3> DEFINE d == Malloc(heap, 1)
      <3>1. Prepared([heap EXCEPT ![d] = NewArray(call.next, 1, Allocator)],
                     [call.at EXCEPT ![call.next] = d], d, 1, vals)
        BY <1>1, <1>5, ObjectMade
      <3> HIDE DEF data, d
      <3>2. data = d
        BY <2>3 DEF d
      <3> QED
        BY <3>1, <3>2 DEF hi
    <2>5. Prepared(h1, at, place, r, vals)
      BY <2>2, <2>4
    <2> HIDE DEF h1, at, place, r
    <2> QED
      BY <1>1, <1>2, <1>5, <2>1, <2>5, RowStep
  <1>6. CASE call.mode \in ListModes
    <2>1. call.mode # ArrayMode /\ call.mode # "iterate"
      BY <1>6 DEF ArrayMode, ListModes
    <2>2. h1 = hl /\ at = call.at /\ place = data /\ r = 1
      BY <2>1
    <2>3. data = Malloc(heap, 2)
      BY <2>1
    <2>4. Prepared(hl, call.at, data, 1, vals)
      <3> DEFINE d == Malloc(heap, 2)
      <3>1. Prepared([heap EXCEPT ![call.at[call.next]].entries =
                                      Append(@, [entry |-> entry, data |-> d]),
                                  ![entry] = Block("entry", Allocator, 0, <<>>, <<>>),
                                  ![d] = NewArray(call.next, 1, Allocator)],
                     call.at, d, 1, vals)
        BY <1>1, <1>6, EntryMade
      <3> HIDE DEF data, d
      <3>2. data = d
        BY <2>3 DEF d
      <3> QED
        BY <3>1, <3>2 DEF hl
    <2>5. Prepared(h1, at, place, r, vals)
      BY <2>2, <2>4
    <2> HIDE DEF h1, place, r
    <2>6. call.mode # "iterate" => at = call.at
      BY <2>2
    <2> HIDE DEF at
    <2> QED
      BY <1>1, <1>2, <2>1, <2>5, <2>6, RowStep
  <1> QED
    BY <1>3, <1>4, <1>5, <1>6 DEF Modes

\* The end of a select.
LEMMA SelectEndStep ==
    ASSUME Inv, call # NoCall, NEW ok \in BOOLEAN, SelectEnd(ok)
    PROVE  Inv'
  <1>1. Sound(heap, held, iterator, call) /\ FreedRight
    BY DEF Inv
  <1>2. call \in CallType
    BY <1>1, BusyIs
  <1>3. call.mode \in Modes \cup {"iterate"}
    BY <1>2, CallTypeIs
  <1>4. /\ call.mode = "all_array" => Room(Cardinality(call.wanted))
        /\ IF call.mode = "iterate" THEN ReturnObjects(heap, call.at)
           ELSE IF ok /\ call.got > 0 THEN ReturnRows(heap)
           ELSE ReturnNothing(heap)
    BY DEF SelectEnd
  <1>5. CASE call.mode = "iterate"
    <2>1. /\ Sound(heap, held, iterator, CallAt(call.at))
          /\ call.at \in [Tables -> Blocks \cup {Null}]
      BY <1>1, <1>2, CallAtSame
    <2>2. ReturnObjects(heap, call.at)
      BY <1>4, <1>5
    <2> QED
      BY <1>1, <1>2, <1>5, <2>1, <2>2, ReturnObjectsStep
  <1>6. CASE call.mode # "iterate" /\ ok /\ call.got > 0
    <2>1. ReturnRows(heap)
      BY <1>4, <1>6
    <2>2. CASE call.mode = "all_array"
      BY <1>1, <1>4, <2>1, <2>2, ReturnArraysStep
    <2>3. CASE call.mode # "all_array"
      <3>1. call.mode \in {ArrayMode, "some_list", "all_list"}
        BY <1>3, <1>6, <2>3 DEF Modes, ListModes
      <3> QED
        BY <1>1, <2>1, <3>1, ReturnMadeStep
    <2> QED
      BY <2>2, <2>3
  <1>7. CASE call.mode # "iterate" /\ ~(ok /\ call.got > 0)
    <2>1. ReturnNothing(heap)
      BY <1>4, <1>7
    <2> QED
      BY <1>1, <1>7, <2>1, ReturnNothingStep
  <1> QED
    BY <1>5, <1>6, <1>7

----------------------------------------------------------------------------
(* The invariant                                                           *)

\* At the start nothing is allocated.
LEMMA InitInv ==
    ASSUME Init
    PROVE  Inv
  <1>1. HeapOK(heap)
    <2>1. BlockOK(Free)
      BY PlainBlockOK DEF Free, Kinds
    <2> QED
      BY <2>1 DEF Init, HeapOK
  <1>2. \A t \in Tables : held[t] = NoResult
    BY DEF Init
  <1>3. HeldOK(heap, held)
    BY <1>2 DEF Init, HeldOK
  <1>4. IteratorOK(heap, iterator)
    BY DEF Init, IteratorOK
  <1> DEFINE N == Results(held, NoCall)
  <1>5. \A t \in Tables : N[t] = held[t].at /\ N[t] = Null
    BY <1>2, ResultsIdle
  <1> HIDE DEF N
  <1>6. Good(heap, N)
    BY <1>5, GoodNone
  <1>7. Sound(heap, held, iterator, NoCall)
    BY <1>1, <1>3, <1>4, <1>5, <1>6, SoundIdle
  <1>8. call = NoCall /\ call.mode # ArrayMode /\ faults = {}
    BY DEF Init, NoCall, ArrayMode
  <1> QED
    BY <1>7, <1>8 DEF Inv, FreedRight

\* Every step keeps the invariant.
LEMMA Inductive ==
    ASSUME Inv, [Next]_vars
    PROVE  Inv'
  <1>1. CASE UNCHANGED vars
    BY <1>1 DEF Inv, vars, FreedRight
  <1>2. CASE Pause
    BY <1>2 DEF Pause, Inv, vars, FreedRight
  <1>3. CASE Ready /\ StartCall
    <2>1. call = NoCall
      BY <1>3 DEF Ready
    <2>2. CASE \E t \in Tables, n \in 1..MaxRows : SormNew(t, n)
      BY <2>1, <2>2, SormNewStep
    <2>3. CASE \E b \in CallersRows : \E r \in DOMAIN heap[b].rows :
                   \/ Save(b, r)
                   \/ \E c \in DOMAIN heap[b].rows[r] : SetColumnValue(b, r, c)
      BY <2>1, <2>3, SaveStep, SetColumnValueStep
    <2>4. CASE \E t \in Tables : SormFree(t) \/ SormFreeArray(t) \/ SormListFree(t)
      BY <2>1, <2>4, FreeSteps
    <2>5. CASE \E mode \in Modes, W \in (SUBSET Tables) \ {{}}, max \in 1..MaxRows :
                   SelectBegin(mode, W, max)
      BY <2>1, <2>5, SelectBeginStep
    <2>6. CASE \E W \in (SUBSET Tables) \ {{}} : IterateBegin(W)
      BY <2>1, <2>6, IterateBeginStep
    <2>7. CASE \E ok \in BOOLEAN : IterOpen(ok)
      BY <2>1, <2>7, IterOpenStep
    <2>8. CASE IterClose
      BY <2>1, <2>8, IterCloseStep
    <2> QED
      BY <1>3, <2>2, <2>3, <2>4, <2>5, <2>6, <2>7, <2>8 DEF StartCall
  <1>4. CASE call # NoCall /\ GoOn
    <2>1. CASE \E vals \in RowValues(call.next) : SelectRow(vals)
      BY <1>4, <2>1, SelectRowStep
    <2>2. CASE \E ok \in BOOLEAN : SelectEnd(ok)
      BY <1>4, <2>2, SelectEndStep
    <2> QED
      BY <1>4, <2>1, <2>2 DEF GoOn
  <1> QED
    BY <1>1, <1>2, <1>3, <1>4 DEF Next

\* The invariant holds in all reachable states.
LEMMA InvHolds ==
    Spec => []Inv
  BY InitInv, Inductive, PTL DEF Spec

----------------------------------------------------------------------------
(* What can be reached                                                     *)

\* The roots are results, or helper blocks without rows and entries.
LEMMA RootsIs ==
    ASSUME Inv, NEW x \in Roots, x \in Blocks
    PROVE  \/ \E t \in Tables : Results(held, call)[t] # Null
                                /\ Results(held, call)[t] = x
           \/ heap[x].kind \in {"iterator", "tables", "columns"}
  <1> DEFINE A == Results(held, call)
  <1>1. /\ HeldOK(heap, held) /\ IteratorOK(heap, iterator)
        /\ CallOK(heap, held, call)
    BY DEF Inv, Sound
  <1>2. x # Null
    BY DEF Blocks, Null
  <1>3. CASE \E t \in Tables : x = held[t].at
    <2>1. PICK t \in Tables : x = held[t].at
      BY <1>3
    <2>2. held[t] # NoResult
      BY <1>2, <2>1 DEF NoResult
    <2>3. call = NoCall
      BY <1>1, <2>2 DEF CallOK
    <2>4. A[t] = x
      BY <2>1, <2>3 DEF Results
    <2> QED
      BY <1>2, <2>4
  <1>4. CASE x \in {iterator.self, iterator.columns, iterator.tables}
    BY <1>1, <1>2, <1>4 DEF IteratorOK, NoIterator
  <1>5. CASE x \in Range(call.at)
    <2>1. CASE call = NoCall
      <3>1. Range(NoCall.at) \subseteq {Null}
        BY DEF NoCall, Range
      <3> QED
        BY <1>2, <1>5, <2>1, <3>1
    <2>2. CASE call # NoCall
      <3>1. call \in CallType
        BY <1>1, <2>2 DEF CallOK
      <3>2. call.at \in [Tables -> Blocks \cup {Null}]
        BY <3>1, CallTypeIs
      <3>3. PICK t \in Tables : x = call.at[t]
        BY <1>5, <3>2 DEF Range
      <3>4. A[t] = x
        BY <2>2, <3>3, ResultsBusy
      <3> QED
        BY <1>2, <3>4
    <2> QED
      BY <2>1, <2>2
  <1>6. CASE x = call.columns
    <2>1. call # NoCall
      BY <1>2, <1>6 DEF NoCall
    <2>2. MadeOK(heap, call)
      BY <1>1, <2>1 DEF CallOK
    <2> QED
      BY <1>2, <1>6, <2>2 DEF MadeOK
  <1> QED
    BY <1>3, <1>4, <1>5, <1>6 DEF Roots

\* The containers belong to results or are helper blocks.
LEMMA ContainersIs ==
    ASSUME Inv, NEW x \in Containers, x \in Blocks
    PROVE  \/ \E t \in Tables : /\ Results(held, call)[t] # Null
                                /\ Uses(heap, Results(held, call)[t], x)
                                /\ heap[x].kind = "rows" =>
                                       Holds(heap, Results(held, call)[t], x)
           \/ heap[x].kind \in {"iterator", "tables", "columns"}
  <1> DEFINE A == Results(held, call)
  <1>1. HeapOK(heap) /\ Good(heap, A)
    BY DEF Inv, Sound
  <1>2. CASE x \in Roots
    <2>1. CASE \E t \in Tables : A[t] # Null /\ A[t] = x
      <3>1. PICK t \in Tables : A[t] # Null /\ A[t] = x
        BY <2>1
      <3>2. Holds(heap, A[t], x)
        BY <3>1 DEF Holds
      <3> QED
        BY <3>1, <3>2 DEF Uses
    <2> QED
      BY <1>2, <2>1, RootsIs
  <1>3. ASSUME NEW b \in Roots, b \in Blocks, NEW e \in Range(heap[b].entries),
               x = e.entry \/ x = e.data
        PROVE  \E t \in Tables : /\ A[t] # Null /\ Uses(heap, A[t], x)
                                 /\ heap[x].kind = "rows" => Holds(heap, A[t], x)
    <2>1. PICK k \in DOMAIN heap[b].entries : e = heap[b].entries[k]
      BY <1>3 DEF Range
    <2>2. heap[b].kind = "list"
      <3>1. BlockOK(heap[b])
        BY <1>1, <1>3 DEF HeapOK
      <3>2. heap[b].entries # <<>>
        BY <2>1
      <3> QED
        BY <3>1, <3>2 DEF BlockOK
    <2>3. PICK t \in Tables : A[t] # Null /\ A[t] = b
      BY <1>3, <2>2, RootsIs
    <2>4. Tree(heap, t, A[t])
      BY <1>1, <2>3 DEF Good
    <2>5. CASE x = e.entry
      <3>1. heap[x].kind = "entry"
        BY <2>1, <2>3, <2>4, <2>5 DEF Tree, EntriesOK, EntryKinds, EntryKind
      <3>2. Uses(heap, A[t], x)
        BY <2>1, <2>3, <2>5 DEF Uses
      <3> QED
        BY <2>3, <3>1, <3>2
    <2>6. CASE x = e.data
      <3>1. Holds(heap, A[t], x)
        BY <2>1, <2>3, <2>6 DEF Holds
      <3> QED
        BY <2>3, <3>1 DEF Uses
    <2> QED
      BY <1>3, <2>5, <2>6
  <1>4. x \in Roots \/ \E b \in Roots : /\ b \in Blocks
                                        /\ \E e \in Range(heap[b].entries) :
                                               x = e.entry \/ x = e.data
    BY DEF Containers, Entries
  <1> QED
    BY <1>2, <1>3, <1>4

\* The places of the rows of blocks B.
LEMMA PlacesIs ==
    ASSUME NEW B, NEW p \in Places(B)
    PROVE  /\ p = <<p[1], p[2], p[3]>>
           /\ p[1] \in B /\ p[1] \in Blocks
           /\ p[2] \in DOMAIN heap[p[1]].rows
           /\ p[3] \in DOMAIN heap[p[1]].rows[p[2]]
  <1>1. PICK y \in Rows(B) : p \in {<<y[1], y[2], c>> : c \in DOMAIN heap[y[1]].rows[y[2]]}
    BY DEF Places
  <1>2. PICK c \in DOMAIN heap[y[1]].rows[y[2]] : p = <<y[1], y[2], c>>
    BY <1>1
  <1>3. PICK b \in B \cap Blocks : y \in {<<b, r>> : r \in DOMAIN heap[b].rows}
    BY <1>1 DEF Rows
  <1>4. PICK r \in DOMAIN heap[b].rows : y = <<b, r>>
    BY <1>3
  <1>5. y[1] = b /\ y[2] = r
    BY <1>4
  <1>6. p[1] = b /\ p[2] = r /\ p[3] = c
    BY <1>2, <1>5
  <1> QED
    BY <1>2, <1>3, <1>5, <1>6

\* A place is in an array or object of a table, and holds a member.
LEMMA PlaceTypes ==
    ASSUME Inv, NEW b \in Blocks, NEW r \in DOMAIN heap[b].rows,
           NEW c \in DOMAIN heap[b].rows[r]
    PROVE  /\ heap[b].kind = "rows" /\ r \in Nat /\ c \in Nat
           /\ heap[b].rows[r][c] \in Members
  <1>1. BlockOK(heap[b])
    BY DEF Inv, Sound, HeapOK
  <1>2. heap[b].kind = "rows"
    <2>1. heap[b].rows # <<>>
      OBVIOUS
    <2> QED
      BY <1>1, <2>1 DEF BlockOK
  <1>3. heap[b].table \in Tables /\ heap[b].rows \in Seq(RowSet(heap[b].table))
    BY <1>1, <1>2 DEF BlockOK
  <1>4. r \in Nat /\ heap[b].rows[r] \in RowSet(heap[b].table)
    BY <1>3
  <1>5. c \in DOMAIN Columns[heap[b].table] /\ heap[b].rows[r][c] \in Members
    BY <1>4 DEF RowSet
  <1> QED
    BY <1>2, <1>3, <1>4, <1>5, ColumnNumbers

----------------------------------------------------------------------------
(* The theorems                                                            *)

\* Every block of the heap, every handle and the call that runs are of their
\* shapes, whatever the caller and sqlite3_step do, for all tables and bounds.
THEOREM TypeCorrect ==
    Spec => []TypeOK
  <1>1. ASSUME Inv PROVE TypeOK
    <2>1. HeapOK(heap) /\ HeldOK(heap, held) /\ CallOK(heap, held, call)
      BY <1>1 DEF Inv, Sound
    <2>2. ASSUME NEW b \in Blocks
          PROVE  /\ heap[b].kind \in {"free", "rows", "list", "entry", "text", "columns",
                                      "iterator", "tables"}
                 /\ heap[b].by \in {NoAllocator, Allocator}
                 /\ heap[b].table \in {0} \cup Tables
                 /\ heap[b].entries # <<>> => heap[b].kind = "list"
                 /\ heap[b].rows # <<>> => heap[b].kind = "rows"
      <3>1. BlockOK(heap[b])
        BY <2>1 DEF HeapOK
      <3> QED
        BY <3>1 DEF BlockOK, Kinds
    <2>3. ASSUME NEW p \in Places(Blocks) PROVE Member(p) \in Members
      <3>1. /\ p[1] \in Blocks /\ p[2] \in DOMAIN heap[p[1]].rows
            /\ p[3] \in DOMAIN heap[p[1]].rows[p[2]]
        BY <2>3, PlacesIs
      <3>2. heap[p[1]].rows[p[2]][p[3]] \in Members
        BY <1>1, <3>1, PlaceTypes
      <3> QED
        BY <3>2 DEF Member
    <2>4. \A t \in Tables :
              \/ held[t] = NoResult
              \/ held[t].shape \in {"rows", "list"} /\ held[t].at \in Blocks
      BY <2>1 DEF HeldOK
    <2>5. /\ call.got \in 0..call.max /\ call.max \in 0..MaxRows
          /\ call.wanted \subseteq Tables
          /\ call # NoCall => call.next \in call.wanted
      <3>1. CASE call = NoCall
        BY <3>1, ConstantsAssumption DEF NoCall
      <3>2. CASE call # NoCall
        <4>1. call \in CallType /\ call.next \in call.wanted /\ call.got <= call.max
          BY <2>1, <3>2 DEF CallOK
        <4>2. /\ call.wanted \subseteq Tables
              /\ call.max \in 1..MaxRows /\ call.got \in Nat
          BY <4>1, CallTypeIs
        <4> QED
          BY <4>1, <4>2, ConstantsAssumption
      <3> QED
        BY <3>1, <3>2
    <2> QED
      BY <2>2, <2>3, <2>4, <2>5 DEF TypeOK, Members
  <1> QED
    BY <1>1, InvHolds, PTL

\* An owner in the sense of OneOwner is one of the inductive invariant.
LEMMA OwnersAre ==
    ASSUME Inv, NEW p \in Places(Containers), Member(p).needfree
    PROVE  /\ p = <<p[1], p[2], p[3]>> /\ p[1] \in Blocks /\ p[2] \in Nat /\ p[3] \in Nat
           /\ \E t \in Tables : /\ Results(held, call)[t] # Null
                                /\ Owner(heap, Results(held, call)[t], p[1], p[2], p[3])
  <1> DEFINE A == Results(held, call)
  <1>1. /\ p = <<p[1], p[2], p[3]>> /\ p[1] \in Containers /\ p[1] \in Blocks
        /\ p[2] \in DOMAIN heap[p[1]].rows /\ p[3] \in DOMAIN heap[p[1]].rows[p[2]]
    BY PlacesIs
  <1>2. heap[p[1]].kind = "rows" /\ p[2] \in Nat /\ p[3] \in Nat
    BY <1>1, PlaceTypes
  <1>3. PICK t \in Tables : A[t] # Null /\ Holds(heap, A[t], p[1])
    BY <1>1, <1>2, ContainersIs
  <1>4. Owner(heap, A[t], p[1], p[2], p[3])
    BY <1>1, <1>3 DEF Owner, Place, Member
  <1> QED
    BY <1>1, <1>2, <1>3, <1>4

\* Ownership, for all tables and bounds: whatever selects, sets, saves and
\* frees came before, each member marked NEEDFREE points to a live copy of the
\* caller's allocator that no other member is marked for, so sorm_free of any
\* result is right; and the blocks that results are made of are live.
THEOREM OneOwnerHolds ==
    Spec => []OneOwner
  <1>1. ASSUME Inv PROVE OneOwner
    <2> DEFINE A == Results(held, call)
               owners == {p \in Places(Containers) : Member(p).needfree}
    <2>1. HeapOK(heap) /\ Good(heap, A)
      BY <1>1 DEF Inv, Sound
    <2>2. ASSUME NEW x \in Containers, x \in Blocks PROVE x \in Live(heap)
      <3>1. CASE \E t \in Tables : A[t] # Null /\ Uses(heap, A[t], x)
        <4>1. PICK t \in Tables : A[t] # Null /\ Uses(heap, A[t], x)
          BY <3>1
        <4>2. Tree(heap, t, A[t])
          BY <2>1, <4>1 DEF Good
        <4>3. heap[x].kind \in Owned
          BY <2>1, <2>2, <4>1, <4>2, UsesKinds
        <4> QED
          BY <2>2, <4>3 DEF Owned, Live
      <3>2. CASE heap[x].kind \in {"iterator", "tables", "columns"}
        BY <2>2, <3>2 DEF Live
      <3> QED
        BY <1>1, <2>2, <3>1, <3>2, ContainersIs
    <2>3. ASSUME NEW p \in owners
          PROVE  /\ Member(p).ptr \in Live(heap)
                 /\ heap[Member(p).ptr].kind = "text"
                 /\ heap[Member(p).ptr].by = Allocator
      <3>1. /\ p[1] \in Blocks /\ p[2] \in Nat /\ p[3] \in Nat
            /\ \E t \in Tables : A[t] # Null /\ Owner(heap, A[t], p[1], p[2], p[3])
        BY <1>1, <2>3, OwnersAre
      <3>2. PICK t \in Tables : A[t] # Null /\ Owner(heap, A[t], p[1], p[2], p[3])
        BY <3>1
      <3>3. MembersOK(heap, t, A[t])
        BY <2>1, <3>2 DEF Good, Tree
      <3>4. /\ Member(p).ptr \in Blocks
            /\ heap[Member(p).ptr].kind = "text"
            /\ heap[Member(p).ptr].by = Allocator
        BY <3>1, <3>2, <3>3, MemberText DEF Member
      <3> QED
        BY <3>4 DEF Live
    <2>4. ASSUME NEW p \in owners, NEW q \in owners, Member(p).ptr = Member(q).ptr
          PROVE  p = q
      <3>1. /\ p = <<p[1], p[2], p[3]>> /\ p[1] \in Blocks /\ p[2] \in Nat /\ p[3] \in Nat
            /\ \E t \in Tables : A[t] # Null /\ Owner(heap, A[t], p[1], p[2], p[3])
        BY <1>1, <2>4, OwnersAre
      <3>2. /\ q = <<q[1], q[2], q[3]>> /\ q[1] \in Blocks /\ q[2] \in Nat /\ q[3] \in Nat
            /\ \E t \in Tables : A[t] # Null /\ Owner(heap, A[t], q[1], q[2], q[3])
        BY <1>1, <2>4, OwnersAre
      <3>3. PICK t \in Tables : A[t] # Null /\ Owner(heap, A[t], p[1], p[2], p[3])
        BY <3>1
      <3>4. PICK u \in Tables : A[u] # Null /\ Owner(heap, A[u], q[1], q[2], q[3])
        BY <3>2
      <3>5. MembersOK(heap, t, A[t])
        BY <2>1, <3>3 DEF Good, Tree
      <3>6. heap[p[1]].rows[p[2]][p[3]].ptr = heap[q[1]].rows[q[2]][q[3]].ptr
        BY <2>4 DEF Member
      <3>7. CASE t = u
        <4>1. Owner(heap, A[t], q[1], q[2], q[3])
          BY <3>4, <3>7
        <4>2. p[1] = q[1] /\ p[2] = q[2] /\ p[3] = q[3]
          <5> DEFINE b == p[1]  r == p[2]  c == p[3]
                     b2 == q[1]  r2 == q[2]  c2 == q[3]  a == A[t]
          <5>1. /\ b \in Blocks /\ r \in Nat /\ c \in Nat
                /\ b2 \in Blocks /\ r2 \in Nat /\ c2 \in Nat
            BY <3>1, <3>2
          <5>2. /\ MembersOK(heap, t, a)
                /\ Owner(heap, a, b, r, c) /\ Owner(heap, a, b2, r2, c2)
            BY <3>3, <3>5, <4>1
          <5>3. heap[b].rows[r][c].ptr = heap[b2].rows[r2][c2].ptr
            BY <3>6
          <5>4. b = b2 /\ r = r2 /\ c = c2
            <6> HIDE DEF a, b, r, c, b2, r2, c2
            <6> QED
              BY <5>1, <5>2, <5>3, MemberApart
          <5> QED
            BY <5>4
        <4> QED
          BY <3>1, <3>2, <4>2
      <3>8. CASE t # u
        <4> DEFINE x == heap[p[1]].rows[p[2]][p[3]].ptr
        <4>1. x \in Blocks
          BY <3>1, <3>3, <3>5, MemberText
        <4>2. Uses(heap, A[t], x)
          BY <3>1, <3>3 DEF Uses
        <4>3. Uses(heap, A[u], x)
          BY <3>2, <3>4, <3>6 DEF Uses
        <4> HIDE DEF x
        <4> QED
          BY <2>1, <3>3, <3>4, <3>8, <4>1, <4>2, <4>3 DEF Good
      <3> QED
        BY <3>7, <3>8
    <2> QED
      BY <2>2, <2>3, <2>4 DEF OneOwner
  <1> QED
    BY <1>1, InvHolds, PTL

\* sorm frees no block twice, nothing of the caller, and each block with the
\* allocator that made it, but for the blocks of an iterator; this holds for
\* sorm_free, sorm_free_array and sorm_list_free of every result, and for what
\* selects free when they end, fail or copy lists to arrays.
THEOREM FreedRightHolds ==
    Spec => []FreedRight
  <1>1. Inv => FreedRight
    BY DEF Inv
  <1> QED
    BY <1>1, InvHolds, PTL

\* If the key of no table is a heap text or blob (of such a key _save keeps
\* the address of a variable of its own), the caller can read every heap
\* member that has a value.
THEOREM ReadableHolds ==
    ASSUME KeysInside
    PROVE  Spec => []Readable
  <1>1. ASSUME Inv PROVE Readable
    <2> SUFFICES ASSUME NEW p \in Places(CallersRows),
                        Columns[heap[p[1]].table][p[3]] \in {"text", "blob"},
                        Member(p).valued
                 PROVE  \/ Member(p).ptr = Theirs
                        \/ /\ Member(p).ptr = Null
                           /\ Columns[heap[p[1]].table][p[3]] = "blob"
                        \/ /\ Member(p).ptr \in Live(heap)
                           /\ heap[Member(p).ptr].kind = "text"
      BY DEF Readable
    <2>1. /\ p[1] \in CallersRows /\ p[1] \in Blocks
          /\ p[2] \in DOMAIN heap[p[1]].rows /\ p[3] \in DOMAIN heap[p[1]].rows[p[2]]
      BY PlacesIs
    <2>2. p[2] \in Nat /\ p[3] \in Nat
      BY <1>1, <2>1, PlaceTypes
    <2>3. call = NoCall
      <3> SUFFICES ASSUME call # NoCall PROVE FALSE
        OBVIOUS
      <3>1. \A t \in Tables : held[t].at = Null
        BY <1>1 DEF Inv, Sound, CallOK, NoResult
      <3>2. {held[t].at : t \in Tables} \cap Blocks = {}
        BY <3>1 DEF Blocks, Null
      <3>3. Entries({held[t].at : t \in Tables}) = {}
        BY <3>2 DEF Entries
      <3> QED
        BY <2>1, <3>2, <3>3 DEF CallersRows
    <2>4. PICK t \in Tables : /\ Tree(heap, t, held[t].at)
                              /\ Holds(heap, held[t].at, p[1])
                              /\ heap[p[1]].table = t
      BY <1>1, <2>1, <2>3, CallersRowsIs
    <2>5. MembersOK(heap, t, held[t].at) /\ Place(heap, held[t].at, p[1], p[2], p[3])
      BY <2>1, <2>4 DEF Tree, Place
    <2>6. ReadOK(t, p[3], heap[p[1]].rows[p[2]][p[3]])
      BY <2>1, <2>2, <2>5, MemberRead
    <2>7. \/ Member(p).ptr = Theirs
          \/ Member(p).ptr = Null /\ Columns[heap[p[1]].table][p[3]] = "blob"
          \/ Member(p).needfree
      BY <2>4, <2>6 DEF ReadOK, IsHeap, Member
    <2>8. CASE Member(p).needfree
      <3>1. Owner(heap, held[t].at, p[1], p[2], p[3])
        BY <2>5, <2>8 DEF Owner, Member
      <3>2. Member(p).ptr \in Blocks /\ heap[Member(p).ptr].kind = "text"
        <4> DEFINE a == held[t].at  b == p[1]  r == p[2]  c == p[3]
        <4>1. /\ MembersOK(heap, t, a) /\ Owner(heap, a, b, r, c)
              /\ b \in Blocks /\ r \in Nat /\ c \in Nat
          BY <2>1, <2>2, <2>5, <3>1
        <4>2. Member(p) = heap[b].rows[r][c]
          BY DEF Member
        <4> HIDE DEF a, b, r, c
        <4>3. /\ heap[b].rows[r][c].ptr \in Blocks
              /\ heap[heap[b].rows[r][c].ptr].kind = "text"
          BY <4>1, MemberText
        <4> QED
          BY <4>2, <4>3
      <3> QED
        BY <3>2 DEF Live
    <2> QED
      BY <2>7, <2>8
  <1> QED
    BY <1>1, InvHolds, PTL

=============================================================================
