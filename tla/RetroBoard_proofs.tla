-------------------------- MODULE RetroBoard_proofs --------------------------
(***************************************************************************)
(* Proofs about the board, for every value of the constants: first the     *)
(* types and foreign keys, then the order of a board's columns, then that  *)
(* of its cards and groups.  The three invariants of that last order are   *)
(* inductive only together: deleteGroup and deleteColumn keep              *)
(* RootOrderUnique in the columns they do not renumber because no card of  *)
(* a group is there (GroupedItemsShareColumn), and addItemToColumn shifts  *)
(* all cards of a group for the same reason.                               *)
(*                                                                         *)
(* Then what a client of a column sees of one call: which entries keep     *)
(* their order, when a gap appears, where a card or a group that is moved  *)
(* alone lands, and where the cards of a deleted group go: those two read  *)
(* a column as a list, sorted by its indexes.  The last part is about      *)
(* calls whose statements interleave: what every transaction has written,  *)
(* laid over the committed tables, is typed and refers to rows that are    *)
(* there (RequestTypeOK).  BoardRequests_proofs goes on from it.           *)
(***************************************************************************)
EXTENDS RetroBoardOrder, BoardRequests, FiniteSetTheorems, SequenceTheorems, TLAPS

-----------------------------------------------------------------------------
(* Lemmas about sets of numbers.                                           *)

\* A finite non-empty set of naturals has a largest member, and Max picks it.
LEMMA MaxProperty ==
    ASSUME NEW S \in SUBSET Nat, IsFiniteSet(S), S # {}
    PROVE  Max(S) \in S /\ \A n \in S : n <= Max(S)
<1> DEFINE HasMax(U) == \E x \in U : \A y \in U : x >= y
           Bad == {U \in SUBSET S : U # {} /\ ~HasMax(U)}
<1>1. Bad = {}
  <2> SUFFICES ASSUME Bad # {} PROVE FALSE
    OBVIOUS
  <2>1. Bad \subseteq FiniteSubsetsOf(S)
    BY FS_Subset DEF FiniteSubsetsOf
  <2>2. PICK U \in Bad : \A V \in Bad : <<V, U>> \notin StrictSubsetOrdering(S)
    <3> HIDE DEF Bad
    <3> QED  BY <2>1, FS_StrictSubsetOrderingWellFounded, WFMin
  <2>3. PICK x \in U : TRUE
    OBVIOUS
  <2>4. <<U \ {x}, U>> \in StrictSubsetOrdering(S)
    BY <2>3 DEF StrictSubsetOrdering
  <2>5. U \ {x} = {} \/ HasMax(U \ {x})
    BY <2>2, <2>4
  <2>6. HasMax(U)
    <3>1. CASE U \ {x} = {}
      BY <3>1, <2>3
    <3>2. CASE HasMax(U \ {x})
      <4>1. PICK m \in U \ {x} : \A y \in U \ {x} : m >= y
        BY <3>2
      <4>2. m \in Nat /\ x \in Nat /\ U \subseteq Nat
        OBVIOUS
      <4>3. CASE m >= x
        BY <4>1, <4>2, <4>3
      <4>4. CASE x > m
        BY <4>1, <4>2, <4>4, <2>3
      <4> QED  BY <4>2, <4>3, <4>4
    <3> QED  BY <2>5, <3>1, <3>2
  <2> QED  BY <2>6
<1>2. HasMax(S)
  BY <1>1
<1> QED  BY <1>2 DEF Max

\* getNextRootEntryIndex, and the next order of a column: a natural number
\* above every index in use.
LEMMA NextIndexProperty ==
    ASSUME NEW S \in SUBSET Nat, IsFiniteSet(S)
    PROVE  NextIndex(S) \in Nat /\ \A n \in S : n < NextIndex(S)
<1>1. CASE S = {}
  BY <1>1 DEF NextIndex
<1>2. CASE S # {}
  <2>1. Max(S) \in S /\ \A n \in S : n <= Max(S)
    BY <1>2, MaxProperty
  <2>2. NextIndex(S) = Max(S) + 1
    BY <1>2 DEF NextIndex
  <2> HIDE DEF NextIndex
  <2>3. Max(S) \in Nat
    BY <2>1
  <2> QED  BY <2>1, <2>2, <2>3
<1> QED  BY <1>1, <1>2

\* The rows with ids up to a bound are finitely many.
LEMMA IdsFinite ==
    ASSUME NEW n \in Nat, NEW S, S \subseteq 1..n
    PROVE  IsFiniteSet(S)
<1>1. IsFiniteSet(1..n)
  BY FS_Interval
<1> QED  BY <1>1, FS_Subset

LEMMA ValuesFinite ==
    ASSUME NEW D, IsFiniteSet(D), NEW f, f = [x \in D |-> f[x]]
    PROVE  IsFiniteSet({f[x] : x \in D})
<1>1. f \in Surjection(D, {f[x] : x \in D})
  BY DEF Surjection
<1> QED  BY <1>1, FS_Surjection

\* The list that normalizeColumnRootEntryOrder sorts is finite.
LEMMA RootEntriesFinite ==
    ASSUME NEW c, NEW grs, NEW its, NEW groupMark, NEW itemMark,
           IsFiniteSet(DOMAIN grs), IsFiniteSet(DOMAIN its)
    PROVE  IsFiniteSet(RootEntries(c, grs, its, groupMark, itemMark))
<1> DEFINE G == [g \in GroupsOf(c, grs) |-> GroupEntry(g, grs, groupMark)]
           I == [i \in RootItems(c, its) |-> ItemEntry(i, its, itemMark)]
<1>1. IsFiniteSet(GroupsOf(c, grs)) /\ IsFiniteSet(RootItems(c, its))
  BY FS_Subset DEF GroupsOf, RootItems
<1> DEFINE GroupEntries == {G[g] : g \in GroupsOf(c, grs)}
           CardEntries == {I[i] : i \in RootItems(c, its)}
<1>2. IsFiniteSet(GroupEntries)
  BY <1>1, ValuesFinite
<1>3. IsFiniteSet(CardEntries)
  BY <1>1, ValuesFinite
<1>4. RootEntries(c, grs, its, groupMark, itemMark) = CardEntries \cup GroupEntries
  BY DEF RootEntries
<1> HIDE DEF GroupEntries, CardEntries
<1>5. IsFiniteSet(CardEntries \cup GroupEntries)
  BY <1>2, <1>3, FS_Union
<1> QED  BY <1>4, <1>5

-----------------------------------------------------------------------------
(* Lemmas about sorting and ranking.                                       *)

Entry ==
    [type : {0, 1}, id : Nat, index : Nat,
     mark : [priority : {0, 1, 2}, order : Nat]]

\* What makes the comparator a strict total order on a set of entries: ids and
\* places in the batch are not shared, and either nothing was moved or no two
\* entries that did not change their index have the same one.
Sortable(S) ==
    /\ S \subseteq Entry
    /\ \A e \in S : e.mark.order = 0 => e.mark.priority = 1
    /\ \A e, f \in S : e.type = f.type /\ e.id = f.id => e = f
    /\ \A e, f \in S : e.mark.order = f.mark.order /\ e.mark.order # 0 => e = f
    /\ \/ \A e \in S : e.mark.order = 0
       \/ \A e, f \in S : /\ e.index = f.index
                          /\ e.mark.priority = 1
                          /\ f.mark.priority = 1
                          => e = f

LEMMA PrecedesIrreflexive ==
    ASSUME NEW S, Sortable(S), NEW e \in S
    PROVE  ~Precedes(e, e)
BY DEF Sortable, Precedes, Entry

LEMMA PrecedesTotal ==
    ASSUME NEW S, Sortable(S), NEW e \in S, NEW f \in S, e # f
    PROVE  Precedes(e, f) \/ Precedes(f, e)
BY DEF Sortable, Precedes, Entry

LEMMA PrecedesTransitive ==
    ASSUME NEW S, Sortable(S), NEW e \in S, NEW f \in S, NEW g \in S,
           Precedes(e, f), Precedes(f, g)
    PROVE  Precedes(e, g)
<1>1. CASE \A d \in S : d.mark.order = 0
  BY <1>1 DEF Sortable, Precedes, Entry
<1>2. CASE \A d, h \in S : /\ d.index = h.index
                           /\ d.mark.priority = 1
                           /\ h.mark.priority = 1
                           => d = h
  BY <1>2 DEF Sortable, Precedes, Entry
<1> QED  BY <1>1, <1>2 DEF Sortable

\* Different entries get different places.
LEMMA RankInjective ==
    ASSUME NEW S, IsFiniteSet(S), Sortable(S), NEW e \in S, NEW f \in S,
           Rank(e, S) = Rank(f, S)
    PROVE  e = f
<1> DEFINE Below(d) == {x \in S : Precedes(x, d)}
<1>1. ASSUME NEW d \in S, NEW h \in S, Precedes(d, h)
      PROVE  Rank(d, S) # Rank(h, S)
  <2>1. Below(d) \in SUBSET Below(h)
    BY <1>1, PrecedesTransitive
  <2>2. d \in Below(h) /\ d \notin Below(d)
    BY <1>1, PrecedesIrreflexive
  <2>3. IsFiniteSet(Below(h))
    BY FS_Subset
  <2>4. Cardinality(Below(h)) # Cardinality(Below(d))
    <3> HIDE DEF Below
    <3> QED  BY <2>1, <2>2, <2>3, FS_Subset
  <2> QED  BY <2>4 DEF Rank
<1> QED  BY <1>1, PrecedesTotal

LEMMA RankType ==
    ASSUME NEW S, IsFiniteSet(S), NEW e
    PROVE  Rank(e, S) \in Nat
BY FS_Subset, FS_CardinalityType DEF Rank

LEMMA NumbersCount ==
    ASSUME NEW S, IsFiniteSet(S)
    PROVE  /\ Cardinality(S) \in Nat
           /\ IsFiniteSet(0..Cardinality(S) - 1)
           /\ Cardinality(0..Cardinality(S) - 1) = Cardinality(S)
<1>1. Cardinality(S) \in Nat
  BY FS_CardinalityType
<1>2. \A n \in Nat : /\ IsFiniteSet(0..n - 1)
                     /\ Cardinality(0..n - 1) = n
  <2> TAKE n \in Nat
  <2>1. 0 \in Int /\ n - 1 \in Int
    OBVIOUS
  <2>2. /\ IsFiniteSet(0..n - 1)
        /\ Cardinality(0..n - 1) = IF 0 > n - 1 THEN 0 ELSE n - 1 - 0 + 1
    BY <2>1, FS_Interval
  <2> QED  BY <2>2
<1> QED  BY <1>1, <1>2

\* Different entries get different places, those of a list numbered from 0,
\* whether the comparator is an order or not.
LEMMA PlaceProperty ==
    ASSUME NEW S, IsFiniteSet(S)
    PROVE  /\ \A e \in S : Place(e, S) \in 0..Cardinality(S) - 1
           /\ \A e, f \in S : Place(e, S) = Place(f, S) => e = f
<1> DEFINE N == 0..Cardinality(S) - 1
           rank == [e \in S |-> Rank(e, S)]
           p == CHOOSE q \in Bijection(S, N) : TRUE
<1>1. IsFiniteSet(N) /\ Cardinality(N) = Cardinality(S)
  BY NumbersCount
<1>2. CASE {Rank(f, S) : f \in S} = N
  <2>1. \A e \in S : Place(e, S) = rank[e]
    BY <1>2 DEF Place
  <2>2. rank = [e \in S |-> rank[e]] /\ {rank[e] : e \in S} = N
    BY <1>2
  <2> HIDE DEF rank, N
  <2>3. rank \in Surjection(S, N)
    BY <2>2 DEF Surjection
  <2>4. rank \in Injection(S, N)
    BY <1>1, <2>3, FS_Surjection
  <2>5. /\ \A e \in S : rank[e] \in N
        /\ \A e, f \in S : rank[e] = rank[f] => e = f
    BY <2>4 DEF Injection, IsInjective
  <2> QED  BY <2>1, <2>5 DEF N
<1>3. CASE {Rank(f, S) : f \in S} # N
  <2>1. \A e \in S : Place(e, S) = p[e]
    BY <1>3 DEF Place
  <2> HIDE DEF p, N
  <2>2. Bijection(S, N) # {}
    BY <1>1, FS_SameCardinalityBij DEF ExistsBijection
  <2>3. p \in Bijection(S, N)
    BY <2>2 DEF p
  <2>4. /\ \A e \in S : p[e] \in N
        /\ \A e, f \in S : p[e] = p[f] => e = f
    BY <2>3 DEF Bijection, Injection, IsInjective
  <2> QED  BY <2>1, <2>4 DEF N
<1> QED  BY <1>2, <1>3

\* Where the comparator is an order, the place is the rank.
LEMMA PlaceIsRank ==
    ASSUME NEW S, IsFiniteSet(S), Sortable(S), NEW e \in S
    PROVE  Place(e, S) = Rank(e, S)
<1> DEFINE N == 0..Cardinality(S) - 1
           rank == [f \in S |-> Rank(f, S)]
<1>1. IsFiniteSet(N) /\ Cardinality(N) = Cardinality(S) /\ Cardinality(S) \in Nat
  BY NumbersCount
<1>2. ASSUME NEW f \in S PROVE Rank(f, S) \in N
  <2> DEFINE Below == {x \in S : Precedes(x, f)}
  <2>1. Below \in SUBSET S /\ f \notin Below
    BY PrecedesIrreflexive
  <2>2. Cardinality(Below) = Rank(f, S)
    BY DEF Rank
  <2> HIDE DEF Below
  <2>3. /\ Cardinality(Below) <= Cardinality(S)
        /\ Cardinality(S) = Cardinality(Below) => S = Below
        /\ IsFiniteSet(Below)
    BY <2>1, FS_Subset
  <2>4. Cardinality(Below) \in Nat
    BY <2>3, FS_CardinalityType
  <2> QED  BY <1>1, <2>1, <2>2, <2>3, <2>4
<1>3. /\ \A f \in S : rank[f] = Rank(f, S)
      /\ rank = [f \in S |-> rank[f]]
  OBVIOUS
<1>4. \A f, g \in S : rank[f] = rank[g] => f = g
  BY <1>3, RankInjective
<1> HIDE DEF rank, N
<1>5. rank \in Injection(S, N)
  BY <1>2, <1>3, <1>4 DEF Injection, IsInjective
<1>6. rank \in Surjection(S, N)
  BY <1>1, <1>5, FS_Injection
<1>7. {rank[f] : f \in S} = N
  BY <1>2, <1>3, <1>6 DEF Surjection
<1>8. {Rank(f, S) : f \in S} = 0..Cardinality(S) - 1
  BY <1>3, <1>7 DEF N
<1> QED  BY <1>8 DEF Place

-----------------------------------------------------------------------------
(* What the rewriting operators return.                                    *)

GroupTable(grs, C) == grs \in [DOMAIN grs -> [columnId : C, orderIndex : Nat]]

ItemTable(its, C, G) ==
    its \in [DOMAIN its -> [columnId : C, groupId : {NoGroup} \cup G, rowIndex : Nat]]

FiniteTables(grs, its) == IsFiniteSet(DOMAIN grs) /\ IsFiniteSet(DOMAIN its)

\* The last change of a card or group that a request names is one of its
\* changes.
LEMMA LastForProperty ==
    ASSUME NEW S, NEW ch \in Batches(S), NEW x \in Named(ch)
    PROVE  /\ LastFor(ch, x) \in DOMAIN ch
           /\ LastFor(ch, x) \in Nat \ {0}
           /\ ch[LastFor(ch, x)].id = x
           /\ ch[LastFor(ch, x)] \in S
<1>1. PICK n \in Nat : ch \in [1..n -> S]
  BY BoundsAssumption DEF Batches
<1> DEFINE P == {m \in DOMAIN ch : ch[m].id = x}
<1>2. P \subseteq 1..n /\ P # {}
  BY <1>1 DEF Named
<1>3. P \in SUBSET Nat /\ IsFiniteSet(P)
  BY <1>2, IdsFinite
<1>4. Max(P) \in P
  <2> HIDE DEF P
  <2> QED  BY <1>2, <1>3, MaxProperty
<1> QED  BY <1>1, <1>2, <1>4 DEF LastFor

\* normalizeColumnRootEntryOrder changes indexes only.
LEMMA NormalizedRootsType ==
    ASSUME NEW cols, NEW grs, NEW its, NEW groupMark, NEW itemMark, NEW C, NEW G,
           FiniteTables(grs, its), GroupTable(grs, C), ItemTable(its, C, G),
           NEW n, n = NormalizedRoots(cols, grs, its, groupMark, itemMark)
    PROVE  /\ DOMAIN n.groups = DOMAIN grs
           /\ GroupTable(n.groups, C)
           /\ \A g \in DOMAIN grs : n.groups[g].columnId = grs[g].columnId
           /\ DOMAIN n.items = DOMAIN its
           /\ ItemTable(n.items, C, G)
           /\ \A i \in DOMAIN its : /\ n.items[i].columnId = its[i].columnId
                                     /\ n.items[i].groupId = its[i].groupId
<1> DEFINE E(c) == RootEntries(c, grs, its, groupMark, itemMark)
           ge(g) == GroupEntry(g, grs, groupMark)
           ie(i) == ItemEntry(i, its, itemMark)
<1>1. \A c : \A e \in E(c) : Place(e, E(c)) \in Nat
  <2> TAKE c
  <2>1. IsFiniteSet(E(c))
    BY RootEntriesFinite DEF FiniteTables
  <2> HIDE DEF E
  <2> QED  BY <2>1, PlaceProperty
<1>2. /\ \A g \in DOMAIN grs : ge(g) \in E(grs[g].columnId)
      /\ \A i \in DOMAIN its : its[i].groupId = NoGroup => ie(i) \in E(its[i].columnId)
  BY DEF RootEntries, GroupsOf, RootItems
<1>3. /\ n.groups = [g \in DOMAIN grs |->
            IF grs[g].columnId \in cols
            THEN [grs[g] EXCEPT !.orderIndex = Place(ge(g), E(grs[g].columnId))]
            ELSE grs[g]]
      /\ n.items = [i \in DOMAIN its |->
            IF its[i].columnId \in cols /\ its[i].groupId = NoGroup
            THEN [its[i] EXCEPT !.rowIndex = Place(ie(i), E(its[i].columnId))]
            ELSE its[i]]
  BY DEF NormalizedRoots, E
<1> HIDE DEF E, ge, ie
<1>4. /\ \A g \in DOMAIN grs : Place(ge(g), E(grs[g].columnId)) \in Nat
      /\ \A i \in DOMAIN its : its[i].groupId = NoGroup =>
            Place(ie(i), E(its[i].columnId)) \in Nat
  BY <1>1, <1>2
<1>5. /\ DOMAIN n.groups = DOMAIN grs
      /\ GroupTable(n.groups, C)
      /\ \A g \in DOMAIN grs : n.groups[g].columnId = grs[g].columnId
  BY <1>3, <1>4 DEF GroupTable
<1>6. /\ DOMAIN n.items = DOMAIN its
      /\ ItemTable(n.items, C, G)
      /\ \A i \in DOMAIN its : /\ n.items[i].columnId = its[i].columnId
                                /\ n.items[i].groupId = its[i].groupId
  BY <1>3, <1>4 DEF ItemTable
<1> QED  BY <1>5, <1>6

LEMMA MemberRankType ==
    ASSUME NEW its, IsFiniteSet(DOMAIN its), NEW i
    PROVE  MemberRank(i, its) \in Nat
<1> DEFINE B == {j \in Members(its[i].groupId, its) :
                    \/ its[j].rowIndex < its[i].rowIndex
                    \/ its[j].rowIndex = its[i].rowIndex /\ j < i}
<1>1. B \in SUBSET DOMAIN its
  BY DEF Members
<1>2. IsFiniteSet(B)
  BY <1>1, FS_Subset
<1> QED  BY <1>2, FS_CardinalityType DEF MemberRank

\* normalizeGroupItemsOrder changes the rows of grouped cards only.
LEMMA NormalizedMembersType ==
    ASSUME NEW gs, NEW its, NEW C, NEW G,
           IsFiniteSet(DOMAIN its), ItemTable(its, C, G)
    PROVE  /\ DOMAIN NormalizedMembers(gs, its) = DOMAIN its
           /\ ItemTable(NormalizedMembers(gs, its), C, G)
           /\ \A i \in DOMAIN its :
                /\ NormalizedMembers(gs, its)[i].columnId = its[i].columnId
                /\ NormalizedMembers(gs, its)[i].groupId = its[i].groupId
                /\ its[i].groupId \notin gs => NormalizedMembers(gs, its)[i] = its[i]
BY MemberRankType DEF NormalizedMembers, ItemTable

\* The rows a request of syncItemPositions leaves.
LEMMA ItemSyncType ==
    ASSUME NEW S, NEW ch \in Batches(S), NEW before, NEW grs, NEW its, NEW C, NEW G,
           \A change \in S : /\ change.newColumnId \in C
                             /\ change.newGroupId \in {NoGroup} \cup G
                             /\ change.newIndex \in Nat,
           FiniteTables(grs, its), GroupTable(grs, C), ItemTable(its, C, G),
           NEW after, after = ItemSync(ch, before, grs, its)
    PROVE  /\ DOMAIN after.groups = DOMAIN grs
           /\ GroupTable(after.groups, C)
           /\ DOMAIN after.items = DOMAIN its
           /\ ItemTable(after.items, C, G)
<1> DEFINE w == WrittenItems(ch, its)
           m == NormalizedMembers(ItemSyncGroups(ch, before), w)
<1>1. DOMAIN w = DOMAIN its /\ ItemTable(w, C, G)
  BY LastForProperty DEF WrittenItems, ItemTable
<1>2. DOMAIN m = DOMAIN its /\ ItemTable(m, C, G) /\ FiniteTables(grs, m)
  <2> HIDE DEF w
  <2> QED  BY <1>1, NormalizedMembersType DEF FiniteTables
<1> HIDE DEF m
<1>3. after = NormalizedRoots(ItemSyncColumns(ch, before), grs, m,
                              UnmovedMarks(grs), ItemMoveMarks(ch, before, its))
  BY DEF ItemSync, m
<1> QED  BY <1>2, <1>3, NormalizedRootsType

\* The cards of a group follow it to a column named in the request.
LEMMA CarriedItemsType ==
    ASSUME NEW S, NEW ch \in Batches(S), NEW before, NEW its, NEW C, NEW G,
           \A change \in S : change.newColumnId \in C,
           ItemTable(its, C, G),
           NEW d, d = CarriedItems(ch, before, its)
    PROVE  DOMAIN d = DOMAIN its /\ ItemTable(d, C, G)
<1>1. \A g \in Named(ch) : CarryingChanges(ch, g, before) # {} =>
            Max(CarryingChanges(ch, g, before)) \in CarryingChanges(ch, g, before)
  <2> SUFFICES ASSUME NEW g \in Named(ch), CarryingChanges(ch, g, before) # {}
               PROVE  Max(CarryingChanges(ch, g, before)) \in CarryingChanges(ch, g, before)
    OBVIOUS
  <2>1. PICK n \in Nat : ch \in [1..n -> S]
    BY BoundsAssumption DEF Batches
  <2>2. CarryingChanges(ch, g, before) \subseteq 1..n
    BY <2>1 DEF CarryingChanges
  <2>3. CarryingChanges(ch, g, before) \in SUBSET Nat
    BY <2>2
  <2>4. IsFiniteSet(CarryingChanges(ch, g, before))
    BY <2>2, IdsFinite
  <2> QED  BY <2>3, <2>4, MaxProperty
<1>2. \A n \in DOMAIN ch : ch[n] \in S
  BY DEF Batches
<1> DEFINE target(g) == ch[Max(CarryingChanges(ch, g, before))].newColumnId
           carried(i) == /\ its[i].groupId \in Named(ch)
                         /\ CarryingChanges(ch, its[i].groupId, before) # {}
<1>3. d = [i \in DOMAIN its |->
            IF carried(i)
            THEN [its[i] EXCEPT !.columnId = target(its[i].groupId)]
            ELSE its[i]]
  BY DEF CarriedItems
<1>4. \A i \in DOMAIN its : carried(i) => target(its[i].groupId) \in C
  BY <1>1, <1>2 DEF CarryingChanges
<1> HIDE DEF target, carried
<1> QED  BY <1>3, <1>4 DEF ItemTable

\* The rows a request of syncGroupPositions leaves.
LEMMA GroupSyncType ==
    ASSUME NEW S, NEW ch \in Batches(S), NEW before, NEW grs, NEW its, NEW C, NEW G,
           \A change \in S : change.newColumnId \in C /\ change.newIndex \in Nat,
           FiniteTables(grs, its), GroupTable(grs, C), ItemTable(its, C, G),
           NEW after, after = GroupSync(ch, before, grs, its)
    PROVE  /\ DOMAIN after.groups = DOMAIN grs
           /\ GroupTable(after.groups, C)
           /\ DOMAIN after.items = DOMAIN its
           /\ ItemTable(after.items, C, G)
<1> DEFINE w == WrittenGroups(ch, grs)
           d == CarriedItems(ch, before, its)
<1>1. DOMAIN w = DOMAIN grs /\ GroupTable(w, C)
  BY LastForProperty DEF WrittenGroups, GroupTable
<1>2. DOMAIN d = DOMAIN its /\ ItemTable(d, C, G)
  BY CarriedItemsType
<1>3. FiniteTables(w, d)
  BY <1>1, <1>2 DEF FiniteTables
<1>4. after = NormalizedRoots(GroupSyncColumns(ch, before), w, d,
                              GroupMoveMarks(ch, before, grs), UnmovedMarks(its))
  BY DEF GroupSync
<1> HIDE DEF w, d
<1> QED  BY <1>1, <1>2, <1>3, <1>4, NormalizedRootsType

\* The rows deleteGroup leaves before its normalisation.
LEMMA UngroupedType ==
    ASSUME NEW grs, NEW its, NEW C, NEW g \in DOMAIN grs,
           NEW old, old.orderIndex \in Nat,
           FiniteTables(grs, its), GroupTable(grs, C), ItemTable(its, C, DOMAIN grs),
           NEW u, u = Ungrouped(g, old, grs, its)
    PROVE  /\ DOMAIN u.groups = DOMAIN grs \ {g}
           /\ GroupTable(u.groups, C)
           /\ DOMAIN u.items = DOMAIN its
           /\ ItemTable(u.items, C, DOMAIN grs \ {g})
<1> DEFINE rest == [h \in DOMAIN grs \ {g} |-> grs[h]]
           S == RootEntries(old.columnId, rest, its, UnmovedMarks(grs), UnmovedMarks(its))
           size == Cardinality(Members(g, its))
           insertAt == UngroupAt(old, S)
           place(e) == IF Rank(e, S) < insertAt THEN Rank(e, S) ELSE Rank(e, S) + size
<1>1. IsFiniteSet(S)
  <2>1. IsFiniteSet(DOMAIN rest)
    BY FS_RemoveElement DEF FiniteTables
  <2> HIDE DEF rest
  <2> QED  BY <2>1, RootEntriesFinite DEF FiniteTables
<1>2. \A e : Rank(e, S) \in Nat
  <2> HIDE DEF S
  <2> QED  BY <1>1, RankType
<1>3. size \in Nat
  BY FS_Subset, FS_CardinalityType DEF Members, FiniteTables
<1>4. insertAt \in Nat
  <2>1. Cardinality(S) \in Nat
    <3> HIDE DEF S
    <3> QED  BY <1>1, FS_CardinalityType
  <2> HIDE DEF S
  <2> QED  BY <2>1 DEF UngroupAt
<1>5. \A e : place(e) \in Nat
  <2> HIDE DEF S, size, insertAt
  <2> QED  BY <1>2, <1>3, <1>4
<1>6. \A i : MemberRank(i, its) \in Nat
  BY MemberRankType DEF FiniteTables
<1>7. /\ u.groups = [h \in DOMAIN grs \ {g} |->
            IF grs[h].columnId = old.columnId
            THEN [grs[h] EXCEPT !.orderIndex =
                    place(GroupEntry(h, grs, UnmovedMarks(grs)))]
            ELSE grs[h]]
      /\ u.items = [i \in DOMAIN its |->
            IF its[i].groupId = g
            THEN [its[i] EXCEPT !.groupId = NoGroup,
                                !.rowIndex = insertAt + MemberRank(i, its)]
            ELSE IF i \in RootItems(old.columnId, its)
            THEN [its[i] EXCEPT !.rowIndex =
                    place(ItemEntry(i, its, UnmovedMarks(its)))]
            ELSE its[i]]
  BY DEF Ungrouped
<1> HIDE DEF place, insertAt
<1>8. DOMAIN u.groups = DOMAIN grs \ {g} /\ GroupTable(u.groups, C)
  <2>1. ASSUME NEW h \in DOMAIN grs \ {g}
        PROVE  u.groups[h] \in [columnId : C, orderIndex : Nat]
    <3>1. place(GroupEntry(h, grs, UnmovedMarks(grs))) \in Nat
      BY <1>5
    <3>2. grs[h] \in [columnId : C, orderIndex : Nat]
      BY DEF GroupTable
    <3>3. CASE grs[h].columnId = old.columnId
      <4>1. u.groups[h] = [grs[h] EXCEPT !.orderIndex =
                                place(GroupEntry(h, grs, UnmovedMarks(grs)))]
        BY <1>7, <3>3
      <4> QED  BY <3>1, <3>2, <4>1
    <3>4. CASE grs[h].columnId # old.columnId
      <4>1. u.groups[h] = grs[h]
        BY <1>7, <3>4
      <4> QED  BY <3>2, <4>1
    <3> QED  BY <3>3, <3>4
  <2>2. /\ DOMAIN u.groups = DOMAIN grs \ {g}
        /\ u.groups = [h \in DOMAIN u.groups |-> u.groups[h]]
    BY <1>7
  <2> QED  BY <2>1, <2>2 DEF GroupTable
<1>9. DOMAIN u.items = DOMAIN its /\ ItemTable(u.items, C, DOMAIN grs \ {g})
  <2>1. ASSUME NEW i \in DOMAIN its
        PROVE  u.items[i] \in [columnId : C, groupId : {NoGroup} \cup (DOMAIN grs \ {g}),
                               rowIndex : Nat]
    <3>1. place(ItemEntry(i, its, UnmovedMarks(its))) \in Nat
      BY <1>5
    <3>2. insertAt + MemberRank(i, its) \in Nat
      BY <1>4, <1>6
    <3>3. its[i] \in [columnId : C, groupId : {NoGroup} \cup DOMAIN grs, rowIndex : Nat]
      BY DEF ItemTable
    <3>4. CASE its[i].groupId = g
      <4>1. u.items[i] = [its[i] EXCEPT !.groupId = NoGroup,
                                        !.rowIndex = insertAt + MemberRank(i, its)]
        BY <1>7, <3>4
      <4> QED  BY <4>1, <3>2, <3>3
    <3>5. CASE its[i].groupId # g /\ i \in RootItems(old.columnId, its)
      <4>1. u.items[i] = [its[i] EXCEPT !.rowIndex =
                            place(ItemEntry(i, its, UnmovedMarks(its)))]
        BY <1>7, <3>5
      <4> QED  BY <4>1, <3>1, <3>3, <3>5
    <3>6. CASE its[i].groupId # g /\ i \notin RootItems(old.columnId, its)
      <4>1. u.items[i] = its[i]
        BY <1>7, <3>6
      <4> QED  BY <4>1, <3>3, <3>6
    <3> QED  BY <3>4, <3>5, <3>6
  <2> QED  BY <1>7, <2>1 DEF ItemTable
<1> QED  BY <1>8, <1>9

\* What deleteGroup leaves of the tables: the group is gone, its cards are not.
WithoutGroup(g, after, grs, its, C) ==
    /\ DOMAIN after.groups = DOMAIN grs \ {g}
    /\ GroupTable(after.groups, C)
    /\ DOMAIN after.items = DOMAIN its
    /\ ItemTable(after.items, C, DOMAIN grs \ {g})

\* The rows deleteGroup leaves.
LEMMA GroupDeletionType ==
    ASSUME NEW grs, NEW its, NEW C, NEW g \in DOMAIN grs,
           NEW old, old.orderIndex \in Nat,
           FiniteTables(grs, its), GroupTable(grs, C), ItemTable(its, C, DOMAIN grs),
           NEW after, after = GroupDeletion(g, old, grs, its)
    PROVE  WithoutGroup(g, after, grs, its, C)
<1> DEFINE u == Ungrouped(g, old, grs, its)
<1>1. /\ DOMAIN u.groups = DOMAIN grs \ {g}
      /\ GroupTable(u.groups, C)
      /\ DOMAIN u.items = DOMAIN its
      /\ ItemTable(u.items, C, DOMAIN grs \ {g})
  BY UngroupedType
<1> HIDE DEF u
<1>2. FiniteTables(u.groups, u.items)
  BY <1>1, FS_RemoveElement DEF FiniteTables
<1>3. after = NormalizedRoots({old.columnId}, u.groups, u.items,
                              UnmovedMarks(u.groups), UnmovedMarks(u.items))
  BY DEF GroupDeletion, u
<1>4. /\ DOMAIN after.groups = DOMAIN u.groups
      /\ GroupTable(after.groups, C)
      /\ DOMAIN after.items = DOMAIN u.items
      /\ ItemTable(after.items, C, DOMAIN grs \ {g})
  BY <1>1, <1>2, <1>3, NormalizedRootsType
<1> QED  BY <1>1, <1>4 DEF WithoutGroup

-----------------------------------------------------------------------------
(* Type correctness.                                                       *)

\* What TypeOK says of the tables, in the terms of the lemmas above.
LEMMA TablesOK ==
    ASSUME TypeOK
    PROVE  /\ FiniteTables(groups, items)
           /\ GroupTable(groups, DOMAIN columns)
           /\ ItemTable(items, DOMAIN columns, DOMAIN groups)
           /\ IsFiniteSet(DOMAIN columns)
BY IdsFinite DEF TypeOK, FiniteTables, GroupTable, ItemTable

\* The next order of a column is above those of the board's columns.
LEMMA NextColumnIndex ==
    ASSUME TypeOK, NEW b
    PROVE  NextIndex({columns[d].orderIndex : d \in ColumnsOf(b, columns)}) \in Nat
<1> DEFINE D == ColumnsOf(b, columns)
           f == [d \in D |-> columns[d].orderIndex]
<1>1. IsFiniteSet(D)
  BY TablesOK, FS_Subset DEF ColumnsOf
<1>2. IsFiniteSet({f[d] : d \in D})
  BY <1>1, ValuesFinite
<1>3. {f[d] : d \in D} \in SUBSET Nat
  BY DEF TypeOK, ColumnsOf
<1>4. {columns[d].orderIndex : d \in ColumnsOf(b, columns)} = {f[d] : d \in D}
  OBVIOUS
<1> QED  BY <1>2, <1>3, <1>4, NextIndexProperty

\* A new group is placed below every entry of the root of its column.
LEMMA NextRootIndex ==
    ASSUME TypeOK, NEW c
    PROVE  /\ NextIndex(RootIndexes(c, groups, items)) \in Nat
           /\ \A g \in GroupsOf(c, groups) :
                groups[g].orderIndex < NextIndex(RootIndexes(c, groups, items))
           /\ \A i \in RootItems(c, items) :
                items[i].rowIndex < NextIndex(RootIndexes(c, groups, items))
<1> DEFINE G == GroupsOf(c, groups)
           I == RootItems(c, items)
           f == [g \in G |-> groups[g].orderIndex]
           h == [i \in I |-> items[i].rowIndex]
<1>1. IsFiniteSet(G) /\ IsFiniteSet(I)
  BY TablesOK, FS_Subset DEF GroupsOf, RootItems, FiniteTables
<1>2. IsFiniteSet({f[g] : g \in G}) /\ IsFiniteSet({h[i] : i \in I})
  BY <1>1, ValuesFinite
<1>3. RootIndexes(c, groups, items) = {f[g] : g \in G} \cup {h[i] : i \in I}
  BY DEF RootIndexes
<1>4. RootIndexes(c, groups, items) \in SUBSET Nat
  BY DEF TypeOK, GroupsOf, RootItems, RootIndexes
<1>5. IsFiniteSet(RootIndexes(c, groups, items))
  <2>1. IsFiniteSet({f[g] : g \in G} \cup {h[i] : i \in I})
    <3> HIDE DEF f, h, G, I
    <3> QED  BY <1>2, FS_Union
  <2> QED  BY <1>3, <2>1
<1>6. /\ \A g \in G : groups[g].orderIndex \in RootIndexes(c, groups, items)
      /\ \A i \in I : items[i].rowIndex \in RootIndexes(c, groups, items)
  BY DEF RootIndexes
<1>7. /\ NextIndex(RootIndexes(c, groups, items)) \in Nat
      /\ \A x \in RootIndexes(c, groups, items) : x < NextIndex(RootIndexes(c, groups, items))
  BY <1>4, <1>5, NextIndexProperty
<1> QED  BY <1>6, <1>7

\* Closing or opening a place in the list of columns keeps orders natural.
LEMMA ReorderedIndexType ==
    ASSUME TypeOK, NEW c, NEW old \in Nat, NEW new \in Nat
    PROVE  ReorderedIndex(c, old, new, columns) \in Nat
<1> DEFINE P == {d \in ColumnsOf(columns[c].boardId, columns) :
                    columns[d].orderIndex < columns[c].orderIndex}
<1>1. P \in SUBSET DOMAIN columns
  BY DEF ColumnsOf
<1>2. Cardinality(P) \in Nat
  BY <1>1, TablesOK, FS_Subset, FS_CardinalityType
<1> QED  BY <1>2 DEF ReorderedIndex

LEMMA InitTypeOK == Init => TypeOK
BY DEF Init, TypeOK, Boards

LEMMA NextTypeOK == TypeOK /\ [Next]_vars => TypeOK'
<1> SUFFICES ASSUME TypeOK, [Next]_vars PROVE TypeOK'
  OBVIOUS
<1>1. CASE CreateBoard
  <2>1. DefaultColumns \in Nat
    BY BoundsAssumption
  <2>2. \A c \in lastId.column + 1 .. lastId.column + DefaultColumns :
            c - lastId.column - 1 \in Nat
    BY <2>1 DEF TypeOK
  <2>3. /\ lastId' \in [board : Nat, column : Nat, group : Nat, item : Nat]
        /\ lastId'.board = lastId.board + 1
        /\ lastId'.column = lastId.column + DefaultColumns
        /\ lastId'.group = lastId.group /\ lastId'.item = lastId.item
    <3>1. lastId' = [lastId EXCEPT !.board = @ + 1, !.column = @ + DefaultColumns]
      BY <1>1 DEF CreateBoard
    <3>2. lastId \in [board : Nat, column : Nat, group : Nat, item : Nat]
      BY DEF TypeOK
    <3>3. lastId.board + 1 \in Nat /\ lastId.column + DefaultColumns \in Nat
      BY <2>1, <3>2
    <3> DEFINE b == lastId.board + 1
               c == lastId.column + DefaultColumns
    <3>4. lastId' = [lastId EXCEPT !.board = b, !.column = c] /\ b \in Nat /\ c \in Nat
      BY <3>1, <3>3
    <3> HIDE DEF b, c
    <3>5. /\ lastId' \in [board : Nat, column : Nat, group : Nat, item : Nat]
          /\ lastId'.board = b /\ lastId'.column = c
          /\ lastId'.group = lastId.group /\ lastId'.item = lastId.item
      BY <3>2, <3>4
    <3> QED  BY <3>5 DEF b, c
  <2>4. DOMAIN columns \subseteq DOMAIN columns'
    BY <1>1 DEF CreateBoard
  <2>5. DOMAIN columns' \subseteq 1..lastId'.column
    BY <1>1, <2>1, <2>3 DEF CreateBoard, TypeOK
  <2>6. columns' \in [DOMAIN columns' -> [boardId : Boards', orderIndex : Nat]]
    <3>1. \A c \in DOMAIN columns' :
                columns'[c] = IF c \in DOMAIN columns THEN columns[c]
                              ELSE [boardId |-> lastId.board + 1,
                                    orderIndex |-> c - lastId.column - 1]
      BY <1>1 DEF CreateBoard
    <3>2. \A c \in DOMAIN columns' \ DOMAIN columns : c - lastId.column - 1 \in Nat
      BY <1>1, <2>2 DEF CreateBoard
    <3>3. lastId.board \in Nat /\ Boards \subseteq Boards' /\ lastId.board + 1 \in Boards'
      BY <2>3 DEF TypeOK, Boards
    <3>4. \A c \in DOMAIN columns' : columns'[c] \in [boardId : Boards', orderIndex : Nat]
      BY <3>1, <3>2, <3>3 DEF TypeOK
    <3>5. columns' = [c \in DOMAIN columns' |-> columns'[c]]
      BY <1>1 DEF CreateBoard
    <3> QED  BY <3>4, <3>5
  <2>7. UNCHANGED <<groups, items>>
    BY <1>1 DEF CreateBoard
  <2> QED  BY <2>3, <2>4, <2>5, <2>6, <2>7 DEF TypeOK
<1>2. ASSUME NEW b \in Boards, CreateColumn(b) PROVE TypeOK'
  <2> DEFINE next == NextIndex({columns[d].orderIndex : d \in ColumnsOf(b, columns)})
  <2>1. next \in Nat
    BY NextColumnIndex
  <2>2. columns' = [c \in DOMAIN columns \cup {lastId.column + 1} |->
            IF c \in DOMAIN columns THEN columns[c]
            ELSE [boardId |-> b, orderIndex |-> next]]
    BY <1>2 DEF CreateColumn
  <2> HIDE DEF next
  <2> QED  BY <1>2, <2>1, <2>2 DEF CreateColumn, TypeOK, Boards
<1>3. ASSUME NEW c \in DOMAIN columns, CreateGroup(c) PROVE TypeOK'
  BY <1>3, NextRootIndex DEF CreateGroup, TypeOK, Boards
<1>4. ASSUME NEW c \in DOMAIN columns, NEW g \in {NoGroup} \cup GroupsOf(c, groups),
             AddItemToColumn(c, g)
      PROVE  TypeOK'
  BY <1>4 DEF AddItemToColumn, ItemsWithNewItem, GroupsBelowNewItem, GroupsOf,
              TypeOK, Boards
<1>5. ASSUME NEW b \in Boards,
             NEW old \in 0..Cardinality(ColumnsOf(b, columns)) - 1,
             NEW new \in 0..Cardinality(ColumnsOf(b, columns)) - 1,
             ReorderColumns(b, old, new)
      PROVE  TypeOK'
  <2>1. old \in Nat /\ new \in Nat
    <3>1. Cardinality(ColumnsOf(b, columns)) \in Nat
      BY TablesOK, FS_Subset, FS_CardinalityType DEF ColumnsOf
    <3> QED  BY <3>1
  <2>2. \A c : ReorderedIndex(c, old, new, columns) \in Nat
    BY <2>1, ReorderedIndexType
  <2> QED  BY <1>5, <2>2 DEF ReorderColumns, TypeOK, Boards
<1>6. ASSUME NEW b \in Boards, NEW ch \in Batches(ItemChanges(b)),
             SyncItemPositions(ch)
      PROVE  TypeOK'
  <2>1. \A change \in ItemChanges(b) :
            /\ change.newColumnId \in DOMAIN columns
            /\ change.newGroupId \in {NoGroup} \cup DOMAIN groups
            /\ change.newIndex \in Nat
    BY BoundsAssumption DEF ItemChanges, ColumnsOf
  <2>2. /\ DOMAIN groups' = DOMAIN groups
        /\ GroupTable(groups', DOMAIN columns)
        /\ DOMAIN items' = DOMAIN items
        /\ ItemTable(items', DOMAIN columns, DOMAIN groups)
    BY <1>6, <2>1, TablesOK, ItemSyncType DEF SyncItemPositions
  <2> QED  BY <1>6, <2>2 DEF SyncItemPositions, TypeOK, Boards, GroupTable, ItemTable
<1>7. ASSUME NEW b \in Boards, NEW ch \in Batches(GroupChanges(b)),
             SyncGroupPositions(ch)
      PROVE  TypeOK'
  <2>1. \A change \in GroupChanges(b) : /\ change.newColumnId \in DOMAIN columns
                                        /\ change.newIndex \in Nat
    BY BoundsAssumption DEF GroupChanges, ColumnsOf
  <2>2. /\ DOMAIN groups' = DOMAIN groups
        /\ GroupTable(groups', DOMAIN columns)
        /\ DOMAIN items' = DOMAIN items
        /\ ItemTable(items', DOMAIN columns, DOMAIN groups)
    BY <1>7, <2>1, TablesOK, GroupSyncType DEF SyncGroupPositions
  <2> QED  BY <1>7, <2>2 DEF SyncGroupPositions, TypeOK, Boards, GroupTable, ItemTable
<1>8. ASSUME NEW c \in DOMAIN columns, DeleteColumn(c) PROVE TypeOK'
  <2>1. /\ DOMAIN columns' = DOMAIN columns \ {c}
        /\ columns' \in [DOMAIN columns' -> [boardId : Boards', orderIndex : Nat]]
    BY <1>8 DEF DeleteColumn, ColumnsWithout, TypeOK, Boards
  <2>2. /\ DOMAIN groups' = DOMAIN groups \ GroupsOf(c, groups)
        /\ groups' \in [DOMAIN groups' -> [columnId : DOMAIN columns', orderIndex : Nat]]
    BY <1>8, <2>1 DEF DeleteColumn, GroupsWithoutColumn, GroupsOf, TypeOK
  <2>3. /\ DOMAIN items' \subseteq DOMAIN items
        /\ items' \in [DOMAIN items' -> [columnId : DOMAIN columns',
                                        groupId  : {NoGroup} \cup DOMAIN groups',
                                        rowIndex : Nat]]
    BY <1>8, <2>1, <2>2 DEF DeleteColumn, ItemsWithoutColumn, TypeOK
  <2> QED  BY <1>8, <2>1, <2>2, <2>3 DEF DeleteColumn, TypeOK
<1>9. ASSUME NEW g \in DOMAIN groups, DeleteGroup(g) PROVE TypeOK'
  <2> DEFINE old == groups[g]
             after == GroupDeletion(g, old, groups, items)
  <2>1. groups' = after.groups /\ items' = after.items
    BY <1>9 DEF DeleteGroup
  <2> HIDE DEF after
  <2>2. /\ DOMAIN groups' = DOMAIN groups \ {g}
        /\ GroupTable(groups', DOMAIN columns)
        /\ DOMAIN items' = DOMAIN items
        /\ ItemTable(items', DOMAIN columns, DOMAIN groups \ {g})
    <3>1. old.orderIndex \in Nat
      BY DEF TypeOK
    <3>2. WithoutGroup(g, after, groups, items, DOMAIN columns)
      <4> HIDE DEF old
      <4> QED  BY <3>1, TablesOK, GroupDeletionType DEF after
    <3> QED  BY <2>1, <3>2 DEF WithoutGroup
  <2> QED  BY <1>9, <2>2 DEF DeleteGroup, TypeOK, Boards, GroupTable, ItemTable
<1>10. ASSUME NEW i \in DOMAIN items, DeleteItem(i) PROVE TypeOK'
  BY <1>10 DEF DeleteItem, TypeOK, Boards
<1>11. CASE UNCHANGED vars
  BY <1>11 DEF vars, TypeOK, Boards
<1> QED  BY <1>1, <1>2, <1>3, <1>4, <1>5, <1>6, <1>7, <1>8, <1>9, <1>10, <1>11 DEF Next

\* Whatever requests are served, every row keeps its type and no foreign key
\* of the board tables dangles.
THEOREM TypeCorrect == Spec => []TypeOK
BY InitTypeOK, NextTypeOK, PTL DEF Spec

-----------------------------------------------------------------------------
(* The order of a board's columns.                                         *)

\* The columns S have the orders 0, 1, 2, ... without a gap.
Dense(S, cols) == {cols[c].orderIndex : c \in S} = 0..Cardinality(S) - 1

\* The same, as the proofs use it: no order twice, and none too large.
Numbered(S, cols) ==
    /\ \A c, d \in S : cols[c].orderIndex = cols[d].orderIndex => c = d
    /\ \A c \in S : cols[c].orderIndex \in 0..Cardinality(S) - 1

LEMMA DenseMeansNumbered ==
    ASSUME NEW S, IsFiniteSet(S), NEW cols
    PROVE  Dense(S, cols) <=> Numbered(S, cols)
<1> DEFINE N == 0..Cardinality(S) - 1
           f == [c \in S |-> cols[c].orderIndex]
<1>1. IsFiniteSet(N) /\ Cardinality(N) = Cardinality(S)
  BY NumbersCount
<1>2. \A c \in S : f[c] = cols[c].orderIndex
  OBVIOUS
<1>3. f = [c \in S |-> f[c]]
  OBVIOUS
<1>4. ASSUME Dense(S, cols) PROVE Numbered(S, cols)
  <2>1. {f[c] : c \in S} = N
    BY <1>2, <1>4 DEF Dense
  <2> HIDE DEF f, N
  <2>2. f \in Surjection(S, N)
    BY <1>3, <2>1 DEF Surjection
  <2>3. f \in Injection(S, N)
    BY <1>1, <2>2, FS_Surjection
  <2>4. \A c, d \in S : f[c] = f[d] => c = d
    BY <2>3 DEF Injection, IsInjective
  <2>5. \A c \in S : f[c] \in N
    BY <2>1
  <2> QED  BY <1>2, <2>4, <2>5 DEF Numbered, N
<1>5. ASSUME Numbered(S, cols) PROVE Dense(S, cols)
  <2>1. /\ \A c, d \in S : f[c] = f[d] => c = d
        /\ \A c \in S : f[c] \in N
    BY <1>2, <1>5 DEF Numbered
  <2>2. (0..Cardinality(S) - 1) = N
    OBVIOUS
  <2> HIDE DEF f, N
  <2>3. f \in Injection(S, N)
    BY <1>3, <2>1 DEF Injection, IsInjective
  <2>4. f \in Surjection(S, N)
    BY <1>1, <2>3, FS_Injection
  <2>5. {f[c] : c \in S} = N
    BY <2>1, <2>4 DEF Surjection
  <2>6. {cols[c].orderIndex : c \in S} = {f[c] : c \in S}
    BY <1>2
  <2> QED  BY <2>2, <2>5, <2>6 DEF Dense
<1> QED  BY <1>4, <1>5

\* In such a list a column's order is its place: as many columns come before.
LEMMA PlaceIsOrder ==
    ASSUME NEW S, IsFiniteSet(S), NEW cols, Dense(S, cols), NEW c \in S
    PROVE  Cardinality({d \in S : cols[d].orderIndex < cols[c].orderIndex})
                = cols[c].orderIndex
<1> DEFINE k == cols[c].orderIndex
           P == {d \in S : cols[d].orderIndex < k}
           f == [d \in P |-> cols[d].orderIndex]
<1>1. Numbered(S, cols)
  BY DenseMeansNumbered
<1>2. Cardinality(S) \in Nat
  BY FS_CardinalityType
<1>3. /\ k \in 0..Cardinality(S) - 1
      /\ \A d \in S : cols[d].orderIndex \in 0..Cardinality(S) - 1
      /\ \A d, e \in S : cols[d].orderIndex = cols[e].orderIndex => d = e
  BY <1>1 DEF Numbered
<1>4. \A m \in 0..k - 1 : \E d \in P : cols[d].orderIndex = m
  <2> TAKE m \in 0..k - 1
  <2>1. m \in 0..Cardinality(S) - 1 /\ m < k
    BY <1>2, <1>3
  <2>2. PICK d \in S : cols[d].orderIndex = m
    BY <2>1 DEF Dense
  <2> QED  BY <2>1, <2>2
<1>5. \A d \in P : cols[d].orderIndex \in 0..k - 1
  BY <1>2, <1>3
<1>6. /\ \A d \in P : f[d] = cols[d].orderIndex
      /\ f = [d \in P |-> f[d]]
      /\ P \in SUBSET S
  OBVIOUS
<1>7. IsFiniteSet(P)
  BY <1>6, FS_Subset
<1>8. /\ \A d, e \in P : f[d] = f[e] => d = e
      /\ \A d \in P : f[d] \in 0..k - 1
      /\ \A m \in 0..k - 1 : \E d \in P : f[d] = m
  BY <1>3, <1>4, <1>5, <1>6
<1>9. k \in Nat
  BY <1>2, <1>3
<1>10. Cardinality(P) = Cardinality(0..k - 1)
  <2> HIDE DEF f, P, k
  <2>1. f \in Bijection(P, 0..k - 1)
    BY <1>6, <1>8 DEF Bijection, Injection, Surjection, IsInjective
  <2>2. ExistsBijection(P, 0..k - 1)
    BY <2>1 DEF ExistsBijection
  <2> QED  BY <1>7, <2>2, FS_Bijection
<1>11. \A n \in Nat : Cardinality(0..n - 1) = n
  <2> TAKE n \in Nat
  <2>1. Cardinality(0..n - 1) = IF 0 > n - 1 THEN 0 ELSE n - 1 - 0 + 1
    BY FS_Interval
  <2> QED  BY <2>1
<1> QED  BY <1>9, <1>10, <1>11

LEMMA BoardColumnsFinite ==
    ASSUME TypeOK, NEW b
    PROVE  IsFiniteSet(ColumnsOf(b, columns))
BY TablesOK, FS_Subset DEF ColumnsOf

\* A step that touches neither a column nor the counter of boards.
LEMMA ColumnsKeptDense ==
    ASSUME ColumnOrderDense, UNCHANGED columns, lastId'.board = lastId.board
    PROVE  ColumnOrderDense'
BY DEF ColumnOrderDense, ColumnsOf, Boards

LEMMA IntervalCount ==
    ASSUME NEW m \in Nat, NEW n \in Nat
    PROVE  Cardinality(m + 1 .. m + n) = n
<1>1. m + 1 \in Int /\ m + n \in Int
  OBVIOUS
<1>2. \A a, b \in Int : Cardinality(a..b) = IF a > b THEN 0 ELSE b - a + 1
  BY FS_Interval
<1>3. Cardinality(m + 1 .. m + n) = IF m + 1 > m + n THEN 0 ELSE m + n - (m + 1) + 1
  BY <1>1, <1>2
<1> QED  BY <1>3

\* The new board's columns are numbered from 0 and belong to no other board.
LEMMA CreateBoardDense ==
    ASSUME TypeOK, ColumnOrderDense, CreateBoard
    PROVE  ColumnOrderDense'
<1> DEFINE last == lastId.column
           fresh == lastId.board + 1
           new == last + 1 .. last + DefaultColumns
<1>1. /\ lastId.board \in Nat /\ last \in Nat /\ DefaultColumns \in Nat
      /\ DOMAIN columns \subseteq 1..last
      /\ \A c \in DOMAIN columns : columns[c].boardId \in 1..lastId.board
  BY BoundsAssumption DEF TypeOK, Boards
<1>2. lastId'.board = fresh
  BY DEF CreateBoard, TypeOK
<1>3. /\ DOMAIN columns' = DOMAIN columns \cup new
      /\ \A c \in DOMAIN columns : columns'[c] = columns[c]
      /\ \A c \in new \ DOMAIN columns :
            columns'[c] = [boardId |-> fresh, orderIndex |-> c - last - 1]
  BY DEF CreateBoard
<1>4. new \cap DOMAIN columns = {}
  BY <1>1
<1>5. \A c \in new : columns'[c].boardId = fresh /\ columns'[c].orderIndex = c - last - 1
  <2> HIDE DEF new, fresh, last
  <2> QED  BY <1>3, <1>4
<1>6. fresh \notin 1..lastId.board
  BY <1>1
<1>7. ASSUME NEW b \in 1..lastId.board
      PROVE  Dense(ColumnsOf(b, columns'), columns')
  <2>1. ColumnsOf(b, columns') = ColumnsOf(b, columns)
    <3> HIDE DEF new, fresh, last
    <3> QED  BY <1>3, <1>5, <1>6 DEF ColumnsOf
  <2>2. Dense(ColumnsOf(b, columns), columns)
    BY DEF ColumnOrderDense, Dense, Boards
  <2>3. \A c \in ColumnsOf(b, columns) : columns'[c] = columns[c]
    BY <1>3 DEF ColumnsOf
  <2> QED  BY <2>1, <2>2, <2>3 DEF Dense
<1>8. Dense(ColumnsOf(fresh, columns'), columns')
  <2>1. ColumnsOf(fresh, columns') = new
    <3> HIDE DEF new, fresh, last
    <3> QED  BY <1>1, <1>3, <1>5, <1>6 DEF ColumnsOf
  <2>2. Cardinality(new) = DefaultColumns
    BY <1>1, IntervalCount
  <2>3. \A c \in new : c - last - 1 \in 0..DefaultColumns - 1
    BY <1>1
  <2>4. \A m \in 0..DefaultColumns - 1 : \E c \in new : c - last - 1 = m
    <3> TAKE m \in 0..DefaultColumns - 1
    <3>1. m + last + 1 \in new /\ (m + last + 1) - last - 1 = m
      BY <1>1
    <3> HIDE DEF new, last
    <3> QED  BY <3>1
  <2>5. \A m \in 0..DefaultColumns - 1 : \E c \in new : columns'[c].orderIndex = m
    <3> HIDE DEF new, last
    <3> QED  BY <1>5, <2>4
  <2>6. \A c \in new : columns'[c].orderIndex \in 0..DefaultColumns - 1
    <3> HIDE DEF new, last
    <3> QED  BY <1>5, <2>3
  <2>7. {columns'[c].orderIndex : c \in new} = 0..DefaultColumns - 1
    <3> HIDE DEF new
    <3> QED  BY <2>5, <2>6
  <2> QED  BY <2>1, <2>2, <2>7 DEF Dense
<1>9. \A b \in Boards' : b \in 1..lastId.board \/ b = fresh
  BY <1>1, <1>2 DEF Boards
<1>10. \A b \in Boards' : Dense(ColumnsOf(b, columns'), columns')
  BY <1>7, <1>8, <1>9
<1> QED  BY <1>10 DEF ColumnOrderDense, Dense

\* The next order of a dense board is the number of its columns.
LEMMA NextOfDense ==
    ASSUME NEW n \in Nat
    PROVE  NextIndex(0..n - 1) = n
<1>1. CASE n = 0
  BY <1>1 DEF NextIndex
<1>2. CASE n # 0
  <2>1. IsFiniteSet(0..n - 1)
    BY FS_Interval
  <2>2. Max(0..n - 1) \in 0..n - 1 /\ \A m \in 0..n - 1 : m <= Max(0..n - 1)
    BY <1>2, <2>1, MaxProperty
  <2>3. Max(0..n - 1) = n - 1
    BY <1>2, <2>2
  <2> QED  BY <1>2, <2>3 DEF NextIndex
<1> QED  BY <1>1, <1>2

LEMMA CreateColumnDense ==
    ASSUME TypeOK, ColumnOrderDense, NEW b \in Boards, CreateColumn(b)
    PROVE  ColumnOrderDense'
<1> DEFINE new == lastId.column + 1
           S == ColumnsOf(b, columns)
           n == Cardinality(S)
<1>1. /\ lastId.column \in Nat
      /\ DOMAIN columns \subseteq 1..lastId.column
      /\ new \notin DOMAIN columns
  BY DEF TypeOK
<1>2. lastId'.board = lastId.board
  BY DEF CreateColumn, TypeOK
<1>3. n \in Nat /\ IsFiniteSet(S)
  BY BoardColumnsFinite, FS_CardinalityType
<1>4. {columns[d].orderIndex : d \in S} = 0..n - 1
  BY DEF ColumnOrderDense
<1>5. NextIndex({columns[d].orderIndex : d \in S}) = n
  BY <1>3, <1>4, NextOfDense
<1>6. /\ DOMAIN columns' = DOMAIN columns \cup {new}
      /\ \A c \in DOMAIN columns : columns'[c] = columns[c]
      /\ columns'[new] = [boardId |-> b, orderIndex |-> n]
  BY <1>1, <1>5 DEF CreateColumn
<1>7. \A d \in Boards' : ColumnsOf(d, columns') =
            IF d = b THEN S \cup {new} ELSE ColumnsOf(d, columns)
  BY <1>1, <1>6 DEF ColumnsOf
<1>8. Dense(S \cup {new}, columns')
  <2>1. Cardinality(S \cup {new}) = n + 1
    BY <1>1, <1>3, FS_AddElement DEF ColumnsOf
  <2>2. /\ \A c \in S : columns'[c] = columns[c]
        /\ columns'[new].orderIndex = n
    BY <1>6 DEF ColumnsOf
  <2>3. (0..n - 1) \cup {n} = 0..n + 1 - 1
    BY <1>3
  <2>4. {columns'[c].orderIndex : c \in S \cup {new}}
            = {columns[c].orderIndex : c \in S} \cup {n}
    <3> HIDE DEF S, n
    <3> QED  BY <2>2
  <2> QED  BY <1>4, <2>1, <2>3, <2>4 DEF Dense
<1>9. ASSUME NEW d \in Boards', d # b PROVE Dense(ColumnsOf(d, columns'), columns')
  <2>1. d \in Boards
    BY <1>2 DEF Boards
  <2>2. \A c \in ColumnsOf(d, columns) : columns'[c] = columns[c]
    BY <1>6 DEF ColumnsOf
  <2> QED  BY <1>7, <1>9, <2>1, <2>2 DEF ColumnOrderDense, Dense
<1>10. \A d \in Boards' : Dense(ColumnsOf(d, columns'), columns')
  BY <1>7, <1>8, <1>9
<1> QED  BY <1>10 DEF ColumnOrderDense, Dense

\* Taking a column out of its place and putting it back at another moves no
\* two columns to the same place.
LEMMA ReorderColumnsDense ==
    ASSUME TypeOK, ColumnOrderDense, NEW b \in Boards,
           NEW old \in 0..Cardinality(ColumnsOf(b, columns)) - 1,
           NEW new \in 0..Cardinality(ColumnsOf(b, columns)) - 1,
           ReorderColumns(b, old, new)
    PROVE  ColumnOrderDense'
<1> DEFINE S == ColumnsOf(b, columns)
           n == Cardinality(S)
           at(p) == IF p = old THEN new
                    ELSE IF old < p /\ p <= new THEN p - 1
                    ELSE IF new <= p /\ p < old THEN p + 1
                    ELSE p
<1>1. n \in Nat /\ IsFiniteSet(S)
  BY BoardColumnsFinite, FS_CardinalityType
<1>2. Dense(S, columns) /\ Numbered(S, columns)
  BY <1>1, DenseMeansNumbered DEF ColumnOrderDense, Dense
<1>3. /\ DOMAIN columns' = DOMAIN columns
      /\ \A c \in DOMAIN columns : columns'[c].boardId = columns[c].boardId
      /\ \A c \in DOMAIN columns \ S : columns'[c] = columns[c]
      /\ \A c \in S : columns'[c].orderIndex = ReorderedIndex(c, old, new, columns)
  BY DEF ReorderColumns, ColumnsOf, TypeOK
<1>4. \A d : ColumnsOf(d, columns') = ColumnsOf(d, columns)
  BY <1>3 DEF ColumnsOf
<1>5. ASSUME NEW c \in S
      PROVE  columns'[c].orderIndex = at(columns[c].orderIndex)
  <2>1. columns[c].boardId = b
    BY DEF ColumnsOf
  <2>2. Cardinality({d \in S : columns[d].orderIndex < columns[c].orderIndex})
            = columns[c].orderIndex
    <3>1. IsFiniteSet(S) /\ Dense(S, columns)
      BY <1>1, <1>2
    <3> HIDE DEF S, n
    <3> QED  BY <3>1, PlaceIsOrder
  <2>3. ReorderedIndex(c, old, new, columns) = at(columns[c].orderIndex)
    BY <2>1, <2>2 DEF ReorderedIndex
  <2> HIDE DEF at, S
  <2> QED  BY <1>3, <2>3
<1>6. \A p, q \in 0..n - 1 : at(p) \in 0..n - 1 /\ (at(p) = at(q) => p = q)
  <2>1. old \in 0..n - 1 /\ new \in 0..n - 1
    OBVIOUS
  <2> HIDE DEF n
  <2> QED  BY <1>1, <2>1
<1>7. Numbered(S, columns')
  <2>1. /\ \A c \in S : columns[c].orderIndex \in 0..n - 1
        /\ \A c, d \in S : columns[c].orderIndex = columns[d].orderIndex => c = d
    BY <1>2 DEF Numbered
  <2> HIDE DEF at, n, S
  <2>2. /\ \A c \in S : columns'[c].orderIndex \in 0..n - 1
        /\ \A c, d \in S : columns'[c].orderIndex = columns'[d].orderIndex => c = d
    BY <1>5, <1>6, <2>1
  <2> QED  BY <2>2 DEF Numbered, n
<1>8. Dense(S, columns')
  BY <1>1, <1>7, DenseMeansNumbered
<1>9. ASSUME NEW d \in Boards, d # b PROVE Dense(ColumnsOf(d, columns), columns')
  <2>1. \A c \in ColumnsOf(d, columns) : columns'[c] = columns[c]
    BY <1>3, <1>9 DEF ColumnsOf
  <2> QED  BY <2>1 DEF ColumnOrderDense, Dense
<1>10. Boards' = Boards
  BY DEF ReorderColumns, Boards
<1>11. \A d \in Boards' : Dense(ColumnsOf(d, columns'), columns')
  BY <1>4, <1>8, <1>9, <1>10
<1> QED  BY <1>11 DEF ColumnOrderDense, Dense

\* deleteColumn closes the gap in the board of the column, and there only.
LEMMA DeleteColumnDense ==
    ASSUME TypeOK, ColumnOrderDense, NEW c \in DOMAIN columns, DeleteColumn(c)
    PROVE  ColumnOrderDense'
<1> DEFINE b == columns[c].boardId
           k == columns[c].orderIndex
           S == ColumnsOf(b, columns)
           n == Cardinality(S)
           at(p) == IF p > k THEN p - 1 ELSE p
<1>1. /\ n \in Nat /\ IsFiniteSet(S)
      /\ c \in S /\ b \in Boards
  BY BoardColumnsFinite, FS_CardinalityType DEF ColumnsOf, TypeOK
<1>2. Numbered(S, columns)
  BY <1>1, DenseMeansNumbered DEF ColumnOrderDense, Dense
<1>3. /\ DOMAIN columns' = DOMAIN columns \ {c}
      /\ \A d \in DOMAIN columns' : columns'[d].boardId = columns[d].boardId
      /\ \A d \in DOMAIN columns' \ S : columns'[d] = columns[d]
      /\ \A d \in S \ {c} : columns'[d].orderIndex = at(columns[d].orderIndex)
  BY DEF DeleteColumn, ColumnsWithout, ColumnsOf, TypeOK
<1>4. \A d : ColumnsOf(d, columns') =
            IF d = b THEN S \ {c} ELSE ColumnsOf(d, columns)
  BY <1>3 DEF ColumnsOf
<1>5. Dense(S \ {c}, columns')
  <2>1. Cardinality(S \ {c}) = n - 1 /\ IsFiniteSet(S \ {c})
    BY <1>1, FS_RemoveElement
  <2>2. /\ \A d \in S : columns[d].orderIndex \in 0..n - 1
        /\ \A d, e \in S : columns[d].orderIndex = columns[e].orderIndex => d = e
    BY <1>2 DEF Numbered
  <2>3. k \in 0..n - 1 /\ \A d \in S \ {c} : columns[d].orderIndex # k
    BY <1>1, <2>2
  <2>4. \A p, q \in 0..n - 1 : p # k /\ q # k =>
            at(p) \in 0..n - 1 - 1 /\ (at(p) = at(q) => p = q)
    <3> HIDE DEF n, k
    <3> QED  BY <1>1, <2>3
  <2>5. \A d \in S \ {c} : columns'[d].orderIndex = at(columns[d].orderIndex)
    BY <1>3
  <2>6. /\ \A d \in S \ {c} : columns'[d].orderIndex \in 0..n - 1 - 1
        /\ \A d, e \in S \ {c} :
                columns'[d].orderIndex = columns'[e].orderIndex => d = e
    <3> HIDE DEF at, n, S, k
    <3> QED  BY <2>2, <2>3, <2>4, <2>5
  <2>7. Numbered(S \ {c}, columns')
    BY <2>1, <2>6 DEF Numbered
  <2> QED  BY <2>1, <2>7, DenseMeansNumbered
<1>6. ASSUME NEW d \in Boards, d # b PROVE Dense(ColumnsOf(d, columns), columns')
  <2>1. \A e \in ColumnsOf(d, columns) : columns'[e] = columns[e]
    BY <1>1, <1>3, <1>6 DEF ColumnsOf
  <2> QED  BY <2>1 DEF ColumnOrderDense, Dense
<1>7. Boards' = Boards
  BY DEF DeleteColumn, Boards
<1>8. \A d \in Boards' : Dense(ColumnsOf(d, columns'), columns')
  BY <1>4, <1>5, <1>6, <1>7
<1> QED  BY <1>8 DEF ColumnOrderDense, Dense

LEMMA NextColumnsDense ==
    ASSUME TypeOK, ColumnOrderDense, [Next]_vars
    PROVE  ColumnOrderDense'
<1>1. ASSUME NEW c \in DOMAIN columns, CreateGroup(c) PROVE ColumnOrderDense'
  BY <1>1, ColumnsKeptDense DEF CreateGroup, TypeOK
<1>2. ASSUME NEW c \in DOMAIN columns, NEW g, AddItemToColumn(c, g)
      PROVE  ColumnOrderDense'
  BY <1>2, ColumnsKeptDense DEF AddItemToColumn, TypeOK
<1>3. ASSUME NEW ch, SyncItemPositions(ch) PROVE ColumnOrderDense'
  BY <1>3, ColumnsKeptDense DEF SyncItemPositions
<1>4. ASSUME NEW ch, SyncGroupPositions(ch) PROVE ColumnOrderDense'
  BY <1>4, ColumnsKeptDense DEF SyncGroupPositions
<1>5. ASSUME NEW g, DeleteGroup(g) PROVE ColumnOrderDense'
  BY <1>5, ColumnsKeptDense DEF DeleteGroup
<1>6. ASSUME NEW i, DeleteItem(i) PROVE ColumnOrderDense'
  BY <1>6, ColumnsKeptDense DEF DeleteItem
<1>7. CASE UNCHANGED vars
  BY <1>7, ColumnsKeptDense DEF vars
<1> QED
  BY <1>1, <1>2, <1>3, <1>4, <1>5, <1>6, <1>7, CreateBoardDense, CreateColumnDense,
     ReorderColumnsDense, DeleteColumnDense DEF Next

\* However boards and columns are created, reordered and deleted, the columns
\* of every board are numbered 0, 1, 2, ... without a gap.
THEOREM ColumnOrder == Spec => []ColumnOrderDense
<1>1. Init => ColumnOrderDense
  BY DEF Init, ColumnOrderDense, Boards
<1>2. TypeOK /\ ColumnOrderDense /\ [Next]_vars => (TypeOK /\ ColumnOrderDense)'
  BY NextTypeOK, NextColumnsDense
<1> QED  BY <1>1, <1>2, InitTypeOK, PTL DEF Spec

-----------------------------------------------------------------------------
(* What normalisation establishes in one column.                           *)

\* The normalised columns keep their entries and get distinct indexes.
LEMMA NormalizedRootsUnique ==
    ASSUME NEW cols, NEW grs, NEW its, NEW groupMark, NEW itemMark, NEW C, NEW G,
           FiniteTables(grs, its), GroupTable(grs, C), ItemTable(its, C, G),
           NEW c \in cols,
           NEW n, n = NormalizedRoots(cols, grs, its, groupMark, itemMark)
    PROVE  RootUniqueAt(c, n.groups, n.items)
<1> DEFINE S == RootEntries(c, grs, its, groupMark, itemMark)
           ge(g) == GroupEntry(g, grs, groupMark)
           ie(i) == ItemEntry(i, its, itemMark)
<1>1. GroupsOf(c, n.groups) = GroupsOf(c, grs) /\ RootItems(c, n.items) = RootItems(c, its)
  BY NormalizedRootsType DEF GroupsOf, RootItems
<1>2. \A g \in GroupsOf(c, grs) : n.groups[g].orderIndex = Place(ge(g), S)
  BY DEF NormalizedRoots, GroupsOf, GroupTable
<1>3. \A i \in RootItems(c, its) : n.items[i].rowIndex = Place(ie(i), S)
  BY DEF NormalizedRoots, RootItems, ItemTable
<1>4. /\ \A g \in GroupsOf(c, grs) : ge(g) \in S
      /\ \A i \in RootItems(c, its) : ie(i) \in S
  BY DEF RootEntries
<1>5. \A e, f \in S : Place(e, S) = Place(f, S) => e = f
  <2>1. IsFiniteSet(S)
    BY RootEntriesFinite DEF FiniteTables
  <2> HIDE DEF S
  <2> QED  BY <2>1, PlaceProperty
<1>6. /\ \A g, h : ge(g) = ge(h) => g = h
      /\ \A i, j : ie(i) = ie(j) => i = j
      /\ \A g, i : ge(g) # ie(i)
  BY DEF GroupEntry, ItemEntry
<1> HIDE DEF S, ge, ie
<1> QED  BY <1>1, <1>2, <1>3, <1>4, <1>5, <1>6 DEF RootUniqueAt

\* The other columns keep their rows.
LEMMA OtherRootsKept ==
    ASSUME NEW cols, NEW grs, NEW its, NEW groupMark, NEW itemMark, NEW C, NEW G,
           FiniteTables(grs, its), GroupTable(grs, C), ItemTable(its, C, G),
           NEW c, c \notin cols, RootUniqueAt(c, grs, its),
           NEW n, n = NormalizedRoots(cols, grs, its, groupMark, itemMark)
    PROVE  RootUniqueAt(c, n.groups, n.items)
<1>1. GroupsOf(c, n.groups) = GroupsOf(c, grs) /\ RootItems(c, n.items) = RootItems(c, its)
  BY NormalizedRootsType DEF GroupsOf, RootItems
<1>2. \A g \in GroupsOf(c, grs) : n.groups[g] = grs[g]
  BY DEF NormalizedRoots, GroupsOf
<1>3. \A i \in RootItems(c, its) : n.items[i] = its[i]
  BY DEF NormalizedRoots, RootItems
<1> QED  BY <1>1, <1>2, <1>3 DEF RootUniqueAt

\* Without moved entries the comparator is an order, whatever the indexes.
LEMMA PlainSortable ==
    ASSUME NEW grs, NEW its, NEW C, NEW G, GroupTable(grs, C), ItemTable(its, C, G),
           DOMAIN grs \subseteq Nat, DOMAIN its \subseteq Nat, NEW c
    PROVE  Sortable(RootEntries(c, grs, its, UnmovedMarks(grs), UnmovedMarks(its)))
<1> DEFINE S == RootEntries(c, grs, its, UnmovedMarks(grs), UnmovedMarks(its))
           ge(g) == [type |-> 1, id |-> g, index |-> grs[g].orderIndex, mark |-> Unmoved]
           ie(i) == [type |-> 0, id |-> i, index |-> its[i].rowIndex, mark |-> Unmoved]
<1>1. S = {ie(i) : i \in RootItems(c, its)} \cup {ge(g) : g \in GroupsOf(c, grs)}
  <2>1. \A g \in GroupsOf(c, grs) : GroupEntry(g, grs, UnmovedMarks(grs)) = ge(g)
    BY DEF GroupsOf, GroupEntry, UnmovedMarks
  <2>2. \A i \in RootItems(c, its) : ItemEntry(i, its, UnmovedMarks(its)) = ie(i)
    BY DEF RootItems, ItemEntry, UnmovedMarks
  <2> HIDE DEF ge, ie
  <2> QED  BY <2>1, <2>2 DEF RootEntries
<1>2. \A e \in S : e.mark = Unmoved
  BY <1>1
<1>3. S \subseteq Entry
  <2>1. Unmoved \in [priority : {0, 1, 2}, order : Nat]
    BY DEF Unmoved
  <2>2. \A g \in GroupsOf(c, grs) : g \in Nat /\ grs[g].orderIndex \in Nat
    BY DEF GroupsOf, GroupTable
  <2>3. \A i \in RootItems(c, its) : i \in Nat /\ its[i].rowIndex \in Nat
    BY DEF RootItems, ItemTable
  <2> QED  BY <1>1, <2>1, <2>2, <2>3 DEF Entry
<1>4. \A e, f \in S : e.type = f.type /\ e.id = f.id => e = f
  BY <1>1
<1> HIDE DEF S
<1>5. Sortable(S)
  BY <1>2, <1>3, <1>4 DEF Sortable, Unmoved
<1> QED  BY <1>5 DEF S

\* The cards of one group get distinct rows.
LEMMA MemberRankInjective ==
    ASSUME NEW its, IsFiniteSet(DOMAIN its), NEW C, NEW G, ItemTable(its, C, G),
           DOMAIN its \subseteq Nat, NEW g,
           NEW i \in Members(g, its), NEW j \in Members(g, its),
           MemberRank(i, its) = MemberRank(j, its)
    PROVE  i = j
<1> DEFINE before(a, b) == \/ its[a].rowIndex < its[b].rowIndex
                           \/ its[a].rowIndex = its[b].rowIndex /\ a < b
           B(a) == {b \in Members(g, its) : before(b, a)}
<1>1. \A a \in Members(g, its) :
            a \in Nat /\ its[a].rowIndex \in Nat /\ its[a].groupId = g
  BY DEF Members, ItemTable
<1>2. \A a \in Members(g, its) : MemberRank(a, its) = Cardinality(B(a))
  BY <1>1 DEF MemberRank
<1>3. ASSUME NEW a \in Members(g, its), NEW b \in Members(g, its), before(a, b)
      PROVE  Cardinality(B(a)) # Cardinality(B(b))
  <2>1. B(a) \in SUBSET B(b)
    BY <1>1, <1>3
  <2>2. a \in B(b) /\ a \notin B(a)
    BY <1>1, <1>3
  <2>3. IsFiniteSet(B(b))
    BY FS_Subset DEF Members
  <2> HIDE DEF B
  <2> QED  BY <2>1, <2>2, <2>3, FS_Subset
<1>4. i # j => before(i, j) \/ before(j, i)
  BY <1>1
<1> HIDE DEF before, B
<1> QED  BY <1>2, <1>3, <1>4

-----------------------------------------------------------------------------
(* The transaction of syncItemPositions.                                   *)

\* Rows of a table, before the request: what the lemmas below assume of them.
Rows(grs, its, C) ==
    /\ FiniteTables(grs, its)
    /\ GroupTable(grs, C)
    /\ ItemTable(its, C, DOMAIN grs)
    /\ DOMAIN grs \subseteq Nat \ {0}
    /\ DOMAIN its \subseteq Nat \ {0}

Shared(grs, its) ==
    \A g \in DOMAIN grs : \A i \in Members(g, its) : its[i].columnId = grs[g].columnId

MembersUnique(g, its) ==
    \A i, j \in Members(g, its) : its[i].rowIndex = its[j].rowIndex => i = j

\* What the checks of syncItemPositions leave of the changes of a request.
ItemRequest(ch, grs, its, C) ==
    \E S : /\ ch \in Batches(S)
          /\ \A change \in S :
                /\ change.id \in DOMAIN its
                /\ change.newColumnId \in C
                /\ change.newGroupId \in {NoGroup} \cup DOMAIN grs
                /\ change.newIndex \in Nat
                /\ \/ change.newGroupId = NoGroup
                   \/ grs[change.newGroupId].columnId = change.newColumnId

\* Rows after the transaction's loop of updates and before its normalisations.
LEMMA WrittenItemsProperty ==
    ASSUME NEW ch, NEW grs, NEW its, NEW C, Rows(grs, its, C),
           ItemRequest(ch, grs, its, C),
           NEW w, w = WrittenItems(ch, its)
    PROVE  /\ DOMAIN w = DOMAIN its
           /\ ItemTable(w, C, DOMAIN grs)
           /\ \A i \in DOMAIN its \ Named(ch) : w[i] = its[i]
           /\ \A i \in DOMAIN its \cap Named(ch) :
                /\ LastFor(ch, i) \in DOMAIN ch
                /\ LastFor(ch, i) \in Nat \ {0}
                /\ ch[LastFor(ch, i)].id = i
                /\ w[i].columnId = ch[LastFor(ch, i)].newColumnId
                /\ w[i].groupId = ch[LastFor(ch, i)].newGroupId
                /\ w[i].rowIndex = ch[LastFor(ch, i)].newIndex
                /\ \/ w[i].groupId = NoGroup
                   \/ grs[w[i].groupId].columnId = w[i].columnId
<1>1. PICK S : /\ ch \in Batches(S)
               /\ \A change \in S :
                    /\ change.id \in DOMAIN its
                    /\ change.newColumnId \in C
                    /\ change.newGroupId \in {NoGroup} \cup DOMAIN grs
                    /\ change.newIndex \in Nat
                    /\ \/ change.newGroupId = NoGroup
                       \/ grs[change.newGroupId].columnId = change.newColumnId
  BY DEF ItemRequest
<1>2. \A i \in Named(ch) : /\ LastFor(ch, i) \in DOMAIN ch
                           /\ LastFor(ch, i) \in Nat \ {0}
                           /\ ch[LastFor(ch, i)].id = i
                           /\ ch[LastFor(ch, i)] \in S
  BY <1>1, LastForProperty
<1>3. DOMAIN w = DOMAIN its /\ \A i \in DOMAIN its \ Named(ch) : w[i] = its[i]
  BY DEF WrittenItems
<1>4. \A i \in DOMAIN its \cap Named(ch) :
            w[i] = [columnId |-> ch[LastFor(ch, i)].newColumnId,
                    groupId  |-> ch[LastFor(ch, i)].newGroupId,
                    rowIndex |-> ch[LastFor(ch, i)].newIndex]
  BY DEF WrittenItems
<1>5. ItemTable(w, C, DOMAIN grs)
  <2>1. \A i \in DOMAIN its :
            w[i] \in [columnId : C, groupId : {NoGroup} \cup DOMAIN grs, rowIndex : Nat]
    BY <1>1, <1>2, <1>3, <1>4 DEF Rows, ItemTable
  <2>2. w = [i \in DOMAIN w |-> w[i]]
    BY DEF WrittenItems
  <2> QED  BY <1>3, <2>1, <2>2 DEF ItemTable
<1> QED  BY <1>1, <1>2, <1>3, <1>4, <1>5

\* The normalisation of groups does not touch ungrouped cards.
LEMMA RootItemsKept ==
    ASSUME NEW gs, NoGroup \notin gs, NEW its, NEW C, NEW G,
           IsFiniteSet(DOMAIN its), ItemTable(its, C, G), NEW c
    PROVE  /\ RootItems(c, NormalizedMembers(gs, its)) = RootItems(c, its)
           /\ \A i \in RootItems(c, its) : NormalizedMembers(gs, its)[i] = its[i]
BY DEF NormalizedMembers, ItemTable, RootItems

\* The list sorted in a column that the request touches: an entry that moved
\* neither up nor down is where it was, so two of them do not collide.
LEMMA ItemSyncSortable ==
    ASSUME NEW ch, NEW grs, NEW its, NEW C, Rows(grs, its, C),
           ItemRequest(ch, grs, its, C), NEW c, RootUniqueAt(c, grs, its),
           NEW m, m = NormalizedMembers(ItemSyncGroups(ch, its), WrittenItems(ch, its))
    PROVE  Sortable(RootEntries(c, grs, m, UnmovedMarks(grs), ItemMoveMarks(ch, its, its)))
<1> DEFINE w == WrittenItems(ch, its)
           mark == ItemMoveMarks(ch, its, its)
           S == RootEntries(c, grs, m, UnmovedMarks(grs), mark)
           ge(g) == [type |-> 1, id |-> g, index |-> grs[g].orderIndex, mark |-> Unmoved]
           ie(i) == [type |-> 0, id |-> i, index |-> w[i].rowIndex, mark |-> mark[i]]
           hasOld(i) == /\ its[i].columnId = ch[LastFor(ch, i)].newColumnId
                        /\ its[i].groupId = NoGroup
<1>1. /\ DOMAIN w = DOMAIN its
      /\ ItemTable(w, C, DOMAIN grs)
      /\ \A i \in DOMAIN its \ Named(ch) : w[i] = its[i]
      /\ \A i \in DOMAIN its \cap Named(ch) :
            /\ LastFor(ch, i) \in DOMAIN ch
            /\ LastFor(ch, i) \in Nat \ {0}
            /\ ch[LastFor(ch, i)].id = i
            /\ w[i].columnId = ch[LastFor(ch, i)].newColumnId
            /\ w[i].groupId = ch[LastFor(ch, i)].newGroupId
            /\ w[i].rowIndex = ch[LastFor(ch, i)].newIndex
  BY WrittenItemsProperty
<1>2. RootItems(c, m) = RootItems(c, w) /\ \A i \in RootItems(c, w) : m[i] = w[i]
  <2>1. NoGroup \notin ItemSyncGroups(ch, its)
    BY DEF ItemSyncGroups
  <2> HIDE DEF w
  <2> QED  BY <1>1, <2>1, RootItemsKept DEF Rows, FiniteTables, w
<1>3. \A i \in DOMAIN its :
            mark[i] = IF i \in Named(ch)
                      THEN Moved(hasOld(i), its[i].rowIndex,
                                 ch[LastFor(ch, i)].newIndex, LastFor(ch, i))
                      ELSE Unmoved
  BY DEF ItemMoveMarks
<1>4. S = {ie(i) : i \in RootItems(c, w)} \cup {ge(g) : g \in GroupsOf(c, grs)}
  <2>1. \A g \in GroupsOf(c, grs) : GroupEntry(g, grs, UnmovedMarks(grs)) = ge(g)
    BY DEF GroupsOf, GroupEntry, UnmovedMarks
  <2>2. \A i \in RootItems(c, m) : ItemEntry(i, m, mark) = ie(i)
    BY <1>2 DEF ItemEntry
  <2> HIDE DEF ge, ie, mark, w
  <2> QED  BY <1>2, <2>1, <2>2 DEF RootEntries
<1> HIDE DEF w, mark
<1>5. \A i \in RootItems(c, w) :
            /\ i \in DOMAIN its /\ i \in Nat /\ w[i].rowIndex \in Nat
            /\ its[i].rowIndex \in Nat
            /\ w[i].columnId = c /\ w[i].groupId = NoGroup
  BY <1>1 DEF RootItems, ItemTable, Rows
<1>6. \A g \in GroupsOf(c, grs) : g \in Nat /\ grs[g].orderIndex \in Nat
  BY DEF GroupsOf, GroupTable, Rows
<1>7. \A i \in RootItems(c, w) :
            /\ mark[i] \in [priority : {0, 1, 2}, order : Nat]
            /\ mark[i].order = 0 => mark[i].priority = 1
            /\ mark[i].order # 0 => ch[mark[i].order].id = i
  <2> TAKE i \in RootItems(c, w)
  <2>1. CASE i \in Named(ch)
    <3> DEFINE n == LastFor(ch, i)
    <3>1. n \in Nat \ {0} /\ ch[n].id = i /\ ch[n].newIndex \in Nat
      BY <1>1, <1>5, <2>1
    <3>2. mark[i] = Moved(hasOld(i), its[i].rowIndex, ch[n].newIndex, n)
      BY <1>3, <1>5, <2>1
    <3> HIDE DEF n, hasOld
    <3>3. mark[i].order = n /\ mark[i].priority \in {0, 1, 2}
      BY <3>2 DEF Moved
    <3>4. mark[i] = [priority |-> mark[i].priority, order |-> mark[i].order]
      BY <3>2 DEF Moved
    <3> QED  BY <3>1, <3>3, <3>4
  <2>2. CASE i \notin Named(ch)
    <3>1. mark[i] = Unmoved
      BY <1>3, <1>5, <2>2
    <3> QED  BY <3>1 DEF Unmoved
  <2> QED  BY <2>1, <2>2
<1>8. \A i \in RootItems(c, w) : mark[i].priority = 1 =>
            i \in RootItems(c, its) /\ its[i].rowIndex = w[i].rowIndex
  <2> SUFFICES ASSUME NEW i \in RootItems(c, w), mark[i].priority = 1
               PROVE  i \in RootItems(c, its) /\ its[i].rowIndex = w[i].rowIndex
    OBVIOUS
  <2>1. CASE i \in Named(ch)
    <3> DEFINE n == LastFor(ch, i)
    <3>1. n \in Nat \ {0} /\ ch[n].newIndex \in Nat
      BY <1>1, <1>5, <2>1
    <3>2. mark[i] = Moved(hasOld(i), its[i].rowIndex, ch[n].newIndex, n)
      BY <1>3, <1>5, <2>1
    <3>3. hasOld(i) /\ its[i].rowIndex = ch[n].newIndex
      <4> HIDE DEF n, hasOld
      <4> QED  BY <1>5, <3>1, <3>2 DEF Moved
    <3> QED  BY <1>1, <1>5, <2>1, <3>3 DEF RootItems
  <2>2. CASE i \notin Named(ch)
    BY <1>1, <1>5, <2>2 DEF RootItems
  <2> QED  BY <2>1, <2>2
<1>9. S \subseteq Entry
  <2>1. \A i \in RootItems(c, w) : ie(i) \in Entry
    BY <1>5, <1>7 DEF Entry
  <2>2. \A g \in GroupsOf(c, grs) : ge(g) \in Entry
    BY <1>6 DEF Entry, Unmoved
  <2> HIDE DEF S, ie, ge
  <2> QED  BY <1>4, <2>1, <2>2
<1>10. \A e, f \in S : e.type = f.type /\ e.id = f.id => e = f
  <2> HIDE DEF S
  <2> QED  BY <1>4
<1>11. \A e \in S : e.mark.order = 0 => e.mark.priority = 1
  <2> HIDE DEF S
  <2> QED  BY <1>4, <1>7 DEF Unmoved
<1>12. \A e, f \in S : e.mark.order = f.mark.order /\ e.mark.order # 0 => e = f
  <2> HIDE DEF S
  <2> QED  BY <1>4, <1>7 DEF Unmoved
<1>13. \A e, f \in S : /\ e.index = f.index
                       /\ e.mark.priority = 1
                       /\ f.mark.priority = 1
                       => e = f
  <2> HIDE DEF S
  <2> QED  BY <1>4, <1>8 DEF RootUniqueAt
<1> HIDE DEF S
<1>14. Sortable(S)
  BY <1>9, <1>10, <1>11, <1>12, <1>13 DEF Sortable
<1> QED  BY <1>14 DEF S, mark

LEMMA ItemSyncKeepsOrder ==
    ASSUME NEW ch, NEW grs, NEW its, NEW C, Rows(grs, its, C),
           ItemRequest(ch, grs, its, C),
           \A c \in C : RootUniqueAt(c, grs, its),
           Shared(grs, its), \A g \in DOMAIN grs : MembersUnique(g, its),
           NEW after, after = ItemSync(ch, its, grs, its)
    PROVE  /\ \A c \in C : RootUniqueAt(c, after.groups, after.items)
           /\ Shared(after.groups, after.items)
           /\ \A g \in DOMAIN grs : MembersUnique(g, after.items)
<1> DEFINE w == WrittenItems(ch, its)
           gs == ItemSyncGroups(ch, its)
           m == NormalizedMembers(gs, w)
           cols == ItemSyncColumns(ch, its)
<1>1. /\ DOMAIN w = DOMAIN its
      /\ ItemTable(w, C, DOMAIN grs)
      /\ \A i \in DOMAIN its \ Named(ch) : w[i] = its[i]
      /\ \A i \in DOMAIN its \cap Named(ch) :
            /\ LastFor(ch, i) \in DOMAIN ch
            /\ w[i].columnId = ch[LastFor(ch, i)].newColumnId
            /\ w[i].groupId = ch[LastFor(ch, i)].newGroupId
            /\ \/ w[i].groupId = NoGroup
               \/ grs[w[i].groupId].columnId = w[i].columnId
  BY WrittenItemsProperty
<1>2. NoGroup \notin gs /\ NoGroup \notin DOMAIN grs
  BY DEF ItemSyncGroups, Rows, NoGroup
<1>3. \A i \in DOMAIN its \cap Named(ch) :
            /\ its[i].columnId \in cols /\ w[i].columnId \in cols
            /\ its[i].groupId # NoGroup => its[i].groupId \in gs
            /\ w[i].groupId # NoGroup => w[i].groupId \in gs
  <2> HIDE DEF w
  <2> QED  BY <1>1 DEF ItemSyncColumns, ItemSyncGroups
<1> HIDE DEF w, gs, cols
<1>4. /\ DOMAIN m = DOMAIN w
      /\ ItemTable(m, C, DOMAIN grs)
      /\ \A i \in DOMAIN w : /\ m[i].columnId = w[i].columnId
                             /\ m[i].groupId = w[i].groupId
                             /\ w[i].groupId \notin gs => m[i] = w[i]
      /\ \A i \in DOMAIN w : w[i].groupId \in gs => m[i].rowIndex = MemberRank(i, w)
  <2>1. IsFiniteSet(DOMAIN w)
    BY <1>1 DEF Rows, FiniteTables
  <2>2. \A i : MemberRank(i, w) \in Nat
    BY <2>1, MemberRankType
  <2> QED  BY <1>1, <2>2 DEF NormalizedMembers, ItemTable
<1>5. FiniteTables(grs, m)
  BY <1>1, <1>4 DEF Rows, FiniteTables
<1>6. after = NormalizedRoots(cols, grs, m, UnmovedMarks(grs), ItemMoveMarks(ch, its, its))
  BY DEF ItemSync, w, gs, cols
<1>7. ASSUME NEW c \in C
      PROVE  RootUniqueAt(c, after.groups, after.items)
  <2>1. CASE c \in cols
    <3> HIDE DEF m
    <3> QED  BY <1>4, <1>5, <1>6, <2>1, NormalizedRootsUnique DEF Rows
  <2>2. CASE c \notin cols
    <3>1. RootItems(c, m) = RootItems(c, its)
      BY <1>1, <1>3, <1>4, <2>2 DEF RootItems
    <3>2. \A i \in RootItems(c, its) : m[i] = its[i]
      BY <1>1, <1>2, <1>3, <1>4, <2>2 DEF RootItems
    <3>3. RootUniqueAt(c, grs, m)
      BY <3>1, <3>2 DEF RootUniqueAt
    <3> HIDE DEF m
    <3> QED  BY <1>4, <1>5, <1>6, <2>2, <3>3, OtherRootsKept DEF Rows
  <2> QED  BY <2>1, <2>2
<1>8. /\ DOMAIN after.groups = DOMAIN grs
      /\ \A g \in DOMAIN grs : after.groups[g].columnId = grs[g].columnId
      /\ DOMAIN after.items = DOMAIN its
      /\ \A i \in DOMAIN its : /\ after.items[i].columnId = w[i].columnId
                                /\ after.items[i].groupId = w[i].groupId
  <2> HIDE DEF m
  <2> QED  BY <1>1, <1>4, <1>5, <1>6, NormalizedRootsType DEF Rows
<1>9. Shared(after.groups, after.items)
  <2>1. \A i \in DOMAIN its : w[i].groupId \in DOMAIN grs =>
                w[i].columnId = grs[w[i].groupId].columnId
    BY <1>1, <1>2 DEF Shared, Members
  <2> QED  BY <1>8, <2>1 DEF Shared, Members
<1>10. ASSUME NEW g \in DOMAIN grs
       PROVE  MembersUnique(g, after.items)
  <2>1. \A i \in DOMAIN its : w[i].groupId = g => after.items[i].rowIndex = m[i].rowIndex
    <3>1. \A i \in DOMAIN its : w[i].groupId = g => m[i].groupId # NoGroup
      BY <1>1, <1>2, <1>4
    <3> HIDE DEF m
    <3> QED  BY <1>1, <1>4, <1>6, <3>1 DEF NormalizedRoots
  <2>2. Members(g, after.items) = Members(g, w)
    BY <1>1, <1>8 DEF Members
  <2>3. CASE g \in gs
    <3>1. \A i, j \in Members(g, w) : MemberRank(i, w) = MemberRank(j, w) => i = j
      BY <1>1, MemberRankInjective DEF Rows, FiniteTables
    <3> QED  BY <1>1, <1>4, <2>1, <2>2, <2>3, <3>1 DEF MembersUnique, Members
  <2>4. CASE g \notin gs
    <3>1. Members(g, w) = Members(g, its)
      BY <1>1, <1>2, <1>3, <2>4 DEF Members
    <3>2. \A i \in Members(g, its) : w[i] = its[i] /\ m[i] = w[i]
      BY <1>1, <1>2, <1>3, <1>4, <2>4, <3>1 DEF Members
    <3> QED  BY <1>1, <2>1, <2>2, <3>1, <3>2 DEF MembersUnique, Members
  <2> QED  BY <2>3, <2>4
<1> QED  BY <1>7, <1>9, <1>10

-----------------------------------------------------------------------------
(* The transaction of syncGroupPositions.                                  *)

\* What the checks of syncGroupPositions leave of a request that names no
\* group twice.
GroupRequest(ch, grs, C) ==
    /\ NamesOnce(ch)
    /\ \E S : /\ ch \in Batches(S)
             /\ \A change \in S : /\ change.id \in DOMAIN grs
                                   /\ change.newColumnId \in C
                                   /\ change.newIndex \in Nat

LEMMA WrittenGroupsProperty ==
    ASSUME NEW ch, NEW grs, NEW its, NEW C, Rows(grs, its, C), GroupRequest(ch, grs, C),
           NEW w, w = WrittenGroups(ch, grs)
    PROVE  /\ DOMAIN w = DOMAIN grs
           /\ GroupTable(w, C)
           /\ Named(ch) \subseteq DOMAIN grs
           /\ \A g \in DOMAIN grs \ Named(ch) : w[g] = grs[g]
           /\ \A g \in Named(ch) :
                /\ LastFor(ch, g) \in DOMAIN ch
                /\ LastFor(ch, g) \in Nat \ {0}
                /\ ch[LastFor(ch, g)].id = g
                /\ w[g].columnId = ch[LastFor(ch, g)].newColumnId
                /\ w[g].orderIndex = ch[LastFor(ch, g)].newIndex
<1>1. PICK S : /\ ch \in Batches(S)
               /\ \A change \in S : /\ change.id \in DOMAIN grs
                                     /\ change.newColumnId \in C
                                     /\ change.newIndex \in Nat
  BY DEF GroupRequest
<1>2. \A g \in Named(ch) : /\ LastFor(ch, g) \in DOMAIN ch
                           /\ LastFor(ch, g) \in Nat \ {0}
                           /\ ch[LastFor(ch, g)].id = g
                           /\ ch[LastFor(ch, g)] \in S
  BY <1>1, LastForProperty
<1>3. Named(ch) \subseteq DOMAIN grs
  BY <1>1, <1>2
<1>4. DOMAIN w = DOMAIN grs /\ \A g \in DOMAIN grs \ Named(ch) : w[g] = grs[g]
  BY DEF WrittenGroups
<1>5. ASSUME NEW g \in Named(ch)
      PROVE  /\ w[g].columnId = ch[LastFor(ch, g)].newColumnId
             /\ w[g].orderIndex = ch[LastFor(ch, g)].newIndex
             /\ w[g] \in [columnId : C, orderIndex : Nat]
  <2> DEFINE change == ch[LastFor(ch, g)]
  <2>1. w[g] = [columnId |-> change.newColumnId, orderIndex |-> change.newIndex]
    BY <1>3 DEF WrittenGroups
  <2>2. change.newColumnId \in C /\ change.newIndex \in Nat
    BY <1>1, <1>2
  <2> HIDE DEF change
  <2>3. w[g].columnId = change.newColumnId /\ w[g].orderIndex = change.newIndex
    BY <2>1
  <2> QED  BY <2>1, <2>2, <2>3 DEF change
<1>6. GroupTable(w, C)
  <2>1. \A g \in DOMAIN grs : grs[g] \in [columnId : C, orderIndex : Nat]
    BY DEF Rows, GroupTable
  <2>2. w = [g \in DOMAIN w |-> w[g]]
    BY DEF WrittenGroups
  <2> QED  BY <1>4, <1>5, <2>1, <2>2 DEF GroupTable
<1> HIDE DEF GroupTable
<1> QED  BY <1>2, <1>3, <1>4, <1>5, <1>6

\* Cards d are cards its with each grouped card in the column its group has
\* in w.
Follows(d, w, grs, its, C) ==
    /\ DOMAIN d = DOMAIN its
    /\ ItemTable(d, C, DOMAIN grs)
    /\ \A i \in DOMAIN its :
        /\ d[i].groupId = its[i].groupId
        /\ d[i].rowIndex = its[i].rowIndex
        /\ its[i].groupId = NoGroup => d[i] = its[i]
        /\ its[i].groupId # NoGroup => d[i].columnId = w[its[i].groupId].columnId

\* The cards of a group that changes its column follow it.
LEMMA CarriedItemsFollow ==
    ASSUME NEW ch, NEW grs, NEW its, NEW C, Rows(grs, its, C), GroupRequest(ch, grs, C),
           Shared(grs, its)
    PROVE  Follows(CarriedItems(ch, grs, its), WrittenGroups(ch, grs), grs, its, C)
<1> DEFINE w == WrittenGroups(ch, grs)
           d == CarriedItems(ch, grs, its)
<1>1. /\ DOMAIN w = DOMAIN grs
      /\ GroupTable(w, C)
      /\ Named(ch) \subseteq DOMAIN grs
      /\ \A g \in DOMAIN grs \ Named(ch) : w[g] = grs[g]
      /\ \A g \in Named(ch) :
            /\ LastFor(ch, g) \in DOMAIN ch
            /\ LastFor(ch, g) \in Nat \ {0}
            /\ ch[LastFor(ch, g)].id = g
            /\ w[g].columnId = ch[LastFor(ch, g)].newColumnId
  BY WrittenGroupsProperty
<1> HIDE DEF w
<1>2. NoGroup \notin Named(ch)
  BY <1>1 DEF Rows, NoGroup
<1>3. ASSUME NEW g \in Named(ch)
      PROVE  /\ CarryingChanges(ch, g, grs) = IF grs[g].columnId # w[g].columnId
                                              THEN {LastFor(ch, g)} ELSE {}
             /\ CarryingChanges(ch, g, grs) # {} =>
                    Max(CarryingChanges(ch, g, grs)) = LastFor(ch, g)
  <2>1. \A n \in DOMAIN ch : ch[n].id = g => n = LastFor(ch, g)
    BY <1>1 DEF GroupRequest, NamesOnce
  <2>2. CarryingChanges(ch, g, grs) = IF grs[g].columnId # w[g].columnId
                                      THEN {LastFor(ch, g)} ELSE {}
    BY <1>1, <2>1 DEF CarryingChanges
  <2>3. {LastFor(ch, g)} \in SUBSET Nat /\ IsFiniteSet({LastFor(ch, g)})
    BY <1>1, FS_Singleton
  <2>4. Max({LastFor(ch, g)}) = LastFor(ch, g)
    BY <2>3, MaxProperty
  <2> QED  BY <2>2, <2>4
<1>4. ASSUME NEW i \in DOMAIN its
      PROVE  d[i] = IF its[i].groupId = NoGroup THEN its[i]
                    ELSE [its[i] EXCEPT !.columnId = w[its[i].groupId].columnId]
  <2> DEFINE g == its[i].groupId
  <2>1. its[i] \in [columnId : C, groupId : {NoGroup} \cup DOMAIN grs, rowIndex : Nat]
    BY DEF Rows, ItemTable
  <2>2. d[i] = IF g \in Named(ch) /\ CarryingChanges(ch, g, grs) # {}
               THEN [its[i] EXCEPT !.columnId =
                        ch[Max(CarryingChanges(ch, g, grs))].newColumnId]
               ELSE its[i]
    BY DEF CarriedItems
  <2>3. g # NoGroup => its[i].columnId = grs[g].columnId
    BY <2>1 DEF Shared, Members
  <2>4. CASE g \in Named(ch) /\ grs[g].columnId # w[g].columnId
    BY <1>1, <1>2, <1>3, <2>2, <2>4
  <2>5. CASE g \in Named(ch) /\ grs[g].columnId = w[g].columnId
    BY <1>2, <1>3, <2>1, <2>2, <2>3, <2>5
  <2>6. CASE g \notin Named(ch)
    BY <1>1, <2>1, <2>2, <2>3, <2>6
  <2> QED  BY <2>4, <2>5, <2>6
<1>5. DOMAIN d = DOMAIN its /\ d = [i \in DOMAIN its |-> d[i]]
  BY DEF CarriedItems
<1> HIDE DEF d
<1>6. ASSUME NEW i \in DOMAIN its
      PROVE  /\ d[i] \in [columnId : C, groupId : {NoGroup} \cup DOMAIN grs, rowIndex : Nat]
             /\ d[i].groupId = its[i].groupId
             /\ d[i].rowIndex = its[i].rowIndex
             /\ its[i].groupId = NoGroup => d[i] = its[i]
             /\ its[i].groupId # NoGroup => d[i].columnId = w[its[i].groupId].columnId
  <2>1. its[i] \in [columnId : C, groupId : {NoGroup} \cup DOMAIN grs, rowIndex : Nat]
    BY DEF Rows, ItemTable
  <2>2. \A g \in DOMAIN grs : w[g].columnId \in C
    BY <1>1 DEF GroupTable
  <2> QED  BY <1>4, <2>1, <2>2
<1>7. Follows(d, w, grs, its, C)
  BY <1>5, <1>6 DEF Follows, ItemTable
<1> QED  BY <1>7 DEF d, w

\* As ItemSyncSortable, for the groups of a column.
LEMMA GroupSyncSortable ==
    ASSUME NEW ch, NEW grs, NEW its, NEW C, Rows(grs, its, C), GroupRequest(ch, grs, C),
           Shared(grs, its), NEW c, RootUniqueAt(c, grs, its),
           NEW w, w = WrittenGroups(ch, grs), NEW d, d = CarriedItems(ch, grs, its)
    PROVE  Sortable(RootEntries(c, w, d, GroupMoveMarks(ch, grs, grs), UnmovedMarks(its)))
<1> DEFINE mark == GroupMoveMarks(ch, grs, grs)
           S == RootEntries(c, w, d, mark, UnmovedMarks(its))
           ge(g) == [type |-> 1, id |-> g, index |-> w[g].orderIndex, mark |-> mark[g]]
           ie(i) == [type |-> 0, id |-> i, index |-> its[i].rowIndex, mark |-> Unmoved]
           hasOld(g) == grs[g].columnId = ch[LastFor(ch, g)].newColumnId
<1>1. /\ DOMAIN w = DOMAIN grs
      /\ GroupTable(w, C)
      /\ Named(ch) \subseteq DOMAIN grs
      /\ \A g \in DOMAIN grs \ Named(ch) : w[g] = grs[g]
      /\ \A g \in Named(ch) :
            /\ LastFor(ch, g) \in DOMAIN ch
            /\ LastFor(ch, g) \in Nat \ {0}
            /\ ch[LastFor(ch, g)].id = g
            /\ w[g].columnId = ch[LastFor(ch, g)].newColumnId
            /\ w[g].orderIndex = ch[LastFor(ch, g)].newIndex
  BY WrittenGroupsProperty
<1>2. /\ DOMAIN d = DOMAIN its
      /\ \A i \in DOMAIN its :
            /\ d[i].groupId = its[i].groupId
            /\ d[i].rowIndex = its[i].rowIndex
            /\ its[i].groupId = NoGroup => d[i] = its[i]
  <2>1. Follows(d, w, grs, its, C)
    BY CarriedItemsFollow
  <2> QED  BY <2>1 DEF Follows
<1>3. RootItems(c, d) = RootItems(c, its) /\ \A i \in RootItems(c, its) : d[i] = its[i]
  BY <1>2 DEF RootItems
<1>4. \A g \in DOMAIN grs :
            mark[g] = IF g \in Named(ch)
                      THEN Moved(hasOld(g), grs[g].orderIndex,
                                 ch[LastFor(ch, g)].newIndex, LastFor(ch, g))
                      ELSE Unmoved
  BY DEF GroupMoveMarks
<1>5. S = {ie(i) : i \in RootItems(c, its)} \cup {ge(g) : g \in GroupsOf(c, w)}
  <2>1. \A g \in GroupsOf(c, w) : GroupEntry(g, w, mark) = ge(g)
    BY DEF GroupEntry
  <2>2. \A i \in RootItems(c, its) : ItemEntry(i, d, UnmovedMarks(its)) = ie(i)
    BY <1>3 DEF RootItems, ItemEntry, UnmovedMarks
  <2> HIDE DEF ge, ie, mark
  <2> QED  BY <1>3, <2>1, <2>2 DEF RootEntries
<1> HIDE DEF mark
<1>6. \A g \in GroupsOf(c, w) :
            /\ g \in DOMAIN grs /\ g \in Nat /\ w[g].orderIndex \in Nat
            /\ grs[g].orderIndex \in Nat
            /\ w[g].columnId = c
  BY <1>1 DEF GroupsOf, GroupTable, Rows
<1>7. \A i \in RootItems(c, its) : i \in Nat /\ its[i].rowIndex \in Nat
  BY DEF RootItems, ItemTable, Rows
<1>8. \A g \in GroupsOf(c, w) :
            /\ mark[g] \in [priority : {0, 1, 2}, order : Nat]
            /\ mark[g].order = 0 => mark[g].priority = 1
            /\ mark[g].order # 0 => ch[mark[g].order].id = g
  <2> TAKE g \in GroupsOf(c, w)
  <2>1. CASE g \in Named(ch)
    <3> DEFINE n == LastFor(ch, g)
    <3>1. n \in Nat \ {0} /\ ch[n].id = g /\ ch[n].newIndex \in Nat
      BY <1>1, <1>6, <2>1
    <3>2. mark[g] = Moved(hasOld(g), grs[g].orderIndex, ch[n].newIndex, n)
      BY <1>4, <1>6, <2>1
    <3> HIDE DEF n, hasOld
    <3>3. mark[g].order = n /\ mark[g].priority \in {0, 1, 2}
      BY <3>2 DEF Moved
    <3>4. mark[g] = [priority |-> mark[g].priority, order |-> mark[g].order]
      BY <3>2 DEF Moved
    <3> QED  BY <3>1, <3>3, <3>4
  <2>2. CASE g \notin Named(ch)
    <3>1. mark[g] = Unmoved
      BY <1>4, <1>6, <2>2
    <3> QED  BY <3>1 DEF Unmoved
  <2> QED  BY <2>1, <2>2
<1>9. \A g \in GroupsOf(c, w) : mark[g].priority = 1 =>
            g \in GroupsOf(c, grs) /\ grs[g].orderIndex = w[g].orderIndex
  <2> SUFFICES ASSUME NEW g \in GroupsOf(c, w), mark[g].priority = 1
               PROVE  g \in GroupsOf(c, grs) /\ grs[g].orderIndex = w[g].orderIndex
    OBVIOUS
  <2>1. CASE g \in Named(ch)
    <3> DEFINE n == LastFor(ch, g)
    <3>1. n \in Nat \ {0} /\ ch[n].newIndex \in Nat
      BY <1>1, <1>6, <2>1
    <3>2. mark[g] = Moved(hasOld(g), grs[g].orderIndex, ch[n].newIndex, n)
      BY <1>4, <1>6, <2>1
    <3>3. hasOld(g) /\ grs[g].orderIndex = ch[n].newIndex
      <4> HIDE DEF n, hasOld
      <4> QED  BY <1>6, <3>1, <3>2 DEF Moved
    <3> QED  BY <1>1, <1>6, <2>1, <3>3 DEF GroupsOf
  <2>2. CASE g \notin Named(ch)
    BY <1>1, <1>6, <2>2 DEF GroupsOf
  <2> QED  BY <2>1, <2>2
<1>10. S \subseteq Entry
  <2>1. \A i \in RootItems(c, its) : ie(i) \in Entry
    BY <1>7 DEF Entry, Unmoved
  <2>2. \A g \in GroupsOf(c, w) : ge(g) \in Entry
    BY <1>6, <1>8 DEF Entry
  <2> HIDE DEF S, ie, ge
  <2> QED  BY <1>5, <2>1, <2>2
<1>11. \A e, f \in S : e.type = f.type /\ e.id = f.id => e = f
  <2> HIDE DEF S
  <2> QED  BY <1>5
<1>12. \A e \in S : e.mark.order = 0 => e.mark.priority = 1
  <2> HIDE DEF S
  <2> QED  BY <1>5, <1>8 DEF Unmoved
<1>13. \A e, f \in S : e.mark.order = f.mark.order /\ e.mark.order # 0 => e = f
  <2> HIDE DEF S
  <2> QED  BY <1>5, <1>8 DEF Unmoved
<1>14. \A e, f \in S : /\ e.index = f.index
                       /\ e.mark.priority = 1
                       /\ f.mark.priority = 1
                       => e = f
  <2> HIDE DEF S
  <2> QED  BY <1>5, <1>9 DEF RootUniqueAt
<1> HIDE DEF S
<1>15. Sortable(S)
  BY <1>10, <1>11, <1>12, <1>13, <1>14 DEF Sortable
<1> QED  BY <1>15 DEF S, mark

LEMMA GroupSyncKeepsOrder ==
    ASSUME NEW ch, NEW grs, NEW its, NEW C, Rows(grs, its, C), GroupRequest(ch, grs, C),
           \A c \in C : RootUniqueAt(c, grs, its),
           Shared(grs, its), \A g \in DOMAIN grs : MembersUnique(g, its),
           NEW after, after = GroupSync(ch, grs, grs, its)
    PROVE  /\ \A c \in C : RootUniqueAt(c, after.groups, after.items)
           /\ Shared(after.groups, after.items)
           /\ \A g \in DOMAIN grs : MembersUnique(g, after.items)
<1> DEFINE w == WrittenGroups(ch, grs)
           d == CarriedItems(ch, grs, its)
           cols == GroupSyncColumns(ch, grs)
<1>1. /\ DOMAIN w = DOMAIN grs
      /\ GroupTable(w, C)
      /\ Named(ch) \subseteq DOMAIN grs
      /\ \A g \in DOMAIN grs \ Named(ch) : w[g] = grs[g]
      /\ \A g \in Named(ch) : /\ LastFor(ch, g) \in DOMAIN ch
                               /\ w[g].columnId = ch[LastFor(ch, g)].newColumnId
  BY WrittenGroupsProperty
<1>2. /\ DOMAIN d = DOMAIN its
      /\ ItemTable(d, C, DOMAIN grs)
      /\ \A i \in DOMAIN its :
            /\ d[i].groupId = its[i].groupId
            /\ d[i].rowIndex = its[i].rowIndex
            /\ its[i].groupId = NoGroup => d[i] = its[i]
            /\ its[i].groupId # NoGroup => d[i].columnId = w[its[i].groupId].columnId
  <2>1. Follows(d, w, grs, its, C)
    BY CarriedItemsFollow
  <2> HIDE DEF d, w
  <2> QED  BY <2>1 DEF Follows
<1>3. after = NormalizedRoots(cols, w, d, GroupMoveMarks(ch, grs, grs), UnmovedMarks(its))
  BY DEF GroupSync
<1>4. \A g \in Named(ch) : grs[g].columnId \in cols /\ w[g].columnId \in cols
  <2> HIDE DEF w
  <2> QED  BY <1>1 DEF GroupSyncColumns
<1> HIDE DEF cols
<1> HIDE DEF w, d
<1>5. FiniteTables(w, d)
  BY <1>1, <1>2 DEF Rows, FiniteTables
<1>6. ASSUME NEW c \in C
      PROVE  RootUniqueAt(c, after.groups, after.items)
  <2>1. CASE c \in cols
    BY <1>1, <1>2, <1>3, <1>5, <2>1, NormalizedRootsUnique
  <2>2. CASE c \notin cols
    <3>1. GroupsOf(c, w) = GroupsOf(c, grs) /\ \A g \in GroupsOf(c, grs) : w[g] = grs[g]
      BY <1>1, <1>4, <2>2 DEF GroupsOf
    <3>2. RootItems(c, d) = RootItems(c, its) /\ \A i \in RootItems(c, its) : d[i] = its[i]
      BY <1>2 DEF RootItems
    <3>3. RootUniqueAt(c, w, d)
      BY <3>1, <3>2 DEF RootUniqueAt
    <3> QED  BY <1>1, <1>2, <1>3, <1>5, <2>2, <3>3, OtherRootsKept
  <2> QED  BY <2>1, <2>2
<1>7. /\ DOMAIN after.groups = DOMAIN w
      /\ \A g \in DOMAIN w : after.groups[g].columnId = w[g].columnId
      /\ DOMAIN after.items = DOMAIN d
      /\ \A i \in DOMAIN d : /\ after.items[i].columnId = d[i].columnId
                              /\ after.items[i].groupId = d[i].groupId
  BY <1>1, <1>2, <1>3, <1>5, NormalizedRootsType
<1>8. Shared(after.groups, after.items)
  <2>1. NoGroup \notin DOMAIN grs
    BY DEF Rows, NoGroup
  <2> QED  BY <1>1, <1>2, <1>7, <2>1 DEF Shared, Members
<1>9. ASSUME NEW g \in DOMAIN grs
       PROVE  MembersUnique(g, after.items)
  <2>1. g # NoGroup
    BY DEF Rows, NoGroup
  <2>2. Members(g, after.items) = Members(g, its)
    BY <1>2, <1>7 DEF Members
  <2>3. \A i \in Members(g, its) : after.items[i] = d[i]
    BY <1>2, <1>3, <2>1 DEF Members, NormalizedRoots
  <2> QED  BY <1>2, <2>2, <2>3 DEF MembersUnique, Members
<1> QED  BY <1>6, <1>8, <1>9

-----------------------------------------------------------------------------
(* The transaction of deleteGroup.                                         *)

LEMMA GroupDeletionKeepsOrder ==
    ASSUME NEW grs, NEW its, NEW C, Rows(grs, its, C), NEW g \in DOMAIN grs,
           \A c \in C : RootUniqueAt(c, grs, its),
           Shared(grs, its), \A h \in DOMAIN grs : MembersUnique(h, its),
           NEW after, after = GroupDeletion(g, grs[g], grs, its)
    PROVE  /\ \A c \in C : RootUniqueAt(c, after.groups, after.items)
           /\ Shared(after.groups, after.items)
           /\ \A h \in DOMAIN grs \ {g} : MembersUnique(h, after.items)
<1> DEFINE u == Ungrouped(g, grs[g], grs, its)
           home == grs[g].columnId
<1>1. /\ DOMAIN u.groups = DOMAIN grs \ {g}
      /\ GroupTable(u.groups, C)
      /\ DOMAIN u.items = DOMAIN its
      /\ ItemTable(u.items, C, DOMAIN grs \ {g})
  BY UngroupedType DEF Rows, GroupTable
<1>2. \A h \in DOMAIN grs \ {g} :
            /\ u.groups[h].columnId = grs[h].columnId
            /\ grs[h].columnId # home => u.groups[h] = grs[h]
  BY DEF Ungrouped, Rows, GroupTable
<1>3. \A i \in DOMAIN its :
            /\ u.items[i].columnId = its[i].columnId
            /\ u.items[i].groupId = IF its[i].groupId = g THEN NoGroup ELSE its[i].groupId
            /\ its[i].groupId # g /\ i \notin RootItems(home, its) => u.items[i] = its[i]
  BY DEF Ungrouped, Rows, ItemTable
<1> HIDE DEF u
<1>4. FiniteTables(u.groups, u.items)
  BY <1>1, FS_RemoveElement DEF Rows, FiniteTables
<1>5. after = NormalizedRoots({home}, u.groups, u.items,
                              UnmovedMarks(u.groups), UnmovedMarks(u.items))
  BY DEF GroupDeletion, u
<1>6. NoGroup \notin DOMAIN grs
  BY DEF Rows, NoGroup
<1>7. ASSUME NEW c \in C
      PROVE  RootUniqueAt(c, after.groups, after.items)
  <2>1. CASE c = home
    BY <1>1, <1>4, <1>5, <2>1, NormalizedRootsUnique
  <2>2. CASE c # home
    <3>1. /\ GroupsOf(c, u.groups) = GroupsOf(c, grs)
          /\ \A h \in GroupsOf(c, grs) : u.groups[h] = grs[h]
      BY <1>1, <1>2, <2>2 DEF GroupsOf
    <3>2. \A i \in DOMAIN its : its[i].columnId = c => its[i].groupId # g
      BY <2>2 DEF Shared, Members
    <3>3. /\ RootItems(c, u.items) = RootItems(c, its)
          /\ \A i \in RootItems(c, its) : u.items[i] = its[i]
      BY <1>1, <1>3, <2>2, <3>2 DEF RootItems
    <3>4. RootUniqueAt(c, u.groups, u.items)
      BY <3>1, <3>3 DEF RootUniqueAt
    <3> QED  BY <1>1, <1>4, <1>5, <2>2, <3>4, OtherRootsKept
  <2> QED  BY <2>1, <2>2
<1>8. /\ DOMAIN after.groups = DOMAIN grs \ {g}
      /\ \A h \in DOMAIN grs \ {g} : after.groups[h].columnId = grs[h].columnId
      /\ DOMAIN after.items = DOMAIN its
      /\ \A i \in DOMAIN its : /\ after.items[i].columnId = its[i].columnId
                                /\ after.items[i].groupId = u.items[i].groupId
  BY <1>1, <1>2, <1>3, <1>4, <1>5, NormalizedRootsType
<1>9. Shared(after.groups, after.items)
  BY <1>3, <1>6, <1>8 DEF Shared, Members
<1>10. ASSUME NEW h \in DOMAIN grs \ {g}
       PROVE  MembersUnique(h, after.items)
  <2>1. Members(h, after.items) = Members(h, its)
    BY <1>3, <1>6, <1>8 DEF Members
  <2>2. \A i \in Members(h, its) : u.items[i] = its[i]
    BY <1>3, <1>6 DEF Members, RootItems
  <2>3. \A i \in Members(h, its) : after.items[i] = u.items[i]
    BY <1>1, <1>5, <1>6, <2>2 DEF Members, NormalizedRoots
  <2> QED  BY <2>1, <2>2, <2>3 DEF MembersUnique
<1> QED  BY <1>7, <1>9, <1>10

-----------------------------------------------------------------------------
(* The inductive invariant.                                                *)

Layout == RootOrderUnique /\ GroupOrderUnique /\ GroupedItemsShareColumn

LayoutInvariant == TypeOK /\ Layout

LEMMA RowsOK == TypeOK => Rows(groups, items, DOMAIN columns)
<1> SUFFICES ASSUME TypeOK PROVE Rows(groups, items, DOMAIN columns)
  OBVIOUS
<1>1. DOMAIN groups \subseteq Nat \ {0} /\ DOMAIN items \subseteq Nat \ {0}
  BY DEF TypeOK
<1> QED  BY <1>1, TablesOK DEF Rows

LEMMA LayoutTables ==
    Layout <=> /\ \A c \in DOMAIN columns : RootUniqueAt(c, groups, items)
               /\ Shared(groups, items)
               /\ \A g \in DOMAIN groups : MembersUnique(g, items)
BY DEF Layout, RootOrderUnique, GroupOrderUnique, GroupedItemsShareColumn,
       Shared, MembersUnique

\* An operation on the board's columns that leaves groups and cards alone, and
\* removes no column.
LEMMA ColumnsOnly ==
    ASSUME TypeOK, Layout, UNCHANGED <<groups, items>>, DOMAIN columns \subseteq DOMAIN columns'
    PROVE  Layout'
<1>1. ASSUME NEW c \in DOMAIN columns', c \notin DOMAIN columns
      PROVE  GroupsOf(c, groups) = {} /\ RootItems(c, items) = {}
  BY <1>1 DEF TypeOK, GroupsOf, RootItems
<1>2. \A c \in DOMAIN columns' : RootUniqueAt(c, groups, items)
  BY <1>1, LayoutTables DEF RootUniqueAt
<1> QED  BY <1>2 DEF Layout, RootOrderUnique, GroupOrderUnique, GroupedItemsShareColumn

LEMMA InitLayout == Init => Layout
BY DEF Init, Layout, RootOrderUnique, GroupOrderUnique, GroupedItemsShareColumn

LEMMA CreateGroupLayout ==
    ASSUME TypeOK, Layout, NEW c \in DOMAIN columns, CreateGroup(c)
    PROVE  Layout'
<1> DEFINE new == lastId.group + 1
           next == NextIndex(RootIndexes(c, groups, items))
<1>1. /\ next \in Nat
      /\ \A g \in GroupsOf(c, groups) : groups[g].orderIndex < next
      /\ \A i \in RootItems(c, items) : items[i].rowIndex < next
  BY NextRootIndex
<1>2. groups' = [g \in DOMAIN groups \cup {new} |->
                    IF g \in DOMAIN groups THEN groups[g]
                    ELSE [columnId |-> c, orderIndex |-> next]]
  BY DEF CreateGroup
<1>3. new \notin DOMAIN groups /\ new # NoGroup
  BY DEF TypeOK, NoGroup
<1> HIDE DEF new, next
<1>4. /\ DOMAIN groups' = DOMAIN groups \cup {new}
      /\ \A g \in DOMAIN groups : groups'[g] = groups[g]
      /\ groups'[new].columnId = c /\ groups'[new].orderIndex = next
  BY <1>2, <1>3
<1>5. UNCHANGED <<columns, items>>
  BY DEF CreateGroup
<1>6. ASSUME NEW d \in DOMAIN columns
      PROVE  RootUniqueAt(d, groups', items)
  <2>1. GroupsOf(d, groups') = IF d = c THEN GroupsOf(d, groups) \cup {new}
                               ELSE GroupsOf(d, groups)
    BY <1>4 DEF GroupsOf
  <2>2. \A g \in GroupsOf(d, groups) : groups'[g] = groups[g]
    BY <1>4 DEF GroupsOf
  <2>3. RootUniqueAt(d, groups, items)
    BY LayoutTables
  <2>4. /\ \A g \in GroupsOf(d, groups) : groups[g].orderIndex \in Nat
        /\ \A i \in RootItems(d, items) : items[i].rowIndex \in Nat
    BY DEF TypeOK, GroupsOf, RootItems
  <2> QED  BY <1>1, <1>4, <2>1, <2>2, <2>3, <2>4 DEF RootUniqueAt
<1>7. Members(new, items) = {}
  BY <1>3 DEF Members, TypeOK
<1>8. Shared(groups', items) /\ \A g \in DOMAIN groups' : MembersUnique(g, items)
  BY <1>4, <1>7, LayoutTables DEF Shared, MembersUnique
<1> QED  BY <1>5, <1>6, <1>8
         DEF Layout, RootOrderUnique, GroupOrderUnique, GroupedItemsShareColumn,
             Shared, MembersUnique

LEMMA AddItemLayout ==
    ASSUME TypeOK, Layout, NEW c \in DOMAIN columns,
           NEW h \in {NoGroup} \cup GroupsOf(c, groups), AddItemToColumn(c, h)
    PROVE  Layout'
<1> DEFINE new == lastId.item + 1
<1>1. new \notin DOMAIN items /\ NoGroup \notin DOMAIN groups
  BY DEF TypeOK, NoGroup
<1>2. /\ DOMAIN items' = DOMAIN items \cup {new}
      /\ items'[new] = [columnId |-> c, groupId |-> h, rowIndex |-> 0]
      /\ \A i \in DOMAIN items :
            items'[i] = IF items[i].columnId = c /\ items[i].groupId = h
                        THEN [items[i] EXCEPT !.rowIndex = @ + 1] ELSE items[i]
  BY <1>1 DEF AddItemToColumn, ItemsWithNewItem
<1>3. /\ DOMAIN groups' = DOMAIN groups
      /\ \A g \in DOMAIN groups :
            groups'[g] = IF h = NoGroup /\ groups[g].columnId = c
                         THEN [groups[g] EXCEPT !.orderIndex = @ + 1] ELSE groups[g]
  BY DEF AddItemToColumn, GroupsBelowNewItem
<1>4. columns' = columns
  BY DEF AddItemToColumn
<1> HIDE DEF new
<1>5. \A i \in DOMAIN items : items[i] \in [columnId : DOMAIN columns,
                                            groupId  : {NoGroup} \cup DOMAIN groups,
                                            rowIndex : Nat]
  BY DEF TypeOK
<1>6. \A g \in DOMAIN groups : groups[g] \in [columnId : DOMAIN columns, orderIndex : Nat]
  BY DEF TypeOK
<1>7. /\ \A i \in DOMAIN items :
            /\ items'[i].columnId = items[i].columnId
            /\ items'[i].groupId = items[i].groupId
            /\ items'[i].rowIndex = IF items[i].columnId = c /\ items[i].groupId = h
                                    THEN items[i].rowIndex + 1 ELSE items[i].rowIndex
      /\ items'[new].columnId = c /\ items'[new].groupId = h /\ items'[new].rowIndex = 0
  BY <1>2, <1>5
<1>8. \A g \in DOMAIN groups :
            /\ groups'[g].columnId = groups[g].columnId
            /\ groups'[g].orderIndex = IF h = NoGroup /\ groups[g].columnId = c
                                       THEN groups[g].orderIndex + 1
                                       ELSE groups[g].orderIndex
  BY <1>3, <1>6
<1>9. ASSUME NEW d \in DOMAIN columns
      PROVE  RootUniqueAt(d, groups', items')
  <2>1. GroupsOf(d, groups') = GroupsOf(d, groups)
    BY <1>3, <1>8 DEF GroupsOf
  <2>2. RootItems(d, items') = IF d = c /\ h = NoGroup THEN RootItems(d, items) \cup {new}
                               ELSE RootItems(d, items)
    BY <1>2, <1>7 DEF RootItems
  <2>3. RootUniqueAt(d, groups, items)
    BY LayoutTables
  <2>4. /\ \A g \in GroupsOf(d, groups) :
              /\ groups[g].orderIndex \in Nat
              /\ groups'[g].orderIndex = IF h = NoGroup /\ d = c
                                         THEN groups[g].orderIndex + 1
                                         ELSE groups[g].orderIndex
        /\ \A i \in RootItems(d, items) :
              /\ items[i].rowIndex \in Nat
              /\ items'[i].rowIndex = IF h = NoGroup /\ d = c
                                      THEN items[i].rowIndex + 1
                                      ELSE items[i].rowIndex
    BY <1>5, <1>6, <1>7, <1>8 DEF GroupsOf, RootItems
  <2>5. CASE d = c /\ h = NoGroup
    BY <1>7, <2>1, <2>2, <2>3, <2>4, <2>5 DEF RootUniqueAt
  <2>6. CASE ~(d = c /\ h = NoGroup)
    BY <2>1, <2>2, <2>3, <2>4, <2>6 DEF RootUniqueAt
  <2> QED  BY <2>5, <2>6
<1>10. Shared(groups, items) /\ \A g \in DOMAIN groups : MembersUnique(g, items)
  BY LayoutTables
<1>11. ASSUME NEW g \in DOMAIN groups
       PROVE  /\ MembersUnique(g, items')
              /\ \A i \in Members(g, items') : items'[i].columnId = groups'[g].columnId
  <2>1. Members(g, items') = IF g = h THEN Members(g, items) \cup {new} ELSE Members(g, items)
    BY <1>2, <1>7 DEF Members
  <2>2. \A i \in Members(g, items) :
            /\ items[i].rowIndex \in Nat
            /\ items[i].columnId = groups[g].columnId
            /\ items'[i].columnId = items[i].columnId
            /\ items'[i].rowIndex = IF g = h THEN items[i].rowIndex + 1
                                    ELSE items[i].rowIndex
    BY <1>1, <1>5, <1>7, <1>10 DEF Members, Shared, GroupsOf
  <2>3. g = h => groups[g].columnId = c
    BY <1>1 DEF GroupsOf
  <2>4. MembersUnique(g, items)
    BY <1>10
  <2> QED  BY <1>7, <1>8, <2>1, <2>2, <2>3, <2>4 DEF MembersUnique
<1> QED  BY <1>3, <1>4, <1>9, <1>11
         DEF Layout, RootOrderUnique, GroupOrderUnique, GroupedItemsShareColumn,
             MembersUnique

LEMMA ItemChangesRequest ==
    ASSUME NEW b, NEW ch \in Batches(ItemChanges(b))
    PROVE  ItemRequest(ch, groups, items, DOMAIN columns)
<1>1. \A change \in ItemChanges(b) :
            /\ change.id \in DOMAIN items
            /\ change.newColumnId \in DOMAIN columns
            /\ change.newGroupId \in {NoGroup} \cup DOMAIN groups
            /\ change.newIndex \in Nat
            /\ \/ change.newGroupId = NoGroup
               \/ groups[change.newGroupId].columnId = change.newColumnId
  BY BoundsAssumption DEF ItemChanges, ColumnsOf
<1> QED  BY <1>1 DEF ItemRequest

LEMMA GroupChangesRequest ==
    ASSUME NEW b, NEW ch \in Batches(GroupChanges(b)), NamesOnce(ch)
    PROVE  GroupRequest(ch, groups, DOMAIN columns)
<1>1. \A change \in GroupChanges(b) : /\ change.id \in DOMAIN groups
                                      /\ change.newColumnId \in DOMAIN columns
                                      /\ change.newIndex \in Nat
  BY BoundsAssumption DEF GroupChanges, ColumnsOf
<1> QED  BY <1>1 DEF GroupRequest

LEMMA SyncItemsLayout ==
    ASSUME TypeOK, Layout, NEW b, NEW ch \in Batches(ItemChanges(b)), SyncItemPositions(ch)
    PROVE  Layout'
<1>1. ItemRequest(ch, groups, items, DOMAIN columns)
  BY ItemChangesRequest
<1> DEFINE after == ItemSync(ch, items, groups, items)
<1>2. groups' = after.groups /\ items' = after.items /\ columns' = columns
  BY DEF SyncItemPositions
<1>3. Rows(groups, items, DOMAIN columns)
  BY RowsOK
<1>4. /\ \A c \in DOMAIN columns : RootUniqueAt(c, groups, items)
      /\ Shared(groups, items)
      /\ \A g \in DOMAIN groups : MembersUnique(g, items)
  BY LayoutTables
<1>5. /\ \A c \in DOMAIN columns : RootUniqueAt(c, after.groups, after.items)
      /\ Shared(after.groups, after.items)
      /\ \A g \in DOMAIN groups : MembersUnique(g, after.items)
  BY <1>1, <1>3, <1>4, ItemSyncKeepsOrder
<1>6. DOMAIN after.groups = DOMAIN groups
  BY DEF ItemSync, NormalizedRoots
<1> HIDE DEF after
<1> QED  BY <1>2, <1>5, <1>6
         DEF Layout, RootOrderUnique, GroupOrderUnique, GroupedItemsShareColumn,
             Shared, MembersUnique

LEMMA SyncGroupsLayout ==
    ASSUME ~RepeatedGroups, TypeOK, Layout,
           NEW b, NEW ch \in Batches(GroupChanges(b)), SyncGroupPositions(ch)
    PROVE  Layout'
<1>1. GroupRequest(ch, groups, DOMAIN columns)
  BY GroupChangesRequest DEF SyncGroupPositions
<1> DEFINE after == GroupSync(ch, groups, groups, items)
<1>2. groups' = after.groups /\ items' = after.items /\ columns' = columns
  BY DEF SyncGroupPositions
<1>3. Rows(groups, items, DOMAIN columns)
  BY RowsOK
<1>4. /\ \A c \in DOMAIN columns : RootUniqueAt(c, groups, items)
      /\ Shared(groups, items)
      /\ \A g \in DOMAIN groups : MembersUnique(g, items)
  BY LayoutTables
<1>5. /\ \A c \in DOMAIN columns : RootUniqueAt(c, after.groups, after.items)
      /\ Shared(after.groups, after.items)
      /\ \A g \in DOMAIN groups : MembersUnique(g, after.items)
  BY <1>1, <1>3, <1>4, GroupSyncKeepsOrder
<1>6. DOMAIN after.groups = DOMAIN groups
  BY DEF GroupSync, NormalizedRoots, WrittenGroups
<1> HIDE DEF after
<1> QED  BY <1>2, <1>5, <1>6
         DEF Layout, RootOrderUnique, GroupOrderUnique, GroupedItemsShareColumn,
             Shared, MembersUnique

LEMMA DeleteColumnLayout ==
    ASSUME TypeOK, Layout, NEW c \in DOMAIN columns, DeleteColumn(c)
    PROVE  Layout'
<1>1. DOMAIN columns' = DOMAIN columns \ {c}
  BY DEF DeleteColumn, ColumnsWithout
<1>2. /\ DOMAIN groups' = DOMAIN groups \ GroupsOf(c, groups)
      /\ \A g \in DOMAIN groups' : groups'[g] = groups[g]
  BY DEF DeleteColumn, GroupsWithoutColumn
<1>3. Shared(groups, items)
  BY LayoutTables
<1>4. /\ DOMAIN items' = {i \in DOMAIN items : items[i].columnId # c}
      /\ \A i \in DOMAIN items' : items'[i] = items[i]
  <2>1. \A i \in DOMAIN items : items[i].columnId # c =>
                items[i].groupId \notin GroupsOf(c, groups)
    BY <1>3 DEF Shared, Members, GroupsOf
  <2> QED  BY <2>1 DEF DeleteColumn, ItemsWithoutColumn
<1>5. ASSUME NEW d \in DOMAIN columns'
      PROVE  RootUniqueAt(d, groups', items')
  <2>1. d \in DOMAIN columns /\ d # c
    BY <1>1
  <2>2. GroupsOf(d, groups') = GroupsOf(d, groups)
    BY <1>2, <2>1 DEF GroupsOf
  <2>3. RootItems(d, items') = RootItems(d, items)
    BY <1>4, <2>1 DEF RootItems
  <2>4. /\ \A g \in GroupsOf(d, groups) : groups'[g] = groups[g]
        /\ \A i \in RootItems(d, items) : items'[i] = items[i]
    BY <1>2, <1>4, <2>2, <2>3 DEF GroupsOf, RootItems
  <2>5. RootUniqueAt(d, groups, items)
    BY <2>1, LayoutTables
  <2> QED  BY <2>2, <2>3, <2>4, <2>5 DEF RootUniqueAt
<1>6. /\ Shared(groups', items')
      /\ \A g \in DOMAIN groups' : MembersUnique(g, items')
  BY <1>2, <1>3, <1>4, LayoutTables DEF Shared, MembersUnique, Members
<1> QED  BY <1>5, <1>6
         DEF Layout, RootOrderUnique, GroupOrderUnique, GroupedItemsShareColumn,
             Shared, MembersUnique

LEMMA DeleteGroupLayout ==
    ASSUME TypeOK, Layout, NEW g \in DOMAIN groups, DeleteGroup(g)
    PROVE  Layout'
<1> DEFINE after == GroupDeletion(g, groups[g], groups, items)
<1>1. groups' = after.groups /\ items' = after.items /\ columns' = columns
  BY DEF DeleteGroup
<1>2. Rows(groups, items, DOMAIN columns)
  BY RowsOK
<1>3. /\ \A c \in DOMAIN columns : RootUniqueAt(c, groups, items)
      /\ Shared(groups, items)
      /\ \A h \in DOMAIN groups : MembersUnique(h, items)
  BY LayoutTables
<1>4. /\ \A c \in DOMAIN columns : RootUniqueAt(c, after.groups, after.items)
      /\ Shared(after.groups, after.items)
      /\ \A h \in DOMAIN groups \ {g} : MembersUnique(h, after.items)
  BY <1>2, <1>3, GroupDeletionKeepsOrder
<1>5. DOMAIN after.groups = DOMAIN groups \ {g}
  BY DEF GroupDeletion, Ungrouped, NormalizedRoots
<1> HIDE DEF after
<1> QED  BY <1>1, <1>4, <1>5
         DEF Layout, RootOrderUnique, GroupOrderUnique, GroupedItemsShareColumn,
             Shared, MembersUnique

LEMMA DeleteItemLayout ==
    ASSUME TypeOK, Layout, NEW i \in DOMAIN items, DeleteItem(i)
    PROVE  Layout'
<1>1. /\ DOMAIN items' = DOMAIN items \ {i}
      /\ \A j \in DOMAIN items' : items'[j] = items[j]
      /\ UNCHANGED <<columns, groups>>
  BY DEF DeleteItem
<1>2. \A c : /\ RootItems(c, items') \subseteq RootItems(c, items)
             /\ \A j \in RootItems(c, items') : items'[j] = items[j]
  BY <1>1 DEF RootItems
<1>3. \A c \in DOMAIN columns : RootUniqueAt(c, groups, items')
  BY <1>2, LayoutTables DEF RootUniqueAt
<1>4. /\ Shared(groups, items')
      /\ \A g \in DOMAIN groups : MembersUnique(g, items')
  BY <1>1, LayoutTables DEF Shared, MembersUnique, Members
<1> QED  BY <1>1, <1>3, <1>4
         DEF Layout, RootOrderUnique, GroupOrderUnique, GroupedItemsShareColumn,
             Shared, MembersUnique

LEMMA NextLayout ==
    ASSUME ~RepeatedGroups, TypeOK, Layout, [Next]_vars
    PROVE  Layout'
<1>1. CASE CreateBoard
  BY <1>1, ColumnsOnly DEF CreateBoard
<1>2. ASSUME NEW b \in Boards, CreateColumn(b) PROVE Layout'
  BY <1>2, ColumnsOnly DEF CreateColumn
<1>3. ASSUME NEW b, NEW old, NEW new, ReorderColumns(b, old, new) PROVE Layout'
  BY <1>3, ColumnsOnly DEF ReorderColumns
<1>4. CASE UNCHANGED vars
  BY <1>4 DEF vars, Layout, RootOrderUnique, GroupOrderUnique, GroupedItemsShareColumn
<1> QED
  BY <1>1, <1>2, <1>3, <1>4, CreateGroupLayout, AddItemLayout, SyncItemsLayout,
     SyncGroupsLayout, DeleteColumnLayout, DeleteGroupLayout, DeleteItemLayout DEF Next

LEMMA LayoutInductive ==
    ASSUME ~RepeatedGroups
    PROVE  Spec => []LayoutInvariant
<1>1. Init => LayoutInvariant
  BY InitTypeOK, InitLayout DEF LayoutInvariant
<1>2. LayoutInvariant /\ [Next]_vars => LayoutInvariant'
  BY NextTypeOK, NextLayout DEF LayoutInvariant
<1> QED  BY <1>1, <1>2, PTL DEF Spec

\* If no request names a group twice, then however requests follow each other
\* no two ungrouped cards or groups of a column have the same position.
THEOREM RootOrder ==
    ASSUME ~RepeatedGroups
    PROVE  Spec => []RootOrderUnique
<1>1. LayoutInvariant => RootOrderUnique
  BY DEF LayoutInvariant, Layout
<1> QED  BY <1>1, LayoutInductive, PTL

\* If no request names a group twice, no two cards of a group have the same
\* position.
THEOREM GroupOrder ==
    ASSUME ~RepeatedGroups
    PROVE  Spec => []GroupOrderUnique
<1>1. LayoutInvariant => GroupOrderUnique
  BY DEF LayoutInvariant, Layout
<1> QED  BY <1>1, LayoutInductive, PTL

\* If no request names a group twice, the cards of a group are in its column.
THEOREM GroupedItems ==
    ASSUME ~RepeatedGroups
    PROVE  Spec => []GroupedItemsShareColumn
<1>1. LayoutInvariant => GroupedItemsShareColumn
  BY DEF LayoutInvariant, Layout
<1> QED  BY <1>1, LayoutInductive, PTL

-----------------------------------------------------------------------------
(* What a client sees of a column: order and gaps.                         *)

\* RootKeys and IndexOf, of any tables.
KeysIn(c, grs, its) ==
    {<<"ITEM", i>> : i \in RootItems(c, its)}
        \cup {<<"GROUP", g>> : g \in GroupsOf(c, grs)}

IndexIn(k, grs, its) == IF k[1] = "ITEM" THEN its[k[2]].rowIndex ELSE grs[k[2]].orderIndex

\* The entries S are in the same order in two states of the tables.
SameOrder(S, grs, its, grs2, its2) ==
    \A k, l \in S : IndexIn(k, grs, its) < IndexIn(l, grs, its)
                        => IndexIn(k, grs2, its2) < IndexIn(l, grs2, its2)

\* OrderKept, of any two states of the tables.
StayInOrder(c, grs, its, grs2, its2, named) ==
    SameOrder((KeysIn(c, grs, its) \cap KeysIn(c, grs2, its2)) \ named,
              grs, its, grs2, its2)

NamedItems(ch) == {<<"ITEM", x>> : x \in Named(ch)}

NamedGroups(ch) == {<<"GROUP", x>> : x \in Named(ch)}

LEMMA KeysAreRows ==
    ASSUME NEW c, NEW grs, NEW its
    PROVE  /\ \A i : <<"ITEM", i>> \in KeysIn(c, grs, its) <=> i \in RootItems(c, its)
           /\ \A g : <<"GROUP", g>> \in KeysIn(c, grs, its) <=> g \in GroupsOf(c, grs)
           /\ \A k \in KeysIn(c, grs, its) :
                \/ \E i \in RootItems(c, its) : k = <<"ITEM", i>>
                \/ \E g \in GroupsOf(c, grs) : k = <<"GROUP", g>>
           /\ \A i : IndexIn(<<"ITEM", i>>, grs, its) = its[i].rowIndex
           /\ \A g : IndexIn(<<"GROUP", g>>, grs, its) = grs[g].orderIndex
<1>1. \A i, g : <<"ITEM", i>> # <<"GROUP", g>>
  <2>1. "ITEM" # "GROUP"
    OBVIOUS
  <2> QED  BY <2>1
<1>2. \A i : <<"ITEM", i>>[1] = "ITEM" /\ <<"ITEM", i>>[2] = i
  OBVIOUS
<1>3. \A g : <<"GROUP", g>>[1] # "ITEM" /\ <<"GROUP", g>>[2] = g
  OBVIOUS
<1>4. /\ \A i : IndexIn(<<"ITEM", i>>, grs, its) = its[i].rowIndex
      /\ \A g : IndexIn(<<"GROUP", g>>, grs, its) = grs[g].orderIndex
  BY <1>2, <1>3 DEF IndexIn
<1>5. /\ \A i : <<"ITEM", i>> \in KeysIn(c, grs, its) <=> i \in RootItems(c, its)
      /\ \A g : <<"GROUP", g>> \in KeysIn(c, grs, its) <=> g \in GroupsOf(c, grs)
  BY <1>1, <1>2, <1>3 DEF KeysIn
<1> QED  BY <1>4, <1>5 DEF KeysIn

LEMMA AllStay ==
    ASSUME NEW c, NEW grs, NEW its, NEW grs2, NEW its2,
           SameOrder(KeysIn(c, grs, its) \cap KeysIn(c, grs2, its2),
                     grs, its, grs2, its2)
    PROVE  StayInOrder(c, grs, its, grs2, its2, {})
<1>1. (KeysIn(c, grs, its) \cap KeysIn(c, grs2, its2)) \ {}
            = KeysIn(c, grs, its) \cap KeysIn(c, grs2, its2)
  OBVIOUS
<1> QED  BY <1>1 DEF StayInOrder

\* Rows that are in both states, and have the same index in both, keep their
\* order.
LEMMA SameRowsSameOrder ==
    ASSUME NEW c, NEW grs, NEW its, NEW grs2, NEW its2, NEW S,
           S \subseteq KeysIn(c, grs, its) \cap KeysIn(c, grs2, its2),
           \A i \in RootItems(c, its) \cap RootItems(c, its2) :
                its2[i].rowIndex = its[i].rowIndex,
           \A g \in GroupsOf(c, grs) \cap GroupsOf(c, grs2) :
                grs2[g].orderIndex = grs[g].orderIndex
    PROVE  SameOrder(S, grs, its, grs2, its2)
<1>1. \A k \in S : IndexIn(k, grs2, its2) = IndexIn(k, grs, its)
  BY KeysAreRows
<1> QED  BY <1>1 DEF SameOrder

\* An entry with a smaller index sorts before one with a larger.
LEMMA SmallerIndexFirst ==
    ASSUME NEW S, IsFiniteSet(S), Sortable(S), NEW e \in S, NEW f \in S, e.index < f.index
    PROVE  Place(e, S) < Place(f, S)
<1> DEFINE Below(d) == {x \in S : Precedes(x, d)}
<1>1. Precedes(e, f)
  BY DEF Precedes
<1>2. Below(e) \in SUBSET Below(f) /\ e \in Below(f) /\ e \notin Below(e)
  BY <1>1, PrecedesTransitive, PrecedesIrreflexive
<1>3. IsFiniteSet(Below(e)) /\ IsFiniteSet(Below(f))
  BY FS_Subset
<1>4. /\ Cardinality(Below(e)) <= Cardinality(Below(f))
      /\ Cardinality(Below(e)) # Cardinality(Below(f))
      /\ Cardinality(Below(e)) \in Nat /\ Cardinality(Below(f)) \in Nat
  <2> HIDE DEF Below
  <2> QED  BY <1>2, <1>3, FS_Subset, FS_CardinalityType
<1>5. Rank(e, S) < Rank(f, S)
  <2>1. Rank(e, S) = Cardinality(Below(e)) /\ Rank(f, S) = Cardinality(Below(f))
    BY DEF Rank
  <2> HIDE DEF Below
  <2> QED  BY <1>4, <2>1
<1> QED  BY <1>5, PlaceIsRank

\* Normalisation keeps the order of every pair of entries of a column, where
\* the comparator is an order.
LEMMA NormalizedStays ==
    ASSUME NEW cols, NEW grs, NEW its, NEW groupMark, NEW itemMark, NEW C, NEW G,
           FiniteTables(grs, its), GroupTable(grs, C), ItemTable(its, C, G),
           NEW n, n = NormalizedRoots(cols, grs, its, groupMark, itemMark),
           NEW c,
           c \in cols => Sortable(RootEntries(c, grs, its, groupMark, itemMark))
    PROVE  /\ KeysIn(c, n.groups, n.items) = KeysIn(c, grs, its)
           /\ SameOrder(KeysIn(c, grs, its), grs, its, n.groups, n.items)
<1> DEFINE S == RootEntries(c, grs, its, groupMark, itemMark)
           ge(g) == GroupEntry(g, grs, groupMark)
           ie(i) == ItemEntry(i, its, itemMark)
           entry(k) == IF k[1] = "ITEM" THEN ie(k[2]) ELSE ge(k[2])
           K == KeysIn(c, grs, its)
<1>1. GroupsOf(c, n.groups) = GroupsOf(c, grs) /\ RootItems(c, n.items) = RootItems(c, its)
  BY NormalizedRootsType DEF GroupsOf, RootItems
<1>2. KeysIn(c, n.groups, n.items) = K
  BY <1>1 DEF KeysIn
<1>3. CASE c \notin cols
  <2>1. \A g \in GroupsOf(c, grs) : n.groups[g] = grs[g]
    BY <1>3 DEF NormalizedRoots, GroupsOf
  <2>2. \A i \in RootItems(c, its) : n.items[i] = its[i]
    BY <1>3 DEF NormalizedRoots, RootItems
  <2>3. K \subseteq K \cap KeysIn(c, n.groups, n.items)
    BY <1>2
  <2> HIDE DEF K
  <2>4. SameOrder(K, grs, its, n.groups, n.items)
    BY <2>1, <2>2, <2>3, SameRowsSameOrder DEF K
  <2> QED  BY <1>2, <2>4 DEF K
<1>4. CASE c \in cols
  <2>1. /\ \A g \in GroupsOf(c, grs) :
                ge(g) \in S /\ n.groups[g].orderIndex = Place(ge(g), S)
        /\ \A i \in RootItems(c, its) :
                ie(i) \in S /\ n.items[i].rowIndex = Place(ie(i), S)
    <3>1. \A g \in GroupsOf(c, grs) : n.groups[g].orderIndex = Place(ge(g), S)
      BY <1>4 DEF NormalizedRoots, GroupsOf, GroupTable
    <3>2. \A i \in RootItems(c, its) : n.items[i].rowIndex = Place(ie(i), S)
      BY <1>4 DEF NormalizedRoots, RootItems, ItemTable
    <3>3. /\ \A g \in GroupsOf(c, grs) : ge(g) \in S
          /\ \A i \in RootItems(c, its) : ie(i) \in S
      BY DEF RootEntries
    <3> QED  BY <3>1, <3>2, <3>3
  <2>2. /\ \A g : ge(g).index = grs[g].orderIndex
        /\ \A i : ie(i).index = its[i].rowIndex
    BY DEF GroupEntry, ItemEntry
  <2>3. \A e, f \in S : e.index < f.index => Place(e, S) < Place(f, S)
    <3>1. IsFiniteSet(S) /\ Sortable(S)
      BY <1>4, RootEntriesFinite DEF FiniteTables
    <3> HIDE DEF S
    <3> QED  BY <3>1, SmallerIndexFirst
  <2> HIDE DEF S, ge, ie
  <2>4. \A k \in K : /\ entry(k) \in S
                     /\ entry(k).index = IndexIn(k, grs, its)
                     /\ IndexIn(k, n.groups, n.items) = Place(entry(k), S)
    <3> SUFFICES ASSUME NEW k \in K
                 PROVE  /\ entry(k) \in S
                        /\ entry(k).index = IndexIn(k, grs, its)
                        /\ IndexIn(k, n.groups, n.items) = Place(entry(k), S)
      OBVIOUS
    <3>1. CASE \E i \in RootItems(c, its) : k = <<"ITEM", i>>
      <4>1. PICK i \in RootItems(c, its) : k = <<"ITEM", i>>
        BY <3>1
      <4>2. entry(k) = ie(i)
        BY <4>1
      <4>3. /\ IndexIn(k, grs, its) = its[i].rowIndex
            /\ IndexIn(k, n.groups, n.items) = n.items[i].rowIndex
        BY <4>1 DEF IndexIn
      <4> HIDE DEF entry
      <4> QED  BY <2>1, <2>2, <4>1, <4>2, <4>3
    <3>2. CASE \E g \in GroupsOf(c, grs) : k = <<"GROUP", g>>
      <4>1. PICK g \in GroupsOf(c, grs) : k = <<"GROUP", g>>
        BY <3>2
      <4>2. entry(k) = ge(g)
        BY <4>1
      <4>3. /\ IndexIn(k, grs, its) = grs[g].orderIndex
            /\ IndexIn(k, n.groups, n.items) = n.groups[g].orderIndex
        BY <4>1 DEF IndexIn
      <4> HIDE DEF entry
      <4> QED  BY <2>1, <2>2, <4>1, <4>2, <4>3
    <3> QED  BY <3>1, <3>2, KeysAreRows
  <2> HIDE DEF entry
  <2>5. SameOrder(K, grs, its, n.groups, n.items)
    BY <2>3, <2>4 DEF SameOrder
  <2> QED  BY <1>2, <2>5
<1> QED  BY <1>3, <1>4

LEMMA ItemSyncStays ==
    ASSUME NEW ch, NEW grs, NEW its, NEW C, Rows(grs, its, C),
           ItemRequest(ch, grs, its, C), NEW c, RootUniqueAt(c, grs, its),
           NEW after, after = ItemSync(ch, its, grs, its)
    PROVE  StayInOrder(c, grs, its, after.groups, after.items, NamedItems(ch))
<1> DEFINE w == WrittenItems(ch, its)
           gs == ItemSyncGroups(ch, its)
           m == NormalizedMembers(gs, w)
           cols == ItemSyncColumns(ch, its)
           marks == ItemMoveMarks(ch, its, its)
           named == NamedItems(ch)
           stay == KeysIn(c, grs, its) \cap KeysIn(c, grs, m)
<1>1. /\ DOMAIN w = DOMAIN its
      /\ ItemTable(w, C, DOMAIN grs)
      /\ \A i \in DOMAIN its \ Named(ch) : w[i] = its[i]
  BY WrittenItemsProperty
<1>2. NoGroup \notin gs
  BY DEF ItemSyncGroups
<1>3. Sortable(RootEntries(c, grs, m, UnmovedMarks(grs), marks))
  BY ItemSyncSortable
<1>4. after = NormalizedRoots(cols, grs, m, UnmovedMarks(grs), marks)
  BY DEF ItemSync
<1> HIDE DEF w, gs, cols, marks
<1>5. ItemTable(m, C, DOMAIN grs) /\ DOMAIN m = DOMAIN its /\ FiniteTables(grs, m)
  <2>1. IsFiniteSet(DOMAIN w)
    BY <1>1 DEF Rows, FiniteTables
  <2>2. ItemTable(m, C, DOMAIN grs) /\ DOMAIN m = DOMAIN w
    BY <1>1, <2>1, NormalizedMembersType
  <2> QED  BY <1>1, <2>2 DEF Rows, FiniteTables
<1>6. RootItems(c, m) = RootItems(c, w) /\ \A i \in RootItems(c, w) : m[i] = w[i]
  <2>1. IsFiniteSet(DOMAIN w)
    BY <1>1 DEF Rows, FiniteTables
  <2> QED  BY <1>1, <1>2, <2>1, RootItemsKept
<1> HIDE DEF m
<1>7. /\ KeysIn(c, after.groups, after.items) = KeysIn(c, grs, m)
      /\ SameOrder(KeysIn(c, grs, m), grs, m, after.groups, after.items)
  BY <1>3, <1>4, <1>5, NormalizedStays DEF Rows
<1>8. \A k \in stay \ named : IndexIn(k, grs, its) = IndexIn(k, grs, m)
  <2> SUFFICES ASSUME NEW k \in stay \ named
               PROVE  IndexIn(k, grs, its) = IndexIn(k, grs, m)
    OBVIOUS
  <2>1. CASE \E i \in RootItems(c, m) : k = <<"ITEM", i>>
    <3>1. PICK i \in RootItems(c, m) : k = <<"ITEM", i>>
      BY <2>1
    <3>2. i \notin Named(ch) /\ i \in DOMAIN its
      BY <1>5, <3>1 DEF RootItems, NamedItems
    <3>3. m[i] = its[i]
      BY <1>1, <1>6, <3>1, <3>2
    <3> QED  BY <3>1, <3>3, KeysAreRows
  <2>2. CASE \E g \in GroupsOf(c, grs) : k = <<"GROUP", g>>
    BY <2>2, KeysAreRows
  <2> QED  BY <2>1, <2>2, KeysAreRows
<1>9. SameOrder(stay \ named, grs, its, after.groups, after.items)
  BY <1>7, <1>8 DEF SameOrder
<1>10. stay = KeysIn(c, grs, its) \cap KeysIn(c, after.groups, after.items)
  BY <1>7
<1> HIDE DEF named, stay
<1> QED  BY <1>9, <1>10 DEF StayInOrder, named

LEMMA GroupSyncStays ==
    ASSUME NEW ch, NEW grs, NEW its, NEW C, Rows(grs, its, C), GroupRequest(ch, grs, C),
           Shared(grs, its), NEW c, RootUniqueAt(c, grs, its),
           NEW after, after = GroupSync(ch, grs, grs, its)
    PROVE  StayInOrder(c, grs, its, after.groups, after.items, NamedGroups(ch))
<1> DEFINE w == WrittenGroups(ch, grs)
           d == CarriedItems(ch, grs, its)
           cols == GroupSyncColumns(ch, grs)
           marks == GroupMoveMarks(ch, grs, grs)
           named == NamedGroups(ch)
           stay == KeysIn(c, grs, its) \cap KeysIn(c, w, d)
<1>1. /\ DOMAIN w = DOMAIN grs
      /\ GroupTable(w, C)
      /\ \A g \in DOMAIN grs \ Named(ch) : w[g] = grs[g]
  BY WrittenGroupsProperty
<1>2. /\ DOMAIN d = DOMAIN its
      /\ ItemTable(d, C, DOMAIN grs)
      /\ \A i \in DOMAIN its : d[i].rowIndex = its[i].rowIndex
  <2>1. Follows(d, w, grs, its, C)
    BY CarriedItemsFollow
  <2> HIDE DEF d, w
  <2> QED  BY <2>1 DEF Follows
<1>3. Sortable(RootEntries(c, w, d, marks, UnmovedMarks(its)))
  BY GroupSyncSortable
<1>4. after = NormalizedRoots(cols, w, d, marks, UnmovedMarks(its))
  BY DEF GroupSync
<1> HIDE DEF w, d, cols, marks
<1>5. FiniteTables(w, d)
  BY <1>1, <1>2 DEF Rows, FiniteTables
<1>6. /\ KeysIn(c, after.groups, after.items) = KeysIn(c, w, d)
      /\ SameOrder(KeysIn(c, w, d), w, d, after.groups, after.items)
  BY <1>1, <1>2, <1>3, <1>4, <1>5, NormalizedStays
<1>7. \A k \in stay \ named : IndexIn(k, grs, its) = IndexIn(k, w, d)
  <2> SUFFICES ASSUME NEW k \in stay \ named
               PROVE  IndexIn(k, grs, its) = IndexIn(k, w, d)
    OBVIOUS
  <2>1. CASE \E i \in RootItems(c, d) : k = <<"ITEM", i>>
    BY <1>2, <2>1, KeysAreRows DEF RootItems
  <2>2. CASE \E g \in GroupsOf(c, w) : k = <<"GROUP", g>>
    <3>1. PICK g \in GroupsOf(c, w) : k = <<"GROUP", g>>
      BY <2>2
    <3>2. g \notin Named(ch) /\ g \in DOMAIN grs
      BY <1>1, <3>1 DEF GroupsOf, NamedGroups
    <3>3. w[g] = grs[g]
      BY <1>1, <3>2
    <3> QED  BY <3>1, <3>3, KeysAreRows
  <2> QED  BY <2>1, <2>2, KeysAreRows
<1>8. SameOrder(stay \ named, grs, its, after.groups, after.items)
  BY <1>6, <1>7 DEF SameOrder
<1>9. stay = KeysIn(c, grs, its) \cap KeysIn(c, after.groups, after.items)
  BY <1>6
<1> HIDE DEF named, stay
<1> QED  BY <1>8, <1>9 DEF StayInOrder, named

\* deleteGroup makes room for the cards of the group between the others.
LEMMA GroupDeletionStays ==
    ASSUME NEW grs, NEW its, NEW C, Rows(grs, its, C), NEW g \in DOMAIN grs, NEW c,
           NEW after, after = GroupDeletion(g, grs[g], grs, its)
    PROVE  StayInOrder(c, grs, its, after.groups, after.items, {})
<1> DEFINE u == Ungrouped(g, grs[g], grs, its)
           home == grs[g].columnId
           rest == [h \in DOMAIN grs \ {g} |-> grs[h]]
           S == RootEntries(home, rest, its, UnmovedMarks(grs), UnmovedMarks(its))
           size == Cardinality(Members(g, its))
           insertAt == UngroupAt(grs[g], S)
           place(e) == IF Rank(e, S) < insertAt THEN Rank(e, S) ELSE Rank(e, S) + size
           ge(h) == GroupEntry(h, grs, UnmovedMarks(grs))
           ie(i) == ItemEntry(i, its, UnmovedMarks(its))
           stay == KeysIn(c, grs, its) \cap KeysIn(c, u.groups, u.items)
<1>1. /\ DOMAIN u.groups = DOMAIN grs \ {g}
      /\ GroupTable(u.groups, C)
      /\ DOMAIN u.items = DOMAIN its
      /\ ItemTable(u.items, C, DOMAIN grs \ {g})
  BY UngroupedType DEF Rows, GroupTable
<1>2. /\ \A h \in DOMAIN grs \ {g} :
            u.groups[h] = IF grs[h].columnId = home
                          THEN [grs[h] EXCEPT !.orderIndex = place(ge(h))]
                          ELSE grs[h]
      /\ \A i \in DOMAIN its : its[i].groupId # g =>
            u.items[i] = IF i \in RootItems(home, its)
                         THEN [its[i] EXCEPT !.rowIndex = place(ie(i))]
                         ELSE its[i]
  BY DEF Ungrouped
<1>3. /\ g # NoGroup
      /\ \A h \in DOMAIN grs : grs[h] \in [columnId : C, orderIndex : Nat]
      /\ \A i \in DOMAIN its :
            its[i] \in [columnId : C, groupId : {NoGroup} \cup DOMAIN grs, rowIndex : Nat]
  BY DEF Rows, NoGroup, GroupTable, ItemTable
<1>4. IsFiniteSet(S) /\ Sortable(S)
  <2>1. DOMAIN rest \subseteq Nat /\ DOMAIN its \subseteq Nat
    BY DEF Rows
  <2>2. GroupTable(rest, C)
    BY <1>3 DEF GroupTable
  <2>3. UnmovedMarks(grs) = [h \in DOMAIN grs |-> Unmoved]
    BY DEF UnmovedMarks
  <2>4. S = RootEntries(home, rest, its, UnmovedMarks(rest), UnmovedMarks(its))
    BY DEF RootEntries, GroupEntry, GroupsOf, UnmovedMarks
  <2>5. IsFiniteSet(DOMAIN rest)
    BY FS_RemoveElement DEF Rows, FiniteTables
  <2> HIDE DEF rest, S
  <2>6. Sortable(S)
    BY <2>1, <2>2, <2>4, PlainSortable DEF Rows
  <2>7. IsFiniteSet(S)
    BY <2>5, RootEntriesFinite DEF Rows, FiniteTables, S
  <2> QED  BY <2>6, <2>7
<1>5. size \in Nat
  BY FS_Subset, FS_CardinalityType DEF Members, Rows, FiniteTables
<1>6. insertAt \in Int
  <2>1. Cardinality(S) \in Nat
    <3> HIDE DEF S
    <3> QED  BY <1>4, FS_CardinalityType
  <2> HIDE DEF S
  <2> QED  BY <1>3, <2>1 DEF UngroupAt
<1>7. \A e, f \in S : e.index < f.index => place(e) < place(f)
  <2> HIDE DEF S, insertAt, size
  <2>1. \A e \in S : Rank(e, S) \in Nat
    BY <1>4, RankType
  <2>2. \A e, f \in S : e.index < f.index => Rank(e, S) < Rank(f, S)
    BY <1>4, SmallerIndexFirst, PlaceIsRank
  <2> QED  BY <1>5, <1>6, <2>1, <2>2
<1>8. /\ \A h \in GroupsOf(home, grs) \ {g} : ge(h) \in S
      /\ \A i \in RootItems(home, its) : ie(i) \in S
      /\ \A h : ge(h).index = grs[h].orderIndex
      /\ \A i : ie(i).index = its[i].rowIndex
  <2>1. \A h \in GroupsOf(home, grs) \ {g} :
            h \in GroupsOf(home, rest) /\ ge(h) = GroupEntry(h, rest, UnmovedMarks(grs))
    BY DEF GroupsOf, GroupEntry
  <2> QED  BY <2>1 DEF RootEntries, GroupEntry, ItemEntry
<1>9. /\ \A h \in GroupsOf(c, u.groups) : h \in GroupsOf(c, grs) /\ h # g
      /\ \A i \in RootItems(c, u.items) \cap RootItems(c, its) : its[i].groupId # g
  BY <1>1, <1>2, <1>3 DEF GroupsOf, RootItems
<1> HIDE DEF S, place, ge, ie, u
<1>10. SameOrder(stay, grs, its, u.groups, u.items)
  <2>1. \A k \in stay :
            \/ \E i \in RootItems(c, u.items) \cap RootItems(c, its) : k = <<"ITEM", i>>
            \/ \E h \in GroupsOf(c, u.groups) : k = <<"GROUP", h>>
    BY KeysAreRows
  <2>2. CASE c # home
    <3>1. /\ \A h \in GroupsOf(c, u.groups) : u.groups[h] = grs[h]
          /\ \A i \in RootItems(c, u.items) \cap RootItems(c, its) : u.items[i] = its[i]
      BY <1>2, <1>9, <2>2 DEF GroupsOf, RootItems
    <3> QED  BY <1>9, <3>1, SameRowsSameOrder
  <2>3. CASE c = home
    <3> DEFINE entry(k) == IF k[1] = "ITEM" THEN ie(k[2]) ELSE ge(k[2])
    <3>1. ASSUME NEW k \in stay
          PROVE  /\ entry(k) \in S
                 /\ entry(k).index = IndexIn(k, grs, its)
                 /\ IndexIn(k, u.groups, u.items) = place(entry(k))
      <4>1. CASE \E i \in RootItems(c, u.items) \cap RootItems(c, its) : k = <<"ITEM", i>>
        <5>1. PICK i \in RootItems(c, u.items) \cap RootItems(c, its) : k = <<"ITEM", i>>
          BY <4>1
        <5>2. entry(k) = ie(i)
          BY <5>1
        <5>3. u.items[i].rowIndex = place(ie(i))
          BY <1>2, <1>3, <1>9, <2>3, <5>1 DEF RootItems
        <5> HIDE DEF entry
        <5> QED  BY <1>8, <2>3, <5>1, <5>2, <5>3, KeysAreRows
      <4>2. CASE \E h \in GroupsOf(c, u.groups) : k = <<"GROUP", h>>
        <5>1. PICK h \in GroupsOf(c, u.groups) : k = <<"GROUP", h>>
          BY <4>2
        <5>2. entry(k) = ge(h)
          BY <5>1
        <5>3. h \in DOMAIN grs \ {g} /\ grs[h].columnId = home
          BY <1>9, <2>3, <5>1 DEF GroupsOf
        <5>4. u.groups[h] = [grs[h] EXCEPT !.orderIndex = place(ge(h))]
          BY <1>2, <5>3
        <5>5. u.groups[h].orderIndex = place(ge(h))
          BY <1>3, <5>3, <5>4
        <5> HIDE DEF entry
        <5> QED  BY <1>8, <1>9, <2>3, <5>1, <5>2, <5>5, KeysAreRows
      <4> QED  BY <2>1, <4>1, <4>2
    <3> HIDE DEF entry, stay
    <3> QED  BY <1>7, <3>1 DEF SameOrder
  <2> QED  BY <2>2, <2>3
<1>11. after = NormalizedRoots({home}, u.groups, u.items,
                               UnmovedMarks(u.groups), UnmovedMarks(u.items))
  BY DEF GroupDeletion, u
<1>12. Sortable(RootEntries(c, u.groups, u.items,
                            UnmovedMarks(u.groups), UnmovedMarks(u.items)))
  <2>1. DOMAIN u.groups \subseteq Nat /\ DOMAIN u.items \subseteq Nat
    BY <1>1 DEF Rows
  <2> QED  BY <1>1, <2>1, PlainSortable
<1>13. FiniteTables(u.groups, u.items)
  BY <1>1, FS_RemoveElement DEF Rows, FiniteTables
<1>14. /\ KeysIn(c, after.groups, after.items) = KeysIn(c, u.groups, u.items)
       /\ SameOrder(KeysIn(c, u.groups, u.items), u.groups, u.items,
                    after.groups, after.items)
  BY <1>1, <1>11, <1>12, <1>13, NormalizedStays
<1>15. SameOrder(stay, grs, its, after.groups, after.items)
  BY <1>10, <1>14 DEF SameOrder
<1> HIDE DEF stay
<1> QED  BY <1>14, <1>15, AllStay DEF stay

\* A sync request displaces no entry that it does not name.
LEMMA ItemSyncStepKeepsOrder ==
    ASSUME ~RepeatedGroups, TypeOK, Layout, NEW b, NEW ch \in Batches(ItemChanges(b)),
           SyncItemPositions(ch), NEW c \in DOMAIN columns
    PROVE  StayInOrder(c, groups, items, groups', items', NamedItems(ch))
<1>1. Rows(groups, items, DOMAIN columns) /\ RootUniqueAt(c, groups, items)
  BY RowsOK, LayoutTables
<1> DEFINE after == ItemSync(ch, items, groups, items)
<1>2. groups' = after.groups /\ items' = after.items
  BY DEF SyncItemPositions
<1>3. StayInOrder(c, groups, items, after.groups, after.items, NamedItems(ch))
  BY <1>1, ItemChangesRequest, ItemSyncStays
<1> HIDE DEF after
<1> QED  BY <1>2, <1>3

LEMMA GroupSyncStepKeepsOrder ==
    ASSUME ~RepeatedGroups, TypeOK, Layout, NEW b, NEW ch \in Batches(GroupChanges(b)),
           SyncGroupPositions(ch), NEW c \in DOMAIN columns
    PROVE  StayInOrder(c, groups, items, groups', items', NamedGroups(ch))
<1>1. /\ Rows(groups, items, DOMAIN columns)
      /\ RootUniqueAt(c, groups, items)
      /\ Shared(groups, items)
  BY RowsOK, LayoutTables
<1> DEFINE after == GroupSync(ch, groups, groups, items)
<1>2. groups' = after.groups /\ items' = after.items /\ NamesOnce(ch)
  BY DEF SyncGroupPositions
<1>3. StayInOrder(c, groups, items, after.groups, after.items, NamedGroups(ch))
  BY <1>1, <1>2, GroupChangesRequest, GroupSyncStays
<1> HIDE DEF after
<1> QED  BY <1>2, <1>3

\* Creating or deleting a row displaces no entry that stays.
LEMMA OtherStepKeepsOrder ==
    ASSUME TypeOK, Next, NEW c \in DOMAIN columns \cap DOMAIN columns',
           DOMAIN items' # DOMAIN items \/ DOMAIN groups' # DOMAIN groups
    PROVE  StayInOrder(c, groups, items, groups', items', {})
<1>2. Rows(groups, items, DOMAIN columns)
  BY RowsOK
<1>4. ASSUME \A i \in RootItems(c, items) \cap RootItems(c, items') :
                    items'[i].rowIndex = items[i].rowIndex,
             \A g \in GroupsOf(c, groups) \cap GroupsOf(c, groups') :
                    groups'[g].orderIndex = groups[g].orderIndex
      PROVE  StayInOrder(c, groups, items, groups', items', {})
  BY <1>4, SameRowsSameOrder, AllStay
<1>5. ASSUME groups' = groups, items' = items
      PROVE  StayInOrder(c, groups, items, groups', items', {})
  BY <1>4, <1>5
<1>6. ASSUME NEW col \in DOMAIN columns, CreateGroup(col)
      PROVE  StayInOrder(c, groups, items, groups', items', {})
  <2>1. /\ \A g \in DOMAIN groups : groups'[g] = groups[g]
        /\ items' = items
    BY <1>6 DEF CreateGroup
  <2> QED  BY <1>4, <2>1 DEF GroupsOf
<1>7. ASSUME NEW col \in DOMAIN columns, NEW g \in {NoGroup} \cup GroupsOf(col, groups),
             AddItemToColumn(col, g)
      PROVE  StayInOrder(c, groups, items, groups', items', {})
  <2>1. /\ DOMAIN groups' = DOMAIN groups
        /\ \A h \in DOMAIN groups :
                groups'[h].orderIndex = IF g = NoGroup /\ groups[h].columnId = col
                                        THEN groups[h].orderIndex + 1
                                        ELSE groups[h].orderIndex
        /\ \A i \in DOMAIN items :
                items'[i].rowIndex = IF items[i].columnId = col /\ items[i].groupId = g
                                     THEN items[i].rowIndex + 1 ELSE items[i].rowIndex
    <3>1. lastId.item + 1 \notin DOMAIN items
      BY DEF TypeOK
    <3> QED  BY <1>7, <3>1 DEF AddItemToColumn, GroupsBelowNewItem, ItemsWithNewItem, TypeOK
  <2>2. CASE g = NoGroup /\ col = c
    <3> DEFINE S == KeysIn(c, groups, items) \cap KeysIn(c, groups', items')
    <3>1. \A k \in S : /\ IndexIn(k, groups, items) \in Nat
                       /\ IndexIn(k, groups', items') = IndexIn(k, groups, items) + 1
      <4> SUFFICES ASSUME NEW k \in S
                   PROVE  /\ IndexIn(k, groups, items) \in Nat
                          /\ IndexIn(k, groups', items') = IndexIn(k, groups, items) + 1
        OBVIOUS
      <4>1. CASE \E i \in RootItems(c, items) : k = <<"ITEM", i>>
        <5>1. PICK i \in RootItems(c, items) : k = <<"ITEM", i>>
          BY <4>1
        <5>2. /\ IndexIn(k, groups, items) = items[i].rowIndex
              /\ IndexIn(k, groups', items') = items'[i].rowIndex
          BY <5>1 DEF IndexIn
        <5> QED  BY <2>1, <2>2, <5>2 DEF RootItems, TypeOK
      <4>2. CASE \E h \in GroupsOf(c, groups) : k = <<"GROUP", h>>
        <5>1. PICK h \in GroupsOf(c, groups) : k = <<"GROUP", h>>
          BY <4>2
        <5>2. /\ IndexIn(k, groups, items) = groups[h].orderIndex
              /\ IndexIn(k, groups', items') = groups'[h].orderIndex
          BY <5>1 DEF IndexIn
        <5> QED  BY <2>1, <2>2, <5>2 DEF GroupsOf, TypeOK
      <4> QED  BY <4>1, <4>2, KeysAreRows
    <3> HIDE DEF S
    <3>2. SameOrder(S, groups, items, groups', items')
      BY <3>1 DEF SameOrder
    <3> QED  BY <3>2, AllStay DEF S
  <2>3. CASE ~(g = NoGroup /\ col = c)
    <3>1. \A i \in RootItems(c, items) : items'[i].rowIndex = items[i].rowIndex
      BY <2>1, <2>3 DEF RootItems
    <3>2. \A h \in GroupsOf(c, groups) : groups'[h].orderIndex = groups[h].orderIndex
      BY <2>1, <2>3 DEF GroupsOf
    <3> QED  BY <1>4, <3>1, <3>2
  <2> QED  BY <2>2, <2>3
<1>8. ASSUME NEW ch, SyncItemPositions(ch)
      PROVE  FALSE
  <2> DEFINE after == ItemSync(ch, items, groups, items)
  <2>1. groups' = after.groups /\ items' = after.items
    BY <1>8 DEF SyncItemPositions
  <2>2. DOMAIN after.groups = DOMAIN groups /\ DOMAIN after.items = DOMAIN items
    BY DEF ItemSync, NormalizedRoots, NormalizedMembers, WrittenItems
  <2> HIDE DEF after
  <2> QED  BY <2>1, <2>2
<1>9. ASSUME NEW ch, SyncGroupPositions(ch)
      PROVE  FALSE
  <2> DEFINE after == GroupSync(ch, groups, groups, items)
  <2>1. groups' = after.groups /\ items' = after.items
    BY <1>9 DEF SyncGroupPositions
  <2>2. DOMAIN after.groups = DOMAIN groups /\ DOMAIN after.items = DOMAIN items
    BY DEF GroupSync, NormalizedRoots, WrittenGroups, CarriedItems
  <2> HIDE DEF after
  <2> QED  BY <2>1, <2>2
<1>10. ASSUME NEW col \in DOMAIN columns, DeleteColumn(col)
       PROVE  StayInOrder(c, groups, items, groups', items', {})
  <2>1. /\ \A g \in DOMAIN groups' : groups'[g] = groups[g]
        /\ \A i \in DOMAIN items' : items'[i].rowIndex = items[i].rowIndex
    BY <1>10 DEF DeleteColumn, GroupsWithoutColumn, ItemsWithoutColumn, TypeOK
  <2> QED  BY <1>4, <2>1 DEF GroupsOf, RootItems
<1>11. ASSUME NEW g \in DOMAIN groups, DeleteGroup(g)
       PROVE  StayInOrder(c, groups, items, groups', items', {})
  <2> DEFINE after == GroupDeletion(g, groups[g], groups, items)
  <2>1. groups' = after.groups /\ items' = after.items
    BY <1>11 DEF DeleteGroup
  <2>2. DOMAIN after.groups # DOMAIN groups
    BY DEF GroupDeletion, NormalizedRoots, Ungrouped
  <2>3. StayInOrder(c, groups, items, after.groups, after.items, {})
    BY <1>2, GroupDeletionStays
  <2> HIDE DEF after
  <2> QED  BY <2>1, <2>2, <2>3
<1>12. ASSUME NEW i \in DOMAIN items, DeleteItem(i)
       PROVE  StayInOrder(c, groups, items, groups', items', {})
  <2>1. groups' = groups /\ \A j \in DOMAIN items' : items'[j] = items[j]
    BY <1>12 DEF DeleteItem
  <2> QED  BY <1>4, <2>1 DEF RootItems
<1>13. ASSUME CreateBoard \/ (\E b : CreateColumn(b))
                \/ (\E b, old, new : ReorderColumns(b, old, new))
       PROVE  StayInOrder(c, groups, items, groups', items', {})
  <2>1. groups' = groups /\ items' = items
    BY <1>13 DEF CreateBoard, CreateColumn, ReorderColumns
  <2> QED  BY <1>5, <2>1
<1>14. StayInOrder(c, groups, items, groups', items', {})
  <2>1. CASE \E col \in DOMAIN columns : CreateGroup(col)
    BY <2>1, <1>6
  <2>2. CASE \E col \in DOMAIN columns : \E g \in {NoGroup} \cup GroupsOf(col, groups) :
                AddItemToColumn(col, g)
    BY <2>2, <1>7
  <2>3. CASE \E b \in Boards : \E ch \in Batches(ItemChanges(b)) : SyncItemPositions(ch)
    BY <2>3, <1>8
  <2>4. CASE \E b \in Boards : \E ch \in Batches(GroupChanges(b)) : SyncGroupPositions(ch)
    BY <2>4, <1>9
  <2>5. CASE \/ \E col \in DOMAIN columns : DeleteColumn(col)
             \/ \E g \in DOMAIN groups : DeleteGroup(g)
             \/ \E i \in DOMAIN items : DeleteItem(i)
    BY <2>5, <1>10, <1>11, <1>12
  <2> QED  BY <1>13, <2>1, <2>2, <2>3, <2>4, <2>5 DEF Next
<1> QED  BY <1>14

\* If no request names a group twice, a sync request displaces only entries
\* that it names, and a call that creates or deletes something displaces none.
THEOREM OthersInOrder ==
    ASSUME ~RepeatedGroups
    PROVE  Spec => OthersKeepOrder
<1> DEFINE
      ItemSyncsKeep == \A b \in Boards : \A ch \in Batches(ItemChanges(b)) :
            SyncItemPositions(ch)
            => \A c \in DOMAIN columns : OrderKept(c, {<<"ITEM", i>> : i \in Named(ch)})
      GroupSyncsKeep == \A b \in Boards : \A ch \in Batches(GroupChanges(b)) :
            SyncGroupPositions(ch)
            => \A c \in DOMAIN columns : OrderKept(c, {<<"GROUP", g>> : g \in Named(ch)})
      OthersKeep ==
          \/ DOMAIN items' # DOMAIN items
          \/ DOMAIN groups' # DOMAIN groups
            => \A c \in DOMAIN columns \cap DOMAIN columns' : OrderKept(c, {})
<1>1. ASSUME NEW c, NEW named, StayInOrder(c, groups, items, groups', items', named)
      PROVE  OrderKept(c, named)
  <2>1. /\ RootKeys(c) = KeysIn(c, groups, items)
        /\ RootKeys(c)' = KeysIn(c, groups', items')
    BY DEF RootKeys, KeysIn
  <2>2. \A k : /\ IndexOf(k) = IndexIn(k, groups, items)
               /\ IndexOf(k)' = IndexIn(k, groups', items')
    BY DEF IndexOf, IndexIn
  <2> QED  BY <1>1, <2>1, <2>2 DEF StayInOrder, SameOrder, OrderKept
<1>2. LayoutInvariant /\ [Next]_vars => [ItemSyncsKeep /\ GroupSyncsKeep /\ OthersKeep]_vars
  <2> SUFFICES ASSUME LayoutInvariant, Next
               PROVE  ItemSyncsKeep /\ GroupSyncsKeep /\ OthersKeep
    OBVIOUS
  <2>1. ItemSyncsKeep
    BY <1>1, ItemSyncStepKeepsOrder DEF LayoutInvariant, NamedItems
  <2>2. GroupSyncsKeep
    BY <1>1, GroupSyncStepKeepsOrder DEF LayoutInvariant, NamedGroups
  <2>3. OthersKeep
    BY <1>1, OtherStepKeepsOrder DEF LayoutInvariant
  <2> QED  BY <2>1, <2>2, <2>3
<1> QED  BY <1>2, LayoutInductive, PTL DEF Spec, OthersKeepOrder

-----------------------------------------------------------------------------
(* Gaps: a column or a group whose indexes are 0, 1, 2, ... keeps them so. *)

\* RootDense and MembersDense, of any tables.
DenseIn(c, grs, its) ==
    RootIndexes(c, grs, its) = 0..Cardinality(KeysIn(c, grs, its)) - 1

DenseMembers(g, its) ==
    {its[i].rowIndex : i \in Members(g, its)} = 0..Cardinality(Members(g, its)) - 1

LEMMA KeysFinite ==
    ASSUME NEW c, NEW grs, NEW its, FiniteTables(grs, its)
    PROVE  IsFiniteSet(KeysIn(c, grs, its))
<1> DEFINE I == [i \in RootItems(c, its) |-> <<"ITEM", i>>]
           G == [g \in GroupsOf(c, grs) |-> <<"GROUP", g>>]
           ItemKeys == {I[i] : i \in RootItems(c, its)}
           GroupKeys == {G[g] : g \in GroupsOf(c, grs)}
<1>1. IsFiniteSet(GroupsOf(c, grs)) /\ IsFiniteSet(RootItems(c, its))
  BY FS_Subset DEF GroupsOf, RootItems, FiniteTables
<1>2. IsFiniteSet(ItemKeys)
  BY <1>1, ValuesFinite
<1>3. IsFiniteSet(GroupKeys)
  BY <1>1, ValuesFinite
<1>4. KeysIn(c, grs, its) = ItemKeys \cup GroupKeys
  BY DEF KeysIn
<1> HIDE DEF ItemKeys, GroupKeys
<1> QED  BY <1>2, <1>3, <1>4, FS_Union

\* As many different places as entries: none is left out.
LEMMA PlacesAll ==
    ASSUME NEW S, IsFiniteSet(S), NEW f \in [S -> 0..Cardinality(S) - 1],
           \A e, d \in S : f[e] = f[d] => e = d
    PROVE  {f[e] : e \in S} = 0..Cardinality(S) - 1
<1> DEFINE N == 0..Cardinality(S) - 1
<1>1. IsFiniteSet(N) /\ Cardinality(N) = Cardinality(S)
  BY NumbersCount
<1> HIDE DEF N
<1>2. f \in Injection(S, N)
  BY DEF Injection, IsInjective, N
<1>3. f \in Surjection(S, N)
  BY <1>1, <1>2, FS_Injection
<1>4. \A n \in N : \E e \in S : f[e] = n
  BY <1>3 DEF Surjection
<1>5. \A e \in S : f[e] \in N
  BY DEF N
<1>6. {f[e] : e \in S} = N
  BY <1>4, <1>5
<1> QED  BY <1>6 DEF N

\* The columns that normalizeColumnRootEntryOrder rewrites have no gaps.
LEMMA NormalizedDense ==
    ASSUME NEW cols, NEW grs, NEW its, NEW groupMark, NEW itemMark, NEW C, NEW G,
           FiniteTables(grs, its), GroupTable(grs, C), ItemTable(its, C, G),
           NEW c \in cols,
           NEW n, n = NormalizedRoots(cols, grs, its, groupMark, itemMark)
    PROVE  DenseIn(c, n.groups, n.items)
<1> DEFINE S == RootEntries(c, grs, its, groupMark, itemMark)
           ge(g) == GroupEntry(g, grs, groupMark)
           ie(i) == ItemEntry(i, its, itemMark)
           K == KeysIn(c, grs, its)
           place == [e \in S |-> Place(e, S)]
           key == [e \in S |-> IF e.type = 0 THEN <<"ITEM", e.id>> ELSE <<"GROUP", e.id>>]
<1>1. GroupsOf(c, n.groups) = GroupsOf(c, grs) /\ RootItems(c, n.items) = RootItems(c, its)
  BY NormalizedRootsType DEF GroupsOf, RootItems
<1>2. KeysIn(c, n.groups, n.items) = K
  BY <1>1 DEF KeysIn
<1>3. \A g \in GroupsOf(c, grs) : n.groups[g].orderIndex = Place(ge(g), S)
  BY DEF NormalizedRoots, GroupsOf, GroupTable
<1>4. \A i \in RootItems(c, its) : n.items[i].rowIndex = Place(ie(i), S)
  BY DEF NormalizedRoots, RootItems, ItemTable
<1>5. /\ \A g \in GroupsOf(c, grs) : ge(g) \in S
      /\ \A i \in RootItems(c, its) : ie(i) \in S
      /\ \A e \in S : \/ \E g \in GroupsOf(c, grs) : e = ge(g)
                      \/ \E i \in RootItems(c, its) : e = ie(i)
  BY DEF RootEntries
<1>6. IsFiniteSet(S)
  BY RootEntriesFinite DEF FiniteTables
<1>7. /\ \A g : key[ge(g)] = <<"GROUP", g>> \/ ge(g) \notin S
      /\ \A i : key[ie(i)] = <<"ITEM", i>> \/ ie(i) \notin S
  <2>1. /\ \A g : ge(g).type # 0 /\ ge(g).id = g
        /\ \A i : ie(i).type = 0 /\ ie(i).id = i
    BY DEF GroupEntry, ItemEntry
  <2> HIDE DEF ge, ie, S
  <2> QED  BY <2>1
<1> HIDE DEF S, ge, ie
<1>8. RootIndexes(c, n.groups, n.items) = {place[e] : e \in S}
  <2>1. \A x \in RootIndexes(c, n.groups, n.items) : \E e \in S : x = place[e]
    BY <1>1, <1>3, <1>4, <1>5 DEF RootIndexes
  <2>2. \A e \in S : place[e] \in RootIndexes(c, n.groups, n.items)
    BY <1>1, <1>3, <1>4, <1>5 DEF RootIndexes
  <2> HIDE DEF place
  <2> QED  BY <2>1, <2>2
<1>9. {place[e] : e \in S} = 0..Cardinality(S) - 1
  <2>1. /\ \A e \in S : Place(e, S) \in 0..Cardinality(S) - 1
        /\ \A e, f \in S : Place(e, S) = Place(f, S) => e = f
    BY <1>6, PlaceProperty
  <2>2. /\ place \in [S -> 0..Cardinality(S) - 1]
        /\ \A e, f \in S : place[e] = place[f] => e = f
    BY <2>1
  <2> HIDE DEF place
  <2> QED  BY <1>6, <2>2, PlacesAll
<1>10. Cardinality(K) = Cardinality(S)
  <2>1. \A e \in S : key[e] \in K
    <3>1. /\ \A i \in RootItems(c, its) : <<"ITEM", i>> \in K
          /\ \A g \in GroupsOf(c, grs) : <<"GROUP", g>> \in K
      BY KeysAreRows
    <3> HIDE DEF key, K
    <3>2. SUFFICES ASSUME NEW e \in S PROVE key[e] \in K
      OBVIOUS
    <3>3. CASE \E g \in GroupsOf(c, grs) : e = ge(g)
      <4>1. PICK g \in GroupsOf(c, grs) : e = ge(g)
        BY <3>3
      <4>2. key[e] = <<"GROUP", g>>
        BY <1>7, <4>1
      <4> QED  BY <3>1, <4>2
    <3>4. CASE \E i \in RootItems(c, its) : e = ie(i)
      <4>1. PICK i \in RootItems(c, its) : e = ie(i)
        BY <3>4
      <4>2. key[e] = <<"ITEM", i>>
        BY <1>7, <4>1
      <4> QED  BY <3>1, <4>2
    <3> QED  BY <1>5, <3>3, <3>4
  <2>2. \A k \in K : \E e \in S : key[e] = k
    <3> HIDE DEF key, K
    <3>1. \A k \in K : \/ \E i \in RootItems(c, its) : k = <<"ITEM", i>>
                       \/ \E g \in GroupsOf(c, grs) : k = <<"GROUP", g>>
      BY KeysAreRows DEF K
    <3> QED  BY <1>5, <1>7, <3>1
  <2>3. \A e, f \in S : key[e] = key[f] => e = f
    <3>1. "ITEM" # "GROUP"
      OBVIOUS
    <3>2. /\ \A g, h : <<"GROUP", g>> = <<"GROUP", h>> => g = h
          /\ \A i, j : <<"ITEM", i>> = <<"ITEM", j>> => i = j
          /\ \A g, i : <<"GROUP", g>> # <<"ITEM", i>>
      BY <3>1
    <3> HIDE DEF key
    <3> QED  BY <1>5, <1>7, <3>2
  <2>4. key \in [S -> K]
    <3>1. key = [e \in S |-> key[e]]
      OBVIOUS
    <3> HIDE DEF key
    <3> QED  BY <2>1, <3>1
  <2> HIDE DEF key, K
  <2>5. key \in Bijection(S, K)
    BY <2>2, <2>3, <2>4 DEF Bijection, Injection, Surjection, IsInjective
  <2>6. ExistsBijection(S, K)
    BY <2>5 DEF ExistsBijection
  <2> QED  BY <1>6, <2>6, FS_Bijection
<1> QED  BY <1>2, <1>8, <1>9, <1>10 DEF DenseIn

\* A column whose entries and indexes stay has no gaps if it had none.
LEMMA SameRowsDense ==
    ASSUME NEW c, NEW grs, NEW its, NEW grs2, NEW its2, DenseIn(c, grs, its),
           GroupsOf(c, grs2) = GroupsOf(c, grs), RootItems(c, its2) = RootItems(c, its),
           \A g \in GroupsOf(c, grs) : grs2[g].orderIndex = grs[g].orderIndex,
           \A i \in RootItems(c, its) : its2[i].rowIndex = its[i].rowIndex
    PROVE  DenseIn(c, grs2, its2)
<1>1. RootIndexes(c, grs2, its2) = RootIndexes(c, grs, its)
  <2>1. {grs2[g].orderIndex : g \in GroupsOf(c, grs)}
            = {grs[g].orderIndex : g \in GroupsOf(c, grs)}
    OBVIOUS
  <2>2. {its2[i].rowIndex : i \in RootItems(c, its)}
            = {its[i].rowIndex : i \in RootItems(c, its)}
    OBVIOUS
  <2> QED  BY <2>1, <2>2 DEF RootIndexes
<1>2. KeysIn(c, grs2, its2) = KeysIn(c, grs, its)
  BY DEF KeysIn
<1> QED  BY <1>1, <1>2 DEF DenseIn

LEMMA SameRowsDenseMembers ==
    ASSUME NEW g, NEW its, NEW its2, DenseMembers(g, its),
           Members(g, its2) = Members(g, its),
           \A i \in Members(g, its) : its2[i].rowIndex = its[i].rowIndex
    PROVE  DenseMembers(g, its2)
<1>1. {its2[i].rowIndex : i \in Members(g, its)} = {its[i].rowIndex : i \in Members(g, its)}
  OBVIOUS
<1> QED  BY <1>1 DEF DenseMembers

\* The groups that normalizeGroupItemsOrder rewrites have no gaps.
LEMMA RankedMembersDense ==
    ASSUME NEW its, IsFiniteSet(DOMAIN its), NEW C, NEW G, ItemTable(its, C, G),
           DOMAIN its \subseteq Nat, NEW g, NEW its2,
           Members(g, its2) = Members(g, its),
           \A i \in Members(g, its) : its2[i].rowIndex = MemberRank(i, its)
    PROVE  DenseMembers(g, its2)
<1> DEFINE M == Members(g, its)
           rank == [i \in M |-> MemberRank(i, its)]
<1>1. IsFiniteSet(M)
  BY FS_Subset DEF Members
<1>2. \A i \in M : rank[i] \in 0..Cardinality(M) - 1
  <2> SUFFICES ASSUME NEW i \in M PROVE MemberRank(i, its) \in 0..Cardinality(M) - 1
    OBVIOUS
  <2> DEFINE B == {j \in M : \/ its[j].rowIndex < its[i].rowIndex
                             \/ its[j].rowIndex = its[i].rowIndex /\ j < i}
  <2>1. MemberRank(i, its) = Cardinality(B)
    BY DEF MemberRank, Members
  <2>2. i \in Nat /\ its[i].rowIndex \in Nat
    BY DEF Members, ItemTable
  <2>3. B \in SUBSET M /\ i \notin B
    BY <2>2
  <2> HIDE DEF B, M
  <2>4. IsFiniteSet(B) /\ Cardinality(B) <= Cardinality(M) /\ Cardinality(B) # Cardinality(M)
    BY <1>1, <2>3, FS_Subset
  <2>5. Cardinality(B) \in Nat /\ Cardinality(M) \in Nat
    BY <1>1, <2>4, FS_CardinalityType
  <2> QED  BY <2>1, <2>4, <2>5
<1>3. \A i, j \in M : rank[i] = rank[j] => i = j
  BY MemberRankInjective
<1>4. rank \in [M -> 0..Cardinality(M) - 1]
  <2>1. rank = [i \in M |-> rank[i]]
    OBVIOUS
  <2> HIDE DEF rank, M
  <2> QED  BY <1>2, <2>1
<1>5. {rank[i] : i \in M} = 0..Cardinality(M) - 1
  <2> HIDE DEF rank, M
  <2> QED  BY <1>1, <1>3, <1>4, PlacesAll
<1>6. {its2[i].rowIndex : i \in M} = {rank[i] : i \in M}
  OBVIOUS
<1> QED  BY <1>5, <1>6 DEF DenseMembers

\* From one state of the tables to another, no column of C and no group of G
\* gets a gap.
NoNewGap(C, G, grs, its, grs2, its2) ==
    /\ \A c \in C : DenseIn(c, grs, its) => DenseIn(c, grs2, its2)
    /\ \A g \in G : DenseMembers(g, its) => DenseMembers(g, its2)

LEMMA ItemSyncNoGap ==
    ASSUME NEW ch, NEW grs, NEW its, NEW C, Rows(grs, its, C), ItemRequest(ch, grs, its, C),
           NEW after, after = ItemSync(ch, its, grs, its)
    PROVE  NoNewGap(C, DOMAIN grs, grs, its, after.groups, after.items)
<1> DEFINE w == WrittenItems(ch, its)
           gs == ItemSyncGroups(ch, its)
           m == NormalizedMembers(gs, w)
           cols == ItemSyncColumns(ch, its)
           marks == ItemMoveMarks(ch, its, its)
<1>1. /\ DOMAIN w = DOMAIN its
      /\ ItemTable(w, C, DOMAIN grs)
      /\ \A i \in DOMAIN its \ Named(ch) : w[i] = its[i]
      /\ \A i \in DOMAIN its \cap Named(ch) :
            /\ LastFor(ch, i) \in DOMAIN ch
            /\ w[i].columnId = ch[LastFor(ch, i)].newColumnId
            /\ w[i].groupId = ch[LastFor(ch, i)].newGroupId
  BY WrittenItemsProperty
<1>2. NoGroup \notin gs /\ NoGroup \notin DOMAIN grs
  BY DEF ItemSyncGroups, Rows, NoGroup
<1>3. \A i \in DOMAIN its \cap Named(ch) :
            /\ its[i].columnId \in cols /\ w[i].columnId \in cols
            /\ its[i].groupId # NoGroup => its[i].groupId \in gs
            /\ w[i].groupId # NoGroup => w[i].groupId \in gs
  <2> HIDE DEF w
  <2> QED  BY <1>1 DEF ItemSyncColumns, ItemSyncGroups
<1>4. after = NormalizedRoots(cols, grs, m, UnmovedMarks(grs), marks)
  BY DEF ItemSync
<1> HIDE DEF w, gs, cols, marks
<1>5. /\ DOMAIN m = DOMAIN w
      /\ ItemTable(m, C, DOMAIN grs)
      /\ \A i \in DOMAIN w : /\ m[i].columnId = w[i].columnId
                             /\ m[i].groupId = w[i].groupId
                             /\ w[i].groupId \notin gs => m[i] = w[i]
      /\ \A i \in DOMAIN w : w[i].groupId \in gs => m[i].rowIndex = MemberRank(i, w)
  <2>1. IsFiniteSet(DOMAIN w)
    BY <1>1 DEF Rows, FiniteTables
  <2>2. \A i : MemberRank(i, w) \in Nat
    BY <2>1, MemberRankType
  <2> QED  BY <1>1, <2>2 DEF NormalizedMembers, ItemTable
<1> HIDE DEF m
<1>6. FiniteTables(grs, m)
  BY <1>1, <1>5 DEF Rows, FiniteTables
<1>7. ASSUME NEW c \in C, DenseIn(c, grs, its)
      PROVE  DenseIn(c, after.groups, after.items)
  <2>1. CASE c \in cols
    BY <1>4, <1>5, <1>6, <2>1, NormalizedDense DEF Rows
  <2>2. CASE c \notin cols
    <3>1. RootItems(c, m) = RootItems(c, its)
      BY <1>1, <1>3, <1>5, <2>2 DEF RootItems
    <3>2. \A i \in RootItems(c, its) : m[i] = its[i]
      BY <1>1, <1>2, <1>3, <1>5, <2>2 DEF RootItems
    <3>3. /\ GroupsOf(c, after.groups) = GroupsOf(c, grs)
          /\ RootItems(c, after.items) = RootItems(c, m)
      BY <1>4, <1>5, <1>6, NormalizedRootsType DEF Rows, GroupsOf, RootItems
    <3>4. /\ \A g \in GroupsOf(c, grs) : after.groups[g] = grs[g]
          /\ \A i \in RootItems(c, m) : after.items[i] = m[i]
      BY <1>4, <2>2 DEF NormalizedRoots, GroupsOf, RootItems
    <3> QED  BY <1>7, <3>1, <3>2, <3>3, <3>4, SameRowsDense
  <2> QED  BY <2>1, <2>2
<1>8. ASSUME NEW g \in DOMAIN grs, DenseMembers(g, its)
      PROVE  DenseMembers(g, after.items)
  <2>1. /\ DOMAIN after.items = DOMAIN m
        /\ \A i \in DOMAIN m : after.items[i].groupId = m[i].groupId
    BY <1>4, <1>5, <1>6, NormalizedRootsType DEF Rows
  <2>2. Members(g, after.items) = Members(g, w)
    BY <1>5, <2>1 DEF Members
  <2>3. \A i \in Members(g, w) : after.items[i].rowIndex = m[i].rowIndex
    BY <1>2, <1>4, <1>5 DEF Members, NormalizedRoots
  <2>4. CASE g \in gs
    <3>1. \A i \in Members(g, w) : after.items[i].rowIndex = MemberRank(i, w)
      BY <1>5, <2>3, <2>4 DEF Members
    <3>2. IsFiniteSet(DOMAIN w) /\ DOMAIN w \subseteq Nat
      BY <1>1 DEF Rows, FiniteTables
    <3> QED  BY <1>1, <2>2, <3>1, <3>2, RankedMembersDense
  <2>5. CASE g \notin gs
    <3>1. Members(g, w) = Members(g, its)
      BY <1>1, <1>2, <1>3, <2>5 DEF Members
    <3>2. \A i \in Members(g, its) : m[i] = its[i]
      BY <1>1, <1>2, <1>3, <1>5, <2>5, <3>1 DEF Members
    <3> QED  BY <1>8, <2>2, <2>3, <3>1, <3>2, SameRowsDenseMembers
  <2> QED  BY <2>4, <2>5
<1> QED  BY <1>7, <1>8 DEF NoNewGap

LEMMA GroupSyncNoGap ==
    ASSUME NEW ch, NEW grs, NEW its, NEW C, Rows(grs, its, C), GroupRequest(ch, grs, C),
           Shared(grs, its), NEW after, after = GroupSync(ch, grs, grs, its)
    PROVE  NoNewGap(C, DOMAIN grs, grs, its, after.groups, after.items)
<1> DEFINE w == WrittenGroups(ch, grs)
           d == CarriedItems(ch, grs, its)
           cols == GroupSyncColumns(ch, grs)
           marks == GroupMoveMarks(ch, grs, grs)
<1>1. /\ DOMAIN w = DOMAIN grs
      /\ GroupTable(w, C)
      /\ Named(ch) \subseteq DOMAIN grs
      /\ \A g \in DOMAIN grs \ Named(ch) : w[g] = grs[g]
      /\ \A g \in Named(ch) : /\ LastFor(ch, g) \in DOMAIN ch
                               /\ w[g].columnId = ch[LastFor(ch, g)].newColumnId
  BY WrittenGroupsProperty
<1>2. /\ DOMAIN d = DOMAIN its
      /\ ItemTable(d, C, DOMAIN grs)
      /\ \A i \in DOMAIN its :
            /\ d[i].groupId = its[i].groupId
            /\ d[i].rowIndex = its[i].rowIndex
            /\ its[i].groupId = NoGroup => d[i] = its[i]
  <2>1. Follows(d, w, grs, its, C)
    BY CarriedItemsFollow
  <2> HIDE DEF d, w
  <2> QED  BY <2>1 DEF Follows
<1>3. after = NormalizedRoots(cols, w, d, marks, UnmovedMarks(its))
  BY DEF GroupSync
<1>4. \A g \in Named(ch) : grs[g].columnId \in cols /\ w[g].columnId \in cols
  <2> HIDE DEF w
  <2> QED  BY <1>1 DEF GroupSyncColumns
<1> HIDE DEF w, d, cols, marks
<1>5. FiniteTables(w, d)
  BY <1>1, <1>2 DEF Rows, FiniteTables
<1>6. ASSUME NEW c \in C, DenseIn(c, grs, its)
      PROVE  DenseIn(c, after.groups, after.items)
  <2>1. CASE c \in cols
    BY <1>1, <1>2, <1>3, <1>5, <2>1, NormalizedDense
  <2>2. CASE c \notin cols
    <3>1. GroupsOf(c, w) = GroupsOf(c, grs) /\ \A g \in GroupsOf(c, grs) : w[g] = grs[g]
      BY <1>1, <1>4, <2>2 DEF GroupsOf
    <3>2. RootItems(c, d) = RootItems(c, its) /\ \A i \in RootItems(c, its) : d[i] = its[i]
      BY <1>2 DEF RootItems
    <3>3. GroupsOf(c, after.groups) = GroupsOf(c, w) /\ RootItems(c, after.items) = RootItems(c, d)
      BY <1>1, <1>2, <1>3, <1>5, NormalizedRootsType DEF GroupsOf, RootItems
    <3>4. /\ \A g \in GroupsOf(c, w) : after.groups[g] = w[g]
          /\ \A i \in RootItems(c, d) : after.items[i] = d[i]
      BY <1>3, <2>2 DEF NormalizedRoots, GroupsOf, RootItems
    <3> QED  BY <1>6, <3>1, <3>2, <3>3, <3>4, SameRowsDense
  <2> QED  BY <2>1, <2>2
<1>7. ASSUME NEW g \in DOMAIN grs, DenseMembers(g, its)
      PROVE  DenseMembers(g, after.items)
  <2>1. g # NoGroup
    BY DEF Rows, NoGroup
  <2>2. /\ DOMAIN after.items = DOMAIN d
        /\ \A i \in DOMAIN d : after.items[i].groupId = d[i].groupId
    BY <1>1, <1>2, <1>3, <1>5, NormalizedRootsType
  <2>3. Members(g, after.items) = Members(g, its)
    BY <1>2, <2>2 DEF Members
  <2>4. \A i \in Members(g, its) : after.items[i] = d[i]
    BY <1>2, <1>3, <2>1 DEF Members, NormalizedRoots
  <2>5. \A i \in Members(g, its) : after.items[i].rowIndex = its[i].rowIndex
    BY <1>2, <2>4 DEF Members
  <2> QED  BY <1>7, <2>3, <2>5, SameRowsDenseMembers
<1> QED  BY <1>6, <1>7 DEF NoNewGap

\* The cards that a deleted group sets free are in its column, which is
\* renumbered.
LEMMA GroupDeletionNoGap ==
    ASSUME NEW grs, NEW its, NEW C, Rows(grs, its, C), NEW g \in DOMAIN grs,
           Shared(grs, its), NEW after, after = GroupDeletion(g, grs[g], grs, its)
    PROVE  NoNewGap(C, DOMAIN grs \ {g}, grs, its, after.groups, after.items)
<1> DEFINE u == Ungrouped(g, grs[g], grs, its)
           home == grs[g].columnId
<1>1. /\ DOMAIN u.groups = DOMAIN grs \ {g}
      /\ GroupTable(u.groups, C)
      /\ DOMAIN u.items = DOMAIN its
      /\ ItemTable(u.items, C, DOMAIN grs \ {g})
  BY UngroupedType DEF Rows, GroupTable
<1>2. \A h \in DOMAIN grs \ {g} :
            /\ u.groups[h].columnId = grs[h].columnId
            /\ grs[h].columnId # home => u.groups[h] = grs[h]
  BY DEF Ungrouped, Rows, GroupTable
<1>3. \A i \in DOMAIN its :
            /\ u.items[i].columnId = its[i].columnId
            /\ u.items[i].groupId = IF its[i].groupId = g THEN NoGroup ELSE its[i].groupId
            /\ its[i].groupId # g /\ i \notin RootItems(home, its) => u.items[i] = its[i]
  BY DEF Ungrouped, Rows, ItemTable
<1> HIDE DEF u
<1>4. FiniteTables(u.groups, u.items)
  BY <1>1, FS_RemoveElement DEF Rows, FiniteTables
<1>5. after = NormalizedRoots({home}, u.groups, u.items,
                              UnmovedMarks(u.groups), UnmovedMarks(u.items))
  BY DEF GroupDeletion, u
<1>6. NoGroup \notin DOMAIN grs
  BY DEF Rows, NoGroup
<1>7. ASSUME NEW c \in C, DenseIn(c, grs, its)
      PROVE  DenseIn(c, after.groups, after.items)
  <2>1. CASE c = home
    BY <1>1, <1>4, <1>5, <2>1, NormalizedDense
  <2>2. CASE c # home
    <3>1. /\ GroupsOf(c, u.groups) = GroupsOf(c, grs)
          /\ \A h \in GroupsOf(c, grs) : u.groups[h] = grs[h]
      BY <1>1, <1>2, <2>2 DEF GroupsOf
    <3>2. \A i \in DOMAIN its : its[i].columnId = c => its[i].groupId # g
      BY <2>2 DEF Shared, Members
    <3>3. /\ RootItems(c, u.items) = RootItems(c, its)
          /\ \A i \in RootItems(c, its) : u.items[i] = its[i]
      BY <1>1, <1>3, <2>2, <3>2 DEF RootItems
    <3>4. /\ GroupsOf(c, after.groups) = GroupsOf(c, u.groups)
          /\ RootItems(c, after.items) = RootItems(c, u.items)
      BY <1>1, <1>4, <1>5, NormalizedRootsType DEF GroupsOf, RootItems
    <3>5. /\ \A h \in GroupsOf(c, u.groups) : after.groups[h] = u.groups[h]
          /\ \A i \in RootItems(c, u.items) : after.items[i] = u.items[i]
      BY <1>5, <2>2 DEF NormalizedRoots, GroupsOf, RootItems
    <3> QED  BY <1>7, <3>1, <3>3, <3>4, <3>5, SameRowsDense
  <2> QED  BY <2>1, <2>2
<1>8. ASSUME NEW h \in DOMAIN grs \ {g}, DenseMembers(h, its)
      PROVE  DenseMembers(h, after.items)
  <2>1. /\ DOMAIN after.items = DOMAIN u.items
        /\ \A i \in DOMAIN u.items : after.items[i].groupId = u.items[i].groupId
    BY <1>1, <1>4, <1>5, NormalizedRootsType
  <2>2. Members(h, after.items) = Members(h, its)
    BY <1>1, <1>3, <1>6, <2>1 DEF Members
  <2>3. \A i \in Members(h, its) : u.items[i] = its[i]
    BY <1>3, <1>6 DEF Members, RootItems
  <2>4. \A i \in Members(h, its) : after.items[i] = u.items[i]
    BY <1>1, <1>5, <1>6, <2>3 DEF Members, NormalizedRoots
  <2> QED  BY <1>8, <2>2, <2>3, <2>4, SameRowsDenseMembers
<1> QED  BY <1>7, <1>8 DEF NoNewGap

\* A new group takes the first free index.
LEMMA CreateGroupNoGap ==
    ASSUME TypeOK, NEW col \in DOMAIN columns, CreateGroup(col)
    PROVE  NoNewGap(DOMAIN columns, DOMAIN groups, groups, items, groups', items')
<1> DEFINE new == lastId.group + 1
           next == NextIndex(RootIndexes(col, groups, items))
<1>1. groups' = [g \in DOMAIN groups \cup {new} |->
                    IF g \in DOMAIN groups THEN groups[g]
                    ELSE [columnId |-> col, orderIndex |-> next]]
  BY DEF CreateGroup
<1>2. new \notin DOMAIN groups
  BY DEF TypeOK
<1>3. items' = items
  BY DEF CreateGroup
<1> HIDE DEF new, next
<1>4. /\ DOMAIN groups' = DOMAIN groups \cup {new}
      /\ \A g \in DOMAIN groups : groups'[g] = groups[g]
      /\ groups'[new].columnId = col /\ groups'[new].orderIndex = next
  BY <1>1, <1>2
<1>5. ASSUME NEW c \in DOMAIN columns, DenseIn(c, groups, items)
      PROVE  DenseIn(c, groups', items)
  <2>1. CASE c = col
    <3> DEFINE K == KeysIn(c, groups, items)
               n == Cardinality(K)
    <3>1. GroupsOf(c, groups') = GroupsOf(c, groups) \cup {new} /\ new \notin GroupsOf(c, groups)
      BY <1>2, <1>4, <2>1 DEF GroupsOf
    <3>2. \A g \in GroupsOf(c, groups) : groups'[g] = groups[g]
      BY <1>4 DEF GroupsOf
    <3>3. RootIndexes(c, groups', items) = RootIndexes(c, groups, items) \cup {next}
      BY <1>4, <3>1, <3>2 DEF RootIndexes
    <3>4. KeysIn(c, groups', items) = K \cup {<<"GROUP", new>>} /\ <<"GROUP", new>> \notin K
      <4>1. <<"GROUP", new>> \notin K
        BY <3>1, KeysAreRows
      <4> QED  BY <3>1, <4>1 DEF KeysIn
    <3>5. IsFiniteSet(K)
      BY TablesOK, KeysFinite
    <3> HIDE DEF K
    <3>6. n \in Nat /\ Cardinality(KeysIn(c, groups', items)) = n + 1
      BY <3>4, <3>5, FS_CardinalityType, FS_AddElement
    <3>7. RootIndexes(c, groups, items) = 0..n - 1
      BY <1>5 DEF DenseIn, K
    <3> HIDE DEF n
    <3>8. next = n
      BY <2>1, <3>6, <3>7, NextOfDense DEF next
    <3>9. (0..n - 1) \cup {n} = 0..(n + 1) - 1
      BY <3>6
    <3> QED  BY <3>3, <3>6, <3>7, <3>8, <3>9 DEF DenseIn
  <2>2. CASE c # col
    <3>1. GroupsOf(c, groups') = GroupsOf(c, groups)
      BY <1>4, <2>2 DEF GroupsOf
    <3>2. \A g \in GroupsOf(c, groups) : groups'[g] = groups[g]
      BY <1>4 DEF GroupsOf
    <3> QED  BY <1>5, <3>1, <3>2, SameRowsDense
  <2> QED  BY <2>1, <2>2
<1> QED  BY <1>3, <1>5 DEF NoNewGap

\* A new card takes index 0 and every other moves down by one.
LEMMA AddItemNoGap ==
    ASSUME TypeOK, Shared(groups, items), NEW col \in DOMAIN columns,
           NEW h \in {NoGroup} \cup GroupsOf(col, groups), AddItemToColumn(col, h)
    PROVE  NoNewGap(DOMAIN columns, DOMAIN groups, groups, items, groups', items')
<1> DEFINE new == lastId.item + 1
<1>1. new \notin DOMAIN items /\ NoGroup \notin DOMAIN groups
  BY DEF TypeOK, NoGroup
<1>2. /\ DOMAIN items' = DOMAIN items \cup {new}
      /\ items'[new] = [columnId |-> col, groupId |-> h, rowIndex |-> 0]
      /\ \A i \in DOMAIN items :
            items'[i] = IF items[i].columnId = col /\ items[i].groupId = h
                        THEN [items[i] EXCEPT !.rowIndex = @ + 1] ELSE items[i]
  BY <1>1 DEF AddItemToColumn, ItemsWithNewItem
<1>3. /\ DOMAIN groups' = DOMAIN groups
      /\ \A g \in DOMAIN groups :
            groups'[g] = IF h = NoGroup /\ groups[g].columnId = col
                         THEN [groups[g] EXCEPT !.orderIndex = @ + 1] ELSE groups[g]
  BY DEF AddItemToColumn, GroupsBelowNewItem
<1> HIDE DEF new
<1>4. /\ \A i \in DOMAIN items : items[i] \in [columnId : DOMAIN columns,
                                               groupId  : {NoGroup} \cup DOMAIN groups,
                                               rowIndex : Nat]
      /\ \A g \in DOMAIN groups : groups[g] \in [columnId : DOMAIN columns, orderIndex : Nat]
  BY DEF TypeOK
<1>5. /\ \A i \in DOMAIN items :
            /\ items'[i].columnId = items[i].columnId
            /\ items'[i].groupId = items[i].groupId
            /\ items'[i].rowIndex = IF items[i].columnId = col /\ items[i].groupId = h
                                    THEN items[i].rowIndex + 1 ELSE items[i].rowIndex
      /\ items'[new].columnId = col /\ items'[new].groupId = h /\ items'[new].rowIndex = 0
  BY <1>2, <1>4
<1>6. \A g \in DOMAIN groups :
            /\ groups'[g].columnId = groups[g].columnId
            /\ groups'[g].orderIndex = IF h = NoGroup /\ groups[g].columnId = col
                                       THEN groups[g].orderIndex + 1
                                       ELSE groups[g].orderIndex
  BY <1>3, <1>4
<1>7. ASSUME NEW c \in DOMAIN columns, DenseIn(c, groups, items)
      PROVE  DenseIn(c, groups', items')
  <2>1. GroupsOf(c, groups') = GroupsOf(c, groups)
    BY <1>3, <1>6 DEF GroupsOf
  <2>2. CASE c = col /\ h = NoGroup
    <3> DEFINE K == KeysIn(c, groups, items)
               n == Cardinality(K)
               R == RootIndexes(c, groups, items)
    <3>1. RootItems(c, items') = RootItems(c, items) \cup {new} /\ new \notin RootItems(c, items)
      BY <1>1, <1>2, <1>5, <2>2 DEF RootItems
    <3>2. /\ \A g \in GroupsOf(c, groups) : groups'[g].orderIndex = groups[g].orderIndex + 1
          /\ \A i \in RootItems(c, items) : items'[i].rowIndex = items[i].rowIndex + 1
      BY <1>5, <1>6, <2>2 DEF GroupsOf, RootItems
    <3>3. RootIndexes(c, groups', items') = {x + 1 : x \in R} \cup {0}
      BY <1>5, <2>1, <3>1, <3>2 DEF RootIndexes
    <3>4. KeysIn(c, groups', items') = K \cup {<<"ITEM", new>>} /\ <<"ITEM", new>> \notin K
      <4>1. <<"ITEM", new>> \notin K
        BY <3>1, KeysAreRows
      <4> QED  BY <2>1, <3>1, <4>1 DEF KeysIn
    <3>5. IsFiniteSet(K)
      BY TablesOK, KeysFinite
    <3>6. R = 0..n - 1
      BY <1>7 DEF DenseIn
    <3> HIDE DEF K, R
    <3>7. n \in Nat /\ Cardinality(KeysIn(c, groups', items')) = n + 1
      BY <3>4, <3>5, FS_CardinalityType, FS_AddElement
    <3> HIDE DEF n
    <3>8. {x + 1 : x \in 0..n - 1} \cup {0} = 0..(n + 1) - 1
      <4>1. \A y \in 1..n : y - 1 \in 0..n - 1 /\ y = (y - 1) + 1
        BY <3>7
      <4>2. {x + 1 : x \in 0..n - 1} = 1..n
        BY <3>7, <4>1
      <4> QED  BY <3>7, <4>2
    <3> QED  BY <3>3, <3>6, <3>7, <3>8 DEF DenseIn
  <2>3. CASE ~(c = col /\ h = NoGroup)
    <3>1. RootItems(c, items') = RootItems(c, items)
      BY <1>2, <1>5, <2>3 DEF RootItems
    <3>2. /\ \A g \in GroupsOf(c, groups) : groups'[g].orderIndex = groups[g].orderIndex
          /\ \A i \in RootItems(c, items) : items'[i].rowIndex = items[i].rowIndex
      BY <1>5, <1>6, <2>3 DEF GroupsOf, RootItems
    <3> QED  BY <1>7, <2>1, <3>1, <3>2, SameRowsDense
  <2> QED  BY <2>2, <2>3
<1>8. ASSUME NEW g \in DOMAIN groups, DenseMembers(g, items)
      PROVE  DenseMembers(g, items')
  <2>1. CASE g = h
    <3> DEFINE M == Members(g, items)
               n == Cardinality(M)
               R == {items[i].rowIndex : i \in M}
    <3>1. Members(g, items') = M \cup {new} /\ new \notin M
      BY <1>1, <1>2, <1>5, <2>1 DEF Members
    <3>2. \A i \in M : items[i].columnId = col
      BY <1>1, <2>1 DEF Shared, GroupsOf
    <3>3. \A i \in M : items'[i].rowIndex = items[i].rowIndex + 1
      BY <1>5, <2>1, <3>2 DEF Members
    <3>4. {items'[i].rowIndex : i \in Members(g, items')} = {x + 1 : x \in R} \cup {0}
      <4> HIDE DEF M
      <4> QED  BY <1>5, <3>1, <3>3
    <3>5. IsFiniteSet(M)
      BY TablesOK, FS_Subset DEF Members, FiniteTables
    <3>6. R = 0..n - 1
      BY <1>8 DEF DenseMembers
    <3> HIDE DEF M, R
    <3>7. n \in Nat /\ Cardinality(Members(g, items')) = n + 1
      BY <3>1, <3>5, FS_CardinalityType, FS_AddElement
    <3> HIDE DEF n
    <3>8. {x + 1 : x \in 0..n - 1} \cup {0} = 0..(n + 1) - 1
      <4>1. \A y \in 1..n : y - 1 \in 0..n - 1 /\ y = (y - 1) + 1
        BY <3>7
      <4>2. {x + 1 : x \in 0..n - 1} = 1..n
        BY <3>7, <4>1
      <4> QED  BY <3>7, <4>2
    <3> QED  BY <3>4, <3>6, <3>7, <3>8 DEF DenseMembers
  <2>2. CASE g # h
    <3>1. Members(g, items') = Members(g, items)
      BY <1>2, <1>5, <2>2 DEF Members
    <3>2. \A i \in Members(g, items) : items'[i].rowIndex = items[i].rowIndex
      BY <1>5, <2>2 DEF Members
    <3> QED  BY <1>8, <3>1, <3>2, SameRowsDenseMembers
  <2> QED  BY <2>1, <2>2
<1> QED  BY <1>7, <1>8 DEF NoNewGap

\* The cards of a deleted column's groups are in that column: no other column
\* gains one.
LEMMA DeleteColumnNoGap ==
    ASSUME TypeOK, Shared(groups, items), NEW col \in DOMAIN columns, DeleteColumn(col)
    PROVE  NoNewGap(DOMAIN columns \ {col}, DOMAIN groups \ GroupsOf(col, groups),
                    groups, items, groups', items')
<1>1. /\ DOMAIN groups' = DOMAIN groups \ GroupsOf(col, groups)
      /\ \A g \in DOMAIN groups' : groups'[g] = groups[g]
  BY DEF DeleteColumn, GroupsWithoutColumn
<1>2. /\ DOMAIN items' = {i \in DOMAIN items : items[i].columnId # col}
      /\ \A i \in DOMAIN items' : items'[i] = items[i]
  <2>1. \A i \in DOMAIN items : items[i].columnId # col =>
                items[i].groupId \notin GroupsOf(col, groups)
    BY DEF Shared, Members, GroupsOf
  <2> QED  BY <2>1 DEF DeleteColumn, ItemsWithoutColumn
<1>3. ASSUME NEW c \in DOMAIN columns \ {col}, DenseIn(c, groups, items)
      PROVE  DenseIn(c, groups', items')
  <2>1. /\ GroupsOf(c, groups') = GroupsOf(c, groups)
        /\ \A g \in GroupsOf(c, groups) : groups'[g] = groups[g]
    BY <1>1 DEF GroupsOf
  <2>2. /\ RootItems(c, items') = RootItems(c, items)
        /\ \A i \in RootItems(c, items) : items'[i] = items[i]
    BY <1>2 DEF RootItems
  <2> QED  BY <1>3, <2>1, <2>2, SameRowsDense
<1>4. ASSUME NEW g \in DOMAIN groups \ GroupsOf(col, groups), DenseMembers(g, items)
      PROVE  DenseMembers(g, items')
  <2>1. \A i \in Members(g, items) : items[i].columnId # col
    BY <1>1 DEF Shared, GroupsOf
  <2>2. /\ Members(g, items') = Members(g, items)
        /\ \A i \in Members(g, items) : items'[i] = items[i]
    BY <1>2, <2>1 DEF Members
  <2> QED  BY <1>4, <2>2, SameRowsDenseMembers
<1>5. /\ \A c \in DOMAIN columns \ {col} :
            DenseIn(c, groups, items) => DenseIn(c, groups', items')
      /\ \A g \in DOMAIN groups \ GroupsOf(col, groups) :
            DenseMembers(g, items) => DenseMembers(g, items')
  BY <1>3, <1>4
<1> QED  BY <1>5 DEF NoNewGap

LEMMA DeleteItemNoGap ==
    ASSUME TypeOK, NEW j \in DOMAIN items, DeleteItem(j)
    PROVE  /\ \A c \in DOMAIN columns :
                j \notin RootItems(c, items) /\ DenseIn(c, groups, items)
                    => DenseIn(c, groups', items')
           /\ \A g \in DOMAIN groups :
                j \notin Members(g, items) /\ DenseMembers(g, items)
                    => DenseMembers(g, items')
<1>1. /\ DOMAIN items' = DOMAIN items \ {j}
      /\ \A i \in DOMAIN items' : items'[i] = items[i]
      /\ groups' = groups
  BY DEF DeleteItem
<1>2. ASSUME NEW c, j \notin RootItems(c, items), DenseIn(c, groups, items)
      PROVE  DenseIn(c, groups', items')
  <2>1. /\ RootItems(c, items') = RootItems(c, items)
        /\ \A i \in RootItems(c, items) : items'[i] = items[i]
    BY <1>1, <1>2 DEF RootItems
  <2> QED  BY <1>1, <1>2, <2>1, SameRowsDense
<1>3. ASSUME NEW g, j \notin Members(g, items), DenseMembers(g, items)
      PROVE  DenseMembers(g, items')
  <2>1. /\ Members(g, items') = Members(g, items)
        /\ \A i \in Members(g, items) : items'[i] = items[i]
    BY <1>1, <1>3 DEF Members
  <2> QED  BY <1>3, <2>1, SameRowsDenseMembers
<1> QED  BY <1>2, <1>3

\* A step that keeps every root card of a column, and every card of a group,
\* leaves no gap there.
LEMMA StepLeavesNoGap ==
    ASSUME ~RepeatedGroups, TypeOK, Layout, Next
    PROVE  /\ \A c \in DOMAIN columns \cap DOMAIN columns' :
                /\ DenseIn(c, groups, items)
                /\ RootItems(c, items) \subseteq DOMAIN items'
                => DenseIn(c, groups', items')
           /\ \A g \in DOMAIN groups \cap DOMAIN groups' :
                /\ DenseMembers(g, items)
                /\ Members(g, items) \subseteq DOMAIN items'
                => DenseMembers(g, items')
<1> DEFINE Retained == NoNewGap(DOMAIN columns \cap DOMAIN columns',
                            DOMAIN groups \cap DOMAIN groups', groups, items, groups', items')
<1>1. Rows(groups, items, DOMAIN columns)
  BY RowsOK
<1>2. Shared(groups, items)
  BY LayoutTables
<1>3. ASSUME groups' = groups, items' = items
      PROVE  Retained
  BY <1>3 DEF NoNewGap
<1>4. ASSUME NEW col \in DOMAIN columns, CreateGroup(col)
      PROVE  Retained
  BY <1>4, CreateGroupNoGap DEF NoNewGap
<1>5. ASSUME NEW col \in DOMAIN columns, NEW g \in {NoGroup} \cup GroupsOf(col, groups),
             AddItemToColumn(col, g)
      PROVE  Retained
  BY <1>2, <1>5, AddItemNoGap DEF NoNewGap
<1>6. ASSUME NEW b, NEW ch \in Batches(ItemChanges(b)), SyncItemPositions(ch)
      PROVE  Retained
  <2> DEFINE after == ItemSync(ch, items, groups, items)
  <2>1. groups' = after.groups /\ items' = after.items
    BY <1>6 DEF SyncItemPositions
  <2>2. NoNewGap(DOMAIN columns, DOMAIN groups, groups, items, after.groups, after.items)
    BY <1>1, ItemChangesRequest, ItemSyncNoGap
  <2> HIDE DEF after
  <2> QED  BY <2>1, <2>2 DEF NoNewGap
<1>7. ASSUME NEW b, NEW ch \in Batches(GroupChanges(b)), SyncGroupPositions(ch)
      PROVE  Retained
  <2> DEFINE after == GroupSync(ch, groups, groups, items)
  <2>1. groups' = after.groups /\ items' = after.items /\ NamesOnce(ch)
    BY <1>7 DEF SyncGroupPositions
  <2>2. NoNewGap(DOMAIN columns, DOMAIN groups, groups, items, after.groups, after.items)
    BY <1>1, <1>2, <2>1, GroupChangesRequest, GroupSyncNoGap
  <2> HIDE DEF after
  <2> QED  BY <2>1, <2>2 DEF NoNewGap
<1>8. ASSUME NEW col \in DOMAIN columns, DeleteColumn(col)
      PROVE  Retained
  <2>1. /\ DOMAIN columns' = DOMAIN columns \ {col}
        /\ DOMAIN groups' = DOMAIN groups \ GroupsOf(col, groups)
    BY <1>8 DEF DeleteColumn, ColumnsWithout, GroupsWithoutColumn
  <2> QED  BY <1>2, <1>8, <2>1, DeleteColumnNoGap DEF NoNewGap
<1>9. ASSUME NEW g \in DOMAIN groups, DeleteGroup(g)
      PROVE  Retained
  <2> DEFINE after == GroupDeletion(g, groups[g], groups, items)
  <2>1. groups' = after.groups /\ items' = after.items
    BY <1>9 DEF DeleteGroup
  <2>2. DOMAIN after.groups = DOMAIN groups \ {g}
    BY DEF GroupDeletion, NormalizedRoots, Ungrouped
  <2>3. NoNewGap(DOMAIN columns, DOMAIN groups \ {g}, groups, items,
                 after.groups, after.items)
    BY <1>1, <1>2, GroupDeletionNoGap
  <2> HIDE DEF after
  <2> QED  BY <2>1, <2>2, <2>3 DEF NoNewGap
<1>10. CASE \E j \in DOMAIN items : DeleteItem(j)
  <2>1. PICK j \in DOMAIN items : DeleteItem(j)
    BY <1>10
  <2>2. j \notin DOMAIN items'
    BY <2>1 DEF DeleteItem
  <2> QED  BY <2>1, <2>2, DeleteItemNoGap
<1>11. ASSUME CreateBoard \/ (\E b : CreateColumn(b))
                \/ (\E b, old, new : ReorderColumns(b, old, new))
       PROVE  Retained
  <2>1. groups' = groups /\ items' = items
    BY <1>11 DEF CreateBoard, CreateColumn, ReorderColumns
  <2> QED  BY <1>3, <2>1
<1>12. CASE Retained
  BY <1>12 DEF NoNewGap
<1> HIDE DEF Retained
<1>13. CASE \E col \in DOMAIN columns : CreateGroup(col)
  BY <1>4, <1>12, <1>13
<1>14. CASE \E col \in DOMAIN columns : \E g \in {NoGroup} \cup GroupsOf(col, groups) :
                AddItemToColumn(col, g)
  BY <1>5, <1>12, <1>14
<1>15. CASE \E b \in Boards : \E ch \in Batches(ItemChanges(b)) : SyncItemPositions(ch)
  BY <1>6, <1>12, <1>15
<1>16. CASE \E b \in Boards : \E ch \in Batches(GroupChanges(b)) : SyncGroupPositions(ch)
  BY <1>7, <1>12, <1>16
<1>17. CASE \/ \E col \in DOMAIN columns : DeleteColumn(col)
            \/ \E g \in DOMAIN groups : DeleteGroup(g)
  BY <1>8, <1>9, <1>12, <1>17
<1> QED  BY <1>10, <1>11, <1>12, <1>13, <1>14, <1>15, <1>16, <1>17 DEF Next

\* If no request names a group twice, only deleting a card leaves a gap in the
\* indexes of a column or a group.
THEOREM GapsFromDeletedItems ==
    ASSUME ~RepeatedGroups
    PROVE  Spec => GapsOnlyFromDeletedItems
<1>1. LayoutInvariant /\ [Next]_vars =>
        [/\ \A c \in DOMAIN columns \cap DOMAIN columns' :
              RootDense(c) /\ ~RootDense(c)' => ~(RootItems(c, items) \subseteq DOMAIN items')
         /\ \A g \in DOMAIN groups \cap DOMAIN groups' :
              MembersDense(g) /\ ~MembersDense(g)'
                => ~(Members(g, items) \subseteq DOMAIN items')]_vars
  <2>1. \A c : /\ RootDense(c) <=> DenseIn(c, groups, items)
               /\ RootDense(c)' <=> DenseIn(c, groups', items')
    BY DEF RootDense, DenseIn, RootKeys, KeysIn
  <2>2. \A g : /\ MembersDense(g) <=> DenseMembers(g, items)
               /\ MembersDense(g)' <=> DenseMembers(g, items')
    BY DEF MembersDense, DenseMembers
  <2> QED  BY <2>1, <2>2, StepLeavesNoGap DEF LayoutInvariant
<1> QED  BY <1>1, LayoutInductive, PTL DEF Spec, GapsOnlyFromDeletedItems

-----------------------------------------------------------------------------
(* Columns as lists.                                                       *)

\* t is the list of the entries K, n of them, in the order of their indexes.
Lists(t, n, K, grs, its) ==
    /\ n \in Nat
    /\ t \in Seq(K) /\ Len(t) = n
    /\ \A k \in K : \E p \in 1..n : t[p] = k
    /\ \A p, q \in 1..n : p < q => IndexIn(t[p], grs, its) < IndexIn(t[q], grs, its)

\* RootSeq, of any tables.
SeqIn(K, grs, its) ==
    LET before(k) == Cardinality({l \in K : IndexIn(l, grs, its) < IndexIn(k, grs, its)})
    IN  [p \in 1..Cardinality(K) |-> CHOOSE k \in K : before(k) = p - 1]

Indexed(K, grs, its) ==
    /\ IsFiniteSet(K)
    /\ \A k \in K : IndexIn(k, grs, its) \in Nat
    /\ \A k, l \in K : IndexIn(k, grs, its) = IndexIn(l, grs, its) => k = l

NumberedKeys(K, grs, its) == {IndexIn(k, grs, its) : k \in K} = 0..Cardinality(K) - 1

\* There is one such list, and RootSeq is it.
LEMMA ListIsSeq ==
    ASSUME NEW K, NEW grs, NEW its, Indexed(K, grs, its),
           NEW n, NEW t, Lists(t, n, K, grs, its)
    PROVE  t = SeqIn(K, grs, its) /\ n = Cardinality(K)
<1> DEFINE below(k) == {l \in K : IndexIn(l, grs, its) < IndexIn(k, grs, its)}
<1>1. /\ n \in Nat
      /\ t = [p \in 1..n |-> t[p]]
      /\ \A p \in 1..n : t[p] \in K /\ IndexIn(t[p], grs, its) \in Nat
      /\ \A k \in K : \E p \in 1..n : t[p] = k
  BY DEF Lists, Indexed
<1>2. \A p, q \in 1..n : IndexIn(t[q], grs, its) < IndexIn(t[p], grs, its) <=> q < p
  <2> SUFFICES ASSUME NEW p \in 1..n, NEW q \in 1..n
               PROVE  IndexIn(t[q], grs, its) < IndexIn(t[p], grs, its) <=> q < p
    OBVIOUS
  <2>1. /\ p < q => IndexIn(t[p], grs, its) < IndexIn(t[q], grs, its)
        /\ q < p => IndexIn(t[q], grs, its) < IndexIn(t[p], grs, its)
    BY DEF Lists
  <2>2. p = q \/ p < q \/ q < p
    BY <1>1
  <2> QED  BY <1>1, <2>1, <2>2
<1>3. \A p, q \in 1..n : t[p] = t[q] => p = q
  BY <1>1, <1>2
<1>4. n = Cardinality(K)
  <2>1. IsFiniteSet(1..n) /\ Cardinality(1..n) = n
    BY <1>1, FS_Interval
  <2>2. t \in Bijection(1..n, K)
    BY <1>1, <1>3 DEF Bijection, Injection, Surjection, IsInjective
  <2>3. ExistsBijection(1..n, K)
    BY <2>2 DEF ExistsBijection
  <2> QED  BY <2>1, <2>3, FS_Bijection
<1>5. ASSUME NEW p \in 1..n
      PROVE  Cardinality(below(t[p])) = p - 1
  <2> DEFINE f == [q \in 1..p - 1 |-> t[q]]
             B == below(t[p])
  <2>1. p - 1 \in Nat /\ \A q \in 1..p - 1 : q \in 1..n /\ q < p
    BY <1>1
  <2>2. f \in Bijection(1..p - 1, B)
    <3>1. \A q \in 1..p - 1 : f[q] \in B
      BY <1>1, <1>2, <2>1
    <3>2. \A q, r \in 1..p - 1 : f[q] = f[r] => q = r
      BY <1>3, <2>1
    <3>3. \A k \in B : \E q \in 1..p - 1 : f[q] = k
      <4>1. SUFFICES ASSUME NEW k \in B PROVE \E q \in 1..p - 1 : f[q] = k
        OBVIOUS
      <4>2. PICK q \in 1..n : t[q] = k
        BY <1>1
      <4>3. q \in 1..p - 1
        BY <1>1, <1>2, <4>2
      <4> QED  BY <4>2, <4>3
    <3> HIDE DEF B
    <3> QED  BY <3>1, <3>2, <3>3 DEF Bijection, Injection, Surjection, IsInjective
  <2>3. IsFiniteSet(1..p - 1) /\ Cardinality(1..p - 1) = p - 1
    BY <2>1, FS_Interval
  <2> HIDE DEF f, B
  <2>4. ExistsBijection(1..p - 1, B)
    BY <2>2 DEF ExistsBijection
  <2>5. Cardinality(B) = p - 1
    BY <2>3, <2>4, FS_Bijection
  <2> QED  BY <2>5 DEF B
<1>6. ASSUME NEW p \in 1..n
      PROVE  (CHOOSE k \in K : Cardinality(below(k)) = p - 1) = t[p]
  <2> HIDE DEF below
  <2>1. \A k \in K : Cardinality(below(k)) = p - 1 => k = t[p]
    <3> SUFFICES ASSUME NEW k \in K, Cardinality(below(k)) = p - 1 PROVE k = t[p]
      OBVIOUS
    <3>1. PICK q \in 1..n : t[q] = k
      BY <1>1
    <3>2. q - 1 = p - 1
      BY <1>5, <3>1
    <3> QED  BY <1>1, <3>1, <3>2
  <2> QED  BY <1>1, <1>5, <2>1
<1>7. SeqIn(K, grs, its) = [p \in 1..n |-> CHOOSE k \in K : Cardinality(below(k)) = p - 1]
  BY <1>4 DEF SeqIn
<1> HIDE DEF below
<1> QED  BY <1>1, <1>4, <1>6, <1>7

LEMMA SeqLists ==
    ASSUME NEW K, NEW grs, NEW its, Indexed(K, grs, its)
    PROVE  Lists(SeqIn(K, grs, its), Cardinality(K), K, grs, its)
<1> DEFINE below(k) == {l \in K : IndexIn(l, grs, its) < IndexIn(k, grs, its)}
           before == [k \in K |-> Cardinality(below(k))]
           n == Cardinality(K)
           t == SeqIn(K, grs, its)
<1>1. IsFiniteSet(K) /\ n \in Nat
  BY FS_CardinalityType DEF Indexed
<1>2. ASSUME NEW k \in K, NEW l \in K, IndexIn(k, grs, its) < IndexIn(l, grs, its)
      PROVE  before[k] < before[l]
  <2>1. below(k) \in SUBSET below(l) /\ k \in below(l) /\ k \notin below(k)
    BY <1>2 DEF Indexed
  <2>2. IsFiniteSet(below(k)) /\ IsFiniteSet(below(l))
    BY <1>1, FS_Subset
  <2>3. before[k] = Cardinality(below(k)) /\ before[l] = Cardinality(below(l))
    OBVIOUS
  <2> HIDE DEF below, before
  <2>4. /\ Cardinality(below(k)) <= Cardinality(below(l))
        /\ Cardinality(below(k)) # Cardinality(below(l))
        /\ Cardinality(below(k)) \in Nat /\ Cardinality(below(l)) \in Nat
    BY <2>1, <2>2, FS_Subset, FS_CardinalityType
  <2> QED  BY <2>3, <2>4
<1>3. ASSUME NEW k \in K
      PROVE  before[k] \in 0..n - 1
  <2>1. below(k) \in SUBSET K /\ k \notin below(k)
    BY DEF Indexed
  <2>2. before[k] = Cardinality(below(k))
    OBVIOUS
  <2> HIDE DEF below, before
  <2>3. /\ Cardinality(below(k)) <= n /\ Cardinality(below(k)) # n
        /\ Cardinality(below(k)) \in Nat
    BY <1>1, <2>1, FS_Subset, FS_CardinalityType
  <2> HIDE DEF n
  <2> QED  BY <1>1, <2>2, <2>3
<1>4. \A k, l \in K : before[k] = before[l] => k = l
  <2> SUFFICES ASSUME NEW k \in K, NEW l \in K, k # l
               PROVE  before[k] # before[l]
    OBVIOUS
  <2>1. \/ IndexIn(k, grs, its) < IndexIn(l, grs, its)
        \/ IndexIn(l, grs, its) < IndexIn(k, grs, its)
    BY DEF Indexed
  <2>2. before[k] < before[l] \/ before[l] < before[k]
    BY <1>2, <2>1
  <2>3. before[k] \in Int /\ before[l] \in Int
    BY <1>3
  <2> HIDE DEF before
  <2> QED  BY <2>2, <2>3
<1>5. {before[k] : k \in K} = 0..n - 1
  <2>1. before = [k \in K |-> before[k]]
    OBVIOUS
  <2> HIDE DEF before
  <2> QED  BY <1>1, <1>3, <1>4, <2>1, PlacesAll
<1>6. /\ t = [p \in 1..n |-> CHOOSE k \in K : Cardinality(below(k)) = p - 1]
      /\ \A k \in K : before[k] = Cardinality(below(k))
  BY DEF SeqIn
<1> HIDE DEF below, before, n, t
<1>7. \A p \in 1..n : t[p] \in K /\ before[t[p]] = p - 1
  <2> SUFFICES ASSUME NEW p \in 1..n
               PROVE  t[p] \in K /\ before[t[p]] = p - 1
    OBVIOUS
  <2>1. p - 1 \in 0..n - 1
    BY <1>1
  <2>2. \E k \in K : Cardinality(below(k)) = p - 1
    BY <1>5, <1>6, <2>1
  <2>3. t[p] = CHOOSE k \in K : Cardinality(below(k)) = p - 1
    BY <1>6
  <2>4. t[p] \in K /\ Cardinality(below(t[p])) = p - 1
    BY <2>2, <2>3
  <2> QED  BY <1>6, <2>4
<1>8. t \in Seq(K) /\ Len(t) = n
  <2>1. t = [p \in 1..n |-> t[p]]
    BY <1>6
  <2>2. t \in [1..n -> K]
    BY <1>7, <2>1
  <2> QED  BY <1>1, <2>2
<1>9. \A k \in K : \E p \in 1..n : t[p] = k
  <2> SUFFICES ASSUME NEW k \in K PROVE \E p \in 1..n : t[p] = k
    OBVIOUS
  <2>1. before[k] + 1 \in 1..n /\ (before[k] + 1) - 1 = before[k]
    BY <1>1, <1>3
  <2> QED  BY <1>4, <1>7, <2>1
<1>10. ASSUME NEW p \in 1..n, NEW q \in 1..n, p < q
       PROVE  IndexIn(t[p], grs, its) < IndexIn(t[q], grs, its)
  <2>1. /\ t[p] \in K /\ before[t[p]] = p - 1
        /\ t[q] \in K /\ before[t[q]] = q - 1
    BY <1>7
  <2>2. /\ ~(before[t[q]] < before[t[p]])
        /\ before[t[p]] # before[t[q]]
    BY <1>1, <1>10, <2>1
  <2>3. ~(IndexIn(t[q], grs, its) < IndexIn(t[p], grs, its)) /\ t[p] # t[q]
    BY <1>2, <2>1, <2>2
  <2> QED  BY <2>1, <2>3 DEF Indexed
<1> QED  BY <1>1, <1>8, <1>9, <1>10 DEF Lists, t, n

\* Where no index is left out, the entry at place p has the index p - 1.
LEMMA DenseList ==
    ASSUME NEW K, NEW grs, NEW its, Indexed(K, grs, its),
           NumberedKeys(K, grs, its), NEW n, NEW t, Lists(t, n, K, grs, its)
    PROVE  \A p \in 1..n : IndexIn(t[p], grs, its) = p - 1
<1> DEFINE u == [p \in 1..n |-> CHOOSE k \in K : IndexIn(k, grs, its) = p - 1]
<1>1. n = Cardinality(K) /\ n \in Nat /\ t = SeqIn(K, grs, its)
  BY ListIsSeq DEF Lists
<1>2. \A p \in 1..n : \E k \in K : IndexIn(k, grs, its) = p - 1
  <2> SUFFICES ASSUME NEW p \in 1..n
               PROVE  \E k \in K : IndexIn(k, grs, its) = p - 1
    OBVIOUS
  <2>1. p - 1 \in 0..Cardinality(K) - 1
    BY <1>1
  <2> QED  BY <2>1 DEF NumberedKeys
<1>3. \A p \in 1..n : u[p] \in K /\ IndexIn(u[p], grs, its) = p - 1
  BY <1>2
<1>4. u = [p \in 1..n |-> u[p]]
  OBVIOUS
<1> HIDE DEF u
<1>5. \A k \in K : \E p \in 1..n : u[p] = k
  <2> SUFFICES ASSUME NEW k \in K PROVE \E p \in 1..n : u[p] = k
    OBVIOUS
  <2>1. IndexIn(k, grs, its) \in 0..n - 1
    BY <1>1 DEF NumberedKeys
  <2>2. IndexIn(k, grs, its) + 1 \in 1..n
    BY <1>1, <2>1
  <2>3. /\ u[IndexIn(k, grs, its) + 1] \in K
        /\ IndexIn(u[IndexIn(k, grs, its) + 1], grs, its) = IndexIn(k, grs, its)
    BY <1>3, <2>1, <2>2
  <2>4. u[IndexIn(k, grs, its) + 1] = k
    BY <2>3 DEF Indexed
  <2> QED  BY <2>2, <2>4
<1>6. u \in Seq(K) /\ Len(u) = n
  <2>1. u \in [1..n -> K]
    BY <1>3, <1>4
  <2> QED  BY <1>1, <2>1
<1>7. Lists(u, n, K, grs, its)
  <2>1. \A p, q \in 1..n : p < q => IndexIn(u[p], grs, its) < IndexIn(u[q], grs, its)
    BY <1>1, <1>3
  <2> QED  BY <1>1, <1>5, <1>6, <2>1 DEF Lists
<1>8. u = t
  BY <1>1, <1>7, ListIsSeq
<1> QED  BY <1>3, <1>8

\* r is s without its entry o.
LacksOnly(r, s, o) ==
    /\ Len(r) = Len(s) - 1
    /\ \A i \in 1..Len(s) - 1 : r[i] = IF i < o THEN s[i] ELSE s[i + 1]

\* t is s with e as its entry o.
AddsOnly(t, s, o, e) ==
    /\ Len(t) = Len(s) + 1
    /\ \A i \in 1..Len(s) + 1 :
            t[i] = IF i < o THEN s[i] ELSE IF i = o THEN e ELSE s[i - 1]

\* What RemoveAt and InsertAt of the community modules do to a list.
LEMMA RemovedAt ==
    ASSUME NEW S, NEW s \in Seq(S), NEW o \in 1..Len(s)
    PROVE  RemoveAt(s, o) \in Seq(S) /\ LacksOnly(RemoveAt(s, o), s, o)
<1> DEFINE n == Len(s)
           r == RemoveAt(s, o)
           a == SubSeq(s, 1, o - 1)
           b == SubSeq(s, o + 1, n)
<1>1. n \in Nat /\ o \in Nat /\ 1 <= o /\ o <= n
  OBVIOUS
<1>2. /\ a \in Seq(S) /\ Len(a) = o - 1
      /\ \A i \in 1..o - 1 : a[i] = s[i]
  <2>1. \A i \in 1..o - 1 : s[i] \in S
    BY <1>1
  <2>2. /\ SubSeq(s, 1, o - 1) \in Seq(S)
        /\ Len(SubSeq(s, 1, o - 1)) = IF 1 <= o - 1 THEN o - 1 - 1 + 1 ELSE 0
        /\ \A i \in 1..o - 1 - 1 + 1 : SubSeq(s, 1, o - 1)[i] = s[1 + i - 1]
    BY <1>1, <2>1, SubSeqProperties
  <2>3. \A i \in 1..o - 1 : 1 + i - 1 = i /\ i \in 1..o - 1 - 1 + 1
    BY <1>1
  <2> QED  BY <1>1, <2>2, <2>3
<1>3. /\ b \in Seq(S) /\ Len(b) = n - o
      /\ \A i \in 1..n - o : b[i] = s[o + i]
  <2>1. \A i \in o + 1..n : s[i] \in S
    BY <1>1
  <2>2. /\ SubSeq(s, o + 1, n) \in Seq(S)
        /\ Len(SubSeq(s, o + 1, n)) = IF o + 1 <= n THEN n - (o + 1) + 1 ELSE 0
        /\ \A i \in 1..n - (o + 1) + 1 : SubSeq(s, o + 1, n)[i] = s[o + 1 + i - 1]
    BY <1>1, <2>1, SubSeqProperties
  <2> QED  BY <1>1, <2>2
<1>4. r = a \o b
  BY <1>1 DEF RemoveAt
<1> HIDE DEF a, b, r
<1>5. /\ r \in Seq(S) /\ Len(r) = Len(a) + Len(b)
      /\ \A i \in 1..Len(a) + Len(b) : r[i] = IF i <= Len(a) THEN a[i] ELSE b[i - Len(a)]
  <2>1. /\ a \o b \in Seq(S) /\ Len(a \o b) = Len(a) + Len(b)
        /\ \A i \in 1..Len(a) + Len(b) :
                (a \o b)[i] = IF i <= Len(a) THEN a[i] ELSE b[i - Len(a)]
    BY <1>2, <1>3, ConcatProperties
  <2> QED  BY <1>4, <2>1
<1>6. Len(r) = n - 1
  BY <1>1, <1>2, <1>3, <1>5
<1>7. ASSUME NEW i \in 1..n - 1
      PROVE  r[i] = IF i < o THEN s[i] ELSE s[i + 1]
  <2> HIDE DEF n
  <2>1. r[i] = IF i <= o - 1 THEN a[i] ELSE b[i - (o - 1)]
    BY <1>1, <1>2, <1>3, <1>5
  <2>2. CASE i < o
    BY <1>1, <1>2, <2>1, <2>2
  <2>3. CASE i >= o
    <3>1. i - (o - 1) \in 1..n - o /\ o + (i - (o - 1)) = i + 1
      BY <1>1, <2>3
    <3>2. b[i - (o - 1)] = s[i + 1]
      BY <1>3, <3>1
    <3> QED  BY <1>1, <2>1, <2>3, <3>2
  <2> QED  BY <1>1, <2>2, <2>3
<1> QED  BY <1>5, <1>6, <1>7 DEF LacksOnly, n, r

LEMMA InsertedAt ==
    ASSUME NEW S, NEW s \in Seq(S), NEW e \in S, NEW o \in 1..Len(s) + 1
    PROVE  InsertAt(s, o, e) \in Seq(S) /\ AddsOnly(InsertAt(s, o, e), s, o, e)
<1> DEFINE n == Len(s)
           t == InsertAt(s, o, e)
           x == SubSeq(s, 1, o - 1)
           y == SubSeq(s, o, n)
           z == x \o <<e>>
<1>1. n \in Nat /\ o \in Nat /\ 1 <= o /\ o <= n + 1
  OBVIOUS
<1>2. /\ x \in Seq(S) /\ Len(x) = o - 1
      /\ \A i \in 1..o - 1 : x[i] = s[i]
  <2>1. \A i \in 1..o - 1 : s[i] \in S
    BY <1>1
  <2>2. /\ SubSeq(s, 1, o - 1) \in Seq(S)
        /\ Len(SubSeq(s, 1, o - 1)) = IF 1 <= o - 1 THEN o - 1 - 1 + 1 ELSE 0
        /\ \A i \in 1..o - 1 - 1 + 1 : SubSeq(s, 1, o - 1)[i] = s[1 + i - 1]
    BY <1>1, <2>1, SubSeqProperties
  <2>3. \A i \in 1..o - 1 : 1 + i - 1 = i /\ i \in 1..o - 1 - 1 + 1
    BY <1>1
  <2> QED  BY <1>1, <2>2, <2>3
<1>3. /\ y \in Seq(S) /\ Len(y) = n - o + 1
      /\ \A i \in 1..n - o + 1 : y[i] = s[o + i - 1]
  <2>1. \A i \in o..n : s[i] \in S
    BY <1>1
  <2>2. /\ SubSeq(s, o, n) \in Seq(S)
        /\ Len(SubSeq(s, o, n)) = IF o <= n THEN n - o + 1 ELSE 0
        /\ \A i \in 1..n - o + 1 : SubSeq(s, o, n)[i] = s[o + i - 1]
    BY <1>1, <2>1, SubSeqProperties
  <2> QED  BY <1>1, <2>2
<1>4. t = z \o y
  BY DEF InsertAt
<1> HIDE DEF x, y, n, t
<1>5. /\ z \in Seq(S) /\ Len(z) = o
      /\ \A i \in 1..o : z[i] = IF i < o THEN x[i] ELSE e
  <2>1. <<e>> \in Seq(S) /\ Len(<<e>>) = 1 /\ <<e>>[1] = e
    BY <1>1
  <2>2. /\ z \in Seq(S) /\ Len(z) = Len(x) + Len(<<e>>)
        /\ \A i \in 1..Len(x) + Len(<<e>>) : z[i] = IF i <= Len(x) THEN x[i] ELSE <<e>>[i - Len(x)]
    BY <1>2, <2>1, ConcatProperties
  <2>3. \A i \in 1..o : ~(i <= o - 1) => i - (o - 1) = 1
    BY <1>1
  <2>4. Len(x) + Len(<<e>>) = o
    BY <1>1, <1>2, <2>1
  <2> HIDE DEF z
  <2>5. ASSUME NEW i \in 1..o PROVE z[i] = IF i < o THEN x[i] ELSE e
    <3>1. z[i] = IF i <= o - 1 THEN x[i] ELSE <<e>>[i - (o - 1)]
      BY <1>2, <2>2, <2>4
    <3>2. i <= o - 1 <=> i < o
      BY <1>1
    <3> QED  BY <2>1, <2>3, <3>1, <3>2
  <2> QED  BY <2>2, <2>4, <2>5
<1> HIDE DEF z
<1>6. /\ t \in Seq(S) /\ Len(t) = Len(z) + Len(y)
      /\ \A i \in 1..Len(z) + Len(y) : t[i] = IF i <= Len(z) THEN z[i] ELSE y[i - Len(z)]
  <2>1. /\ z \o y \in Seq(S) /\ Len(z \o y) = Len(z) + Len(y)
        /\ \A i \in 1..Len(z) + Len(y) :
                (z \o y)[i] = IF i <= Len(z) THEN z[i] ELSE y[i - Len(z)]
    BY <1>3, <1>5, ConcatProperties
  <2> QED  BY <1>4, <2>1
<1>7. Len(t) = n + 1 /\ Len(z) + Len(y) = n + 1
  BY <1>1, <1>3, <1>5, <1>6
<1>8. ASSUME NEW i \in 1..n + 1
      PROVE  t[i] = IF i < o THEN s[i] ELSE IF i = o THEN e ELSE s[i - 1]
  <2>1. t[i] = IF i <= o THEN z[i] ELSE y[i - o]
    BY <1>5, <1>6, <1>7
  <2>2. CASE i <= o
    <3>1. t[i] = IF i < o THEN x[i] ELSE e
      BY <1>1, <1>5, <2>1, <2>2
    <3>2. i < o => x[i] = s[i]
      BY <1>1, <1>2
    <3>3. i < o \/ i = o
      BY <1>1, <2>2
    <3> QED  BY <3>1, <3>2, <3>3, <1>1
  <2>3. CASE i > o
    <3>1. i - o \in 1..n - o + 1 /\ o + (i - o) - 1 = i - 1
      BY <1>1, <2>3
    <3>2. y[i - o] = s[i - 1]
      BY <1>3, <3>1
    <3> QED  BY <1>1, <2>1, <2>3, <3>2
  <2> QED  BY <1>1, <2>2, <2>3
<1> QED  BY <1>6, <1>7, <1>8 DEF AddsOnly, n, t

\* A list without one entry is the list of the others.
LEMMA ListWithout ==
    ASSUME NEW K, NEW grs, NEW its, Indexed(K, grs, its),
           NEW n, NEW t, Lists(t, n, K, grs, its), NEW o \in 1..n
    PROVE  /\ LacksOnly(Without(t, t[o]), t, o)
           /\ Lists(Without(t, t[o]), n - 1, K \ {t[o]}, grs, its)
<1> DEFINE k == t[o]
           r == Without(t, k)
<1>k. k = t[o] /\ k \in K
  BY DEF Lists
<1>1. /\ n \in Nat /\ o \in Nat /\ 1 <= o /\ o <= n
      /\ t \in Seq(K) /\ Len(t) = n
      /\ \A p \in 1..n : t[p] \in K /\ IndexIn(t[p], grs, its) \in Nat
      /\ \A l \in K : \E p \in 1..n : t[p] = l
      /\ \A p, q \in 1..n : p < q => IndexIn(t[p], grs, its) < IndexIn(t[q], grs, its)
  BY DEF Lists, Indexed
<1> HIDE DEF k
<1>2. \A p \in 1..n : t[p] = k => p = o
  <2> SUFFICES ASSUME NEW p \in 1..n, t[p] = k, p # o PROVE FALSE
    OBVIOUS
  <2>1. p < o \/ o < p
    BY <1>1
  <2>2. IndexIn(k, grs, its) < IndexIn(k, grs, its)
    BY <1>1, <1>k, <2>1
  <2> QED  BY <1>1, <2>2
<1>3. r = RemoveAt(t, o)
  <2>1. {i \in 1..Len(t) : t[i] = k} = {o}
    BY <1>1, <1>2, <1>k
  <2>2. Min({o}) = o
    <3>1. \A x \in {o} : (\A y \in {o} : x <= y) <=> x = o
      BY <1>1
    <3> QED  BY <1>1, <3>1 DEF Min
  <2>3. SelectInSeq(t, LAMBDA v : v = k) = o
    BY <2>1, <2>2 DEF SelectInSeq
  <2>4. \E i \in 1..Len(t) : t[i] = k
    BY <1>1, <1>k
  <2> QED  BY <2>3, <2>4 DEF Without, RemoveFirst
<1> HIDE DEF r
<1>4. /\ r \in Seq(K) /\ Len(r) = n - 1
      /\ \A i \in 1..n - 1 : r[i] = IF i < o THEN t[i] ELSE t[i + 1]
  <2>1. o \in 1..Len(t)
    BY <1>1
  <2>2. r \in Seq(K) /\ LacksOnly(r, t, o)
    BY <1>1, <1>3, <2>1, RemovedAt
  <2> QED  BY <1>1, <2>2 DEF LacksOnly
<1>5. \A p \in 1..n - 1 : r[p] \in K \ {k}
  <2> SUFFICES ASSUME NEW p \in 1..n - 1 PROVE r[p] \in K /\ r[p] # k
    OBVIOUS
  <2>1. p \in 1..n /\ p + 1 \in 1..n /\ (p < o => p # o) /\ (~(p < o) => p + 1 # o)
    BY <1>1
  <2> QED  BY <1>1, <1>2, <1>4, <2>1
<1>6. r \in Seq(K \ {k})
  BY <1>1, <1>4, <1>5
<1>7. \A l \in K \ {k} : \E p \in 1..n - 1 : r[p] = l
  <2> SUFFICES ASSUME NEW l \in K \ {k} PROVE \E p \in 1..n - 1 : r[p] = l
    OBVIOUS
  <2>1. PICK q \in 1..n : t[q] = l
    BY <1>1
  <2>2. q # o
    BY <1>k, <2>1
  <2>3. CASE q < o
    <3>1. q \in 1..n - 1
      BY <1>1, <2>3
    <3> QED  BY <1>4, <2>1, <2>3, <3>1
  <2>4. CASE q > o
    <3>1. q - 1 \in 1..n - 1 /\ ~(q - 1 < o) /\ (q - 1) + 1 = q
      BY <1>1, <2>4
    <3> QED  BY <1>4, <2>1, <3>1
  <2> QED  BY <1>1, <2>2, <2>3, <2>4
<1>8. ASSUME NEW p \in 1..n - 1, NEW q \in 1..n - 1, p < q
      PROVE  IndexIn(r[p], grs, its) < IndexIn(r[q], grs, its)
  <2> DEFINE at(i) == IF i < o THEN i ELSE i + 1
  <2>1. at(p) \in 1..n /\ at(q) \in 1..n /\ at(p) < at(q)
    BY <1>1, <1>8
  <2>2. r[p] = t[at(p)] /\ r[q] = t[at(q)]
    BY <1>4
  <2> HIDE DEF at
  <2> QED  BY <1>1, <2>1, <2>2
<1>9. n - 1 \in Nat
  BY <1>1
<1> QED  BY <1>1, <1>4, <1>6, <1>7, <1>8, <1>9 DEF Lists, LacksOnly, k, r

LEMMA ListWithoutNothing ==
    ASSUME NEW K, NEW grs, NEW its, NEW n, NEW t, Lists(t, n, K, grs, its), NEW k, k \notin K
    PROVE  Without(t, k) = t /\ K \ {k} = K
<1>1. \A p \in 1..Len(t) : t[p] \in K
  BY DEF Lists
<1> QED  BY <1>1 DEF Without, RemoveFirst

\* One entry more, put between those before and those after it.
LEMMA ListWith ==
    ASSUME NEW K, NEW grs, NEW its, NEW k \in K, NEW n, NEW r, Lists(r, n, K \ {k}, grs, its),
           NEW m \in 0..n,
           \A p \in 1..n : IF p <= m THEN IndexIn(r[p], grs, its) < IndexIn(k, grs, its)
                           ELSE IndexIn(k, grs, its) < IndexIn(r[p], grs, its)
    PROVE  Lists(InsertAt(r, m + 1, k), n + 1, K, grs, its)
<1> DEFINE t == InsertAt(r, m + 1, k)
<1> t = InsertAt(r, m + 1, k)
  OBVIOUS
<1> HIDE DEF t
<1>1. /\ n \in Nat /\ m \in Nat /\ m <= n
      /\ r \in Seq(K) /\ Len(r) = n
      /\ \A l \in K \ {k} : \E p \in 1..n : r[p] = l
      /\ \A p, q \in 1..n : p < q => IndexIn(r[p], grs, its) < IndexIn(r[q], grs, its)
  BY DEF Lists
<1>2. /\ t \in Seq(K) /\ Len(t) = n + 1
      /\ \A i \in 1..n + 1 :
            t[i] = IF i < m + 1 THEN r[i] ELSE IF i = m + 1 THEN k ELSE r[i - 1]
  <2>1. m + 1 \in 1..Len(r) + 1
    BY <1>1
  <2>2. t \in Seq(K) /\ AddsOnly(t, r, m + 1, k)
    BY <1>1, <2>1, InsertedAt
  <2> QED  BY <1>1, <2>2 DEF AddsOnly
<1>3. \A l \in K : \E p \in 1..n + 1 : t[p] = l
  <2> SUFFICES ASSUME NEW l \in K PROVE \E p \in 1..n + 1 : t[p] = l
    OBVIOUS
  <2>1. CASE l = k
    <3>1. m + 1 \in 1..n + 1 /\ ~(m + 1 < m + 1)
      BY <1>1
    <3> QED  BY <1>2, <2>1, <3>1
  <2>2. CASE l # k
    <3>1. PICK q \in 1..n : r[q] = l
      BY <1>1, <2>2
    <3>2. CASE q <= m
      <4>1. q \in 1..n + 1 /\ q < m + 1
        BY <1>1, <3>2
      <4> QED  BY <1>2, <3>1, <4>1
    <3>3. CASE q > m
      <4>1. q + 1 \in 1..n + 1 /\ ~(q + 1 < m + 1) /\ q + 1 # m + 1 /\ (q + 1) - 1 = q
        BY <1>1, <3>3
      <4> QED  BY <1>2, <3>1, <4>1
    <3> QED  BY <1>1, <3>2, <3>3
  <2> QED  BY <2>1, <2>2
<1>4. ASSUME NEW p \in 1..n + 1, NEW q \in 1..n + 1, p < q
      PROVE  IndexIn(t[p], grs, its) < IndexIn(t[q], grs, its)
  <2>1. CASE q < m + 1
    <3>1. p \in 1..n /\ q \in 1..n /\ p < m + 1
      BY <1>1, <1>4, <2>1
    <3> QED  BY <1>1, <1>2, <1>4, <2>1, <3>1
  <2>2. CASE q = m + 1
    <3>1. p \in 1..n /\ p < m + 1 /\ p <= m /\ ~(q < m + 1)
      BY <1>1, <1>4, <2>2
    <3> QED  BY <1>2, <2>2, <3>1
  <2>3. CASE q > m + 1 /\ p < m + 1
    <3>1. /\ p \in 1..n /\ q - 1 \in 1..n /\ p < q - 1
          /\ ~(q < m + 1) /\ q # m + 1
      BY <1>1, <2>3
    <3>2. t[p] = r[p] /\ t[q] = r[q - 1]
      BY <1>2, <2>3, <3>1
    <3> QED  BY <1>1, <3>1, <3>2
  <2>4. CASE q > m + 1 /\ p = m + 1
    <3>1. /\ q - 1 \in 1..n /\ ~(q - 1 <= m) /\ ~(p < m + 1)
          /\ ~(q < m + 1) /\ q # m + 1
      BY <1>1, <2>4
    <3>2. t[p] = k /\ t[q] = r[q - 1]
      BY <1>2, <2>4, <3>1
    <3> QED  BY <3>1, <3>2
  <2>5. CASE q > m + 1 /\ p > m + 1
    <3>1. /\ p - 1 \in 1..n /\ q - 1 \in 1..n /\ p - 1 < q - 1
          /\ ~(q < m + 1) /\ q # m + 1 /\ ~(p < m + 1) /\ p # m + 1
      BY <1>1, <1>4, <2>5
    <3>2. t[p] = r[p - 1] /\ t[q] = r[q - 1]
      BY <1>2, <3>1
    <3> QED  BY <1>1, <3>1, <3>2
  <2> QED  BY <1>1, <2>1, <2>2, <2>3, <2>4, <2>5
<1>5. n + 1 \in Nat
  BY <1>1
<1> QED  BY <1>2, <1>3, <1>4, <1>5 DEF Lists, t

LEMMA ListKept ==
    ASSUME NEW K, NEW grs, NEW its, NEW grs2, NEW its2, NEW n, NEW t,
           Lists(t, n, K, grs, its), SameOrder(K, grs, its, grs2, its2)
    PROVE  Lists(t, n, K, grs2, its2)
<1>1. \A p \in 1..n : t[p] \in K
  BY DEF Lists
<1> QED  BY <1>1 DEF Lists, SameOrder

LEMMA MinOfTwo ==
    ASSUME NEW a \in Nat, NEW b \in Nat
    PROVE  Min({a, b}) = IF a <= b THEN a ELSE b
<1> DEFINE m == IF a <= b THEN a ELSE b
<1>1. m \in {a, b} /\ \A y \in {a, b} : m <= y
  OBVIOUS
<1>2. \A x \in {a, b} : (\A y \in {a, b} : x <= y) => x = m
  OBVIOUS
<1> QED  BY <1>1, <1>2 DEF Min

\* The moved k against an entry that had the index j asked for.
TieRule(k, j, K, grs, its, K2, grs2, its2) ==
    k \in K2 => \A l \in K \ {k} : IndexIn(l, grs, its) = j =>
        IF k \in K /\ IndexIn(k, grs, its) < j
        THEN IndexIn(l, grs2, its2) < IndexIn(k, grs2, its2)
        ELSE IndexIn(k, grs2, its2) < IndexIn(l, grs2, its2)

\* The entries K2 of the rows w and d: K of grs and its, after the index j was
\* written to k alone.
MoveWritten(k, j, K, grs, its, K2, w, d) ==
    /\ K2 \ {k} = K \ {k}
    /\ \A l \in K \ {k} : IndexIn(l, w, d) = IndexIn(l, grs, its)
    /\ k \in K2 => IndexIn(k, w, d) = j

\* The list s once k has left it, or come in at the index j.
Landing(s, k, j, K2) == IF k \in K2 THEN SplicedIn(Without(s, k), j, k) ELSE Without(s, k)

\* A column after the move of k.  The other entries keep their order; in the
\* target column, where no index was left out, k comes before an entry that has
\* the index asked for, but after it if k came from further up.
LEMMA Landed ==
    ASSUME NEW grs, NEW its, NEW w, NEW d, NEW grs2, NEW its2,
           NEW K, Indexed(K, grs, its), NEW K2, Indexed(K2, grs2, its2),
           NEW k, NEW j \in Nat, MoveWritten(k, j, K, grs, its, K2, w, d),
           SameOrder(K2, w, d, grs2, its2),
           k \in K2 => NumberedKeys(K, grs, its), TieRule(k, j, K, grs, its, K2, grs2, its2)
    PROVE  SeqIn(K2, grs2, its2) = Landing(SeqIn(K, grs, its), k, j, K2)
<1> DEFINE s == SeqIn(K, grs, its)
           r == Without(s, k)
           n == Cardinality(K)
<1>1. Lists(s, n, K, grs, its)
  BY SeqLists
<1>w. /\ K2 \ {k} = K \ {k}
      /\ \A l \in K \ {k} : IndexIn(l, w, d) = IndexIn(l, grs, its)
      /\ k \in K2 => IndexIn(k, w, d) = j
  BY DEF MoveWritten
<1>2. /\ n \in Nat
      /\ \A p \in 1..n : s[p] \in K
      /\ \A l \in K : \E p \in 1..n : s[p] = l
  BY <1>1 DEF Lists
<1>r. r = Without(s, k)
  OBVIOUS
<1> HIDE DEF s, n, r
<1>3. PICK m : /\ Lists(r, m, K \ {k}, grs, its)
               /\ k \notin K => r = s /\ m = n
               /\ \A o \in 1..n : s[o] = k =>
                    /\ m = n - 1
                    /\ \A p \in 1..n - 1 : r[p] = IF p < o THEN s[p] ELSE s[p + 1]
  <2>1. CASE k \notin K
    BY <1>1, <1>2, <1>r, <2>1, ListWithoutNothing
  <2>2. CASE k \in K
    <3>1. PICK o \in 1..n : s[o] = k
      BY <1>2, <2>2
    <3>2. \A q \in 1..n : s[q] = k =>
            /\ \A p \in 1..n - 1 : r[p] = IF p < q THEN s[p] ELSE s[p + 1]
            /\ Lists(r, n - 1, K \ {k}, grs, its)
      <4> SUFFICES ASSUME NEW q \in 1..n, s[q] = k
                   PROVE  /\ \A p \in 1..n - 1 : r[p] = IF p < q THEN s[p] ELSE s[p + 1]
                          /\ Lists(r, n - 1, K \ {k}, grs, its)
        OBVIOUS
      <4>1. /\ LacksOnly(Without(s, s[q]), s, q)
            /\ Lists(Without(s, s[q]), n - 1, K \ {s[q]}, grs, its)
        BY <1>1, ListWithout
      <4>2. Len(s) = n
        BY <1>1 DEF Lists
      <4> QED  BY <1>r, <4>1, <4>2 DEF LacksOnly
    <3> QED  BY <2>2, <3>1, <3>2
  <2> QED  BY <2>1, <2>2
<1>4. /\ m \in Nat /\ Len(r) = m
      /\ \A p \in 1..m : r[p] \in K \ {k}
  BY <1>3 DEF Lists
<1>5. Lists(r, m, K2 \ {k}, grs2, its2)
  <2>1. SameOrder(K \ {k}, grs, its, grs2, its2)
    BY <1>w DEF SameOrder
  <2> QED  BY <1>3, <1>w, <2>1, ListKept
<1>6. CASE k \notin K2
  <2>1. K2 \ {k} = K2
    BY <1>6
  <2>2. r = SeqIn(K2, grs2, its2)
    BY <1>5, <2>1, ListIsSeq
  <2> QED  BY <1>6, <2>2 DEF Landing, r, s
<1>7. CASE k \in K2
  <2> DEFINE at == IF j <= m THEN j ELSE m
  <2>1. at \in 0..m /\ Min({j, Len(r)}) = at
    BY <1>4, MinOfTwo
  <2>2. \A p \in 1..n : IndexIn(s[p], grs, its) = p - 1
    BY <1>1, <1>7, DenseList
  <2>3. ASSUME NEW p \in 1..m
        PROVE  /\ IndexIn(r[p], grs, its) < j =>
                    IndexIn(r[p], grs2, its2) < IndexIn(k, grs2, its2)
               /\ j < IndexIn(r[p], grs, its) =>
                    IndexIn(k, grs2, its2) < IndexIn(r[p], grs2, its2)
    BY <1>4, <1>7, <1>w DEF SameOrder
  <2>4. ASSUME NEW p \in 1..m
        PROVE  IF p <= at THEN IndexIn(r[p], grs2, its2) < IndexIn(k, grs2, its2)
               ELSE IndexIn(k, grs2, its2) < IndexIn(r[p], grs2, its2)
    <3>1. CASE k \notin K
      <4>1. IndexIn(r[p], grs, its) = p - 1
        BY <1>3, <2>2, <3>1
      <4>2. p <= at => p - 1 < j
        BY <1>4
      <4>3. ~(p <= at) => j < p - 1 \/ j = p - 1
        BY <1>4
      <4>4. j = p - 1 => IndexIn(k, grs2, its2) < IndexIn(r[p], grs2, its2)
        BY <1>4, <1>7, <3>1, <4>1 DEF TieRule
      <4> QED  BY <2>3, <4>1, <4>2, <4>3, <4>4
    <3>2. CASE k \in K
      <4>1. PICK o \in 1..n : s[o] = k
        BY <1>2, <3>2
      <4>2. m = n - 1 /\ r[p] = IF p < o THEN s[p] ELSE s[p + 1]
        BY <1>3, <4>1
      <4>3. IndexIn(k, grs, its) = o - 1
        BY <2>2, <4>1
      <4>4. CASE p < o
        <5>1. IndexIn(r[p], grs, its) = p - 1
          BY <1>2, <2>2, <4>2, <4>4
        <5>2. p <= at => p - 1 < j
          BY <1>4
        <5>3. ~(p <= at) => j < p - 1 \/ j = p - 1
          BY <1>4
        <5>4. j = p - 1 => IndexIn(k, grs2, its2) < IndexIn(r[p], grs2, its2)
          <6>1. j = p - 1 => ~(o - 1 < j)
            BY <1>2, <4>4
          <6> QED  BY <1>4, <1>7, <4>3, <5>1, <6>1 DEF TieRule
        <5> QED  BY <2>3, <5>1, <5>2, <5>3, <5>4
      <4>5. CASE p >= o
        <5>1. IndexIn(r[p], grs, its) = p
          <6>1. p + 1 \in 1..n /\ (p + 1) - 1 = p /\ ~(p < o)
            BY <1>2, <4>2, <4>5
          <6> QED  BY <2>2, <4>2, <6>1
        <5>2. p <= at => p < j \/ p = j
          BY <1>4
        <5>3. ~(p <= at) => j < p
          BY <1>4
        <5>4. j = p => IndexIn(r[p], grs2, its2) < IndexIn(k, grs2, its2)
          <6>1. j = p => o - 1 < j
            BY <1>2, <4>5
          <6> QED  BY <1>4, <1>7, <3>2, <4>3, <5>1, <6>1 DEF TieRule
        <5> QED  BY <2>3, <5>1, <5>2, <5>3, <5>4
      <4> QED  BY <1>2, <4>4, <4>5
    <3> QED  BY <3>1, <3>2
  <2> HIDE DEF at
  <2>5. Lists(InsertAt(r, at + 1, k), m + 1, K2, grs2, its2)
    BY <1>5, <1>7, <2>1, <2>4, ListWith
  <2>6. InsertAt(r, at + 1, k) = SeqIn(K2, grs2, its2)
    BY <2>5, ListIsSeq
  <2> QED  BY <1>7, <2>1, <2>6 DEF Landing, SplicedIn, r, s
<1> QED  BY <1>6, <1>7

-----------------------------------------------------------------------------
(* A card or a group moved alone lands where it was sent.                  *)

\* The entry that a sort makes of a key.
EntryOf(k, grs, its, groupMark, itemMark) ==
    IF k[1] = "ITEM" THEN ItemEntry(k[2], its, itemMark) ELSE GroupEntry(k[2], grs, groupMark)

\* In a normalised column the index of an entry is its place in the sort.
LEMMA NormalizedPlaces ==
    ASSUME NEW cols, NEW grs, NEW its, NEW groupMark, NEW itemMark, NEW C, NEW G,
           FiniteTables(grs, its), GroupTable(grs, C), ItemTable(its, C, G),
           NEW n, n = NormalizedRoots(cols, grs, its, groupMark, itemMark),
           NEW c \in cols, NEW S, S = RootEntries(c, grs, its, groupMark, itemMark),
           NEW k \in KeysIn(c, grs, its),
           NEW e, e = EntryOf(k, grs, its, groupMark, itemMark)
    PROVE  /\ e \in S
           /\ e.index = IndexIn(k, grs, its)
           /\ IndexIn(k, n.groups, n.items) = Place(e, S)
<1> DEFINE ge(g) == GroupEntry(g, grs, groupMark)
           ie(i) == ItemEntry(i, its, itemMark)
<1>1. /\ \A g \in GroupsOf(c, grs) :
            ge(g) \in S /\ n.groups[g].orderIndex = Place(ge(g), S)
      /\ \A i \in RootItems(c, its) :
            ie(i) \in S /\ n.items[i].rowIndex = Place(ie(i), S)
  <2>1. \A g \in GroupsOf(c, grs) : n.groups[g].orderIndex = Place(ge(g), S)
    BY DEF NormalizedRoots, GroupsOf, GroupTable
  <2>2. \A i \in RootItems(c, its) : n.items[i].rowIndex = Place(ie(i), S)
    BY DEF NormalizedRoots, RootItems, ItemTable
  <2>3. /\ \A g \in GroupsOf(c, grs) : ge(g) \in S
        /\ \A i \in RootItems(c, its) : ie(i) \in S
    BY DEF RootEntries
  <2> QED  BY <2>1, <2>2, <2>3
<1>2. /\ \A g : ge(g).index = grs[g].orderIndex
      /\ \A i : ie(i).index = its[i].rowIndex
  BY DEF GroupEntry, ItemEntry
<1>3. /\ \A i : k = <<"ITEM", i>> => e = ie(i)
      /\ \A g : k = <<"GROUP", g>> => e = ge(g)
  BY DEF EntryOf
<1> HIDE DEF ge, ie
<1>4. CASE \E i \in RootItems(c, its) : k = <<"ITEM", i>>
  <2>1. PICK i \in RootItems(c, its) : k = <<"ITEM", i>>
    BY <1>4
  <2>2. /\ IndexIn(k, grs, its) = its[i].rowIndex
        /\ IndexIn(k, n.groups, n.items) = n.items[i].rowIndex
    BY <2>1 DEF IndexIn
  <2> QED  BY <1>1, <1>2, <1>3, <2>1, <2>2
<1>5. CASE \E g \in GroupsOf(c, grs) : k = <<"GROUP", g>>
  <2>1. PICK g \in GroupsOf(c, grs) : k = <<"GROUP", g>>
    BY <1>5
  <2>2. /\ IndexIn(k, grs, its) = grs[g].orderIndex
        /\ IndexIn(k, n.groups, n.items) = n.groups[g].orderIndex
    BY <2>1 DEF IndexIn
  <2> QED  BY <1>1, <1>2, <1>3, <2>1, <2>2
<1> QED  BY <1>4, <1>5, KeysAreRows

\* An entry that precedes another gets a smaller place.
LEMMA FirstInSort ==
    ASSUME NEW S, IsFiniteSet(S), Sortable(S), NEW e \in S, NEW f \in S, Precedes(e, f)
    PROVE  Place(e, S) < Place(f, S)
<1> DEFINE Below(d) == {x \in S : Precedes(x, d)}
<1>1. Below(e) \in SUBSET Below(f) /\ e \in Below(f) /\ e \notin Below(e)
  BY PrecedesTransitive, PrecedesIrreflexive
<1>2. IsFiniteSet(Below(e)) /\ IsFiniteSet(Below(f))
  BY FS_Subset
<1>3. Rank(e, S) = Cardinality(Below(e)) /\ Rank(f, S) = Cardinality(Below(f))
  BY DEF Rank
<1> HIDE DEF Below
<1>4. /\ Cardinality(Below(e)) <= Cardinality(Below(f))
      /\ Cardinality(Below(e)) # Cardinality(Below(f))
      /\ Cardinality(Below(e)) \in Nat /\ Cardinality(Below(f)) \in Nat
  BY <1>1, <1>2, FS_Subset, FS_CardinalityType
<1>5. Rank(e, S) < Rank(f, S)
  BY <1>3, <1>4
<1> QED  BY <1>5, PlaceIsRank

\* A moved entry goes before an unmoved one of the same index, or after it if
\* its priority says so.
LEMMA TieBroken ==
    ASSUME NEW S, IsFiniteSet(S), Sortable(S), NEW e \in S, NEW f \in S,
           e.index = f.index, f.mark.priority = 1, e.mark.priority \in {0, 2}
    PROVE  IF e.mark.priority = 2 THEN Place(f, S) < Place(e, S) ELSE Place(e, S) < Place(f, S)
<1>1. IF e.mark.priority = 2 THEN Precedes(f, e) ELSE Precedes(e, f)
  BY DEF Precedes
<1> QED  BY <1>1, FirstInSort

LEMMA IndexedKeys ==
    ASSUME NEW c, NEW grs, NEW its, NEW C, NEW G, FiniteTables(grs, its),
           GroupTable(grs, C), ItemTable(its, C, G), RootUniqueAt(c, grs, its)
    PROVE  Indexed(KeysIn(c, grs, its), grs, its)
<1> DEFINE K == KeysIn(c, grs, its)
<1>1. /\ \A i : <<"ITEM", i>> \in K <=> i \in RootItems(c, its)
      /\ \A g : <<"GROUP", g>> \in K <=> g \in GroupsOf(c, grs)
      /\ \A k \in K : \/ \E i \in RootItems(c, its) : k = <<"ITEM", i>>
                      \/ \E g \in GroupsOf(c, grs) : k = <<"GROUP", g>>
      /\ \A i : IndexIn(<<"ITEM", i>>, grs, its) = its[i].rowIndex
      /\ \A g : IndexIn(<<"GROUP", g>>, grs, its) = grs[g].orderIndex
  BY KeysAreRows
<1>2. /\ \A i \in RootItems(c, its) : its[i].rowIndex \in Nat
      /\ \A g \in GroupsOf(c, grs) : grs[g].orderIndex \in Nat
  BY DEF RootItems, GroupsOf, GroupTable, ItemTable
<1>3. IsFiniteSet(K)
  BY KeysFinite
<1> HIDE DEF K
<1>4. \A k \in K : IndexIn(k, grs, its) \in Nat
  BY <1>1, <1>2
<1>5. \A k, l \in K : IndexIn(k, grs, its) = IndexIn(l, grs, its) => k = l
  BY <1>1 DEF RootUniqueAt
<1> QED  BY <1>3, <1>4, <1>5 DEF Indexed, K

LEMMA RootIndexesOfKeys ==
    ASSUME NEW c, NEW grs, NEW its
    PROVE  {IndexIn(k, grs, its) : k \in KeysIn(c, grs, its)} = RootIndexes(c, grs, its)
<1> DEFINE K == KeysIn(c, grs, its)
<1>1. /\ \A i : <<"ITEM", i>> \in K <=> i \in RootItems(c, its)
      /\ \A g : <<"GROUP", g>> \in K <=> g \in GroupsOf(c, grs)
      /\ \A k \in K : \/ \E i \in RootItems(c, its) : k = <<"ITEM", i>>
                      \/ \E g \in GroupsOf(c, grs) : k = <<"GROUP", g>>
      /\ \A i : IndexIn(<<"ITEM", i>>, grs, its) = its[i].rowIndex
      /\ \A g : IndexIn(<<"GROUP", g>>, grs, its) = grs[g].orderIndex
  BY KeysAreRows
<1> HIDE DEF K
<1>2. \A k \in K : IndexIn(k, grs, its) \in RootIndexes(c, grs, its)
  BY <1>1 DEF RootIndexes
<1>3. \A x \in RootIndexes(c, grs, its) : \E k \in K : IndexIn(k, grs, its) = x
  BY <1>1 DEF RootIndexes
<1>4. {IndexIn(k, grs, its) : k \in K} = RootIndexes(c, grs, its)
  BY <1>2, <1>3
<1> QED  BY <1>4 DEF K

\* A column of the rows w and d, written and then normalised after the move of k
\* to the index j, against the rows grs and its before the move.
LEMMA ColumnAfterMove ==
    ASSUME NEW cols, NEW w, NEW d, NEW groupMark, NEW itemMark, NEW C, NEW G,
           FiniteTables(w, d), GroupTable(w, C), ItemTable(d, C, G),
           NEW n, n = NormalizedRoots(cols, w, d, groupMark, itemMark),
           NEW c, c \in cols => Sortable(RootEntries(c, w, d, groupMark, itemMark)),
           RootUniqueAt(c, n.groups, n.items),
           NEW grs, NEW its, NEW K, K = KeysIn(c, grs, its), Indexed(K, grs, its),
           NEW K2, K2 = KeysIn(c, w, d), NEW k,
           NEW j \in Nat, MoveWritten(k, j, K, grs, its, K2, w, d),
           k \in K2 => /\ c \in cols
                       /\ DenseIn(c, grs, its)
                       /\ EntryOf(k, w, d, groupMark, itemMark).mark
                            = Moved(k \in K, IndexIn(k, grs, its), j, 1)
                       /\ \A l \in K \ {k} : EntryOf(l, w, d, groupMark, itemMark).mark = Unmoved
    PROVE  SeqIn(KeysIn(c, n.groups, n.items), n.groups, n.items) =
                Landing(SeqIn(K, grs, its), k, j, K2)
<1>1. /\ KeysIn(c, n.groups, n.items) = K2
      /\ SameOrder(K2, w, d, n.groups, n.items)
  BY NormalizedStays
<1>2. Indexed(K2, n.groups, n.items)
  <2>1. /\ DOMAIN n.groups = DOMAIN w /\ GroupTable(n.groups, C)
        /\ DOMAIN n.items = DOMAIN d /\ ItemTable(n.items, C, G)
    BY NormalizedRootsType
  <2>2. FiniteTables(n.groups, n.items)
    BY <2>1 DEF FiniteTables
  <2>3. Indexed(KeysIn(c, n.groups, n.items), n.groups, n.items)
    BY <2>1, <2>2, IndexedKeys
  <2> QED  BY <1>1, <2>3
<1>3. k \in K2 => NumberedKeys(K, grs, its)
  BY RootIndexesOfKeys DEF DenseIn, NumberedKeys
<1>4. ASSUME k \in K2, NEW l \in K \ {k}, IndexIn(l, grs, its) = j
      PROVE  IF k \in K /\ IndexIn(k, grs, its) < j
             THEN IndexIn(l, n.groups, n.items) < IndexIn(k, n.groups, n.items)
             ELSE IndexIn(k, n.groups, n.items) < IndexIn(l, n.groups, n.items)
  <2> DEFINE S == RootEntries(c, w, d, groupMark, itemMark)
             e == EntryOf(k, w, d, groupMark, itemMark)
             f == EntryOf(l, w, d, groupMark, itemMark)
             hasOld == k \in K
             old == IndexIn(k, grs, its)
  <2>1. IsFiniteSet(S) /\ Sortable(S)
    BY <1>4, RootEntriesFinite DEF FiniteTables
  <2>2. /\ l \in K2 /\ l # k
        /\ IndexIn(k, w, d) = j /\ IndexIn(l, w, d) = j
    BY <1>4 DEF MoveWritten
  <2>3. /\ e \in S /\ e.index = IndexIn(k, w, d)
        /\ IndexIn(k, n.groups, n.items) = Place(e, S)
    BY <1>4, NormalizedPlaces
  <2>4. /\ f \in S /\ f.index = IndexIn(l, w, d)
        /\ IndexIn(l, n.groups, n.items) = Place(f, S)
    BY <1>4, <2>2, NormalizedPlaces
  <2>5. e.index = f.index /\ e.mark = Moved(k \in K, old, j, 1) /\ f.mark = Unmoved
    BY <1>4, <2>2, <2>3, <2>4
  <2>6. k \in K => old \in Nat /\ old # j
    BY <1>4 DEF Indexed
  <2> HIDE DEF S, e, f, old
  <2>7. /\ f.mark.priority = 1
        /\ e.mark.priority = IF k \in K /\ old < j THEN 2 ELSE 0
    BY <2>5, <2>6 DEF Moved, Unmoved
  <2>8. IF e.mark.priority = 2 THEN Place(f, S) < Place(e, S) ELSE Place(e, S) < Place(f, S)
    BY <2>1, <2>3, <2>4, <2>5, <2>7, TieBroken
  <2> QED  BY <2>3, <2>4, <2>7, <2>8 DEF old
<1>5. TieRule(k, j, K, grs, its, K2, n.groups, n.items)
  BY <1>4 DEF TieRule
<1> DEFINE grs2 == n.groups
           its2 == n.items
<1>6. /\ Indexed(K2, grs2, its2) /\ SameOrder(K2, w, d, grs2, its2)
      /\ k \in K2 => NumberedKeys(K, grs, its)
      /\ TieRule(k, j, K, grs, its, K2, grs2, its2)
  BY <1>1, <1>2, <1>3, <1>5
<1> HIDE DEF grs2, its2
<1>7. SeqIn(K2, grs2, its2) = Landing(SeqIn(K, grs, its), k, j, K2)
  BY <1>6, Landed
<1> QED  BY <1>1, <1>7 DEF grs2, its2

\* A request with one change.
LEMMA OneChange ==
    ASSUME NEW change, NEW ch, ch = <<change>>
    PROVE  /\ ch[1] = change
           /\ Named(ch) = {change.id}
           /\ NamesOnce(ch)
           /\ \A x \in Named(ch) : LastFor(ch, x) = 1
           /\ \A S : change \in S => ch \in Batches(S)
<1>1. DOMAIN ch = {1} /\ ch[1] = change /\ ch = [n \in 1..1 |-> change]
  OBVIOUS
<1>2. Named(ch) = {change.id}
  BY <1>1 DEF Named
<1>3. ASSUME NEW x \in Named(ch) PROVE LastFor(ch, x) = 1
  <2>1. {n \in DOMAIN ch : ch[n].id = x} = {1}
    BY <1>1, <1>2
  <2>2. IsFiniteSet({1}) /\ {1} \in SUBSET Nat /\ {1} # {}
    BY FS_Singleton
  <2>3. Max({1}) = 1
    BY <2>2, MaxProperty
  <2> QED  BY <2>1, <2>3 DEF LastFor
<1>4. ASSUME NEW S, change \in S PROVE ch \in Batches(S)
  <2>1. 1 \in 1..MaxBatch
    BY BoundsAssumption
  <2>2. ch \in [1..1 -> S]
    BY <1>1, <1>4
  <2> QED  BY <2>1, <2>2 DEF Batches
<1> QED  BY <1>1, <1>2, <1>3, <1>4 DEF NamesOnce

\* A request that moves one card out of any group: every column is spliced.
LEMMA ItemMoveLands ==
    ASSUME NEW grs, NEW its, NEW C, Rows(grs, its, C),
           \A c \in C : RootUniqueAt(c, grs, its),
           Shared(grs, its), \A g \in DOMAIN grs : MembersUnique(g, its),
           NEW change, NEW ch, ch = <<change>>, ItemRequest(ch, grs, its, C),
           change.newGroupId = NoGroup, DenseIn(change.newColumnId, grs, its),
           NEW after, after = ItemSync(ch, its, grs, its),
           NEW c \in C, NEW k, k = <<"ITEM", change.id>>
    PROVE  \E K2 : /\ k \in K2 <=> c = change.newColumnId
                   /\ SeqIn(KeysIn(c, after.groups, after.items), after.groups, after.items)
                        = Landing(SeqIn(KeysIn(c, grs, its), grs, its), k, change.newIndex, K2)
<1> DEFINE id == change.id
           j == change.newIndex
           w == WrittenItems(ch, its)
           gs == ItemSyncGroups(ch, its)
           m == NormalizedMembers(gs, w)
           cols == ItemSyncColumns(ch, its)
           gm == UnmovedMarks(grs)
           im == ItemMoveMarks(ch, its, its)
           K == KeysIn(c, grs, its)
           K2 == KeysIn(c, grs, m)
<1>1. ch[1] = change /\ Named(ch) = {id} /\ \A x \in Named(ch) : LastFor(ch, x) = 1
  BY OneChange
<1>2. id \in DOMAIN its /\ j \in Nat
  <2>1. PICK S : /\ ch \in Batches(S)
                 /\ \A x \in S : x.id \in DOMAIN its /\ x.newIndex \in Nat
    BY DEF ItemRequest
  <2>2. change \in S
    BY <1>1, <2>1, LastForProperty
  <2> QED  BY <2>1, <2>2
<1>3. /\ DOMAIN w = DOMAIN its
      /\ ItemTable(w, C, DOMAIN grs)
      /\ \A i \in DOMAIN its \ {id} : w[i] = its[i]
      /\ w[id].columnId = change.newColumnId
      /\ w[id].groupId = NoGroup
      /\ w[id].rowIndex = j
  <2>1. /\ DOMAIN w = DOMAIN its
        /\ ItemTable(w, C, DOMAIN grs)
        /\ \A i \in DOMAIN its \ Named(ch) : w[i] = its[i]
        /\ \A i \in DOMAIN its \cap Named(ch) :
             /\ w[i].columnId = ch[LastFor(ch, i)].newColumnId
             /\ w[i].groupId = ch[LastFor(ch, i)].newGroupId
             /\ w[i].rowIndex = ch[LastFor(ch, i)].newIndex
    BY WrittenItemsProperty
  <2> HIDE DEF w
  <2> QED  BY <1>1, <1>2, <2>1
<1>4. NoGroup \notin gs
  BY DEF ItemSyncGroups
<1>5. Sortable(RootEntries(c, grs, m, gm, im))
  BY ItemSyncSortable
<1>6. after = NormalizedRoots(cols, grs, m, gm, im)
  BY DEF ItemSync
<1>7. change.newColumnId \in cols
  BY <1>1 DEF ItemSyncColumns
<1>8. /\ im[id] = Moved(its[id].columnId = change.newColumnId /\ its[id].groupId = NoGroup,
                        its[id].rowIndex, j, 1)
      /\ \A i \in DOMAIN its \ {id} : im[i] = Unmoved
      /\ \A g \in DOMAIN grs : gm[g] = Unmoved
  BY <1>1, <1>2 DEF ItemMoveMarks, UnmovedMarks
<1>9. RootUniqueAt(c, after.groups, after.items)
  BY ItemSyncKeepsOrder
<1> HIDE DEF w, gs, cols, im, gm
<1>10. ItemTable(m, C, DOMAIN grs) /\ DOMAIN m = DOMAIN its /\ FiniteTables(grs, m)
  <2>1. IsFiniteSet(DOMAIN w)
    BY <1>3 DEF Rows, FiniteTables
  <2>2. ItemTable(m, C, DOMAIN grs) /\ DOMAIN m = DOMAIN w
    BY <1>3, <2>1, NormalizedMembersType
  <2> QED  BY <1>3, <2>2 DEF Rows, FiniteTables
<1>11. RootItems(c, m) = RootItems(c, w) /\ \A i \in RootItems(c, w) : m[i] = w[i]
  <2>1. IsFiniteSet(DOMAIN w)
    BY <1>3 DEF Rows, FiniteTables
  <2> QED  BY <1>3, <1>4, <2>1, RootItemsKept
<1> HIDE DEF m
<1>12. /\ \A i \in DOMAIN its \ {id} : i \in RootItems(c, m) <=> i \in RootItems(c, its)
       /\ \A i \in RootItems(c, m) \ {id} : m[i] = its[i]
       /\ id \in RootItems(c, m) <=> c = change.newColumnId
       /\ id \in RootItems(c, m) => m[id].rowIndex = j
       /\ id \in RootItems(c, its) <=> its[id].columnId = c /\ its[id].groupId = NoGroup
  <2>1. /\ \A i \in DOMAIN its \ {id} : i \in RootItems(c, w) <=> i \in RootItems(c, its)
        /\ id \in RootItems(c, w) <=> c = change.newColumnId
        /\ id \in RootItems(c, its) <=> its[id].columnId = c /\ its[id].groupId = NoGroup
    BY <1>2, <1>3 DEF RootItems
  <2>2. \A i \in RootItems(c, w) : i \in DOMAIN its
    BY <1>3 DEF RootItems
  <2> QED  BY <1>3, <1>11, <2>1, <2>2
<1>13. /\ k \in K2 <=> c = change.newColumnId
       /\ k \in K <=> its[id].columnId = c /\ its[id].groupId = NoGroup
       /\ IndexIn(k, grs, its) = its[id].rowIndex
       /\ EntryOf(k, grs, m, gm, im).mark = im[id]
  <2>1. k \in K2 <=> id \in RootItems(c, m)
    BY KeysAreRows
  <2>2. k \in K <=> id \in RootItems(c, its)
    BY KeysAreRows
  <2>3. IndexIn(k, grs, its) = its[id].rowIndex
    BY DEF IndexIn
  <2>4. EntryOf(k, grs, m, gm, im).mark = im[id]
    BY DEF EntryOf, ItemEntry
  <2> QED  BY <1>12, <2>1, <2>2, <2>3, <2>4
<1>14. MoveWritten(k, j, K, grs, its, K2, grs, m)
  <2>1. ASSUME NEW l, l # k PROVE l \in K2 <=> l \in K
    <3>1. ASSUME NEW i, l = <<"ITEM", i>> PROVE l \in K2 <=> l \in K
      <4>1. i # id
        BY <2>1, <3>1
      <4>2. l \in K2 <=> i \in RootItems(c, m)
        BY <3>1, KeysAreRows
      <4>3. l \in K <=> i \in RootItems(c, its)
        BY <3>1, KeysAreRows
      <4>4. (i \in RootItems(c, m) \/ i \in RootItems(c, its)) => i \in DOMAIN its
        BY <1>10 DEF RootItems
      <4> QED  BY <1>12, <4>1, <4>2, <4>3, <4>4
    <3>2. ASSUME NEW g, l = <<"GROUP", g>> PROVE l \in K2 <=> l \in K
      <4>1. l \in K2 <=> g \in GroupsOf(c, grs)
        BY <3>2, KeysAreRows
      <4>2. l \in K <=> g \in GroupsOf(c, grs)
        BY <3>2, KeysAreRows
      <4> QED  BY <4>1, <4>2
    <3>3. l \in K2 \/ l \in K => (\E i : l = <<"ITEM", i>>) \/ \E g : l = <<"GROUP", g>>
      BY DEF KeysIn
    <3> QED  BY <3>1, <3>2, <3>3
  <2>2. ASSUME NEW l \in K \ {k} PROVE IndexIn(l, grs, m) = IndexIn(l, grs, its)
    <3>1. CASE \E i \in RootItems(c, its) : l = <<"ITEM", i>>
      <4>1. PICK i \in RootItems(c, its) : l = <<"ITEM", i>>
        BY <3>1
      <4>2. i # id /\ i \in DOMAIN its
        BY <2>2, <4>1 DEF RootItems
      <4>3. m[i] = its[i]
        BY <1>12, <4>1, <4>2
      <4> QED  BY <4>1, <4>3 DEF IndexIn
    <3>2. CASE \E g \in GroupsOf(c, grs) : l = <<"GROUP", g>>
      <4>1. PICK g \in GroupsOf(c, grs) : l = <<"GROUP", g>>
        BY <3>2
      <4> QED  BY <4>1 DEF IndexIn
    <3> QED  BY <3>1, <3>2 DEF KeysIn
  <2>3. k \in K2 => IndexIn(k, grs, m) = j
    <3>1. IndexIn(k, grs, m) = m[id].rowIndex
      BY DEF IndexIn
    <3> QED  BY <1>12, <1>13, <3>1
  <2>4. K2 \ {k} = K \ {k}
    BY <2>1
  <2> QED  BY <2>2, <2>3, <2>4 DEF MoveWritten
<1>15. \A l \in K \ {k} : EntryOf(l, grs, m, gm, im).mark = Unmoved
  <2> SUFFICES ASSUME NEW l \in K \ {k} PROVE EntryOf(l, grs, m, gm, im).mark = Unmoved
    OBVIOUS
  <2>1. CASE \E i \in RootItems(c, its) : l = <<"ITEM", i>>
    <3>1. PICK i \in RootItems(c, its) : l = <<"ITEM", i>>
      BY <2>1
    <3>2. i # id /\ i \in DOMAIN its
      BY <3>1 DEF RootItems
    <3>3. EntryOf(l, grs, m, gm, im).mark = im[i]
      BY <3>1 DEF EntryOf, ItemEntry
    <3> QED  BY <1>8, <3>2, <3>3
  <2>2. CASE \E g \in GroupsOf(c, grs) : l = <<"GROUP", g>>
    <3>1. PICK g \in GroupsOf(c, grs) : l = <<"GROUP", g>>
      BY <2>2
    <3>2. g \in DOMAIN grs
      BY <3>1 DEF GroupsOf
    <3>3. EntryOf(l, grs, m, gm, im).mark = gm[g]
      BY <3>1 DEF EntryOf, GroupEntry
    <3> QED  BY <1>8, <3>2, <3>3
  <2> QED  BY <2>1, <2>2 DEF KeysIn
<1>16. k \in K2 => EntryOf(k, grs, m, gm, im).mark = Moved(k \in K, IndexIn(k, grs, its), j, 1)
  BY <1>8, <1>13
<1>17. Indexed(K, grs, its)
  BY IndexedKeys DEF Rows
<1>18. k \in K2 => c \in cols /\ DenseIn(c, grs, its)
  BY <1>7, <1>13
<1>19. FiniteTables(grs, m) /\ GroupTable(grs, C)
  BY <1>10 DEF Rows
<1>20. K = KeysIn(c, grs, its) /\ K2 = KeysIn(c, grs, m)
  OBVIOUS
<1> HIDE DEF K, K2, j
<1>21. SeqIn(KeysIn(c, after.groups, after.items), after.groups, after.items)
            = Landing(SeqIn(K, grs, its), k, j, K2)
  BY <1>2, <1>5, <1>6, <1>9, <1>10, <1>14, <1>15, <1>16, <1>17, <1>18, <1>19, <1>20,
     ColumnAfterMove
<1> QED  BY <1>13, <1>20, <1>21 DEF j

\* The same of a group, whose cards follow it.
LEMMA GroupMoveLands ==
    ASSUME NEW grs, NEW its, NEW C, Rows(grs, its, C),
           \A c \in C : RootUniqueAt(c, grs, its),
           Shared(grs, its), \A g \in DOMAIN grs : MembersUnique(g, its),
           NEW change, NEW ch, ch = <<change>>, GroupRequest(ch, grs, C),
           DenseIn(change.newColumnId, grs, its),
           NEW after, after = GroupSync(ch, grs, grs, its),
           NEW c \in C, NEW k, k = <<"GROUP", change.id>>
    PROVE  \E K2 : /\ k \in K2 <=> c = change.newColumnId
                   /\ SeqIn(KeysIn(c, after.groups, after.items), after.groups, after.items)
                        = Landing(SeqIn(KeysIn(c, grs, its), grs, its), k, change.newIndex, K2)
<1> DEFINE id == change.id
           j == change.newIndex
           w == WrittenGroups(ch, grs)
           d == CarriedItems(ch, grs, its)
           cols == GroupSyncColumns(ch, grs)
           gm == GroupMoveMarks(ch, grs, grs)
           im == UnmovedMarks(its)
           K == KeysIn(c, grs, its)
           K2 == KeysIn(c, w, d)
<1>1. ch[1] = change /\ Named(ch) = {id} /\ \A x \in Named(ch) : LastFor(ch, x) = 1
  BY OneChange
<1>2. id \in DOMAIN grs /\ j \in Nat
  <2>1. PICK S : /\ ch \in Batches(S)
                 /\ \A x \in S : x.id \in DOMAIN grs /\ x.newIndex \in Nat
    BY DEF GroupRequest
  <2>2. change \in S
    BY <1>1, <2>1, LastForProperty
  <2> QED  BY <2>1, <2>2
<1>3. /\ DOMAIN w = DOMAIN grs
      /\ GroupTable(w, C)
      /\ \A g \in DOMAIN grs \ {id} : w[g] = grs[g]
      /\ w[id].columnId = change.newColumnId
      /\ w[id].orderIndex = j
  <2>1. /\ DOMAIN w = DOMAIN grs
        /\ GroupTable(w, C)
        /\ \A g \in DOMAIN grs \ Named(ch) : w[g] = grs[g]
        /\ \A g \in Named(ch) : /\ w[g].columnId = ch[LastFor(ch, g)].newColumnId
                                /\ w[g].orderIndex = ch[LastFor(ch, g)].newIndex
    BY WrittenGroupsProperty
  <2> HIDE DEF w
  <2> QED  BY <1>1, <1>2, <2>1
<1>4. /\ DOMAIN d = DOMAIN its
      /\ ItemTable(d, C, DOMAIN grs)
      /\ \A i \in DOMAIN its : /\ d[i].groupId = its[i].groupId
                               /\ its[i].groupId = NoGroup => d[i] = its[i]
  <2>1. Follows(d, w, grs, its, C)
    BY CarriedItemsFollow
  <2> HIDE DEF d, w
  <2> QED  BY <2>1 DEF Follows
<1>5. Sortable(RootEntries(c, w, d, gm, im))
  BY GroupSyncSortable
<1>6. after = NormalizedRoots(cols, w, d, gm, im)
  BY DEF GroupSync
<1>7. change.newColumnId \in cols
  BY <1>1 DEF GroupSyncColumns
<1>8. /\ gm[id] = Moved(grs[id].columnId = change.newColumnId, grs[id].orderIndex, j, 1)
      /\ \A g \in DOMAIN grs \ {id} : gm[g] = Unmoved
      /\ \A i \in DOMAIN its : im[i] = Unmoved
  BY <1>1, <1>2 DEF GroupMoveMarks, UnmovedMarks
<1>9. RootUniqueAt(c, after.groups, after.items)
  BY GroupSyncKeepsOrder
<1> HIDE DEF w, d, cols, im, gm
<1>10. FiniteTables(w, d)
  BY <1>3, <1>4 DEF Rows, FiniteTables
<1>11. RootItems(c, d) = RootItems(c, its) /\ \A i \in RootItems(c, its) : d[i] = its[i]
  BY <1>4 DEF RootItems
<1>12. /\ \A g \in DOMAIN grs \ {id} : g \in GroupsOf(c, w) <=> g \in GroupsOf(c, grs)
       /\ id \in GroupsOf(c, w) <=> c = change.newColumnId
       /\ id \in GroupsOf(c, grs) <=> grs[id].columnId = c
  BY <1>2, <1>3 DEF GroupsOf
<1>13. /\ k \in K2 <=> c = change.newColumnId
       /\ k \in K <=> grs[id].columnId = c
       /\ IndexIn(k, grs, its) = grs[id].orderIndex
       /\ EntryOf(k, w, d, gm, im).mark = gm[id]
  <2>1. k \in K2 <=> id \in GroupsOf(c, w)
    BY KeysAreRows
  <2>2. k \in K <=> id \in GroupsOf(c, grs)
    BY KeysAreRows
  <2>3. IndexIn(k, grs, its) = grs[id].orderIndex
    BY DEF IndexIn
  <2>4. EntryOf(k, w, d, gm, im).mark = gm[id]
    BY DEF EntryOf, GroupEntry
  <2> QED  BY <1>12, <2>1, <2>2, <2>3, <2>4
<1>14. MoveWritten(k, j, K, grs, its, K2, w, d)
  <2>1. ASSUME NEW l, l # k PROVE l \in K2 <=> l \in K
    <3>1. ASSUME NEW i, l = <<"ITEM", i>> PROVE l \in K2 <=> l \in K
      <4>1. l \in K2 <=> i \in RootItems(c, d)
        BY <3>1, KeysAreRows
      <4>2. l \in K <=> i \in RootItems(c, its)
        BY <3>1, KeysAreRows
      <4> QED  BY <1>11, <4>1, <4>2
    <3>2. ASSUME NEW g, l = <<"GROUP", g>> PROVE l \in K2 <=> l \in K
      <4>1. g # id
        BY <2>1, <3>2
      <4>2. l \in K2 <=> g \in GroupsOf(c, w)
        BY <3>2, KeysAreRows
      <4>3. l \in K <=> g \in GroupsOf(c, grs)
        BY <3>2, KeysAreRows
      <4>4. (g \in GroupsOf(c, w) \/ g \in GroupsOf(c, grs)) => g \in DOMAIN grs
        BY <1>3 DEF GroupsOf
      <4> QED  BY <1>12, <4>1, <4>2, <4>3, <4>4
    <3>3. l \in K2 \/ l \in K => (\E i : l = <<"ITEM", i>>) \/ \E g : l = <<"GROUP", g>>
      BY DEF KeysIn
    <3> QED  BY <3>1, <3>2, <3>3
  <2>2. ASSUME NEW l \in K \ {k} PROVE IndexIn(l, w, d) = IndexIn(l, grs, its)
    <3>1. CASE \E i \in RootItems(c, its) : l = <<"ITEM", i>>
      <4>1. PICK i \in RootItems(c, its) : l = <<"ITEM", i>>
        BY <3>1
      <4>2. d[i] = its[i]
        BY <1>11, <4>1
      <4> QED  BY <4>1, <4>2 DEF IndexIn
    <3>2. CASE \E g \in GroupsOf(c, grs) : l = <<"GROUP", g>>
      <4>1. PICK g \in GroupsOf(c, grs) : l = <<"GROUP", g>>
        BY <3>2
      <4>2. g # id /\ g \in DOMAIN grs
        BY <2>2, <4>1 DEF GroupsOf
      <4>3. w[g] = grs[g]
        BY <1>3, <4>2
      <4> QED  BY <4>1, <4>3 DEF IndexIn
    <3> QED  BY <3>1, <3>2 DEF KeysIn
  <2>3. k \in K2 => IndexIn(k, w, d) = j
    <3>1. IndexIn(k, w, d) = w[id].orderIndex
      BY DEF IndexIn
    <3> QED  BY <1>3, <3>1
  <2>4. K2 \ {k} = K \ {k}
    BY <2>1
  <2> QED  BY <2>2, <2>3, <2>4 DEF MoveWritten
<1>15. \A l \in K \ {k} : EntryOf(l, w, d, gm, im).mark = Unmoved
  <2> SUFFICES ASSUME NEW l \in K \ {k} PROVE EntryOf(l, w, d, gm, im).mark = Unmoved
    OBVIOUS
  <2>1. CASE \E i \in RootItems(c, its) : l = <<"ITEM", i>>
    <3>1. PICK i \in RootItems(c, its) : l = <<"ITEM", i>>
      BY <2>1
    <3>2. i \in DOMAIN its
      BY <3>1 DEF RootItems
    <3>3. EntryOf(l, w, d, gm, im).mark = im[i]
      BY <3>1 DEF EntryOf, ItemEntry
    <3> QED  BY <1>8, <3>2, <3>3
  <2>2. CASE \E g \in GroupsOf(c, grs) : l = <<"GROUP", g>>
    <3>1. PICK g \in GroupsOf(c, grs) : l = <<"GROUP", g>>
      BY <2>2
    <3>2. g # id /\ g \in DOMAIN grs
      BY <3>1 DEF GroupsOf
    <3>3. EntryOf(l, w, d, gm, im).mark = gm[g]
      BY <3>1 DEF EntryOf, GroupEntry
    <3> QED  BY <1>8, <3>2, <3>3
  <2> QED  BY <2>1, <2>2 DEF KeysIn
<1>16. k \in K2 => EntryOf(k, w, d, gm, im).mark = Moved(k \in K, IndexIn(k, grs, its), j, 1)
  BY <1>8, <1>13
<1>17. Indexed(K, grs, its)
  BY IndexedKeys DEF Rows
<1>18. k \in K2 => c \in cols /\ DenseIn(c, grs, its)
  BY <1>7, <1>13
<1>19. K = KeysIn(c, grs, its) /\ K2 = KeysIn(c, w, d)
  OBVIOUS
<1> HIDE DEF K, K2, j
<1>20. SeqIn(KeysIn(c, after.groups, after.items), after.groups, after.items)
            = Landing(SeqIn(K, grs, its), k, j, K2)
  BY <1>2, <1>3, <1>4, <1>5, <1>6, <1>9, <1>10, <1>14, <1>15, <1>16, <1>17, <1>18, <1>19,
     ColumnAfterMove
<1> QED  BY <1>13, <1>19, <1>20 DEF j

\* The operators of RetroBoardOrder, in the terms of the lemmas above.
LEMMA RootSeqIs ==
    ASSUME NEW c
    PROVE  RootSeq(c) = SeqIn(KeysIn(c, groups, items), groups, items)
BY DEF RootSeq, SeqIn, RootKeys, KeysIn, IndexOf, IndexIn

LEMMA RootDenseIs ==
    ASSUME NEW c, RootDense(c)
    PROVE  DenseIn(c, groups, items)
BY DEF RootDense, DenseIn, RootKeys, KeysIn

\* The property, for one change of a card and then of a group.
LEMMA LoneItemMove ==
    ASSUME LayoutInvariant, NEW b, NEW change \in ItemChanges(b), change.newGroupId = NoGroup,
           RootDense(change.newColumnId), SyncItemPositions(<<change>>), NEW c \in DOMAIN columns
    PROVE  RootSeq(c)' = Spliced(c, <<"ITEM", change.id>>, change.newColumnId, change.newIndex)
<1> DEFINE ch == <<change>>
           k == <<"ITEM", change.id>>
           after == ItemSync(ch, items, groups, items)
<1>1. ItemRequest(ch, groups, items, DOMAIN columns)
  BY OneChange, ItemChangesRequest
<1>2. groups' = after.groups /\ items' = after.items
  BY DEF SyncItemPositions
<1>3. /\ Rows(groups, items, DOMAIN columns)
      /\ \A x \in DOMAIN columns : RootUniqueAt(x, groups, items)
      /\ Shared(groups, items)
      /\ \A g \in DOMAIN groups : MembersUnique(g, items)
  BY RowsOK, LayoutTables DEF LayoutInvariant
<1>4. DenseIn(change.newColumnId, groups, items)
  BY RootDenseIs
<1>5. PICK K2 : /\ k \in K2 <=> c = change.newColumnId
                /\ SeqIn(KeysIn(c, after.groups, after.items), after.groups, after.items)
                     = Landing(SeqIn(KeysIn(c, groups, items), groups, items),
                               k, change.newIndex, K2)
  BY <1>1, <1>3, <1>4, ItemMoveLands
<1> HIDE DEF after, k
<1>6. RootSeq(c)' = Landing(RootSeq(c), k, change.newIndex, K2)
  <2>1. RootSeq(c)' = SeqIn(KeysIn(c, groups', items'), groups', items')
    BY DEF RootSeq, SeqIn, RootKeys, KeysIn, IndexOf, IndexIn, RootItems, GroupsOf
  <2> QED  BY <1>2, <1>5, <2>1, RootSeqIs
<1> QED  BY <1>5, <1>6 DEF Landing, Spliced, k

LEMMA LoneGroupMove ==
    ASSUME LayoutInvariant, NEW b, NEW change \in GroupChanges(b),
           RootDense(change.newColumnId), SyncGroupPositions(<<change>>), NEW c \in DOMAIN columns
    PROVE  RootSeq(c)' = Spliced(c, <<"GROUP", change.id>>, change.newColumnId, change.newIndex)
<1> DEFINE ch == <<change>>
           k == <<"GROUP", change.id>>
           after == GroupSync(ch, groups, groups, items)
<1>1. GroupRequest(ch, groups, DOMAIN columns)
  BY OneChange, GroupChangesRequest
<1>2. groups' = after.groups /\ items' = after.items
  BY DEF SyncGroupPositions
<1>3. /\ Rows(groups, items, DOMAIN columns)
      /\ \A x \in DOMAIN columns : RootUniqueAt(x, groups, items)
      /\ Shared(groups, items)
      /\ \A g \in DOMAIN groups : MembersUnique(g, items)
  BY RowsOK, LayoutTables DEF LayoutInvariant
<1>4. DenseIn(change.newColumnId, groups, items)
  BY RootDenseIs
<1>5. PICK K2 : /\ k \in K2 <=> c = change.newColumnId
                /\ SeqIn(KeysIn(c, after.groups, after.items), after.groups, after.items)
                     = Landing(SeqIn(KeysIn(c, groups, items), groups, items),
                               k, change.newIndex, K2)
  BY <1>1, <1>3, <1>4, GroupMoveLands
<1> HIDE DEF after, k
<1>6. RootSeq(c)' = Landing(RootSeq(c), k, change.newIndex, K2)
  <2>1. RootSeq(c)' = SeqIn(KeysIn(c, groups', items'), groups', items')
    BY DEF RootSeq, SeqIn, RootKeys, KeysIn, IndexOf, IndexIn, RootItems, GroupsOf
  <2> QED  BY <1>2, <1>5, <2>1, RootSeqIs
<1> QED  BY <1>5, <1>6 DEF Landing, Spliced, k

\* If no request names a group twice, then a card or a group dragged alone to a
\* column without gaps comes to the place asked for, and every column reads as
\* after a splice: the priorities by which syncItemPositions and
\* syncGroupPositions break ties are those of a splice, up and down.
THEOREM MoveLands ==
    ASSUME ~RepeatedGroups
    PROVE  Spec => MoveLandsWhereAsked
<1>1. LayoutInvariant /\ [Next]_vars =>
        [/\ \A b \in Boards : \A change \in ItemChanges(b) :
              /\ change.newGroupId = NoGroup
              /\ RootDense(change.newColumnId)
              /\ SyncItemPositions(<<change>>)
              => \A c \in DOMAIN columns :
                   RootSeq(c)' = Spliced(c, <<"ITEM", change.id>>,
                                         change.newColumnId, change.newIndex)
         /\ \A b \in Boards : \A change \in GroupChanges(b) :
              /\ RootDense(change.newColumnId)
              /\ SyncGroupPositions(<<change>>)
              => \A c \in DOMAIN columns :
                   RootSeq(c)' = Spliced(c, <<"GROUP", change.id>>,
                                         change.newColumnId, change.newIndex)]_vars
  BY LoneItemMove, LoneGroupMove
<1> QED  BY <1>1, LayoutInductive, PTL DEF Spec, MoveLandsWhereAsked

-----------------------------------------------------------------------------
(* The cards of a deleted group take its place.                            *)

\* x lists the entries of S in the order of the sort.
Ascending(x, n, S) ==
    /\ \A p \in 1..n : x[p] \in S
    /\ \A e \in S : \E p \in 1..n : x[p] = e
    /\ \A p, q \in 1..n : p < q => Precedes(x[p], x[q])

\* The rank of an entry of S is its place in x.
RankedBy(x, n, S) ==
    /\ \A p \in 1..n : Rank(x[p], S) = p - 1
    /\ Cardinality(S) = n

\* In a list sorted by the comparator an entry ranks at its place.
LEMMA RankInList ==
    ASSUME NEW S, IsFiniteSet(S), Sortable(S), NEW n \in Nat, NEW x, Ascending(x, n, S)
    PROVE  RankedBy(x, n, S)
<1> USE DEF Ascending
<1>1. \A p, q \in 1..n : Precedes(x[q], x[p]) <=> q < p
  <2> SUFFICES ASSUME NEW p \in 1..n, NEW q \in 1..n
               PROVE  Precedes(x[q], x[p]) <=> q < p
    OBVIOUS
  <2>1. CASE q < p
    BY <2>1
  <2>2. CASE p = q
    BY <2>2, PrecedesIrreflexive
  <2>3. CASE p < q
    <3>1. Precedes(x[p], x[q]) /\ x[p] \in S /\ x[q] \in S
      BY <2>3
    <3>2. ~Precedes(x[q], x[p])
      <4> SUFFICES ASSUME Precedes(x[q], x[p]) PROVE FALSE
        OBVIOUS
      <4>1. Precedes(x[p], x[p])
        BY <3>1, PrecedesTransitive
      <4> QED  BY <3>1, <4>1, PrecedesIrreflexive
    <3> QED  BY <2>3, <3>2
  <2> QED  BY <2>1, <2>2, <2>3
<1>2. \A p, q \in 1..n : x[p] = x[q] => p = q
  <2> SUFFICES ASSUME NEW p \in 1..n, NEW q \in 1..n, x[p] = x[q], p # q PROVE FALSE
    OBVIOUS
  <2>1. Precedes(x[p], x[p])
    BY <1>1
  <2> QED  BY <2>1, PrecedesIrreflexive
<1>3. ASSUME NEW p \in 1..n
      PROVE  Rank(x[p], S) = p - 1
  <2> DEFINE f == [q \in 1..p - 1 |-> x[q]]
             B == {e \in S : Precedes(e, x[p])}
  <2>1. p - 1 \in Nat /\ \A q \in 1..p - 1 : q \in 1..n /\ q < p
    OBVIOUS
  <2>2. f \in Bijection(1..p - 1, B)
    <3>1. \A q \in 1..p - 1 : f[q] \in B
      BY <1>1, <2>1
    <3>2. \A q, r \in 1..p - 1 : f[q] = f[r] => q = r
      BY <1>2, <2>1
    <3>3. \A e \in B : \E q \in 1..p - 1 : f[q] = e
      <4>1. SUFFICES ASSUME NEW e \in B PROVE \E q \in 1..p - 1 : f[q] = e
        OBVIOUS
      <4>2. PICK q \in 1..n : x[q] = e
        OBVIOUS
      <4>3. q \in 1..p - 1
        BY <1>1, <4>2
      <4> QED  BY <4>2, <4>3
    <3> HIDE DEF B
    <3> QED  BY <3>1, <3>2, <3>3 DEF Bijection, Injection, Surjection, IsInjective
  <2>3. IsFiniteSet(1..p - 1) /\ Cardinality(1..p - 1) = p - 1
    BY <2>1, FS_Interval
  <2>4. Rank(x[p], S) = Cardinality(B)
    BY DEF Rank
  <2> HIDE DEF f, B
  <2>5. ExistsBijection(1..p - 1, B)
    BY <2>2 DEF ExistsBijection
  <2> QED  BY <2>3, <2>4, <2>5, FS_Bijection
<1>4. Cardinality(S) = n
  <2> DEFINE f == [q \in 1..n |-> x[q]]
  <2>1. f \in Bijection(1..n, S)
    BY <1>2 DEF Bijection, Injection, Surjection, IsInjective
  <2>2. IsFiniteSet(1..n) /\ Cardinality(1..n) = n
    BY FS_Interval
  <2> HIDE DEF f
  <2>3. ExistsBijection(1..n, S)
    BY <2>1 DEF ExistsBijection
  <2> QED  BY <2>2, <2>3, FS_Bijection
<1> QED  BY <1>3, <1>4 DEF RankedBy

\* t is s with the list f in place of its entry o.
ReplacesOnly(t, s, o, f) ==
    /\ Len(t) = Len(s) - 1 + Len(f)
    /\ \A i \in 1..Len(s) - 1 + Len(f) :
            t[i] = IF i < o THEN s[i]
                   ELSE IF i < o + Len(f) THEN f[i - o + 1] ELSE s[i - Len(f) + 1]

LEMMA Replaced ==
    ASSUME NEW S, NEW s \in Seq(S), NEW f \in Seq(S), NEW o \in 0..Len(s) - 1
    PROVE  /\ SubSeq(s, 1, o) \o f \o SubSeq(s, o + 2, Len(s)) \in Seq(S)
           /\ ReplacesOnly(SubSeq(s, 1, o) \o f \o SubSeq(s, o + 2, Len(s)), s, o + 1, f)
<1> DEFINE n == Len(s)
           k == Len(f)
           x == SubSeq(s, 1, o)
           y == SubSeq(s, o + 2, n)
           z == x \o f
           t == z \o y
<1>1. n \in Nat /\ k \in Nat /\ o \in Nat /\ o + 1 <= n
  OBVIOUS
<1>2. /\ x \in Seq(S) /\ Len(x) = o
      /\ \A i \in 1..o : x[i] = s[i]
  <2>1. \A i \in 1..o : s[i] \in S
    BY <1>1
  <2>2. /\ SubSeq(s, 1, o) \in Seq(S)
        /\ Len(SubSeq(s, 1, o)) = IF 1 <= o THEN o - 1 + 1 ELSE 0
        /\ \A i \in 1..o - 1 + 1 : SubSeq(s, 1, o)[i] = s[1 + i - 1]
    BY <1>1, <2>1, SubSeqProperties
  <2>3. \A i \in 1..o : 1 + i - 1 = i /\ i \in 1..o - 1 + 1
    BY <1>1
  <2> QED  BY <1>1, <2>2, <2>3
<1>3. /\ y \in Seq(S) /\ Len(y) = n - o - 1
      /\ \A i \in 1..n - o - 1 : y[i] = s[o + 1 + i]
  <2>1. \A i \in o + 2..n : s[i] \in S
    BY <1>1
  <2>2. /\ SubSeq(s, o + 2, n) \in Seq(S)
        /\ Len(SubSeq(s, o + 2, n)) = IF o + 2 <= n THEN n - (o + 2) + 1 ELSE 0
        /\ \A i \in 1..n - (o + 2) + 1 : SubSeq(s, o + 2, n)[i] = s[o + 2 + i - 1]
    BY <1>1, <2>1, SubSeqProperties
  <2>3. \A i \in 1..n - o - 1 : o + 2 + i - 1 = o + 1 + i /\ i \in 1..n - (o + 2) + 1
    BY <1>1
  <2> QED  BY <1>1, <2>2, <2>3
<1> HIDE DEF x, y, n
<1>4. /\ z \in Seq(S) /\ Len(z) = o + k
      /\ \A i \in 1..o + k : z[i] = IF i <= o THEN x[i] ELSE f[i - o]
  <2>1. /\ x \o f \in Seq(S) /\ Len(x \o f) = Len(x) + Len(f)
        /\ \A i \in 1..Len(x) + Len(f) : (x \o f)[i] = IF i <= Len(x) THEN x[i] ELSE f[i - Len(x)]
    BY <1>2, ConcatProperties
  <2> QED  BY <1>2, <2>1
<1> HIDE DEF z, k
<1>5. /\ t \in Seq(S) /\ Len(t) = n - 1 + k
      /\ \A i \in 1..n - 1 + k : t[i] = IF i <= o + k THEN z[i] ELSE y[i - (o + k)]
  <2>1. /\ z \o y \in Seq(S) /\ Len(z \o y) = Len(z) + Len(y)
        /\ \A i \in 1..Len(z) + Len(y) : (z \o y)[i] = IF i <= Len(z) THEN z[i] ELSE y[i - Len(z)]
    BY <1>3, <1>4, ConcatProperties
  <2>2. Len(z) + Len(y) = n - 1 + k
    BY <1>1, <1>3, <1>4
  <2> QED  BY <1>4, <2>1, <2>2
<1>6. t = SubSeq(s, 1, o) \o f \o SubSeq(s, o + 2, Len(s))
  BY DEF x, y, z, n
<1> HIDE DEF t
<1>7. ASSUME NEW i \in 1..n - 1 + k
      PROVE  t[i] = IF i < o + 1 THEN s[i]
                    ELSE IF i < o + 1 + k THEN f[i - (o + 1) + 1] ELSE s[i - k + 1]
  <2>1. t[i] = IF i <= o + k THEN z[i] ELSE y[i - (o + k)]
    BY <1>5
  <2>2. CASE i <= o
    <3>1. i \in 1..o + k /\ i <= o + k /\ i \in 1..o /\ i < o + 1
      BY <1>1, <2>2
    <3> QED  BY <1>2, <1>4, <2>1, <2>2, <3>1
  <2>3. CASE i > o /\ i <= o + k
    <3>1. i \in 1..o + k /\ ~(i <= o) /\ ~(i < o + 1) /\ i < o + 1 + k /\ i - (o + 1) + 1 = i - o
      BY <1>1, <2>3
    <3> QED  BY <1>4, <2>1, <2>3, <3>1
  <2>4. CASE i > o + k
    <3>1. /\ i - (o + k) \in 1..n - o - 1 /\ o + 1 + (i - (o + k)) = i - k + 1
          /\ ~(i <= o + k) /\ ~(i < o + 1) /\ ~(i < o + 1 + k)
      BY <1>1, <2>4
    <3> QED  BY <1>3, <2>1, <3>1
  <2> QED  BY <1>1, <2>2, <2>3, <2>4
<1> QED  BY <1>5, <1>6, <1>7 DEF ReplacesOnly, n, k

\* A function on 1..n is a list of length n.
LEMMA FunctionIsSeq ==
    ASSUME NEW S, NEW n \in Nat, NEW f \in [1..n -> S]
    PROVE  f \in Seq(S) /\ Len(f) = n
OBVIOUS

\* MemberSeq, of any tables.
MembersInOrder(g, its) ==
    [p \in 1..Cardinality(Members(g, its)) |->
        CHOOSE i \in Members(g, its) : MemberRank(i, its) = p - 1]

\* mem lists the cards M of a group in their order.
Listed(mem, M, its) ==
    /\ Cardinality(M) \in Nat
    /\ mem \in Seq(M) /\ Len(mem) = Cardinality(M)
    /\ \A p \in 1..Cardinality(M) : mem[p] \in M /\ MemberRank(mem[p], its) = p - 1
    /\ \A i \in M : \E p \in 1..Cardinality(M) : mem[p] = i

\* The cards of a group, in their order.
LEMMA MembersListed ==
    ASSUME NEW grs, NEW its, NEW C, Rows(grs, its, C), NEW g,
           NEW M, M = Members(g, its), NEW mem, mem = MembersInOrder(g, its)
    PROVE  Listed(mem, M, its)
<1> DEFINE n == Cardinality(M)
           its2 == NormalizedMembers({g}, its)
<1>1. IsFiniteSet(DOMAIN its) /\ DOMAIN its \subseteq Nat /\ ItemTable(its, C, DOMAIN grs)
  BY DEF Rows, FiniteTables
<1>2. n \in Nat
  BY <1>1, FS_Subset, FS_CardinalityType DEF Members
<1>3. DenseMembers(g, its2)
  <2>1. /\ Members(g, its2) = Members(g, its)
        /\ \A i \in Members(g, its) : its2[i].rowIndex = MemberRank(i, its)
    BY <1>1 DEF NormalizedMembers, Members, ItemTable
  <2> HIDE DEF its2
  <2> QED  BY <1>1, <2>1, RankedMembersDense
<1>4. {MemberRank(i, its) : i \in M} = 0..n - 1
  <2>1. /\ Members(g, its2) = M
        /\ \A i \in M : its2[i].rowIndex = MemberRank(i, its)
    BY <1>1 DEF NormalizedMembers, Members, ItemTable
  <2> HIDE DEF its2
  <2> QED  BY <1>3, <2>1 DEF DenseMembers
<1> HIDE DEF n
<1>5. \A p \in 1..n : mem[p] \in M /\ MemberRank(mem[p], its) = p - 1
  <2> SUFFICES ASSUME NEW p \in 1..n PROVE mem[p] \in M /\ MemberRank(mem[p], its) = p - 1
    OBVIOUS
  <2>1. p - 1 \in 0..n - 1
    BY <1>2
  <2>2. \E i \in M : MemberRank(i, its) = p - 1
    BY <1>4, <2>1
  <2>3. mem[p] = CHOOSE i \in M : MemberRank(i, its) = p - 1
    BY DEF MembersInOrder, n
  <2> QED  BY <2>2, <2>3
<1>6. \A i \in M : \E p \in 1..n : mem[p] = i
  <2> SUFFICES ASSUME NEW i \in M PROVE \E p \in 1..n : mem[p] = i
    OBVIOUS
  <2>1. MemberRank(i, its) \in 0..n - 1
    BY <1>4
  <2>2. PICK p \in 1..n : p - 1 = MemberRank(i, its)
    <3>1. ASSUME NEW x \in 0..n - 1 PROVE \E p \in 1..n : p - 1 = x
      <4>1. x + 1 \in 1..n /\ (x + 1) - 1 = x
        BY <1>2
      <4> QED  BY <4>1
    <3> QED  BY <2>1, <3>1
  <2>3. mem[p] \in M /\ MemberRank(mem[p], its) = MemberRank(i, its)
    BY <1>5, <2>2
  <2>4. mem[p] = i
    BY <1>1, <2>3, MemberRankInjective
  <2> QED  BY <2>4
<1>7. mem \in Seq(M) /\ Len(mem) = n
  <2>1. mem = [p \in 1..n |-> mem[p]]
    BY DEF MembersInOrder, n
  <2>2. mem \in [1..n -> M]
    BY <1>5, <2>1
  <2> QED  BY <1>2, <2>2, FunctionIsSeq
<1> QED  BY <1>2, <1>5, <1>6, <1>7 DEF n, Listed

\* The rank in S of every row that r lists is its place.
RankedAs(r, n, S, grs, its) ==
    /\ Cardinality(S) = n
    /\ \A p \in 1..n :
          /\ \A i : r[p] = <<"ITEM", i>> =>
                Rank(ItemEntry(i, its, UnmovedMarks(its)), S) = p - 1
          /\ \A h : r[p] = <<"GROUP", h>> =>
                Rank(GroupEntry(h, grs, UnmovedMarks(grs)), S) = p - 1

\* The entry lists of a column without the group g: the siblings that
\* deleteGroup reads, and the rank of each among them.
LEMMA SiblingsRanked ==
    ASSUME NEW grs, NEW its, NEW C, Rows(grs, its, C), NEW g \in DOMAIN grs,
           NEW c, RootUniqueAt(c, grs, its),
           NEW rest, rest = [h \in DOMAIN grs \ {g} |-> grs[h]],
           NEW S, S = RootEntries(c, rest, its, UnmovedMarks(grs), UnmovedMarks(its)),
           NEW n, NEW r, Lists(r, n, KeysIn(c, grs, its) \ {<<"GROUP", g>>}, grs, its)
    PROVE  RankedAs(r, n, S, grs, its)
<1> DEFINE gm == UnmovedMarks(grs)
           im == UnmovedMarks(its)
           entry(k) == EntryOf(k, grs, its, gm, im)
           K == KeysIn(c, grs, its) \ {<<"GROUP", g>>}
           x == [p \in 1..n |-> entry(r[p])]
<1>1. /\ n \in Nat
      /\ \A p \in 1..n : r[p] \in K
      /\ \A k \in K : \E p \in 1..n : r[p] = k
      /\ \A p, q \in 1..n : p < q => IndexIn(r[p], grs, its) < IndexIn(r[q], grs, its)
  BY DEF Lists
<1>2. /\ \A i : entry(<<"ITEM", i>>) = ItemEntry(i, its, im)
      /\ \A h : entry(<<"GROUP", h>>) = GroupEntry(h, grs, gm)
  BY DEF EntryOf
<1>3. GroupTable(rest, C) /\ GroupsOf(c, rest) = GroupsOf(c, grs) \ {g}
      /\ \A h \in GroupsOf(c, rest) : GroupEntry(h, rest, gm) = GroupEntry(h, grs, gm)
  BY DEF Rows, GroupTable, GroupsOf, GroupEntry
<1>4. IsFiniteSet(S) /\ Sortable(S)
  <2>1. DOMAIN rest \subseteq Nat /\ DOMAIN its \subseteq Nat
    BY DEF Rows
  <2>2. S = RootEntries(c, rest, its, UnmovedMarks(rest), UnmovedMarks(its))
    BY DEF RootEntries, GroupEntry, GroupsOf, UnmovedMarks
  <2>3. IsFiniteSet(DOMAIN rest)
    BY FS_RemoveElement DEF Rows, FiniteTables
  <2>4. Sortable(S)
    BY <1>3, <2>1, <2>2, PlainSortable DEF Rows
  <2>5. IsFiniteSet(S)
    BY <2>3, RootEntriesFinite DEF Rows, FiniteTables
  <2> QED  BY <2>4, <2>5
<1>5. /\ \A k \in K : \/ \E i \in RootItems(c, its) : k = <<"ITEM", i>>
                      \/ \E h \in GroupsOf(c, rest) : k = <<"GROUP", h>>
      /\ \A i \in RootItems(c, its) : <<"ITEM", i>> \in K
      /\ \A h \in GroupsOf(c, rest) : <<"GROUP", h>> \in K
  <2>1. /\ \A i : <<"ITEM", i>> \in KeysIn(c, grs, its) <=> i \in RootItems(c, its)
        /\ \A h : <<"GROUP", h>> \in KeysIn(c, grs, its) <=> h \in GroupsOf(c, grs)
        /\ \A k \in KeysIn(c, grs, its) :
              \/ \E i \in RootItems(c, its) : k = <<"ITEM", i>>
              \/ \E h \in GroupsOf(c, grs) : k = <<"GROUP", h>>
    BY KeysAreRows
  <2>2. \A i : <<"ITEM", i>> # <<"GROUP", g>>
    <3>1. "ITEM" # "GROUP"
      OBVIOUS
    <3> QED  BY <3>1
  <2> QED  BY <1>3, <2>1, <2>2
<1>6. S = {ItemEntry(i, its, im) : i \in RootItems(c, its)}
            \cup {GroupEntry(h, grs, gm) : h \in GroupsOf(c, rest)}
  BY <1>3 DEF RootEntries
<1>7. \A k \in K : /\ entry(k) \in S
                   /\ entry(k).index = IndexIn(k, grs, its)
  <2> SUFFICES ASSUME NEW k \in K
               PROVE  entry(k) \in S /\ entry(k).index = IndexIn(k, grs, its)
    OBVIOUS
  <2>1. CASE \E i \in RootItems(c, its) : k = <<"ITEM", i>>
    <3>1. PICK i \in RootItems(c, its) : k = <<"ITEM", i>>
      BY <2>1
    <3>2. ItemEntry(i, its, im).index = IndexIn(k, grs, its)
      BY <3>1 DEF IndexIn, ItemEntry
    <3> HIDE DEF entry
    <3> QED  BY <1>2, <1>6, <3>1, <3>2
  <2>2. CASE \E h \in GroupsOf(c, rest) : k = <<"GROUP", h>>
    <3>1. PICK h \in GroupsOf(c, rest) : k = <<"GROUP", h>>
      BY <2>2
    <3>2. GroupEntry(h, grs, gm).index = IndexIn(k, grs, its)
      BY <3>1 DEF IndexIn, GroupEntry
    <3> HIDE DEF entry
    <3> QED  BY <1>2, <1>6, <3>1, <3>2
  <2> HIDE DEF K
  <2> QED  BY <1>5, <2>1, <2>2
<1> HIDE DEF entry, K, gm, im
<1>8. \A e \in S : \E k \in K : entry(k) = e
  BY <1>2, <1>5, <1>6
<1>9. Ascending(x, n, S)
  <2>1. \A p \in 1..n : x[p] \in S
    BY <1>1, <1>7
  <2>2. \A e \in S : \E p \in 1..n : x[p] = e
    BY <1>1, <1>8
  <2>3. \A p, q \in 1..n : p < q => Precedes(x[p], x[q])
    BY <1>1, <1>7 DEF Precedes
  <2> QED  BY <2>1, <2>2, <2>3 DEF Ascending
<1> HIDE DEF x
<1>10. RankedBy(x, n, S)
  BY <1>1, <1>4, <1>9, RankInList
<1>11. \A p \in 1..n : Rank(x[p], S) = p - 1 /\ x[p] = entry(r[p])
  BY <1>10 DEF x, RankedBy
<1>12. Cardinality(S) = n
  BY <1>10 DEF RankedBy
<1> QED  BY <1>2, <1>11, <1>12 DEF gm, im, RankedAs

\* WithMembersFor, of any tables.
WithMembersIn(g, s, grs, its) ==
    LET freed == [p \in DOMAIN MembersInOrder(g, its) |-> <<"ITEM", MembersInOrder(g, its)[p]>>]
    IN  SubSeq(s, 1, grs[g].orderIndex) \o freed \o SubSeq(s, grs[g].orderIndex + 2, Len(s))

\* In the column of a deleted group every entry gets the index of its place in
\* the list in which the cards of the group stand in its place.
LEMMA UngroupLists ==
    ASSUME NEW grs, NEW its, NEW C, Rows(grs, its, C), NEW g \in DOMAIN grs,
           NEW c, c = grs[g].columnId, RootUniqueAt(c, grs, its), Shared(grs, its),
           DenseIn(c, grs, its),
           NEW u, u = Ungrouped(g, grs[g], grs, its)
    PROVE  \E n : Lists(WithMembersIn(g, SeqIn(KeysIn(c, grs, its), grs, its), grs, its), n,
                        KeysIn(c, u.groups, u.items), u.groups, u.items)
<1> DEFINE K == KeysIn(c, grs, its)
           K2 == KeysIn(c, u.groups, u.items)
           kg == <<"GROUP", g>>
           s == SeqIn(K, grs, its)
           r == Without(s, kg)
           n == Cardinality(K)
           o == grs[g].orderIndex
           M == Members(g, its)
           size == Cardinality(M)
           mem == MembersInOrder(g, its)
           freed == [p \in DOMAIN mem |-> <<"ITEM", mem[p]>>]
           t == WithMembersIn(g, s, grs, its)
           rest == [h \in DOMAIN grs \ {g} |-> grs[h]]
           S == RootEntries(c, rest, its, UnmovedMarks(grs), UnmovedMarks(its))
           insertAt == UngroupAt(grs[g], S)
           place(x) == IF x < insertAt THEN x ELSE x + size
<1>1. Indexed(K, grs, its)
  BY IndexedKeys DEF Rows
<1>2. Lists(s, n, K, grs, its)
  BY <1>1, SeqLists
<1>3. kg \in K /\ IndexIn(kg, grs, its) = o /\ o \in Nat
  <2>1. g \in GroupsOf(c, grs)
    BY DEF GroupsOf
  <2>2. o \in Nat
    BY DEF Rows, GroupTable
  <2> QED  BY <2>1, <2>2, KeysAreRows
<1>4. NumberedKeys(K, grs, its)
  BY RootIndexesOfKeys DEF DenseIn, NumberedKeys
<1> HIDE DEF K, n, s, r
<1>5. /\ n \in Nat /\ s \in Seq(K) /\ Len(s) = n
      /\ \A p \in 1..n : s[p] \in K /\ IndexIn(s[p], grs, its) = p - 1
      /\ \A k \in K : \E p \in 1..n : s[p] = k
  <2>1. \A p \in 1..n : IndexIn(s[p], grs, its) = p - 1
    BY <1>1, <1>2, <1>4, DenseList
  <2> QED  BY <1>2, <2>1 DEF Lists
<1>6. o + 1 \in 1..n /\ s[o + 1] = kg /\ o \in 0..n - 1
  <2>1. PICK p \in 1..n : s[p] = kg
    BY <1>3, <1>5
  <2>2. o = p - 1
    BY <1>3, <1>5, <2>1
  <2> QED  BY <1>5, <2>1, <2>2
<1>7. LacksOnly(r, s, o + 1) /\ Lists(r, n - 1, K \ {kg}, grs, its)
  <2>1. /\ LacksOnly(Without(s, s[o + 1]), s, o + 1)
        /\ Lists(Without(s, s[o + 1]), n - 1, K \ {s[o + 1]}, grs, its)
    BY <1>1, <1>2, <1>6, ListWithout
  <2> QED  BY <1>6, <2>1 DEF r
<1>8. RankedAs(r, n - 1, S, grs, its)
  <2> DEFINE rr == rest
             SS == S
  <2>1. rr = [h \in DOMAIN grs \ {g} |-> grs[h]]
    OBVIOUS
  <2>2. SS = RootEntries(c, rr, its, UnmovedMarks(grs), UnmovedMarks(its))
    OBVIOUS
  <2>3. Lists(r, n - 1, KeysIn(c, grs, its) \ {<<"GROUP", g>>}, grs, its)
    BY <1>7 DEF K
  <2> HIDE DEF rr, SS
  <2>4. RankedAs(r, n - 1, SS, grs, its)
    BY <2>1, <2>2, <2>3, SiblingsRanked
  <2> QED  BY <2>4 DEF SS, rr
<1>9. /\ size \in Nat
      /\ mem \in Seq(M) /\ Len(mem) = size
      /\ \A p \in 1..size : mem[p] \in M /\ MemberRank(mem[p], its) = p - 1
      /\ \A i \in M : \E p \in 1..size : mem[p] = i
  <2>1. M = Members(g, its) /\ mem = MembersInOrder(g, its)
    OBVIOUS
  <2> HIDE DEF M, mem
  <2>2. Listed(mem, M, its)
    BY <2>1, MembersListed
  <2> QED  BY <2>2 DEF Listed
<1>10. insertAt = o
  <2> HIDE DEF S
  <2> QED  BY <1>5, <1>6, <1>8 DEF UngroupAt, RankedAs
<1>11. /\ u.groups = [h \in DOMAIN grs \ {g} |->
            IF grs[h].columnId = c
            THEN [grs[h] EXCEPT !.orderIndex =
                    place(Rank(GroupEntry(h, grs, UnmovedMarks(grs)), S))]
            ELSE grs[h]]
       /\ u.items = [i \in DOMAIN its |->
            IF its[i].groupId = g
            THEN [its[i] EXCEPT !.groupId = NoGroup,
                                !.rowIndex = insertAt + MemberRank(i, its)]
            ELSE IF i \in RootItems(c, its)
            THEN [its[i] EXCEPT !.rowIndex =
                    place(Rank(ItemEntry(i, its, UnmovedMarks(its)), S))]
            ELSE its[i]]
  BY DEF Ungrouped
<1>12. /\ g # NoGroup
       /\ \A h \in DOMAIN grs : grs[h] \in [columnId : C, orderIndex : Nat]
       /\ \A i \in DOMAIN its :
            its[i] \in [columnId : C, groupId : {NoGroup} \cup DOMAIN grs, rowIndex : Nat]
       /\ \A i \in M : i \in DOMAIN its /\ its[i].groupId = g /\ its[i].columnId = c
  BY DEF Rows, NoGroup, GroupTable, ItemTable, Shared, Members
<1> HIDE DEF S, size, M, mem, insertAt, place
<1>13. /\ GroupsOf(c, u.groups) = GroupsOf(c, grs) \ {g}
       /\ \A h \in GroupsOf(c, grs) \ {g} : u.groups[h].orderIndex =
                place(Rank(GroupEntry(h, grs, UnmovedMarks(grs)), S))
  <2>1. ASSUME NEW h \in GroupsOf(c, grs) \ {g}
        PROVE  /\ h \in DOMAIN grs \ {g}
               /\ u.groups[h].columnId = c
               /\ u.groups[h].orderIndex =
                    place(Rank(GroupEntry(h, grs, UnmovedMarks(grs)), S))
    <3>1. h \in DOMAIN grs \ {g} /\ grs[h].columnId = c
      BY DEF GroupsOf
    <3>2. u.groups[h] = [grs[h] EXCEPT !.orderIndex =
                            place(Rank(GroupEntry(h, grs, UnmovedMarks(grs)), S))]
      BY <1>11, <3>1
    <3> QED  BY <1>12, <3>1, <3>2
  <2>2. DOMAIN u.groups = DOMAIN grs \ {g}
    BY <1>11
  <2>3. ASSUME NEW h \in DOMAIN grs \ {g}, grs[h].columnId # c
        PROVE  u.groups[h] = grs[h]
    BY <1>11, <2>3
  <2>4. \A h : h \in GroupsOf(c, u.groups) <=> h \in GroupsOf(c, grs) \ {g}
    BY <2>1, <2>2, <2>3 DEF GroupsOf
  <2> QED  BY <2>1, <2>4
<1>14. /\ RootItems(c, u.items) = RootItems(c, its) \cup M
       /\ \A i \in M : u.items[i].rowIndex = insertAt + MemberRank(i, its)
       /\ \A i \in RootItems(c, its) : u.items[i].rowIndex =
                place(Rank(ItemEntry(i, its, UnmovedMarks(its)), S))
  <2>1. ASSUME NEW i \in DOMAIN its, its[i].groupId = g
        PROVE  i \in M /\ u.items[i].columnId = c /\ u.items[i].groupId = NoGroup
               /\ u.items[i].rowIndex = insertAt + MemberRank(i, its)
    <3>1. i \in M
      BY <2>1 DEF M, Members
    <3>2. u.items[i] = [its[i] EXCEPT !.groupId = NoGroup,
                                      !.rowIndex = insertAt + MemberRank(i, its)]
      BY <1>11, <2>1
    <3> QED  BY <1>12, <3>1, <3>2
  <2>2. ASSUME NEW i \in RootItems(c, its)
        PROVE  /\ i \in DOMAIN its /\ its[i].groupId # g
               /\ u.items[i].columnId = c /\ u.items[i].groupId = NoGroup
               /\ u.items[i].rowIndex = place(Rank(ItemEntry(i, its, UnmovedMarks(its)), S))
    <3>1. i \in DOMAIN its /\ its[i].columnId = c /\ its[i].groupId = NoGroup
      BY DEF RootItems
    <3>2. u.items[i] = [its[i] EXCEPT !.rowIndex =
                            place(Rank(ItemEntry(i, its, UnmovedMarks(its)), S))]
      BY <1>11, <1>12, <3>1
    <3> QED  BY <1>12, <3>1, <3>2
  <2>3. ASSUME NEW i \in DOMAIN its, its[i].groupId # g, i \notin RootItems(c, its)
        PROVE  u.items[i] = its[i]
    BY <1>11, <2>3
  <2>4. DOMAIN u.items = DOMAIN its
    BY <1>11
  <2>5. \A i : i \in RootItems(c, u.items) <=> i \in RootItems(c, its) \/ i \in M
    BY <1>12, <2>1, <2>2, <2>3, <2>4 DEF RootItems
  <2> QED  BY <1>12, <2>1, <2>2, <2>5
<1>15. /\ \A i : <<"ITEM", i>> \in K2 <=> i \in RootItems(c, its) \/ i \in M
       /\ \A h : <<"GROUP", h>> \in K2 <=> h \in GroupsOf(c, grs) /\ h # g
       /\ \A k \in K2 : \/ \E i \in RootItems(c, its) : k = <<"ITEM", i>>
                        \/ \E i \in M : k = <<"ITEM", i>>
                        \/ \E h \in GroupsOf(c, grs) \ {g} : k = <<"GROUP", h>>
  <2>1. /\ \A i : <<"ITEM", i>> \in K2 <=> i \in RootItems(c, u.items)
        /\ \A h : <<"GROUP", h>> \in K2 <=> h \in GroupsOf(c, u.groups)
        /\ \A k \in K2 : \/ \E i \in RootItems(c, u.items) : k = <<"ITEM", i>>
                         \/ \E h \in GroupsOf(c, u.groups) : k = <<"GROUP", h>>
    BY KeysAreRows
  <2> HIDE DEF K2
  <2> QED  BY <1>13, <1>14, <2>1
<1>16. /\ \A k \in K \ {kg} : \/ \E i \in RootItems(c, its) : k = <<"ITEM", i>>
                              \/ \E h \in GroupsOf(c, grs) \ {g} : k = <<"GROUP", h>>
       /\ \A i \in RootItems(c, its) : <<"ITEM", i>> \in K \ {kg}
       /\ \A h \in GroupsOf(c, grs) \ {g} : <<"GROUP", h>> \in K \ {kg}
  <2>1. /\ \A i : <<"ITEM", i>> \in K <=> i \in RootItems(c, its)
        /\ \A h : <<"GROUP", h>> \in K <=> h \in GroupsOf(c, grs)
        /\ \A k \in K : \/ \E i \in RootItems(c, its) : k = <<"ITEM", i>>
                        \/ \E h \in GroupsOf(c, grs) : k = <<"GROUP", h>>
    BY KeysAreRows DEF K
  <2>2. \A i : <<"ITEM", i>> # kg
    <3>1. "ITEM" # "GROUP"
      OBVIOUS
    <3> QED  BY <3>1
  <2>3. \A h : <<"GROUP", h>> = kg => h = g
    OBVIOUS
  <2> QED  BY <2>1, <2>2, <2>3
<1> HIDE DEF K2, kg
<1>17. ASSUME NEW p \in 1..n - 1
       PROVE  /\ r[p] \in K2
              /\ IndexIn(r[p], u.groups, u.items) = place(p - 1)
  <2>1. r[p] \in K \ {kg}
    BY <1>7 DEF Lists
  <2>2. CASE \E i \in RootItems(c, its) : r[p] = <<"ITEM", i>>
    <3>1. PICK i \in RootItems(c, its) : r[p] = <<"ITEM", i>>
      BY <2>2
    <3>2. IndexIn(r[p], u.groups, u.items) = u.items[i].rowIndex
      BY <3>1 DEF IndexIn
    <3>3. Rank(ItemEntry(i, its, UnmovedMarks(its)), S) = p - 1
      BY <1>8, <3>1 DEF RankedAs
    <3> QED  BY <1>14, <1>15, <3>1, <3>2, <3>3
  <2>3. CASE \E h \in GroupsOf(c, grs) \ {g} : r[p] = <<"GROUP", h>>
    <3>1. PICK h \in GroupsOf(c, grs) \ {g} : r[p] = <<"GROUP", h>>
      BY <2>3
    <3>2. IndexIn(r[p], u.groups, u.items) = u.groups[h].orderIndex
      BY <3>1 DEF IndexIn
    <3>3. Rank(GroupEntry(h, grs, UnmovedMarks(grs)), S) = p - 1
      BY <1>8, <3>1 DEF RankedAs
    <3> QED  BY <1>13, <1>15, <3>1, <3>2, <3>3
  <2> QED  BY <1>16, <2>1, <2>2, <2>3
<1>18. freed \in Seq(K2) /\ Len(freed) = size
       /\ \A p \in 1..size : /\ freed[p] = <<"ITEM", mem[p]>>
                             /\ IndexIn(freed[p], u.groups, u.items) = o + p - 1
  <2>1. DOMAIN mem = 1..size
    BY <1>9
  <2>2. \A p \in 1..size : freed[p] = <<"ITEM", mem[p]>> /\ freed[p] \in K2
    BY <1>9, <1>15, <2>1
  <2>3. freed \in [1..size -> K2]
    BY <2>1, <2>2
  <2>4. freed \in Seq(K2) /\ Len(freed) = size
    BY <1>9, <2>3, FunctionIsSeq
  <2> HIDE DEF freed
  <2>5. ASSUME NEW p \in 1..size PROVE IndexIn(freed[p], u.groups, u.items) = o + p - 1
    <3>1. IndexIn(freed[p], u.groups, u.items) = u.items[mem[p]].rowIndex
      BY <2>2 DEF IndexIn
    <3>2. u.items[mem[p]].rowIndex = o + (p - 1)
      BY <1>9, <1>10, <1>14
    <3> QED  BY <1>3, <3>1, <3>2
  <2> QED  BY <2>2, <2>4, <2>5
<1>19. t = SubSeq(s, 1, o) \o freed \o SubSeq(s, o + 2, Len(s))
  BY DEF WithMembersIn, mem
<1> HIDE DEF t, freed
<1>20. t \in Seq(K \cup K2) /\ ReplacesOnly(t, s, o + 1, freed)
  <2>1. s \in Seq(K \cup K2) /\ freed \in Seq(K \cup K2) /\ o \in 0..Len(s) - 1
    BY <1>5, <1>6, <1>18
  <2> QED  BY <1>19, <2>1, Replaced
<1> DEFINE n2 == n - 1 + size
<1> HIDE DEF o
<1>21. n2 \in Nat /\ Len(t) = n2
  BY <1>5, <1>6, <1>9, <1>18, <1>20 DEF ReplacesOnly
<1>22. \A p \in 1..n - 1 : r[p] = IF p < o + 1 THEN s[p] ELSE s[p + 1]
  BY <1>5, <1>7 DEF LacksOnly
<1>23. \A p \in 1..n2 : t[p] = IF p < o + 1 THEN s[p]
                               ELSE IF p < o + 1 + size THEN freed[p - (o + 1) + 1]
                               ELSE s[p - size + 1]
  BY <1>5, <1>18, <1>20 DEF ReplacesOnly
<1>24. \A p \in 1..n2 : p >= o + 1 /\ p < o + 1 + size =>
            /\ p - (o + 1) + 1 \in 1..size /\ o + (p - (o + 1) + 1) - 1 = p - 1
            /\ ~(p < o + 1)
  <2>1. \A a, b \in Nat : \A p \in Int : p >= a + 1 /\ p < a + 1 + b =>
            /\ p - (a + 1) + 1 \in 1..b /\ a + (p - (a + 1) + 1) - 1 = p - 1
            /\ ~(p < a + 1)
    OBVIOUS
  <2> HIDE DEF n2
  <2> QED  BY <1>3, <1>9, <2>1
<1>25. \A q \in 1..size :
            /\ o + q \in 1..n2 /\ ~(o + q < o + 1) /\ o + q < o + 1 + size
            /\ (o + q) - (o + 1) + 1 = q
  <2>1. \A m, a, b \in Nat : a <= m - 1 => \A q \in 1..b :
            /\ a + q \in 1..m - 1 + b /\ ~(a + q < a + 1) /\ a + q < a + 1 + b
            /\ (a + q) - (a + 1) + 1 = q
    OBVIOUS
  <2>2. o <= n - 1
    BY <1>6
  <2> QED  BY <1>3, <1>5, <1>9, <2>1, <2>2
<1>26. ASSUME NEW p \in 1..n2
       PROVE  t[p] \in K2 /\ IndexIn(t[p], u.groups, u.items) = p - 1
  <2>1. CASE p < o + 1
    <3>1. p \in 1..n - 1 /\ p - 1 < o
      BY <1>5, <1>6, <2>1
    <3>2. t[p] = s[p] /\ r[p] = s[p]
      BY <1>22, <1>23, <2>1, <3>1
    <3>3. place(p - 1) = p - 1
      BY <1>10, <3>1 DEF place
    <3>4. r[p] \in K2 /\ IndexIn(r[p], u.groups, u.items) = place(p - 1)
      BY <1>17, <3>1
    <3> QED  BY <3>2, <3>3, <3>4
  <2>2. CASE p >= o + 1 /\ p < o + 1 + size
    <3>1. /\ p - (o + 1) + 1 \in 1..size /\ o + (p - (o + 1) + 1) - 1 = p - 1
          /\ ~(p < o + 1)
      BY <1>24, <2>2
    <3>2. t[p] = freed[p - (o + 1) + 1]
      BY <1>23, <2>2, <3>1
    <3>3. freed[p - (o + 1) + 1] \in K2
      BY <1>18, <3>1
    <3> QED  BY <1>18, <3>1, <3>2, <3>3
  <2>3. CASE p >= o + 1 + size
    <3>1. /\ p - size \in 1..n - 1 /\ ~(p - size < o + 1) /\ ~(p - size - 1 < o)
          /\ p - size - 1 + size = p - 1
          /\ ~(p < o + 1) /\ ~(p < o + 1 + size)
      BY <1>3, <1>5, <1>9, <2>3
    <3>2. t[p] = s[p - size + 1] /\ r[p - size] = s[p - size + 1]
      BY <1>22, <1>23, <3>1
    <3>3. place(p - size - 1) = p - 1
      BY <1>10, <3>1 DEF place
    <3>4. /\ r[p - size] \in K2
          /\ IndexIn(r[p - size], u.groups, u.items) = place(p - size - 1)
      BY <1>17, <3>1
    <3> QED  BY <3>2, <3>3, <3>4
  <2> QED  BY <1>3, <1>9, <2>1, <2>2, <2>3
<1>27. \A k \in K2 : \E p \in 1..n2 : t[p] = k
  <2> SUFFICES ASSUME NEW k \in K2 PROVE \E p \in 1..n2 : t[p] = k
    OBVIOUS
  <2>1. CASE k \in K \ {kg}
    <3>1. PICK q \in 1..n - 1 : r[q] = k
      BY <1>7, <2>1 DEF Lists
    <3>2. CASE q < o + 1
      <4>1. q \in 1..n2
        BY <1>5, <1>9
      <4> QED  BY <1>22, <1>23, <3>1, <3>2, <4>1
    <3>3. CASE q >= o + 1
      <4>1. /\ q + size \in 1..n2 /\ ~(q + size < o + 1) /\ ~(q + size < o + 1 + size)
            /\ (q + size) - size + 1 = q + 1 /\ ~(q < o + 1)
        BY <1>3, <1>5, <1>9, <3>3
      <4>2. t[q + size] = k
        BY <1>22, <1>23, <3>1, <4>1
      <4> QED  BY <4>1, <4>2
    <3> QED  BY <1>3, <1>5, <3>2, <3>3
  <2>2. CASE \E i \in M : k = <<"ITEM", i>>
    <3>1. PICK i \in M : k = <<"ITEM", i>>
      BY <2>2
    <3>2. PICK q \in 1..size : mem[q] = i
      BY <1>9
    <3>3. /\ o + q \in 1..n2 /\ ~(o + q < o + 1) /\ o + q < o + 1 + size
          /\ (o + q) - (o + 1) + 1 = q
      BY <1>25
    <3>4. t[o + q] = freed[q]
      BY <1>23, <3>3
    <3> QED  BY <1>18, <3>1, <3>2, <3>3, <3>4
  <2> QED  BY <1>15, <1>16, <2>1, <2>2
<1>28. t \in Seq(K2)
  <2>1. t = [p \in 1..n2 |-> t[p]]
    BY <1>20, <1>21
  <2>2. t \in [1..n2 -> K2]
    BY <1>26, <2>1
  <2> QED  BY <1>21, <2>2, FunctionIsSeq
<1>29. \A p, q \in 1..n2 : p < q =>
            IndexIn(t[p], u.groups, u.items) < IndexIn(t[q], u.groups, u.items)
  <2> HIDE DEF n2
  <2> QED  BY <1>21, <1>26
<1>30. Lists(t, n2, K2, u.groups, u.items)
  <2> HIDE DEF n2
  <2> QED  BY <1>21, <1>27, <1>28, <1>29 DEF Lists
<1> QED  BY <1>30 DEF t, s, K, K2

\* deleteGroup leaves the cards of the group in its place.
LEMMA DeletionInPlace ==
    ASSUME NEW grs, NEW its, NEW C, Rows(grs, its, C), NEW g \in DOMAIN grs,
           \A c \in C : RootUniqueAt(c, grs, its),
           Shared(grs, its), \A h \in DOMAIN grs : MembersUnique(h, its),
           NEW c, c = grs[g].columnId, DenseIn(c, grs, its),
           NEW after, after = GroupDeletion(g, grs[g], grs, its)
    PROVE  SeqIn(KeysIn(c, after.groups, after.items), after.groups, after.items)
             = WithMembersIn(g, SeqIn(KeysIn(c, grs, its), grs, its), grs, its)
<1> DEFINE u == Ungrouped(g, grs[g], grs, its)
           K2 == KeysIn(c, u.groups, u.items)
           s == SeqIn(KeysIn(c, grs, its), grs, its)
           t == WithMembersIn(g, s, grs, its)
<1>1. c \in C
  BY DEF Rows, GroupTable
<1>2. /\ DOMAIN u.groups = DOMAIN grs \ {g}
      /\ GroupTable(u.groups, C)
      /\ DOMAIN u.items = DOMAIN its
      /\ ItemTable(u.items, C, DOMAIN grs \ {g})
  BY UngroupedType DEF Rows, GroupTable
<1>3. PICK n : Lists(t, n, K2, u.groups, u.items)
  <2>1. u = Ungrouped(g, grs[g], grs, its)
    OBVIOUS
  <2> HIDE DEF u
  <2>2. \E n : Lists(WithMembersIn(g, SeqIn(KeysIn(c, grs, its), grs, its), grs, its), n,
                     KeysIn(c, u.groups, u.items), u.groups, u.items)
    BY <1>1, <2>1, UngroupLists
  <2> QED  BY <2>2
<1>4. after = NormalizedRoots({c}, u.groups, u.items,
                              UnmovedMarks(u.groups), UnmovedMarks(u.items))
  BY DEF GroupDeletion
<1> HIDE DEF u, t
<1>5. FiniteTables(u.groups, u.items)
  BY <1>2, FS_RemoveElement DEF Rows, FiniteTables
<1>6. Sortable(RootEntries(c, u.groups, u.items,
                           UnmovedMarks(u.groups), UnmovedMarks(u.items)))
  <2>1. DOMAIN u.groups \subseteq Nat /\ DOMAIN u.items \subseteq Nat
    BY <1>2 DEF Rows
  <2> QED  BY <1>2, <2>1, PlainSortable
<1>7. /\ KeysIn(c, after.groups, after.items) = K2
      /\ SameOrder(K2, u.groups, u.items, after.groups, after.items)
  BY <1>2, <1>4, <1>5, <1>6, NormalizedStays
<1>8. RootUniqueAt(c, after.groups, after.items)
  BY <1>1, GroupDeletionKeepsOrder
<1>9. /\ FiniteTables(after.groups, after.items)
      /\ GroupTable(after.groups, C)
      /\ ItemTable(after.items, C, DOMAIN grs \ {g})
  <2>1. WithoutGroup(g, after, grs, its, C)
    BY GroupDeletionType DEF Rows, GroupTable
  <2> QED  BY <2>1, FS_RemoveElement DEF WithoutGroup, Rows, FiniteTables
<1>10. Indexed(K2, after.groups, after.items)
  BY <1>7, <1>8, <1>9, IndexedKeys
<1> HIDE DEF K2
<1>11. Lists(t, n, K2, after.groups, after.items)
  BY <1>3, <1>7, ListKept
<1>12. t = SeqIn(K2, after.groups, after.items)
  BY <1>10, <1>11, ListIsSeq
<1> QED  BY <1>7, <1>12 DEF t

LEMMA DeleteGroupInPlace ==
    ASSUME LayoutInvariant, NEW g \in DOMAIN groups, DeleteGroup(g),
           NEW c, c = groups[g].columnId, RootDense(c)
    PROVE  RootSeq(c)' = WithMembersFor(g, RootSeq(c))
<1> DEFINE after == GroupDeletion(g, groups[g], groups, items)
           s == RootSeq(c)
<1>1. groups' = after.groups /\ items' = after.items
  BY DEF DeleteGroup
<1>2. /\ Rows(groups, items, DOMAIN columns)
      /\ \A x \in DOMAIN columns : RootUniqueAt(x, groups, items)
      /\ Shared(groups, items)
      /\ \A h \in DOMAIN groups : MembersUnique(h, items)
  BY RowsOK, LayoutTables DEF LayoutInvariant
<1>3. DenseIn(c, groups, items)
  BY RootDenseIs
<1>4. SeqIn(KeysIn(c, after.groups, after.items), after.groups, after.items)
        = WithMembersIn(g, SeqIn(KeysIn(c, groups, items), groups, items), groups, items)
  BY <1>2, <1>3, DeletionInPlace
<1> HIDE DEF after
<1>5. RootSeq(c)' = SeqIn(KeysIn(c, groups', items'), groups', items')
  BY DEF RootSeq, SeqIn, RootKeys, KeysIn, IndexOf, IndexIn, RootItems, GroupsOf
<1>6. s = SeqIn(KeysIn(c, groups, items), groups, items)
  BY RootSeqIs
<1> HIDE DEF s
<1>7. WithMembersIn(g, s, groups, items) = WithMembersFor(g, s)
  BY DEF WithMembersIn, WithMembersFor, MembersInOrder, MemberSeq
<1> QED  BY <1>1, <1>4, <1>5, <1>6, <1>7 DEF s

\* Only deleteGroup removes a group and leaves its column.
LEMMA GroupGoesAlone ==
    ASSUME TypeOK, Next, NEW g \in DOMAIN groups \ DOMAIN groups',
           groups[g].columnId \in DOMAIN columns'
    PROVE  DeleteGroup(g)
<1>1. ASSUME NEW h \in DOMAIN groups, DeleteGroup(h)
      PROVE  h = g
  <2> DEFINE u == Ungrouped(h, groups[h], groups, items)
  <2>1. DOMAIN u.groups = DOMAIN groups \ {h}
    BY DEF Ungrouped
  <2>2. groups' = NormalizedRoots({groups[h].columnId}, u.groups, u.items,
                                  UnmovedMarks(u.groups), UnmovedMarks(u.items)).groups
    BY <1>1 DEF DeleteGroup, GroupDeletion
  <2> HIDE DEF u
  <2>3. DOMAIN groups' = DOMAIN u.groups
    BY <2>2 DEF NormalizedRoots
  <2> QED  BY <2>1, <2>3
<1>2. ASSUME NEW c \in DOMAIN columns, DeleteColumn(c)
      PROVE  FALSE
  <2>1. /\ c \notin DOMAIN columns'
        /\ DOMAIN groups' = DOMAIN groups \ GroupsOf(c, groups)
    BY <1>2 DEF DeleteColumn, ColumnsWithout, GroupsWithoutColumn
  <2> QED  BY <2>1 DEF GroupsOf
<1>3. ASSUME DOMAIN groups \subseteq DOMAIN groups'
      PROVE  FALSE
  BY <1>3
<1>4. CASE CreateBoard \/ (\E b : CreateColumn(b)) \/ (\E c : CreateGroup(c))
             \/ (\E b, old, new : ReorderColumns(b, old, new)) \/ (\E i : DeleteItem(i))
  <2>1. DOMAIN groups \subseteq DOMAIN groups'
    BY <1>4 DEF CreateBoard, CreateColumn, CreateGroup, ReorderColumns, DeleteItem
  <2> QED  BY <1>3, <2>1
<1>5. CASE \E c, h : AddItemToColumn(c, h)
  <2>1. DOMAIN groups' = DOMAIN groups
    BY <1>5 DEF AddItemToColumn, GroupsBelowNewItem
  <2> QED  BY <1>3, <2>1
<1>6. CASE \E ch : SyncItemPositions(ch)
  <2>1. PICK ch : SyncItemPositions(ch)
    BY <1>6
  <2>2. DOMAIN groups' = DOMAIN groups
    BY <2>1 DEF SyncItemPositions, ItemSync, NormalizedRoots
  <2> QED  BY <1>3, <2>2
<1>7. CASE \E ch : SyncGroupPositions(ch)
  <2>1. PICK ch : SyncGroupPositions(ch)
    BY <1>7
  <2>2. DOMAIN groups' = DOMAIN groups
    BY <2>1 DEF SyncGroupPositions, GroupSync, NormalizedRoots, WrittenGroups
  <2> QED  BY <1>3, <2>2
<1>8. CASE \E h \in DOMAIN groups : DeleteGroup(h)
  BY <1>1, <1>8
<1>9. CASE \E c \in DOMAIN columns : DeleteColumn(c)
  BY <1>2, <1>9
<1> QED  BY <1>4, <1>5, <1>6, <1>7, <1>8, <1>9 DEF Next

\* If no request names a group twice, then deleteGroup leaves the cards of the
\* group, in their order, in the place where the group stood, between the
\* entries that were above it and those that were below it, when the column
\* had no gaps.
THEOREM UngroupInPlace ==
    ASSUME ~RepeatedGroups
    PROVE  Spec => UngroupKeepsPlace
<1>1. LayoutInvariant /\ [Next]_vars =>
        [\A g \in DOMAIN groups \ DOMAIN groups' : \A c \in DOMAIN columns' :
            /\ c = groups[g].columnId
            /\ RootDense(c)
            => RootSeq(c)' = WithMembersFor(g, RootSeq(c))]_vars
  <2> SUFFICES ASSUME LayoutInvariant, Next,
                      NEW g \in DOMAIN groups \ DOMAIN groups', NEW c \in DOMAIN columns',
                      c = groups[g].columnId, RootDense(c)
               PROVE  RootSeq(c)' = WithMembersFor(g, RootSeq(c))
    OBVIOUS
  <2>1. DeleteGroup(g)
    BY GroupGoesAlone DEF LayoutInvariant
  <2> QED  BY <2>1, DeleteGroupInPlace
<1> QED  BY <1>1, LayoutInductive, PTL DEF Spec, UngroupKeepsPlace

-----------------------------------------------------------------------------
(* reorderColumns, on a list of columns.                                   *)

\* Taking the element at oldIndex out of a list and putting it back at newIndex.
LEMMA SpliceProperty ==
    ASSUME NEW S, NEW s \in Seq(S), NEW old \in 0..Len(s) - 1, NEW new \in 0..Len(s) - 1,
           NEW t, t = SplicedColumns(s, old, new)
    PROVE  /\ t \in Seq(S)
           /\ Len(t) = Len(s)
           /\ \A p \in 1..Len(s) :
                t[p] = IF p = new + 1 THEN s[old + 1]
                       ELSE IF old < p /\ p <= new THEN s[p + 1]
                       ELSE IF new < p /\ p <= old + 1 THEN s[p - 1]
                       ELSE s[p]
<1> DEFINE n == Len(s)
           e == s[old + 1]
           r == RemoveAt(s, old + 1)
<1>1. n \in Nat /\ old \in Nat /\ new \in Nat /\ old + 1 \in 1..n /\ new + 1 \in 1..n /\ e \in S
  OBVIOUS
<1>2. r \in Seq(S) /\ LacksOnly(r, s, old + 1)
  BY <1>1, RemovedAt
<1>3. t = InsertAt(r, new + 1, e)
  BY DEF SplicedColumns
<1> HIDE DEF r, e
<1>4. Len(r) = n - 1 /\ \A i \in 1..n - 1 : r[i] = IF i < old + 1 THEN s[i] ELSE s[i + 1]
  BY <1>2 DEF LacksOnly
<1> HIDE DEF n
<1>5. t \in Seq(S) /\ AddsOnly(t, r, new + 1, e)
  <2>1. new + 1 \in 1..Len(r) + 1
    BY <1>1, <1>4
  <2> QED  BY <1>1, <1>2, <1>3, <2>1, InsertedAt
<1>6. Len(t) = n /\ \A i \in 1..n : t[i] = IF i < new + 1 THEN r[i]
                                           ELSE IF i = new + 1 THEN e ELSE r[i - 1]
  <2>1. Len(r) + 1 = n
    BY <1>1, <1>4
  <2> QED  BY <1>5, <2>1 DEF AddsOnly
<1>7. ASSUME NEW p \in 1..n
      PROVE  t[p] = IF p = new + 1 THEN e
                    ELSE IF old < p /\ p <= new THEN s[p + 1]
                    ELSE IF new < p /\ p <= old + 1 THEN s[p - 1]
                    ELSE s[p]
  <2>1. CASE p <= new
    <3>1. p \in 1..n - 1 /\ p < new + 1
      BY <1>1, <2>1
    <3>2. t[p] = r[p] /\ r[p] = IF p < old + 1 THEN s[p] ELSE s[p + 1]
      BY <1>4, <1>6, <3>1
    <3> QED  BY <1>1, <2>1, <3>2
  <2>2. CASE p = new + 1
    BY <1>1, <1>6, <2>2
  <2>3. CASE p > new + 1
    <3>1. p - 1 \in 1..n - 1 /\ (p - 1) + 1 = p /\ ~(p < new + 1) /\ p # new + 1
      BY <1>1, <2>3
    <3>2. t[p] = r[p - 1] /\ r[p - 1] = IF p - 1 < old + 1 THEN s[p - 1] ELSE s[p]
      BY <1>4, <1>6, <3>1
    <3> QED  BY <1>1, <2>3, <3>2
  <2> QED  BY <1>1, <2>1, <2>2, <2>3
<1> QED  BY <1>5, <1>6, <1>7 DEF n, e

-----------------------------------------------------------------------------
(* Transactions: rows written and not yet committed.                       *)

LEMMA OverRows ==
    ASSUME NEW new, NEW rows
    PROVE  /\ DOMAIN Over(new, rows) = DOMAIN new \cup DOMAIN rows
           /\ \A x \in DOMAIN new : Over(new, rows)[x] = new[x]
           /\ \A x \in DOMAIN rows \ DOMAIN new : Over(new, rows)[x] = rows[x]
BY DEF Over

LEMMA SeenRows ==
    ASSUME NEW rows, NEW w
    PROVE  /\ DOMAIN Seen(rows, w) = (DOMAIN rows \cup DOMAIN w) \ Deleted(w)
           /\ \A x \in DOMAIN w \ Deleted(w) : Seen(rows, w)[x] = w[x]
           /\ \A x \in DOMAIN rows \ DOMAIN w : Seen(rows, w)[x] = rows[x]
           /\ Seen(rows, w) = [x \in DOMAIN Seen(rows, w) |-> Seen(rows, w)[x]]
<1> DEFINE o == Over(w, rows)
           S == (DOMAIN rows \cup DOMAIN w) \ Deleted(w)
<1>1. Seen(rows, w) = [x \in S |-> o[x]]
  BY DEF Seen, Restrict
<1>2. Deleted(w) \subseteq DOMAIN w
  BY DEF Deleted
<1> HIDE DEF o
<1>3. /\ \A x \in DOMAIN w : o[x] = w[x]
      /\ \A x \in DOMAIN rows \ DOMAIN w : o[x] = rows[x]
  BY OverRows DEF o
<1> QED  BY <1>1, <1>2, <1>3

\* Where only rows that exist are written.
LEMMA SeenOwnRows ==
    ASSUME NEW rows, NEW w, DOMAIN w \subseteq DOMAIN rows
    PROVE  /\ DOMAIN Seen(rows, w) = DOMAIN rows \ Deleted(w)
           /\ \A x \in Kept(w) : Seen(rows, w)[x] = w[x]
           /\ \A x \in DOMAIN rows \ DOMAIN w : Seen(rows, w)[x] = rows[x]
           /\ Seen(rows, w) = [x \in DOMAIN Seen(rows, w) |-> Seen(rows, w)[x]]
<1> DEFINE t == Seen(rows, w)
<1>1. /\ DOMAIN t = (DOMAIN rows \cup DOMAIN w) \ Deleted(w)
      /\ \A x \in DOMAIN w \ Deleted(w) : t[x] = w[x]
      /\ \A x \in DOMAIN rows \ DOMAIN w : t[x] = rows[x]
      /\ t = [x \in DOMAIN t |-> t[x]]
  BY SeenRows
<1> HIDE DEF t
<1>2. DOMAIN t = DOMAIN rows \ Deleted(w)
  BY <1>1
<1>3. \A x \in Kept(w) : t[x] = w[x]
  BY <1>1 DEF Kept
<1> QED  BY <1>1, <1>2, <1>3 DEF t

\* The columns, and the tables, of a board as TypeOK has them.
ColumnTable(cols, B) == cols \in [DOMAIN cols -> [boardId : B, orderIndex : Nat]]

TypedTables(B, cols, grs, its) ==
    /\ ColumnTable(cols, B)
    /\ GroupTable(grs, DOMAIN cols)
    /\ ItemTable(its, DOMAIN cols, DOMAIN grs)
    /\ NoGroup \notin DOMAIN grs

\* The rows that w keeps have their type,
KeepsTypes(w, B, cols, grs) ==
    /\ \A d \in Kept(w.columns) : w.columns[d] \in [boardId : B, orderIndex : Nat]
    /\ \A g \in Kept(w.groups) :
            w.groups[g] \in [columnId : DOMAIN cols, orderIndex : Nat]
    /\ \A i \in Kept(w.items) :
            w.items[i] \in [columnId : DOMAIN cols, groupId : {NoGroup} \cup DOMAIN grs,
                            rowIndex : Nat]

\* and with the columns and groups it deletes go, or change, the rows that
\* refer to them.
Cascades(w, grs, its) ==
    /\ \A g \in DOMAIN grs :
            grs[g].columnId \in Deleted(w.columns) => g \in DOMAIN w.groups
    /\ \A i \in DOMAIN its :
            \/ its[i].columnId \in Deleted(w.columns)
            \/ its[i].groupId \in Deleted(w.groups)
            => i \in DOMAIN w.items

Sound(w, B, cols, grs, its) ==
    /\ DOMAIN w.columns \subseteq DOMAIN cols
    /\ DOMAIN w.groups \subseteq DOMAIN grs
    /\ DOMAIN w.items \subseteq DOMAIN its
    /\ KeepsTypes(w, B, cols, grs)
    /\ Keeps(w, w)
    /\ Cascades(w, grs, its)

\* What a commit makes of the tables is well-formed,
LEMMA SeenTyped ==
    ASSUME NEW B, NEW cols, NEW grs, NEW its, NEW w,
           TypedTables(B, cols, grs, its), Sound(w, B, cols, grs, its)
    PROVE  TypedTables(B, Seen(cols, w.columns), Seen(grs, w.groups), Seen(its, w.items))
<1> DEFINE cols2 == Seen(cols, w.columns)
           grs2 == Seen(grs, w.groups)
           its2 == Seen(its, w.items)
<1>0. /\ DOMAIN w.columns \subseteq DOMAIN cols
      /\ DOMAIN w.groups \subseteq DOMAIN grs
      /\ DOMAIN w.items \subseteq DOMAIN its
  BY DEF Sound
<1>1. /\ DOMAIN cols2 = DOMAIN cols \ Deleted(w.columns)
      /\ \A d \in Kept(w.columns) : cols2[d] = w.columns[d]
      /\ \A d \in DOMAIN cols \ DOMAIN w.columns : cols2[d] = cols[d]
      /\ cols2 = [d \in DOMAIN cols2 |-> cols2[d]]
  BY <1>0, SeenOwnRows
<1>2. /\ DOMAIN grs2 = DOMAIN grs \ Deleted(w.groups)
      /\ \A g \in Kept(w.groups) : grs2[g] = w.groups[g]
      /\ \A g \in DOMAIN grs \ DOMAIN w.groups : grs2[g] = grs[g]
      /\ grs2 = [g \in DOMAIN grs2 |-> grs2[g]]
  BY <1>0, SeenOwnRows
<1>3. /\ DOMAIN its2 = DOMAIN its \ Deleted(w.items)
      /\ \A i \in Kept(w.items) : its2[i] = w.items[i]
      /\ \A i \in DOMAIN its \ DOMAIN w.items : its2[i] = its[i]
      /\ its2 = [i \in DOMAIN its2 |-> its2[i]]
  BY <1>0, SeenOwnRows
<1> HIDE DEF cols2, grs2, its2
<1>4. ColumnTable(cols2, B)
  <2>1. \A d \in DOMAIN cols2 : cols2[d] \in [boardId : B, orderIndex : Nat]
    <3> TAKE d \in DOMAIN cols2
    <3>1. CASE d \in DOMAIN w.columns
      BY <1>1, <3>1 DEF Sound, KeepsTypes, Kept
    <3>2. CASE d \notin DOMAIN w.columns
      BY <1>1, <3>2 DEF TypedTables, ColumnTable
    <3> QED  BY <3>1, <3>2
  <2> QED  BY <1>1, <2>1 DEF ColumnTable
<1>5. GroupTable(grs2, DOMAIN cols2)
  <2>1. \A g \in DOMAIN grs2 : grs2[g] \in [columnId : DOMAIN cols2, orderIndex : Nat]
    <3> TAKE g \in DOMAIN grs2
    <3>1. CASE g \in DOMAIN w.groups
      <4>1. g \in Kept(w.groups) /\ grs2[g] = w.groups[g]
        BY <1>2, <3>1 DEF Kept
      <4>2. w.groups[g] \in [columnId : DOMAIN cols, orderIndex : Nat]
        BY <4>1 DEF Sound, KeepsTypes
      <4>3. w.groups[g].columnId \notin Deleted(w.columns)
        BY <4>1 DEF Sound, Keeps, ColumnsReferredTo
      <4> QED  BY <1>1, <4>1, <4>2, <4>3
    <3>2. CASE g \notin DOMAIN w.groups
      <4>1. g \in DOMAIN grs /\ grs2[g] = grs[g]
        BY <1>2, <3>2
      <4>2. grs[g] \in [columnId : DOMAIN cols, orderIndex : Nat]
        BY <4>1 DEF TypedTables, GroupTable
      <4>3. grs[g].columnId \notin Deleted(w.columns)
        BY <3>2, <4>1 DEF Sound, Cascades
      <4> QED  BY <1>1, <4>1, <4>2, <4>3
    <3> QED  BY <3>1, <3>2
  <2> QED  BY <1>2, <2>1 DEF GroupTable
<1>6. ItemTable(its2, DOMAIN cols2, DOMAIN grs2)
  <2>1. \A i \in DOMAIN its2 : its2[i] \in [columnId : DOMAIN cols2,
                                            groupId : {NoGroup} \cup DOMAIN grs2,
                                            rowIndex : Nat]
    <3> TAKE i \in DOMAIN its2
    <3>1. CASE i \in DOMAIN w.items
      <4>1. i \in Kept(w.items) /\ its2[i] = w.items[i]
        BY <1>3, <3>1 DEF Kept
      <4>2. w.items[i] \in [columnId : DOMAIN cols, groupId : {NoGroup} \cup DOMAIN grs,
                            rowIndex : Nat]
        BY <4>1 DEF Sound, KeepsTypes
      <4>3. w.items[i].columnId \notin Deleted(w.columns)
        BY <4>1 DEF Sound, Keeps, ColumnsReferredTo
      <4>4. w.items[i].groupId = NoGroup \/ w.items[i].groupId \notin Deleted(w.groups)
        BY <4>1 DEF Sound, Keeps, GroupsReferredTo
      <4> QED  BY <1>1, <1>2, <4>1, <4>2, <4>3, <4>4
    <3>2. CASE i \notin DOMAIN w.items
      <4>1. i \in DOMAIN its /\ its2[i] = its[i]
        BY <1>3, <3>2
      <4>2. its[i] \in [columnId : DOMAIN cols, groupId : {NoGroup} \cup DOMAIN grs,
                        rowIndex : Nat]
        BY <4>1 DEF TypedTables, ItemTable
      <4>3. /\ its[i].columnId \notin Deleted(w.columns)
            /\ its[i].groupId \notin Deleted(w.groups)
        BY <3>2, <4>1 DEF Sound, Cascades
      <4> QED  BY <1>1, <1>2, <4>1, <4>2, <4>3
    <3> QED  BY <3>1, <3>2
  <2> QED  BY <1>3, <2>1 DEF ItemTable
<1>7. NoGroup \notin DOMAIN grs2
  BY <1>2 DEF TypedTables
<1> QED  BY <1>4, <1>5, <1>6, <1>7 DEF TypedTables, cols2, grs2, its2

\* and what another transaction has written stays sound.
LEMMA SeenSound ==
    ASSUME NEW B, NEW cols, NEW grs, NEW its, NEW w, NEW v,
           Sound(w, B, cols, grs, its), Sound(v, B, cols, grs, its), Apart(w, v),
           NoGroup \notin DOMAIN grs
    PROVE  Sound(v, B, Seen(cols, w.columns), Seen(grs, w.groups), Seen(its, w.items))
<1> DEFINE cols2 == Seen(cols, w.columns)
           grs2 == Seen(grs, w.groups)
           its2 == Seen(its, w.items)
<1>0. /\ Deleted(w.columns) \subseteq DOMAIN w.columns
      /\ Deleted(w.groups) \subseteq DOMAIN w.groups
      /\ Deleted(w.items) \subseteq DOMAIN w.items
      /\ DOMAIN w.columns \subseteq DOMAIN cols
      /\ DOMAIN w.groups \subseteq DOMAIN grs
      /\ DOMAIN w.items \subseteq DOMAIN its
  BY DEF Deleted, Sound
<1>1. DOMAIN cols2 = DOMAIN cols \ Deleted(w.columns)
  BY <1>0, SeenOwnRows
<1>2. /\ DOMAIN grs2 = DOMAIN grs \ Deleted(w.groups)
      /\ \A g \in Kept(w.groups) : grs2[g] = w.groups[g]
      /\ \A g \in DOMAIN grs \ DOMAIN w.groups : grs2[g] = grs[g]
  BY <1>0, SeenOwnRows
<1>3. /\ DOMAIN its2 = DOMAIN its \ Deleted(w.items)
      /\ \A i \in Kept(w.items) : its2[i] = w.items[i]
      /\ \A i \in DOMAIN its \ DOMAIN w.items : its2[i] = its[i]
  <2>1. DOMAIN w.items \subseteq DOMAIN its
    BY <1>0
  <2> QED  BY <2>1, SeenOwnRows
<1> HIDE DEF cols2, grs2, its2
<1>4. /\ DOMAIN v.columns \subseteq DOMAIN cols2
      /\ DOMAIN v.groups \subseteq DOMAIN grs2
      /\ DOMAIN v.items \subseteq DOMAIN its2
  BY <1>0, <1>1, <1>2, <1>3 DEF Sound, Apart
<1>5. KeepsTypes(v, B, cols2, grs2)
  <2>1. \A d \in Kept(v.columns) : v.columns[d] \in [boardId : B, orderIndex : Nat]
    BY DEF Sound, KeepsTypes
  <2>2. ASSUME NEW g \in Kept(v.groups)
        PROVE  v.groups[g] \in [columnId : DOMAIN cols2, orderIndex : Nat]
    <3>1. v.groups[g] \in [columnId : DOMAIN cols, orderIndex : Nat]
      BY DEF Sound, KeepsTypes
    <3>2. v.groups[g].columnId \notin Deleted(w.columns)
      BY DEF Apart, Keeps, ColumnsReferredTo
    <3> QED  BY <1>1, <3>1, <3>2
  <2>3. ASSUME NEW i \in Kept(v.items)
        PROVE  v.items[i] \in [columnId : DOMAIN cols2, groupId : {NoGroup} \cup DOMAIN grs2,
                               rowIndex : Nat]
    <3>1. v.items[i] \in [columnId : DOMAIN cols, groupId : {NoGroup} \cup DOMAIN grs,
                          rowIndex : Nat]
      BY DEF Sound, KeepsTypes
    <3>2. v.items[i].columnId \notin Deleted(w.columns)
      BY DEF Apart, Keeps, ColumnsReferredTo
    <3>3. v.items[i].groupId = NoGroup \/ v.items[i].groupId \notin Deleted(w.groups)
      BY DEF Apart, Keeps, GroupsReferredTo
    <3> QED  BY <1>1, <1>2, <3>1, <3>2, <3>3
  <2> QED  BY <2>1, <2>2, <2>3 DEF KeepsTypes
<1>6. Cascades(v, grs2, its2)
  <2>1. ASSUME NEW g \in DOMAIN grs2, grs2[g].columnId \in Deleted(v.columns)
        PROVE  g \in DOMAIN v.groups
    <3>1. CASE g \in DOMAIN w.groups
      <4>1. g \in Kept(w.groups) /\ grs2[g] = w.groups[g]
        BY <1>2, <3>1 DEF Kept
      <4> QED  BY <2>1, <4>1 DEF Apart, Keeps, ColumnsReferredTo
    <3>2. CASE g \notin DOMAIN w.groups
      BY <1>2, <2>1, <3>2 DEF Sound, Cascades
    <3> QED  BY <3>1, <3>2
  <2>2. ASSUME NEW i \in DOMAIN its2,
               its2[i].columnId \in Deleted(v.columns) \/ its2[i].groupId \in Deleted(v.groups)
        PROVE  i \in DOMAIN v.items
    <3>1. CASE i \in DOMAIN w.items
      <4>1. i \in Kept(w.items) /\ its2[i] = w.items[i]
        BY <1>3, <3>1 DEF Kept
      <4>2. w.items[i].columnId \notin Deleted(v.columns)
        BY <4>1 DEF Apart, Keeps, ColumnsReferredTo
      <4>3. w.items[i].groupId \notin Deleted(v.groups) \/ w.items[i].groupId = NoGroup
        BY <4>1 DEF Apart, Keeps, GroupsReferredTo
      <4>4. NoGroup \notin Deleted(v.groups)
        BY DEF Sound, Deleted
      <4> QED  BY <2>2, <4>1, <4>2, <4>3, <4>4
    <3>2. CASE i \notin DOMAIN w.items
      BY <1>3, <2>2, <3>2 DEF Sound, Cascades
    <3> QED  BY <3>1, <3>2
  <2> QED  BY <2>1, <2>2 DEF Cascades
<1> QED  BY <1>4, <1>5, <1>6 DEF Sound, cols2, grs2, its2

-----------------------------------------------------------------------------
(* Types of what calls have read and written.                              *)

LEMMA TypedAsTables ==
    TypeOK <=> /\ lastId \in [board : Nat, column : Nat, group : Nat, item : Nat]
               /\ DOMAIN columns \subseteq 1..lastId.column
               /\ DOMAIN groups \subseteq 1..lastId.group
               /\ DOMAIN items \subseteq 1..lastId.item
               /\ TypedTables(Boards, columns, groups, items)
BY DEF TypeOK, TypedTables, ColumnTable, GroupTable, ItemTable, NoGroup

\* The changes a request names, as its DTO types them.
ChangesOK(ch) ==
    /\ \E S : ch \in Batches(S)
    /\ \A n \in DOMAIN ch : ch[n].newIndex \in Nat

\* A normalisation under way: indexes to write, and what is left to read.
NormalizingOK(r) ==
    /\ r = [step |-> "NORMALIZE", itemMoves |-> r.itemMoves, groupMoves |-> r.groupMoves,
            groups |-> r.groups, columns |-> r.columns, renumbers |-> r.renumbers,
            groupIndex |-> r.groupIndex, itemIndex |-> r.itemIndex]
    /\ \A g \in DOMAIN r.groupIndex : r.groupIndex[g] \in Nat
    /\ \A i \in DOMAIN r.itemIndex : r.itemIndex[i] \in Nat

\* What a call in flight has read and checked has its type, whatever has been
\* written since.
RequestOK(r, boards) ==
    /\ r.step = "CREATE_COLUMN" => r.row \in [boardId : boards, orderIndex : Nat]
    /\ r.step = "CREATE_GROUP" => r.row \in [columnId : Nat, orderIndex : Nat]
    /\ r.step = "REORDER" => \A n \in DOMAIN r.order : n \in Nat \ {0}
    /\ r.step = "SYNC_ITEMS" => ChangesOK(r.moves.changes)
    /\ r.step \in {"SYNC_GROUPS", "NEXT_GROUP", "CARRY_ITEMS"} =>
            ChangesOK(r.moves.changes) /\ r.next \in DOMAIN r.moves.changes
    /\ r.step \in {"DELETE_COLUMN", "DECREMENT", "DELETE_GROUP", "UNGROUP_GROUPS",
                   "UNGROUP_MEMBERS", "UNGROUP"} => r.old.orderIndex \in Nat
    /\ r.step \in {"UNGROUP_GROUPS", "UNGROUP_MEMBERS", "UNGROUP"} =>
            IsFiniteSet(DOMAIN r.items)
    /\ r.step \in {"UNGROUP_MEMBERS", "UNGROUP"} => IsFiniteSet(DOMAIN r.groups)
    /\ r.step = "UNGROUP" => IsFiniteSet(DOMAIN r.members)
    /\ r.step = "NORMALIZE" => NormalizingOK(r)
    /\ r.step = "ROOT_GROUPS" =>
            /\ NormalizingOK(r.normalizing)
            /\ IsFiniteSet(DOMAIN r.items)
            /\ \A i \in DOMAIN r.items :
                    r.items[i].columnId = r.column /\ r.items[i].groupId = NoGroup

\* The steps up to the first write of a transaction.
Reading == {"IDLE", "CREATE_COLUMN", "CREATE_GROUP", "REORDER", "SYNC_ITEMS", "SYNC_GROUPS",
            "ADD_ITEM", "ADD_ITEM_GROUPS", "DELETE_COLUMN", "DELETE_GROUP",
            "UNGROUP_GROUPS", "UNGROUP_MEMBERS", "UNGROUP"}

CallsOK ==
    /\ call = [c \in Calls |-> call[c]]
    /\ lanes \subseteq Calls
    /\ \A c \in Calls : RequestOK(call[c], Boards)

\* What is written and not committed has its type and cascades, and no two
\* calls hold one row.
WritesOK ==
    /\ wrote = [c \in Calls |-> wrote[c]]
    /\ \A c \in Calls : call[c].step \in Reading => wrote[c] = NoWrites
    /\ \A c \in Calls : Sound(wrote[c], Boards, columns, groups, items)
    /\ \A c, d \in Calls : c # d => Apart(wrote[c], wrote[d])

RequestTypeOK == TypeOK /\ CallsOK /\ WritesOK

LEMMA NothingWritten ==
    /\ Deleted(<<>>) = {} /\ Kept(<<>>) = {} /\ DOMAIN <<>> = {}
    /\ NoWrites.columns = <<>> /\ NoWrites.groups = <<>> /\ NoWrites.items = <<>>
BY DEF Deleted, Kept, NoWrites

LEMMA NoWritesSound ==
    /\ \A B, cols, grs, its : Sound(NoWrites, B, cols, grs, its)
    /\ \A w : Apart(w, NoWrites) /\ Apart(NoWrites, w)
<1>1. ASSUME NEW B, NEW cols, NEW grs, NEW its PROVE Sound(NoWrites, B, cols, grs, its)
  BY NothingWritten DEF Sound, KeepsTypes, Keeps, Cascades, ColumnsReferredTo, GroupsReferredTo
<1>2. ASSUME NEW w PROVE Apart(w, NoWrites) /\ Apart(NoWrites, w)
  BY NothingWritten DEF Apart, Keeps, ColumnsReferredTo, GroupsReferredTo
<1> QED  BY <1>1, <1>2

LEMMA InitRequestTypeOK == RequestInit => RequestTypeOK
<1> SUFFICES ASSUME RequestInit PROVE RequestTypeOK
  OBVIOUS
<1>1. TypeOK
  BY InitTypeOK DEF RequestInit
<1>2. CallsOK
  BY DEF RequestInit, CallsOK, RequestOK, Idle
<1>3. WritesOK
  BY NoWritesSound DEF RequestInit, WritesOK
<1> QED  BY <1>1, <1>2, <1>3 DEF RequestTypeOK

\* Changes are numbered from 1.
LEMMA ChangesNumbered ==
    ASSUME NEW ch, ChangesOK(ch)
    PROVE  /\ DOMAIN ch = 1..Len(ch) /\ Len(ch) \in Nat
           /\ \A n \in DOMAIN ch : n \in Nat \ {0}
<1>1. PICK S : ch \in Batches(S)
  BY DEF ChangesOK
<1>2. PICK n \in 1..MaxBatch : ch \in [1..n -> S]
  BY <1>1 DEF Batches
<1>3. n \in Nat
  BY BoundsAssumption
<1> QED  BY <1>2, <1>3

\* Where a step of c leaves the tables alone and what it has written is sound.
LEMMA StepTypeOK ==
    ASSUME RequestTypeOK, NEW c \in Calls, NEW w, NEW r,
           call' = [call EXCEPT ![c] = r], wrote' = [wrote EXCEPT ![c] = w],
           RequestOK(r, Boards), r.step \in Reading => w = NoWrites,
           Sound(w, Boards, columns, groups, items),
           \A d \in Calls \ {c} : Apart(w, wrote[d]),
           UNCHANGED <<tables, lanes>>
    PROVE  RequestTypeOK'
<1>1. TypeOK'
  BY DEF RequestTypeOK, tables, TypeOK, Boards
<1>2. Boards' = Boards /\ UNCHANGED <<columns, groups, items>>
  BY DEF tables, Boards
<1>3. /\ call' = [d \in Calls |-> call'[d]]
      /\ call'[c] = r /\ \A d \in Calls \ {c} : call'[d] = call[d]
  BY DEF RequestTypeOK, CallsOK
<1>4. /\ wrote' = [d \in Calls |-> wrote'[d]]
      /\ wrote'[c] = w /\ \A d \in Calls \ {c} : wrote'[d] = wrote[d]
  BY DEF RequestTypeOK, WritesOK
<1>5. \A d \in Calls : RequestOK(call'[d], Boards')
  BY <1>2, <1>3 DEF RequestTypeOK, CallsOK
<1>6. CallsOK'
  BY <1>3, <1>5 DEF CallsOK, RequestTypeOK
<1>7. \A d \in Calls : call'[d].step \in Reading => wrote'[d] = NoWrites
  BY <1>3, <1>4 DEF RequestTypeOK, WritesOK
<1>8. \A d \in Calls : Sound(wrote'[d], Boards', columns', groups', items')
  BY <1>2, <1>4 DEF RequestTypeOK, WritesOK
<1>9. \A d, e \in Calls : d # e => Apart(wrote'[d], wrote'[e])
  <2> TAKE d, e \in Calls
  <2>1. \A v : Apart(w, v) => Apart(v, w)
    BY DEF Apart
  <2> QED  BY <1>4, <2>1 DEF RequestTypeOK, WritesOK
<1>10. WritesOK'
  BY <1>4, <1>7, <1>8, <1>9 DEF WritesOK
<1> QED  BY <1>1, <1>6, <1>10 DEF RequestTypeOK

LEMMA StatementTypeOK ==
    ASSUME RequestTypeOK, NEW c \in Calls, NEW r, RequestOK(r, Boards), Statement(c, r),
           call[c].step \in Reading \/ r.step \notin Reading, UNCHANGED lanes
    PROVE  RequestTypeOK'
<1>1. wrote' = [wrote EXCEPT ![c] = wrote[c]] /\ call' = [call EXCEPT ![c] = r]
  BY DEF Statement, GoOn, RequestTypeOK, WritesOK
<1>2. UNCHANGED <<tables, lanes>>
  BY DEF Statement
<1>3. /\ Sound(wrote[c], Boards, columns, groups, items)
      /\ \A d \in Calls \ {c} : Apart(wrote[c], wrote[d])
      /\ r.step \in Reading => wrote[c] = NoWrites
  BY DEF RequestTypeOK, WritesOK
<1> QED  BY <1>1, <1>2, <1>3, StepTypeOK

LEMMA BeginTypeOK ==
    ASSUME RequestTypeOK, NEW c \in Calls, NEW r, RequestOK(r, Boards), Begin(c, r),
           call[c] = Idle, UNCHANGED lanes
    PROVE  RequestTypeOK'
<1>1. call[c].step \in Reading
  BY DEF Idle, Reading
<1> QED  BY <1>1, StatementTypeOK DEF Begin

LEMMA IdleOK == RequestOK(Idle, Boards) /\ Idle.step \in Reading
BY DEF RequestOK, Idle, Reading

LEMMA AbortTypeOK ==
    ASSUME RequestTypeOK, NEW c \in Calls, Abort(c), UNCHANGED lanes
    PROVE  RequestTypeOK'
<1>1. /\ call' = [call EXCEPT ![c] = Idle] /\ wrote' = [wrote EXCEPT ![c] = NoWrites]
      /\ UNCHANGED <<tables, lanes>>
  BY DEF Abort, Finish, GoOn
<1> QED  BY <1>1, IdleOK, NoWritesSound, StepTypeOK

\* A row that is kept is a row.
LEMMA GoneIsNoRow ==
    /\ \A X, Y : Gone \notin [boardId : X, orderIndex : Y]
    /\ \A X, Y : Gone \notin [columnId : X, orderIndex : Y]
    /\ \A X, Y, Z : Gone \notin [columnId : X, groupId : Y, rowIndex : Z]
BY DEF Gone

\* What w writes is rows, none deleted, that CanWrite has found in place.
Plain(w, B, X, Y) ==
    /\ \A d \in DOMAIN w.columns : w.columns[d] \in [boardId : B, orderIndex : Nat]
    /\ \A g \in DOMAIN w.groups : w.groups[g] \in [columnId : X, orderIndex : Nat]
    /\ \A i \in DOMAIN w.items :
            w.items[i] \in [columnId : X, groupId : Y, rowIndex : Nat]

LEMMA PlainKeepsAll ==
    ASSUME NEW w, NEW B, NEW X, NEW Y, Plain(w, B, X, Y)
    PROVE  /\ Deleted(w.columns) = {} /\ Kept(w.columns) = DOMAIN w.columns
           /\ Deleted(w.groups) = {} /\ Kept(w.groups) = DOMAIN w.groups
           /\ Deleted(w.items) = {} /\ Kept(w.items) = DOMAIN w.items
<1>1. Deleted(w.columns) = {}
  BY GoneIsNoRow DEF Plain, Deleted
<1>2. Deleted(w.groups) = {}
  BY GoneIsNoRow DEF Plain, Deleted
<1>3. Deleted(w.items) = {}
  BY GoneIsNoRow DEF Plain, Deleted
<1> QED  BY <1>1, <1>2, <1>3 DEF Kept

\* Written over what was kept, it deletes no more.
LEMMA OverKept ==
    ASSUME NEW new, NEW old, Deleted(new) = {}, DOMAIN new \cap Deleted(old) = {}
    PROVE  /\ DOMAIN Over(new, old) = DOMAIN new \cup DOMAIN old
           /\ Deleted(Over(new, old)) = Deleted(old)
           /\ Kept(Over(new, old)) = DOMAIN new \cup Kept(old)
           /\ \A x \in DOMAIN new : Over(new, old)[x] = new[x]
           /\ \A x \in DOMAIN old \ DOMAIN new : Over(new, old)[x] = old[x]
<1> DEFINE o == Over(new, old)
<1>1. /\ DOMAIN o = DOMAIN new \cup DOMAIN old
      /\ \A x \in DOMAIN new : o[x] = new[x]
      /\ \A x \in DOMAIN old \ DOMAIN new : o[x] = old[x]
  BY OverRows
<1> HIDE DEF o
<1>2. Deleted(o) = Deleted(old)
  BY <1>1 DEF Deleted
<1>3. Kept(o) = DOMAIN new \cup Kept(old)
  BY <1>1, <1>2 DEF Kept
<1> QED  BY <1>1, <1>2, <1>3 DEF o

\* The tables as call c sees them.
LEMMA MyTables ==
    ASSUME RequestTypeOK, NEW c \in Calls
    PROVE  /\ TypedTables(Boards, MyColumns(c), MyGroups(c), MyItems(c))
           /\ DOMAIN MyColumns(c) = DOMAIN columns \ Deleted(wrote[c].columns)
           /\ DOMAIN MyGroups(c) = DOMAIN groups \ Deleted(wrote[c].groups)
           /\ DOMAIN MyItems(c) = DOMAIN items \ Deleted(wrote[c].items)
           /\ FiniteTables(MyGroups(c), MyItems(c))
<1>1. /\ TypedTables(Boards, columns, groups, items)
      /\ Sound(wrote[c], Boards, columns, groups, items)
  BY TypedAsTables DEF RequestTypeOK, WritesOK
<1>2. TypedTables(Boards, MyColumns(c), MyGroups(c), MyItems(c))
  BY <1>1, SeenTyped DEF MyColumns, MyGroups, MyItems
<1>3. /\ DOMAIN wrote[c].columns \subseteq DOMAIN columns
      /\ DOMAIN wrote[c].groups \subseteq DOMAIN groups
      /\ DOMAIN wrote[c].items \subseteq DOMAIN items
  BY <1>1 DEF Sound
<1>4. DOMAIN MyColumns(c) = DOMAIN columns \ Deleted(wrote[c].columns)
  BY <1>3, SeenOwnRows DEF MyColumns
<1>5. DOMAIN MyGroups(c) = DOMAIN groups \ Deleted(wrote[c].groups)
  BY <1>3, SeenOwnRows DEF MyGroups
<1>6. DOMAIN MyItems(c) = DOMAIN items \ Deleted(wrote[c].items)
  BY <1>3, SeenOwnRows DEF MyItems
<1>7. FiniteTables(MyGroups(c), MyItems(c))
  BY <1>5, <1>6, TablesOK, FS_Subset DEF FiniteTables, RequestTypeOK
<1> QED  BY <1>2, <1>4, <1>5, <1>6, <1>7

\* Rows written over those of the transaction, none of them deleted.
LEMMA PlainWritten ==
    ASSUME RequestTypeOK, NEW c \in Calls, NEW w, NEW X, NEW Y, Plain(w, Boards, X, Y),
           CanWrite(c, w)
    PROVE  /\ Sound(Written(c, w), Boards, columns, groups, items)
           /\ \A d \in Calls \ {c} : Apart(Written(c, w), wrote[d])
<1> DEFINE v == wrote[c]
           u == Written(c, w)
<1>1. /\ Deleted(w.columns) = {} /\ Kept(w.columns) = DOMAIN w.columns
      /\ Deleted(w.groups) = {} /\ Kept(w.groups) = DOMAIN w.groups
      /\ Deleted(w.items) = {} /\ Kept(w.items) = DOMAIN w.items
  BY PlainKeepsAll
<1>2. Sound(v, Boards, columns, groups, items)
  BY DEF RequestTypeOK, WritesOK
<1>3. /\ DOMAIN w.columns \subseteq DOMAIN columns \ Deleted(v.columns)
      /\ DOMAIN w.groups \subseteq DOMAIN groups \ Deleted(v.groups)
      /\ DOMAIN w.items \subseteq DOMAIN items \ Deleted(v.items)
      /\ ColumnsReferredTo(w) \subseteq DOMAIN columns \ Deleted(v.columns)
      /\ GroupsReferredTo(w) \subseteq DOMAIN groups \ Deleted(v.groups)
  BY MyTables DEF CanWrite
<1>4. u.columns = Over(w.columns, v.columns) /\ u.groups = Over(w.groups, v.groups)
      /\ u.items = Over(w.items, v.items)
  BY DEF Written
<1> HIDE DEF u, v
<1>5. /\ DOMAIN u.columns = DOMAIN w.columns \cup DOMAIN v.columns
      /\ Deleted(u.columns) = Deleted(v.columns)
      /\ Kept(u.columns) = DOMAIN w.columns \cup Kept(v.columns)
      /\ \A x \in DOMAIN w.columns : u.columns[x] = w.columns[x]
      /\ \A x \in DOMAIN v.columns \ DOMAIN w.columns : u.columns[x] = v.columns[x]
  <2> DEFINE new == w.columns
             old == v.columns
  <2>1. Deleted(new) = {} /\ DOMAIN new \cap Deleted(old) = {}
    BY <1>1, <1>3
  <2>2. u.columns = Over(new, old)
    BY <1>4
  <2> HIDE DEF new, old
  <2>3. /\ DOMAIN Over(new, old) = DOMAIN new \cup DOMAIN old
        /\ Deleted(Over(new, old)) = Deleted(old)
        /\ Kept(Over(new, old)) = DOMAIN new \cup Kept(old)
        /\ \A x \in DOMAIN new : Over(new, old)[x] = new[x]
        /\ \A x \in DOMAIN old \ DOMAIN new : Over(new, old)[x] = old[x]
    BY <2>1, OverKept
  <2> QED  BY <2>2, <2>3 DEF new, old
<1>6. /\ DOMAIN u.groups = DOMAIN w.groups \cup DOMAIN v.groups
      /\ Deleted(u.groups) = Deleted(v.groups)
      /\ Kept(u.groups) = DOMAIN w.groups \cup Kept(v.groups)
      /\ \A x \in DOMAIN w.groups : u.groups[x] = w.groups[x]
      /\ \A x \in DOMAIN v.groups \ DOMAIN w.groups : u.groups[x] = v.groups[x]
  <2> DEFINE new == w.groups
             old == v.groups
  <2>1. Deleted(new) = {} /\ DOMAIN new \cap Deleted(old) = {}
    BY <1>1, <1>3
  <2>2. u.groups = Over(new, old)
    BY <1>4
  <2> HIDE DEF new, old
  <2>3. /\ DOMAIN Over(new, old) = DOMAIN new \cup DOMAIN old
        /\ Deleted(Over(new, old)) = Deleted(old)
        /\ Kept(Over(new, old)) = DOMAIN new \cup Kept(old)
        /\ \A x \in DOMAIN new : Over(new, old)[x] = new[x]
        /\ \A x \in DOMAIN old \ DOMAIN new : Over(new, old)[x] = old[x]
    BY <2>1, OverKept
  <2> QED  BY <2>2, <2>3 DEF new, old
<1>7. /\ DOMAIN u.items = DOMAIN w.items \cup DOMAIN v.items
      /\ Deleted(u.items) = Deleted(v.items)
      /\ Kept(u.items) = DOMAIN w.items \cup Kept(v.items)
      /\ \A x \in DOMAIN w.items : u.items[x] = w.items[x]
      /\ \A x \in DOMAIN v.items \ DOMAIN w.items : u.items[x] = v.items[x]
  <2> DEFINE new == w.items
             old == v.items
  <2>1. Deleted(new) = {} /\ DOMAIN new \cap Deleted(old) = {}
    BY <1>1, <1>3
  <2>2. u.items = Over(new, old)
    BY <1>4
  <2> HIDE DEF new, old
  <2>3. /\ DOMAIN Over(new, old) = DOMAIN new \cup DOMAIN old
        /\ Deleted(Over(new, old)) = Deleted(old)
        /\ Kept(Over(new, old)) = DOMAIN new \cup Kept(old)
        /\ \A x \in DOMAIN new : Over(new, old)[x] = new[x]
        /\ \A x \in DOMAIN old \ DOMAIN new : Over(new, old)[x] = old[x]
    BY <2>1, OverKept
  <2> QED  BY <2>2, <2>3 DEF new, old
<1>8. /\ \A d \in Kept(v.columns) : d \in DOMAIN v.columns
      /\ \A g \in Kept(v.groups) : g \in DOMAIN v.groups
      /\ \A i \in Kept(v.items) : i \in DOMAIN v.items
  BY DEF Kept
<1>9. ColumnsReferredTo(u) \subseteq ColumnsReferredTo(w) \cup ColumnsReferredTo(v)
  <2>1. ASSUME NEW g \in Kept(u.groups)
        PROVE  u.groups[g].columnId \in ColumnsReferredTo(w) \cup ColumnsReferredTo(v)
    <3>1. CASE g \in DOMAIN w.groups
      BY <1>1, <1>6, <3>1 DEF ColumnsReferredTo
    <3>2. CASE g \notin DOMAIN w.groups
      BY <1>6, <1>8, <3>2 DEF ColumnsReferredTo
    <3> QED  BY <3>1, <3>2
  <2>2. ASSUME NEW i \in Kept(u.items)
        PROVE  u.items[i].columnId \in ColumnsReferredTo(w) \cup ColumnsReferredTo(v)
    <3>1. CASE i \in DOMAIN w.items
      BY <1>1, <1>7, <3>1 DEF ColumnsReferredTo
    <3>2. CASE i \notin DOMAIN w.items
      BY <1>7, <1>8, <3>2 DEF ColumnsReferredTo
    <3> QED  BY <3>1, <3>2
  <2> QED  BY <2>1, <2>2 DEF ColumnsReferredTo
<1>10. GroupsReferredTo(u) \subseteq GroupsReferredTo(w) \cup GroupsReferredTo(v)
  <2>1. ASSUME NEW i \in Kept(u.items), u.items[i].groupId # NoGroup
        PROVE  u.items[i].groupId \in GroupsReferredTo(w) \cup GroupsReferredTo(v)
    <3>1. CASE i \in DOMAIN w.items
      BY <1>1, <1>7, <2>1, <3>1 DEF GroupsReferredTo
    <3>2. CASE i \notin DOMAIN w.items
      BY <1>7, <1>8, <2>1, <3>2 DEF GroupsReferredTo
    <3> QED  BY <3>1, <3>2
  <2> QED  BY <2>1 DEF GroupsReferredTo
<1>11. Keeps(u, u)
  BY <1>2, <1>3, <1>5, <1>6, <1>9, <1>10 DEF Keeps, Sound
<1>12. KeepsTypes(u, Boards, columns, groups)
  <2>1. ASSUME NEW d \in Kept(u.columns)
        PROVE  u.columns[d] \in [boardId : Boards, orderIndex : Nat]
    <3>1. CASE d \in DOMAIN w.columns
      BY <1>5, <3>1 DEF Plain
    <3>2. CASE d \notin DOMAIN w.columns
      BY <1>2, <1>5, <1>8, <3>2 DEF Sound, KeepsTypes
    <3> QED  BY <3>1, <3>2
  <2>2. ASSUME NEW g \in Kept(u.groups)
        PROVE  u.groups[g] \in [columnId : DOMAIN columns, orderIndex : Nat]
    <3>1. CASE g \in DOMAIN w.groups
      <4>1. u.groups[g] = w.groups[g] /\ w.groups[g] \in [columnId : X, orderIndex : Nat]
        BY <1>6, <3>1 DEF Plain
      <4>2. w.groups[g].columnId \in DOMAIN columns
        BY <1>1, <1>3, <3>1 DEF ColumnsReferredTo
      <4> QED  BY <4>1, <4>2
    <3>2. CASE g \notin DOMAIN w.groups
      BY <1>2, <1>6, <1>8, <3>2 DEF Sound, KeepsTypes
    <3> QED  BY <3>1, <3>2
  <2>3. ASSUME NEW i \in Kept(u.items)
        PROVE  u.items[i] \in [columnId : DOMAIN columns,
                               groupId : {NoGroup} \cup DOMAIN groups, rowIndex : Nat]
    <3>1. CASE i \in DOMAIN w.items
      <4>1. /\ u.items[i] = w.items[i]
            /\ w.items[i] \in [columnId : X, groupId : Y, rowIndex : Nat]
        BY <1>7, <3>1 DEF Plain
      <4>2. w.items[i].columnId \in DOMAIN columns
        BY <1>1, <1>3, <3>1 DEF ColumnsReferredTo
      <4>3. w.items[i].groupId \in {NoGroup} \cup DOMAIN groups
        BY <1>1, <1>3, <3>1 DEF GroupsReferredTo
      <4> QED  BY <4>1, <4>2, <4>3
    <3>2. CASE i \notin DOMAIN w.items
      BY <1>2, <1>7, <1>8, <3>2 DEF Sound, KeepsTypes
    <3> QED  BY <3>1, <3>2
  <2> QED  BY <2>1, <2>2, <2>3 DEF KeepsTypes
<1>13. Cascades(u, groups, items)
  BY <1>2, <1>5, <1>6, <1>7 DEF Sound, Cascades
<1>14. Sound(u, Boards, columns, groups, items)
  BY <1>2, <1>3, <1>5, <1>6, <1>7, <1>11, <1>12, <1>13 DEF Sound
<1>15. ASSUME NEW d \in Calls \ {c} PROVE Apart(u, wrote[d])
  <2>1. Apart(w, wrote[d]) /\ Apart(v, wrote[d])
    BY DEF CanWrite, RequestTypeOK, WritesOK, v
  <2>2. /\ DOMAIN u.columns \cap DOMAIN wrote[d].columns = {}
        /\ DOMAIN u.groups \cap DOMAIN wrote[d].groups = {}
        /\ DOMAIN u.items \cap DOMAIN wrote[d].items = {}
    BY <1>5, <1>6, <1>7, <2>1 DEF Apart
  <2>3. Keeps(u, wrote[d])
    BY <1>5, <1>6, <2>1 DEF Apart, Keeps
  <2>4. Keeps(wrote[d], u)
    BY <1>9, <1>10, <2>1 DEF Apart, Keeps
  <2> QED  BY <2>2, <2>3, <2>4 DEF Apart
<1> QED  BY <1>14, <1>15 DEF u

\* A first write that deletes is judged by itself.
LEMMA FirstWritten ==
    ASSUME NEW c, wrote[c] = NoWrites, NEW w,
           w = [columns |-> w.columns, groups |-> w.groups, items |-> w.items],
           w.columns = [d \in DOMAIN w.columns |-> w.columns[d]],
           w.groups = [g \in DOMAIN w.groups |-> w.groups[g]],
           w.items = [i \in DOMAIN w.items |-> w.items[i]]
    PROVE  Written(c, w) = w
<1>1. \A f : f = [x \in DOMAIN f |-> f[x]] => Over(f, <<>>) = f
  BY DEF Over
<1>2. /\ Over(w.columns, <<>>) = w.columns
      /\ Over(w.groups, <<>>) = w.groups
      /\ Over(w.items, <<>>) = w.items
  BY <1>1
<1> QED  BY <1>2 DEF Written, NoWrites

\* A transaction commits what it has written and reads no more.
LEMMA CommitTypeOK ==
    ASSUME RequestTypeOK, NEW c \in Calls, NEW w, Finish(c), UNCHANGED <<lastId, lanes>>,
           Sound(w, Boards, columns, groups, items),
           \A d \in Calls \ {c} : Apart(w, wrote[d]),
           columns' = Seen(columns, w.columns),
           groups' = Seen(groups, w.groups),
           items' = Seen(items, w.items)
    PROVE  RequestTypeOK'
<1>1. TypedTables(Boards, columns, groups, items) /\ Boards' = Boards
  BY TypedAsTables DEF RequestTypeOK, Boards
<1>2. TypedTables(Boards, columns', groups', items')
  BY <1>1, SeenTyped
<1>3. /\ DOMAIN columns' \subseteq DOMAIN columns
      /\ DOMAIN groups' \subseteq DOMAIN groups
      /\ DOMAIN items' \subseteq DOMAIN items
  <2>1. /\ DOMAIN w.columns \subseteq DOMAIN columns
        /\ DOMAIN w.groups \subseteq DOMAIN groups
        /\ DOMAIN w.items \subseteq DOMAIN items
    BY DEF Sound
  <2>2. DOMAIN columns' \subseteq DOMAIN columns
    <3>1. DOMAIN Seen(columns, w.columns) = DOMAIN columns \ Deleted(w.columns)
      BY <2>1, SeenOwnRows
    <3> QED  BY <3>1
  <2>3. DOMAIN groups' \subseteq DOMAIN groups
    <3>1. DOMAIN Seen(groups, w.groups) = DOMAIN groups \ Deleted(w.groups)
      BY <2>1, SeenOwnRows
    <3> QED  BY <3>1
  <2>4. DOMAIN items' \subseteq DOMAIN items
    <3>1. DOMAIN Seen(items, w.items) = DOMAIN items \ Deleted(w.items)
      BY <2>1, SeenOwnRows
    <3> QED  BY <3>1
  <2> QED  BY <2>2, <2>3, <2>4
<1>4. TypeOK'
  <2>1. /\ lastId' \in [board : Nat, column : Nat, group : Nat, item : Nat]
        /\ DOMAIN columns' \subseteq 1..lastId'.column
        /\ DOMAIN groups' \subseteq 1..lastId'.group
        /\ DOMAIN items' \subseteq 1..lastId'.item
    BY <1>3, TypedAsTables DEF RequestTypeOK
  <2> QED  BY <1>1, <1>2, <2>1
    DEF TypeOK, TypedTables, ColumnTable, GroupTable, ItemTable
<1>5. /\ call' = [d \in Calls |-> call'[d]]
      /\ call'[c] = Idle /\ \A d \in Calls \ {c} : call'[d] = call[d]
  BY DEF Finish, GoOn, RequestTypeOK, CallsOK
<1>6. CallsOK'
  <2>1. \A d \in Calls : RequestOK(call'[d], Boards')
    BY <1>1, <1>5, IdleOK DEF RequestTypeOK, CallsOK
  <2> QED  BY <1>5, <2>1 DEF RequestTypeOK, CallsOK
<1>7. /\ wrote' = [d \in Calls |-> wrote'[d]]
      /\ wrote'[c] = NoWrites /\ \A d \in Calls \ {c} : wrote'[d] = wrote[d]
  BY DEF Finish, RequestTypeOK, WritesOK
<1>8. ASSUME NEW d \in Calls PROVE Sound(wrote'[d], Boards', columns', groups', items')
  <2>1. CASE d = c
    BY <1>7, <2>1, NoWritesSound
  <2>2. CASE d # c
    <3>1. NoGroup \notin DOMAIN groups
      BY <1>1 DEF TypedTables
    <3>2. Sound(wrote[d], Boards, columns, groups, items) /\ Apart(w, wrote[d])
      BY <2>2 DEF RequestTypeOK, WritesOK
    <3>3. Sound(wrote[d], Boards, columns', groups', items')
      BY <3>1, <3>2, SeenSound
    <3> QED  BY <1>1, <1>7, <2>2, <3>3
  <2> QED  BY <2>1, <2>2
<1>9. \A d, e \in Calls : d # e => Apart(wrote'[d], wrote'[e])
  BY <1>7, NoWritesSound DEF RequestTypeOK, WritesOK
<1>10. \A d \in Calls : call'[d].step \in Reading => wrote'[d] = NoWrites
  BY <1>5, <1>7 DEF RequestTypeOK, WritesOK
<1>11. WritesOK'
  BY <1>7, <1>8, <1>9, <1>10 DEF WritesOK
<1> QED  BY <1>4, <1>6, <1>11 DEF RequestTypeOK

\* Writing and committing rows, none deleted.
LEMMA WriteTypeOK ==
    ASSUME RequestTypeOK, NEW c \in Calls, NEW w, NEW r, Write(c, w, r),
           NEW X, NEW Y, Plain(w, Boards, X, Y),
           RequestOK(r, Boards), r.step \notin Reading, UNCHANGED lanes
    PROVE  RequestTypeOK'
<1>1. /\ Sound(Written(c, w), Boards, columns, groups, items)
      /\ \A d \in Calls \ {c} : Apart(Written(c, w), wrote[d])
  BY PlainWritten DEF Write
<1>2. /\ call' = [call EXCEPT ![c] = r] /\ wrote' = [wrote EXCEPT ![c] = Written(c, w)]
      /\ UNCHANGED <<tables, lanes>>
  BY DEF Write, GoOn
<1> QED  BY <1>1, <1>2, StepTypeOK

LEMMA PlainCommitTypeOK ==
    ASSUME RequestTypeOK, NEW c \in Calls, NEW w, Commit(c, w),
           NEW X, NEW Y, Plain(w, Boards, X, Y), UNCHANGED lanes
    PROVE  RequestTypeOK'
<1>1. /\ Sound(Written(c, w), Boards, columns, groups, items)
      /\ \A d \in Calls \ {c} : Apart(Written(c, w), wrote[d])
  BY PlainWritten DEF Commit
<1>2. /\ Finish(c) /\ UNCHANGED <<lastId, lanes>>
      /\ columns' = Seen(columns, Written(c, w).columns)
      /\ groups' = Seen(groups, Written(c, w).groups)
      /\ items' = Seen(items, Written(c, w).items)
  BY DEF Commit
<1> QED  BY <1>1, <1>2, CommitTypeOK

\* What is written stays sound when rows are added that it does not cut off.
LEMMA SoundMore ==
    ASSUME NEW w, NEW B, NEW B2, NEW cols, NEW grs, NEW its, NEW cols2, NEW grs2, NEW its2,
           Sound(w, B, cols, grs, its), B \subseteq B2,
           DOMAIN cols \subseteq DOMAIN cols2,
           DOMAIN grs \subseteq DOMAIN grs2, DOMAIN its \subseteq DOMAIN its2,
           \A g \in DOMAIN grs : grs2[g] = grs[g],
           \A i \in DOMAIN its : its2[i] = its[i],
           \A g \in DOMAIN grs2 \ DOMAIN grs : grs2[g].columnId \notin Deleted(w.columns),
           \A i \in DOMAIN its2 \ DOMAIN its :
                /\ its2[i].columnId \notin Deleted(w.columns)
                /\ its2[i].groupId \notin Deleted(w.groups)
    PROVE  Sound(w, B2, cols2, grs2, its2)
<1>1. /\ DOMAIN w.columns \subseteq DOMAIN cols2
      /\ DOMAIN w.groups \subseteq DOMAIN grs2
      /\ DOMAIN w.items \subseteq DOMAIN its2
      /\ Keeps(w, w)
  BY DEF Sound
<1>2. KeepsTypes(w, B2, cols2, grs2)
  <2>1. KeepsTypes(w, B, cols, grs)
    BY DEF Sound
  <2>2. ASSUME NEW d \in Kept(w.columns)
        PROVE  w.columns[d] \in [boardId : B2, orderIndex : Nat]
    BY <2>1 DEF KeepsTypes
  <2>3. ASSUME NEW g \in Kept(w.groups)
        PROVE  w.groups[g] \in [columnId : DOMAIN cols2, orderIndex : Nat]
    BY <2>1 DEF KeepsTypes
  <2>4. ASSUME NEW i \in Kept(w.items)
        PROVE  w.items[i] \in [columnId : DOMAIN cols2, groupId : {NoGroup} \cup DOMAIN grs2,
                               rowIndex : Nat]
    BY <2>1 DEF KeepsTypes
  <2> QED  BY <2>2, <2>3, <2>4 DEF KeepsTypes
<1>3. Cascades(w, grs2, its2)
  <2>1. Cascades(w, grs, its)
    BY DEF Sound
  <2> QED  BY <2>1 DEF Cascades
<1> QED  BY <1>1, <1>2, <1>3 DEF Sound

\* A call that ends after inserting rows, or a single statement that does.
LEMMA InsertTypeOK ==
    ASSUME RequestTypeOK, NEW c \in Calls,
           \/ Finish(c)
           \/ UNCHANGED <<call, wrote>>,
           TypeOK', UNCHANGED lanes, lastId'.board \in Nat, lastId.board <= lastId'.board,
           \A d \in Calls \ {c} : Sound(wrote[d], Boards', columns', groups', items'),
           Finish(c) \/ Sound(wrote[c], Boards', columns', groups', items')
    PROVE  RequestTypeOK'
<1>1. Boards \subseteq Boards'
  BY DEF Boards, RequestTypeOK, TypeOK
<1>2. /\ call' = [d \in Calls |-> call'[d]]
      /\ \A d \in Calls : call'[d] = Idle \/ call'[d] = call[d]
  BY DEF Finish, GoOn, RequestTypeOK, CallsOK
<1>3. ASSUME NEW d \in Calls PROVE RequestOK(call'[d], Boards')
  <2>1. RequestOK(call'[d], Boards)
    BY <1>2, IdleOK DEF RequestTypeOK, CallsOK
  <2> QED  BY <1>1, <2>1 DEF RequestOK
<1>4. CallsOK'
  BY <1>2, <1>3 DEF RequestTypeOK, CallsOK
<1>5. WritesOK'
  <2>1. CASE Finish(c)
    <3>1. /\ wrote' = [d \in Calls |-> wrote'[d]] /\ call'[c] = Idle
          /\ wrote'[c] = NoWrites
          /\ \A d \in Calls \ {c} : wrote'[d] = wrote[d] /\ call'[d] = call[d]
      BY <2>1 DEF Finish, GoOn, RequestTypeOK, CallsOK, WritesOK
    <3>2. \A d \in Calls : Sound(wrote'[d], Boards', columns', groups', items')
      BY <3>1, NoWritesSound
    <3>3. \A d, e \in Calls : d # e => Apart(wrote'[d], wrote'[e])
      BY <3>1, NoWritesSound DEF RequestTypeOK, WritesOK
    <3>4. \A d \in Calls : call'[d].step \in Reading => wrote'[d] = NoWrites
      BY <3>1 DEF RequestTypeOK, WritesOK
    <3> QED  BY <3>1, <3>2, <3>3, <3>4 DEF WritesOK
  <2>2. CASE ~Finish(c)
    <3>1. UNCHANGED <<call, wrote>>
      BY <2>2
    <3>2. \A d \in Calls : Sound(wrote'[d], Boards', columns', groups', items')
      BY <2>2, <3>1
    <3> QED  BY <3>1, <3>2 DEF WritesOK, RequestTypeOK
  <2> QED  BY <2>1, <2>2
<1> QED  BY <1>4, <1>5 DEF RequestTypeOK

LEMMA SingleTypeOK ==
    ASSUME RequestTypeOK, NEW c \in Calls, SingleStatement(c), UNCHANGED lanes
    PROVE  RequestTypeOK'
<1>0. /\ TypeOK /\ wrote[c] = NoWrites
      /\ \A d \in Calls : Sound(wrote[d], Boards, columns, groups, items)
  BY DEF SingleStatement, RequestTypeOK, WritesOK, Idle, Reading
<1>1. CASE CreateBoard
  <2>1. TypeOK'
    BY <1>0, <1>1, NextTypeOK DEF Next
  <2>2. /\ lastId.board \in Nat /\ lastId'.board \in Nat /\ lastId.board <= lastId'.board
        /\ Boards \subseteq Boards'
    <3>1. lastId \in [board : Nat, column : Nat, group : Nat, item : Nat]
      BY <1>0 DEF TypeOK
    <3>2. lastId'.board = lastId.board + 1
      BY <1>1, <3>1 DEF CreateBoard
    <3> QED  BY <3>1, <3>2 DEF Boards
  <2>3. DOMAIN columns \subseteq DOMAIN columns' /\ UNCHANGED <<groups, items>>
    BY <1>1 DEF CreateBoard
  <2>4. ASSUME NEW d \in Calls
        PROVE  Sound(wrote[d], Boards', columns', groups', items')
    BY <1>0, <2>2, <2>3, SoundMore
  <2> QED  BY <2>1, <2>2, <2>4, InsertTypeOK DEF SingleStatement
<1>2. ASSUME NEW i \in DOMAIN items,
             CanWrite(c, [NoWrites EXCEPT !.items = [j \in {i} |-> Gone]]), DeleteItem(i)
      PROVE  RequestTypeOK'
  <2> DEFINE w == [NoWrites EXCEPT !.items = [j \in {i} |-> Gone]]
  <2>1. /\ w.columns = <<>> /\ w.groups = <<>> /\ w.items = [j \in {i} |-> Gone]
    BY DEF NoWrites
  <2>2. /\ Deleted(w.columns) = {} /\ Kept(w.columns) = {} /\ DOMAIN w.columns = {}
        /\ Deleted(w.groups) = {} /\ Kept(w.groups) = {} /\ DOMAIN w.groups = {}
        /\ Deleted(w.items) = {i} /\ Kept(w.items) = {} /\ DOMAIN w.items = {i}
    BY <2>1, NothingWritten DEF Deleted, Kept
  <2>3. \A d \in Calls \ {c} : Apart(w, wrote[d])
    BY <1>2 DEF CanWrite
  <2> HIDE DEF w
  <2>4. TypeOK' /\ UNCHANGED <<lastId, columns, groups>>
    BY <1>0, <1>2, NextTypeOK DEF Next, DeleteItem
  <2>5. ASSUME NEW d \in Calls
        PROVE  Sound(wrote[d], Boards', columns', groups', items')
    <3>1. CASE d = c
      BY <1>0, <3>1, NoWritesSound
    <3>2. CASE d # c
      <4>1. DOMAIN wrote[d].items \subseteq DOMAIN items \ {i}
        BY <1>0, <2>2, <2>3, <3>2 DEF Sound, Apart
      <4>2. /\ DOMAIN items' = DOMAIN items \ {i}
            /\ \A j \in DOMAIN items' : items'[j] = items[j]
            /\ Boards' = Boards /\ columns' = columns /\ groups' = groups
        BY <1>2, <2>4 DEF DeleteItem, Boards
      <4>3. Sound(wrote[d], Boards, columns, groups, items)
        BY <1>0
      <4>4. Cascades(wrote[d], groups, items')
        BY <4>2, <4>3 DEF Sound, Cascades
      <4> QED  BY <4>1, <4>2, <4>3, <4>4 DEF Sound
    <3> QED  BY <3>1, <3>2
  <2>6. lastId'.board \in Nat /\ lastId.board <= lastId'.board
    BY <1>0, <2>4 DEF TypeOK
  <2> QED  BY <1>2, <2>4, <2>5, <2>6, InsertTypeOK DEF SingleStatement
<1> QED  BY <1>1, <1>2 DEF SingleStatement

LEMMA ReadTypeOK ==
    ASSUME RequestTypeOK, NEW c \in Calls, Read(c), UNCHANGED lanes
    PROVE  RequestTypeOK'
<1>0. TypeOK /\ call[c] = Idle
  BY DEF RequestTypeOK, Read, MayBegin
<1>1. ASSUME NEW b \in Boards, CreateColumnRead(c, b) PROVE RequestTypeOK'
  <2> DEFINE r == [step |-> "CREATE_COLUMN",
                   row  |-> [boardId |-> b,
                             orderIndex |-> NextIndex({columns[d].orderIndex :
                                                         d \in ColumnsOf(b, columns)})]]
  <2>1. RequestOK(r, Boards)
    BY <1>0, NextColumnIndex DEF RequestOK
  <2>2. Begin(c, r)
    BY <1>1 DEF CreateColumnRead
  <2> QED  BY <1>0, <2>1, <2>2, BeginTypeOK
<1>2. ASSUME NEW col \in DOMAIN columns, CreateGroupRead(c, col) PROVE RequestTypeOK'
  <2> DEFINE r == [step |-> "CREATE_GROUP",
                   row  |-> [columnId |-> col,
                             orderIndex |-> NextIndex(RootIndexes(col, groups, items))]]
  <2>1. RequestOK(r, Boards)
    BY <1>0, NextRootIndex DEF RequestOK, TypeOK
  <2>2. Begin(c, r)
    BY <1>2 DEF CreateGroupRead
  <2> QED  BY <1>0, <2>1, <2>2, BeginTypeOK
<1>3. ASSUME NEW col, NEW g, AddItemCheck(c, col, g) PROVE RequestTypeOK'
  <2> DEFINE r == [step |-> "ADD_ITEM", column |-> col, group |-> g]
  <2>1. RequestOK(r, Boards)
    BY DEF RequestOK
  <2>2. Begin(c, r)
    BY <1>3 DEF AddItemCheck
  <2> QED  BY <1>0, <2>1, <2>2, BeginTypeOK
<1>4. ASSUME NEW b \in Boards,
             NEW old \in 0..Cardinality(ColumnsOf(b, columns)) - 1,
             NEW new \in 0..Cardinality(ColumnsOf(b, columns)) - 1,
             ReorderRead(c, b, old, new)
      PROVE  RequestTypeOK'
  <2>1. PICK s \in InOrder(b) :
            Begin(c, [step |-> "REORDER", order |-> SplicedColumns(s, old, new)])
    BY <1>4 DEF ReorderRead
  <2> DEFINE S == ColumnsOf(b, columns)
             t == SplicedColumns(s, old, new)
             r == [step |-> "REORDER", order |-> t]
  <2>2. Cardinality(S) \in Nat
    BY <1>0, BoardColumnsFinite, FS_CardinalityType
  <2>3. s \in Seq(S) /\ Len(s) = Cardinality(S)
    BY <2>2 DEF InOrder, SetToSeqs
  <2>4. t \in Seq(S)
    <3> HIDE DEF S
    <3> QED  BY <2>3, SpliceProperty DEF S
  <2>5. \A n \in DOMAIN t : n \in Nat \ {0}
    <3> HIDE DEF t
    <3> QED  BY <2>4
  <2> HIDE DEF t
  <2>6. RequestOK(r, Boards)
    BY <2>5 DEF RequestOK
  <2> QED  BY <1>0, <2>1, <2>6, BeginTypeOK DEF t
<1>5. ASSUME NEW b \in Boards, NEW ch \in Batches(ItemChanges(b)), SyncItemsRead(c, ch)
      PROVE  RequestTypeOK'
  <2> DEFINE r == [step |-> "SYNC_ITEMS",
                   moves |-> [changes |-> ch, before |-> Restrict(items, Named(ch))]]
  <2>1. \A n \in DOMAIN ch : ch[n].newIndex \in Nat
    BY BoundsAssumption DEF Batches, ItemChanges
  <2>2. RequestOK(r, Boards)
    BY <2>1 DEF RequestOK, ChangesOK
  <2>3. Begin(c, r)
    BY <1>5 DEF SyncItemsRead
  <2> QED  BY <1>0, <2>2, <2>3, BeginTypeOK
<1>6. ASSUME NEW b \in Boards, NEW ch \in Batches(GroupChanges(b)), SyncGroupsRead(c, ch)
      PROVE  RequestTypeOK'
  <2> DEFINE r == [step |-> "SYNC_GROUPS", next |-> 1,
                   moves |-> [changes |-> ch, before |-> Restrict(groups, Named(ch))]]
  <2>1. /\ \A n \in DOMAIN ch : ch[n].newIndex \in Nat
        /\ 1 \in DOMAIN ch
    BY BoundsAssumption DEF Batches, GroupChanges
  <2>2. RequestOK(r, Boards)
    BY <2>1 DEF RequestOK, ChangesOK
  <2>3. Begin(c, r)
    BY <1>6 DEF SyncGroupsRead
  <2> QED  BY <1>0, <2>2, <2>3, BeginTypeOK
<1>7. ASSUME NEW col \in DOMAIN columns, DeleteColumnRead(c, col) PROVE RequestTypeOK'
  <2> DEFINE r == [step |-> "DELETE_COLUMN", id |-> col, old |-> columns[col]]
  <2>1. RequestOK(r, Boards)
    BY <1>0 DEF RequestOK, TypeOK
  <2>2. Begin(c, r)
    BY <1>7 DEF DeleteColumnRead
  <2> QED  BY <1>0, <2>1, <2>2, BeginTypeOK
<1>8. ASSUME NEW g \in DOMAIN groups, DeleteGroupRead(c, g) PROVE RequestTypeOK'
  <2> DEFINE r == [step |-> "DELETE_GROUP", id |-> g, old |-> groups[g]]
  <2>1. RequestOK(r, Boards)
    BY <1>0 DEF RequestOK, TypeOK
  <2>2. Begin(c, r)
    BY <1>8 DEF DeleteGroupRead
  <2> QED  BY <1>0, <2>1, <2>2, BeginTypeOK
<1> QED  BY <1>1, <1>2, <1>3, <1>4, <1>5, <1>6, <1>7, <1>8 DEF Read

\* The rows of the transaction, as their columns and groups type them.
LEMMA MyRows ==
    ASSUME RequestTypeOK, NEW c \in Calls
    PROVE  /\ \A d \in DOMAIN MyColumns(c) :
                MyColumns(c)[d] \in [boardId : Boards, orderIndex : Nat]
           /\ \A g \in DOMAIN MyGroups(c) :
                MyGroups(c)[g] \in [columnId : DOMAIN MyColumns(c), orderIndex : Nat]
           /\ \A i \in DOMAIN MyItems(c) :
                MyItems(c)[i] \in [columnId : DOMAIN MyColumns(c),
                                   groupId : {NoGroup} \cup DOMAIN MyGroups(c),
                                   rowIndex : Nat]
<1> DEFINE cols == MyColumns(c)
           grs == MyGroups(c)
           its == MyItems(c)
<1>1. TypedTables(Boards, cols, grs, its)
  BY MyTables
<1> HIDE DEF cols, grs, its
<1>2. \A d \in DOMAIN cols : cols[d] \in [boardId : Boards, orderIndex : Nat]
  BY <1>1 DEF TypedTables, ColumnTable
<1>3. \A g \in DOMAIN grs : grs[g] \in [columnId : DOMAIN cols, orderIndex : Nat]
  BY <1>1 DEF TypedTables, GroupTable
<1>4. \A i \in DOMAIN its : its[i] \in [columnId : DOMAIN cols,
                                        groupId : {NoGroup} \cup DOMAIN grs,
                                        rowIndex : Nat]
  BY <1>1 DEF TypedTables, ItemTable
<1> QED  BY <1>2, <1>3, <1>4 DEF cols, grs, its

LEMMA RenumberingPlain ==
    ASSUME RequestTypeOK, NEW c \in Calls, call[c].step = "NORMALIZE", RowsAreThere(c)
    PROVE  Plain(Renumbering(c), Boards, DOMAIN MyColumns(c), {NoGroup} \cup DOMAIN MyGroups(c))
<1> DEFINE w == Renumbering(c)
           X == DOMAIN MyColumns(c)
           Y == {NoGroup} \cup DOMAIN MyGroups(c)
<1>1. NormalizingOK(call[c])
  BY DEF RequestTypeOK, CallsOK, RequestOK
<1>2. /\ \A g \in DOMAIN call[c].groupIndex : call[c].groupIndex[g] \in Nat
      /\ \A i \in DOMAIN call[c].itemIndex : call[c].itemIndex[i] \in Nat
  BY <1>1 DEF NormalizingOK
<1>3. /\ DOMAIN w.columns = {}
      /\ DOMAIN w.groups = DOMAIN call[c].groupIndex
      /\ \A g \in DOMAIN w.groups :
            w.groups[g] = [MyGroups(c)[g] EXCEPT !.orderIndex = call[c].groupIndex[g]]
      /\ DOMAIN w.items = DOMAIN call[c].itemIndex
      /\ \A i \in DOMAIN w.items :
            w.items[i] = [MyItems(c)[i] EXCEPT !.rowIndex = call[c].itemIndex[i]]
  BY DEF Renumbering
<1> HIDE DEF w, X, Y
<1>4. ASSUME NEW g \in DOMAIN w.groups
      PROVE  w.groups[g] \in [columnId : X, orderIndex : Nat]
  <2>1. MyGroups(c)[g] \in [columnId : X, orderIndex : Nat]
    BY <1>3, MyRows DEF RowsAreThere, X
  <2>2. call[c].groupIndex[g] \in Nat
    BY <1>2, <1>3
  <2> QED  BY <1>3, <2>1, <2>2
<1>5. ASSUME NEW i \in DOMAIN w.items
      PROVE  w.items[i] \in [columnId : X, groupId : Y, rowIndex : Nat]
  <2>1. MyItems(c)[i] \in [columnId : X, groupId : Y, rowIndex : Nat]
    BY <1>3, MyRows DEF RowsAreThere, X, Y
  <2>2. call[c].itemIndex[i] \in Nat
    BY <1>2, <1>3
  <2> QED  BY <1>3, <2>1, <2>2
<1> QED  BY <1>3, <1>4, <1>5 DEF Plain, w, X, Y

\* The cards that a normalisation finds are finitely many.
LEMMA RenumberedFinite ==
    ASSUME RequestTypeOK, NEW c \in Calls, call[c].step = "NORMALIZE", RowsAreThere(c)
    PROVE  DOMAIN RenumberedItems(c) = DOMAIN MyItems(c) /\ IsFiniteSet(DOMAIN RenumberedItems(c))
<1> DEFINE new == Renumbering(c).items
           old == wrote[c].items
           D == DOMAIN MyItems(c)
<1>1. Deleted(new) = {}
  BY RenumberingPlain, PlainKeepsAll
<1>2. DOMAIN new \subseteq D
  BY DEF Renumbering, RowsAreThere
<1>3. D = DOMAIN items \ Deleted(old) /\ IsFiniteSet(D)
  BY MyTables DEF FiniteTables
<1>4. DOMAIN old \subseteq DOMAIN items
  BY DEF RequestTypeOK, WritesOK, Sound
<1>5. Written(c, Renumbering(c)).items = Over(new, old)
  BY DEF Written
<1> HIDE DEF new, old, D
<1>6. DOMAIN new \cap Deleted(old) = {}
  BY <1>2, <1>3
<1>7. DOMAIN Over(new, old) = DOMAIN new \cup DOMAIN old /\ Deleted(Over(new, old)) = Deleted(old)
  BY <1>1, <1>6, OverKept
<1>8. DOMAIN Over(new, old) \subseteq DOMAIN items
  BY <1>2, <1>3, <1>4, <1>7
<1>9. DOMAIN Seen(items, Over(new, old)) = DOMAIN items \ Deleted(Over(new, old))
  BY <1>8, SeenOwnRows
<1>10. RenumberedItems(c) = Seen(items, Over(new, old))
  BY <1>5 DEF RenumberedItems
<1> QED  BY <1>3, <1>7, <1>9, <1>10 DEF D

\* The record of a normalisation as each of its steps changes it.
Normalization(im, gm, gs, cols, n, gi, ii) ==
    [step |-> "NORMALIZE", itemMoves |-> im, groupMoves |-> gm, groups |-> gs,
     columns |-> cols, renumbers |-> n, groupIndex |-> gi, itemIndex |-> ii]

WithIndexes(q, gi, ii) == [q EXCEPT !.groupIndex = gi, !.itemIndex = ii]

WithGroups(q, gs, gi, ii) ==
    [q EXCEPT !.groups = gs, !.groupIndex = gi, !.itemIndex = ii]

WithColumns(q, cols, gi, ii) ==
    [q EXCEPT !.columns = cols, !.groupIndex = gi, !.itemIndex = ii]

LEMMA NewIndexes ==
    ASSUME NEW q, NEW im, NEW gm, NEW s, NEW k, NEW n, NEW x, NEW y, NEW gi, NEW ii,
           q = Normalization(im, gm, s, k, n, x, y)
    PROVE  WithIndexes(q, gi, ii) = Normalization(im, gm, s, k, n, gi, ii)
<1> DEFINE a == [q EXCEPT !.groupIndex = gi]
           b == [a EXCEPT !.itemIndex = ii]
<1>1. a = Normalization(im, gm, s, k, n, gi, y)
  BY DEF Normalization
<1>2. WithIndexes(q, gi, ii) = b
  BY DEF WithIndexes
<1> HIDE DEF a
<1>3. b = Normalization(im, gm, s, k, n, gi, ii)
  BY <1>1 DEF Normalization
<1> QED  BY <1>2, <1>3

LEMMA NormalizingGoesOn ==
    ASSUME NEW q, NormalizingOK(q), NEW gs, NEW cols, NEW gi, NEW ii
    PROVE  /\ WithGroups(q, gs, gi, ii)
                = Normalization(q.itemMoves, q.groupMoves, gs, q.columns, q.renumbers, gi, ii)
           /\ WithColumns(q, cols, gi, ii)
                = Normalization(q.itemMoves, q.groupMoves, q.groups, cols, q.renumbers, gi, ii)
           /\ WithIndexes(q, gi, ii)
                = Normalization(q.itemMoves, q.groupMoves, q.groups, q.columns, q.renumbers,
                                gi, ii)
<1>1. \E im, gm, s, k, n, x, y : q = Normalization(im, gm, s, k, n, x, y)
  BY DEF NormalizingOK, Normalization
<1>2. PICK im, gm, s, k, n, x, y : q = Normalization(im, gm, s, k, n, x, y)
  BY <1>1
<1>3. /\ q.itemMoves = im /\ q.groupMoves = gm /\ q.groups = s /\ q.columns = k
      /\ q.renumbers = n
  BY <1>2 DEF Normalization
<1> DEFINE a == [q EXCEPT !.groups = gs]
           b == [q EXCEPT !.columns = cols]
<1>4. a = Normalization(im, gm, gs, k, n, x, y) /\ b = Normalization(im, gm, s, cols, n, x, y)
  BY <1>2 DEF Normalization
<1>5. /\ WithGroups(q, gs, gi, ii) = WithIndexes(a, gi, ii)
      /\ WithColumns(q, cols, gi, ii) = WithIndexes(b, gi, ii)
  BY DEF WithGroups, WithColumns, WithIndexes
<1> HIDE DEF a, b
<1>6. WithIndexes(a, gi, ii) = Normalization(im, gm, gs, k, n, gi, ii)
  BY <1>4, NewIndexes
<1>7. WithIndexes(b, gi, ii) = Normalization(im, gm, s, cols, n, gi, ii)
  BY <1>4, NewIndexes
<1>8. WithIndexes(q, gi, ii) = Normalization(im, gm, s, k, n, gi, ii)
  BY <1>2, NewIndexes
<1> QED  BY <1>3, <1>5, <1>6, <1>7, <1>8

\* The normalisation: what is read next is renumbered in natural numbers.
LEMMA NormalizeTypeOK ==
    ASSUME RequestTypeOK, NEW c \in Calls, UNCHANGED lanes,
           \/ ReadMembers(c)
           \/ ReadRootItems(c)
           \/ ReadRootGroups(c)
           \/ CommitOrder(c)
    PROVE  RequestTypeOK'
<1> DEFINE X == DOMAIN MyColumns(c)
           Y == {NoGroup} \cup DOMAIN MyGroups(c)
<1>0. RequestOK(call[c], Boards)
  BY DEF RequestTypeOK, CallsOK
<1>1. CASE ReadMembers(c)
  <2> DEFINE its == RenumberedItems(c)
  <2>1. call[c].step = "NORMALIZE" /\ RowsAreThere(c)
    BY <1>1 DEF ReadMembers
  <2>2. Plain(Renumbering(c), Boards, X, Y)
    BY <2>1, RenumberingPlain
  <2>3. IsFiniteSet(DOMAIN its)
    BY <2>1, RenumberedFinite
  <2>4. PICK g \in call[c].groups :
            Write(c, Renumbering(c),
                  [call[c] EXCEPT !.groups = @ \ {g}, !.groupIndex = <<>>,
                                  !.itemIndex = [i \in Members(g, its) |-> MemberRank(i, its)]])
    BY <1>1 DEF ReadMembers
  <2> HIDE DEF its
  <2> DEFINE rank == [i \in Members(g, its) |-> MemberRank(i, its)]
             r == [call[c] EXCEPT !.groups = @ \ {g}, !.groupIndex = <<>>, !.itemIndex = rank]
  <2>5. \A i \in DOMAIN rank : rank[i] \in Nat
    BY <2>3, MemberRankType
  <2> HIDE DEF rank
  <2>6. RequestOK(r, Boards) /\ r.step = "NORMALIZE"
    <3>1. NormalizingOK(call[c])
      BY <1>0, <2>1 DEF RequestOK
    <3> DEFINE left == call[c].groups \ {g}
    <3>2. r = WithGroups(call[c], left, <<>>, rank)
      BY DEF WithGroups
    <3> HIDE DEF r, left
    <3>3. r = Normalization(call[c].itemMoves, call[c].groupMoves, left, call[c].columns,
                            call[c].renumbers, <<>>, rank)
      BY <3>1, <3>2, NormalizingGoesOn
    <3>4. NormalizingOK(r) /\ r.step = "NORMALIZE"
      BY <2>5, <3>3 DEF NormalizingOK, Normalization
    <3> QED  BY <3>4 DEF RequestOK
  <2>7. Write(c, Renumbering(c), r)
    BY <2>4 DEF rank
  <2> HIDE DEF r, X, Y
  <2>8. r.step \notin Reading
    BY <2>6 DEF Reading
  <2> QED  BY <2>2, <2>6, <2>7, <2>8, WriteTypeOK
<1>2. CASE ReadRootItems(c)
  <2> DEFINE its == RenumberedItems(c)
  <2>1. call[c].step = "NORMALIZE" /\ RowsAreThere(c)
    BY <1>2 DEF ReadRootItems
  <2>2. Plain(Renumbering(c), Boards, X, Y)
    BY <2>1, RenumberingPlain
  <2>3. IsFiniteSet(DOMAIN its)
    BY <2>1, RenumberedFinite
  <2>4. PICK col \in call[c].columns :
            Write(c, Renumbering(c),
                  [step |-> "ROOT_GROUPS", column |-> col,
                   items |-> Restrict(its, RootItems(col, its)),
                   normalizing |-> [call[c] EXCEPT !.columns = @ \ {col},
                                                   !.groupIndex = <<>>, !.itemIndex = <<>>]])
    BY <1>2 DEF ReadRootItems
  <2> HIDE DEF its
  <2> DEFINE rows == Restrict(its, RootItems(col, its))
             next == [call[c] EXCEPT !.columns = @ \ {col}, !.groupIndex = <<>>,
                                     !.itemIndex = <<>>]
             r == [step |-> "ROOT_GROUPS", column |-> col, items |-> rows, normalizing |-> next]
  <2>5. /\ IsFiniteSet(DOMAIN rows)
        /\ \A i \in DOMAIN rows : rows[i].columnId = col /\ rows[i].groupId = NoGroup
    <3>1. DOMAIN rows = RootItems(col, its) /\ RootItems(col, its) \subseteq DOMAIN its
      BY DEF Restrict, RootItems
    <3>2. IsFiniteSet(DOMAIN rows)
      BY <2>3, <3>1, FS_Subset
    <3>3. \A i \in DOMAIN rows : rows[i].columnId = col /\ rows[i].groupId = NoGroup
      BY DEF Restrict, RootItems
    <3> QED  BY <3>2, <3>3
  <2>6. NormalizingOK(next)
    <3>1. NormalizingOK(call[c])
      BY <1>0, <2>1 DEF RequestOK
    <3> DEFINE left == call[c].columns \ {col}
    <3>2. next = WithColumns(call[c], left, <<>>, <<>>)
      BY DEF WithColumns
    <3> HIDE DEF next, left
    <3>3. next = Normalization(call[c].itemMoves, call[c].groupMoves, call[c].groups, left,
                               call[c].renumbers, <<>>, <<>>)
      BY <3>1, <3>2, NormalizingGoesOn
    <3> QED  BY <3>3 DEF NormalizingOK, Normalization
  <2> HIDE DEF rows, next
  <2>7. RequestOK(r, Boards)
    BY <2>5, <2>6 DEF RequestOK
  <2>8. Write(c, Renumbering(c), r)
    BY <2>4 DEF rows, next
  <2>9. r.step \notin Reading
    BY DEF Reading
  <2> HIDE DEF r, X, Y
  <2> QED  BY <2>2, <2>7, <2>8, <2>9, WriteTypeOK
<1>3. CASE ReadRootGroups(c)
  <2> DEFINE col == call[c].column
             its == call[c].items
             grs == MyGroups(c)
             next == call[c].normalizing
             itemMark == ItemMoveMarks(next.itemMoves.changes, next.itemMoves.before, its)
             groupMark == GroupMoveMarks(next.groupMoves.changes, next.groupMoves.before, grs)
             S == RootEntries(col, grs, its, groupMark, itemMark)
             groupIndex == [g \in GroupsOf(col, grs) |-> Place(GroupEntry(g, grs, groupMark), S)]
             itemIndex == [i \in DOMAIN its |-> Place(ItemEntry(i, its, itemMark), S)]
             r == [next EXCEPT !.groupIndex = groupIndex, !.itemIndex = itemIndex]
  <2>1. call[c].step = "ROOT_GROUPS" /\ Statement(c, r)
    BY <1>3 DEF ReadRootGroups
  <2>2. /\ NormalizingOK(next)
        /\ IsFiniteSet(DOMAIN its)
        /\ \A i \in DOMAIN its : its[i].columnId = col /\ its[i].groupId = NoGroup
    BY <1>0, <2>1 DEF RequestOK
  <2>3. IsFiniteSet(DOMAIN grs)
    BY MyTables DEF FiniteTables
  <2> HIDE DEF col, its, grs, next, itemMark, groupMark
  <2>4. IsFiniteSet(S)
    BY <2>2, <2>3, RootEntriesFinite
  <2>5. \A e \in S : Place(e, S) \in Nat
    <3> HIDE DEF S
    <3>1. \A e \in S : Place(e, S) \in 0..Cardinality(S) - 1
      BY <2>4, PlaceProperty
    <3> QED  BY <3>1
  <2>6. /\ \A g \in GroupsOf(col, grs) : GroupEntry(g, grs, groupMark) \in S
        /\ \A i \in DOMAIN its : ItemEntry(i, its, itemMark) \in S
    BY <2>2 DEF RootEntries, RootItems
  <2> HIDE DEF S
  <2>7. /\ \A g \in DOMAIN groupIndex : groupIndex[g] \in Nat
        /\ \A i \in DOMAIN itemIndex : itemIndex[i] \in Nat
    BY <2>5, <2>6
  <2> HIDE DEF groupIndex, itemIndex
  <2>8. RequestOK(r, Boards) /\ r.step = "NORMALIZE"
    <3>0. r = WithIndexes(next, groupIndex, itemIndex)
      BY DEF WithIndexes
    <3> HIDE DEF r
    <3>1. r = Normalization(next.itemMoves, next.groupMoves, next.groups, next.columns,
                            next.renumbers, groupIndex, itemIndex)
      BY <2>2, <3>0, NormalizingGoesOn
    <3>2. NormalizingOK(r) /\ r.step = "NORMALIZE"
      BY <2>7, <3>1 DEF NormalizingOK, Normalization
    <3> QED  BY <3>2 DEF RequestOK
  <2> HIDE DEF r
  <2>9. r.step \notin Reading
    BY <2>8 DEF Reading
  <2> QED  BY <2>1, <2>8, <2>9, StatementTypeOK
<1>4. CASE CommitOrder(c)
  <2>1. Plain(Renumbering(c), Boards, X, Y)
    BY <1>4, RenumberingPlain DEF CommitOrder
  <2>2. Commit(c, Renumbering(c))
    BY <1>4 DEF CommitOrder
  <2> HIDE DEF X, Y
  <2> QED  BY <2>1, <2>2, PlainCommitTypeOK
<1> QED  BY <1>1, <1>2, <1>3, <1>4

\* createColumn and createGroup insert a row of their own.
LEMMA CreateTypeOK ==
    ASSUME RequestTypeOK, NEW c \in Calls, UNCHANGED lanes,
           CreateColumnInsert(c) \/ CreateGroupInsert(c)
    PROVE  RequestTypeOK'
<1>0. /\ TypeOK /\ RequestOK(call[c], Boards)
      /\ \A d \in Calls : Sound(wrote[d], Boards, columns, groups, items)
      /\ lastId \in [board : Nat, column : Nat, group : Nat, item : Nat]
  BY DEF RequestTypeOK, CallsOK, WritesOK, TypeOK
<1> DEFINE row == call[c].row
<1>1. CASE CreateColumnInsert(c)
  <2> DEFINE new == lastId.column + 1
  <2>1. row \in [boardId : Boards, orderIndex : Nat]
    BY <1>0, <1>1 DEF CreateColumnInsert, RequestOK
  <2>2. /\ lastId' = [lastId EXCEPT !.column = new]
        /\ columns' = [d \in DOMAIN columns \cup {new} |->
                        IF d \in DOMAIN columns THEN columns[d] ELSE row]
        /\ UNCHANGED <<groups, items>> /\ Finish(c)
    BY <1>1 DEF CreateColumnInsert
  <2>3. new \in Nat /\ new = lastId.column + 1
    BY <1>0
  <2> HIDE DEF row, new
  <2>4. /\ lastId' \in [board : Nat, column : Nat, group : Nat, item : Nat]
        /\ lastId'.board = lastId.board /\ lastId'.column = new
        /\ lastId'.group = lastId.group /\ lastId'.item = lastId.item
    BY <1>0, <2>2, <2>3
  <2>5. /\ DOMAIN columns' = DOMAIN columns \cup {new}
        /\ columns' \in [DOMAIN columns' -> [boardId : Boards, orderIndex : Nat]]
    BY <1>0, <2>1, <2>2 DEF TypeOK
  <2>6. DOMAIN columns' \subseteq 1..lastId'.column
    BY <1>0, <2>3, <2>4, <2>5 DEF TypeOK
  <2>7. TypeOK' /\ Boards' = Boards
    BY <1>0, <2>2, <2>4, <2>5, <2>6 DEF TypeOK, Boards
  <2>8. ASSUME NEW d \in Calls PROVE Sound(wrote[d], Boards', columns', groups', items')
    BY <1>0, <2>2, <2>5, <2>7, SoundMore
  <2> QED  BY <1>0, <2>2, <2>4, <2>7, <2>8, InsertTypeOK
<1>2. CASE CreateGroupInsert(c)
  <2> DEFINE new == lastId.group + 1
  <2>1. row \in [columnId : DOMAIN columns, orderIndex : Nat]
    <3>1. row \in [columnId : Nat, orderIndex : Nat]
      BY <1>0, <1>2 DEF CreateGroupInsert, RequestOK
    <3>2. row.columnId \in DOMAIN columns
      BY <1>2, MyTables DEF CreateGroupInsert, CanInsert
    <3> QED  BY <3>1, <3>2
  <2>2. /\ lastId' = [lastId EXCEPT !.group = new]
        /\ groups' = [g \in DOMAIN groups \cup {new} |->
                        IF g \in DOMAIN groups THEN groups[g] ELSE row]
        /\ UNCHANGED <<columns, items>> /\ Finish(c)
        /\ \A d \in Calls \ {c} : row.columnId \notin Deleted(wrote[d].columns)
    BY <1>2 DEF CreateGroupInsert, CanInsert
  <2>3. new \in Nat /\ new = lastId.group + 1
    BY <1>0
  <2> HIDE DEF row, new
  <2>4. /\ lastId' \in [board : Nat, column : Nat, group : Nat, item : Nat]
        /\ lastId'.board = lastId.board /\ lastId'.column = lastId.column
        /\ lastId'.group = new /\ lastId'.item = lastId.item
    BY <1>0, <2>2, <2>3
  <2>5. /\ DOMAIN groups' = DOMAIN groups \cup {new}
        /\ groups' \in [DOMAIN groups' -> [columnId : DOMAIN columns, orderIndex : Nat]]
    BY <1>0, <2>1, <2>2 DEF TypeOK
  <2>6. DOMAIN groups' \subseteq 1..lastId'.group
    BY <1>0, <2>3, <2>4, <2>5 DEF TypeOK
  <2>7. TypeOK' /\ Boards' = Boards
    BY <1>0, <2>2, <2>4, <2>5, <2>6 DEF TypeOK, Boards
  <2>8. /\ \A g \in DOMAIN groups : groups'[g] = groups[g]
        /\ \A g \in DOMAIN groups' \ DOMAIN groups : groups'[g] = row
    BY <2>2, <2>5
  <2>9. ASSUME NEW d \in Calls \ {c}
        PROVE  Sound(wrote[d], Boards', columns', groups', items')
    BY <1>0, <2>2, <2>5, <2>7, <2>8, SoundMore
  <2>10. Finish(c) /\ lastId'.board \in Nat /\ lastId.board <= lastId'.board
    BY <1>0, <2>2, <2>4
  <2>11. TypeOK'
    BY <2>7
  <2> QED  BY <2>9, <2>10, <2>11, InsertTypeOK
<1> QED  BY <1>1, <1>2

\* addItemToColumn: what moves down are rows found before, at least by one.
LEMMA DownPlain ==
    ASSUME RequestTypeOK, NEW c \in Calls
    PROVE  /\ \A i \in DOMAIN ItemsDown(c) :
                ItemsDown(c)[i] \in [columnId : DOMAIN MyColumns(c),
                                     groupId : {NoGroup} \cup DOMAIN MyGroups(c),
                                     rowIndex : Nat]
           /\ \A g \in DOMAIN GroupsDown(c) :
                GroupsDown(c)[g] \in [columnId : DOMAIN MyColumns(c), orderIndex : Nat]
<1> DEFINE col == call[c].column
           g == call[c].group
           its == MyItems(c)
           grs == MyGroups(c)
<1>1. lastId.item + 1 \notin DOMAIN its
  <2>1. DOMAIN its \subseteq 1..lastId.item /\ lastId.item \in Nat
    BY MyTables DEF RequestTypeOK, TypeOK
  <2> HIDE DEF its
  <2> QED  BY <2>1
<1>2. /\ \A i \in DOMAIN its : its[i] \in [columnId : DOMAIN MyColumns(c),
                                           groupId : {NoGroup} \cup DOMAIN grs,
                                           rowIndex : Nat]
      /\ \A h \in DOMAIN grs : grs[h] \in [columnId : DOMAIN MyColumns(c), orderIndex : Nat]
  BY MyRows
<1>3. /\ ItemsDown(c) = Restrict(ItemsWithNewItem(lastId.item + 1, col, g, its),
                                 call[c].foundItems \cap CardsBeside(col, g, its))
      /\ GroupsDown(c) = Restrict(GroupsBelowNewItem(col, g, grs),
                                  call[c].foundGroups \cap GroupsOf(col, grs))
  BY DEF ItemsDown, GroupsDown
<1> HIDE DEF its, grs
<1>4. ASSUME NEW i \in DOMAIN ItemsDown(c)
      PROVE  ItemsDown(c)[i] \in [columnId : DOMAIN MyColumns(c),
                                  groupId : {NoGroup} \cup DOMAIN grs, rowIndex : Nat]
  <2>1. i \in DOMAIN its /\ ItemsDown(c)[i] = ItemsWithNewItem(lastId.item + 1, col, g, its)[i]
    BY <1>3 DEF Restrict, CardsBeside, Members
  <2>2. \/ ItemsDown(c)[i] = its[i]
        \/ ItemsDown(c)[i] = [its[i] EXCEPT !.rowIndex = @ + 1]
    BY <1>1, <2>1 DEF ItemsWithNewItem
  <2> QED  BY <1>2, <2>1, <2>2
<1>5. ASSUME NEW h \in DOMAIN GroupsDown(c)
      PROVE  GroupsDown(c)[h] \in [columnId : DOMAIN MyColumns(c), orderIndex : Nat]
  <2>1. h \in DOMAIN grs /\ GroupsDown(c)[h] = GroupsBelowNewItem(col, g, grs)[h]
    BY <1>3 DEF Restrict, GroupsOf
  <2>2. \/ GroupsDown(c)[h] = grs[h]
        \/ GroupsDown(c)[h] = [grs[h] EXCEPT !.orderIndex = @ + 1]
    BY <2>1 DEF GroupsBelowNewItem
  <2> QED  BY <1>2, <2>1, <2>2
<1> QED  BY <1>4, <1>5 DEF grs

\* What touches no column is sound without those a transaction has written.
LEMMA FewerWritten ==
    ASSUME NEW B, NEW v, NEW u, Sound(v, B, columns, groups, items),
           u.columns = <<>>, u.groups = v.groups, u.items = v.items
    PROVE  /\ Sound(u, B, columns, groups, items)
           /\ \A w : Apart(v, w) => Apart(u, w)
<1>0. Deleted(u.columns) = {} /\ Kept(u.columns) = {} /\ DOMAIN u.columns = {}
  BY NothingWritten
<1>1. ColumnsReferredTo(u) = ColumnsReferredTo(v) /\ GroupsReferredTo(u) = GroupsReferredTo(v)
  BY DEF ColumnsReferredTo, GroupsReferredTo
<1>2. \A w : Apart(v, w) => Apart(u, w)
  BY <1>0, <1>1 DEF Apart, Keeps
<1>3. KeepsTypes(u, B, columns, groups)
  BY <1>0 DEF Sound, KeepsTypes
<1>4. Keeps(u, u)
  BY <1>0, <1>1 DEF Sound, Keeps
<1>5. Cascades(u, groups, items)
  BY <1>0 DEF Sound, Cascades
<1>6. Sound(u, B, columns, groups, items)
  BY <1>0, <1>3, <1>4, <1>5 DEF Sound
<1> QED  BY <1>2, <1>6

LEMMA AddItemTypeOK ==
    ASSUME RequestTypeOK, NEW c \in Calls, UNCHANGED lanes,
           \/ AddItemFindItems(c)
           \/ AddItemFindGroups(c)
           \/ AddItemInsert(c)
    PROVE  RequestTypeOK'
<1> DEFINE X == DOMAIN MyColumns(c)
           Y == {NoGroup} \cup DOMAIN MyGroups(c)
<1>0. /\ TypeOK
      /\ \A d \in Calls : Sound(wrote[d], Boards, columns, groups, items)
      /\ lastId \in [board : Nat, column : Nat, group : Nat, item : Nat]
  BY DEF RequestTypeOK, WritesOK, TypeOK
<1>1. CASE AddItemFindItems(c)
  <2> DEFINE col == call[c].column
             g == call[c].group
             r == [step |-> IF g = NoGroup THEN "ADD_ITEM_GROUPS" ELSE "ADD_ITEM_INSERT",
                   column |-> col, group |-> g,
                   foundItems |-> CardsBeside(col, g, items), foundGroups |-> {}]
  <2>1. Statement(c, r) /\ call[c].step \in Reading
    BY <1>1 DEF AddItemFindItems, Reading
  <2>2. RequestOK(r, Boards)
    BY DEF RequestOK
  <2> HIDE DEF r
  <2> QED  BY <2>1, <2>2, StatementTypeOK
<1>2. CASE AddItemFindGroups(c)
  <2> DEFINE w == [NoWrites EXCEPT !.items = ItemsDown(c)]
             r == [step |-> "ADD_ITEM_INSERT",
                   column |-> call[c].column, group |-> call[c].group,
                   foundItems |-> {}, foundGroups |-> GroupsOf(call[c].column, groups)]
  <2>1. Write(c, w, r)
    BY <1>2 DEF AddItemFindGroups
  <2>2. Plain(w, Boards, X, Y)
    <3>1. w.columns = <<>> /\ w.groups = <<>> /\ w.items = ItemsDown(c)
      BY DEF NoWrites
    <3> HIDE DEF w
    <3> QED  BY <3>1, DownPlain DEF Plain
  <2>3. RequestOK(r, Boards) /\ r.step \notin Reading
    BY DEF RequestOK, Reading
  <2> HIDE DEF w, r, X, Y
  <2> QED  BY <2>1, <2>2, <2>3, WriteTypeOK
<1>3. CASE AddItemInsert(c)
  <2> DEFINE col == call[c].column
             g == call[c].group
             new == lastId.item + 1
             w == [NoWrites EXCEPT !.groups = GroupsDown(c), !.items = ItemsDown(c)]
             v == Written(c, w)
             grs == Seen(groups, v.groups)
             its == Seen(items, v.items)
             row == [columnId |-> col, groupId |-> g, rowIndex |-> 0]
  <2>1. /\ CanWrite(c, w) /\ CanInsert(c, col, g)
        /\ lastId' = [lastId EXCEPT !.item = new]
        /\ columns' = columns /\ groups' = grs
        /\ items' = Over(its, [i \in {new} |-> row])
        /\ Finish(c)
    BY <1>3 DEF AddItemInsert
  <2>2. Plain(w, Boards, X, Y)
    <3>1. w.columns = <<>> /\ w.groups = GroupsDown(c) /\ w.items = ItemsDown(c)
      BY DEF NoWrites
    <3> HIDE DEF w
    <3> QED  BY <3>1, DownPlain DEF Plain
  <2>3. /\ Sound(v, Boards, columns, groups, items)
        /\ \A d \in Calls \ {c} : Apart(v, wrote[d])
    <3> HIDE DEF w, X, Y
    <3> QED  BY <2>1, <2>2, PlainWritten
  <2> DEFINE u == [columns |-> <<>>, groups |-> v.groups, items |-> v.items]
  <2>4. u.columns = <<>> /\ u.groups = v.groups /\ u.items = v.items
    OBVIOUS
  <2> HIDE DEF w, v, u
  <2>5. /\ Sound(u, Boards, columns, groups, items)
        /\ \A d \in Calls \ {c} : Apart(u, wrote[d])
    BY <2>3, <2>4, FewerWritten
  <2>6. Seen(columns, u.columns) = columns
    <3>1. columns = [d \in DOMAIN columns |-> columns[d]]
      BY <1>0 DEF TypeOK
    <3> QED  BY <2>4, <3>1, NothingWritten DEF Seen, Over, Restrict
  <2>7. /\ TypedTables(Boards, columns, grs, its)
        /\ DOMAIN grs \subseteq DOMAIN groups /\ DOMAIN its \subseteq DOMAIN items
    <3>1. TypedTables(Boards, columns, groups, items)
      BY <1>0, TypedAsTables
    <3>2. TypedTables(Boards, Seen(columns, u.columns), Seen(groups, u.groups),
                      Seen(items, u.items))
      BY <2>5, <3>1, SeenTyped
    <3>3. DOMAIN v.groups \subseteq DOMAIN groups /\ DOMAIN v.items \subseteq DOMAIN items
      BY <2>3 DEF Sound
    <3>4. DOMAIN grs = DOMAIN groups \ Deleted(v.groups)
      BY <3>3, SeenOwnRows
    <3>5. DOMAIN its = DOMAIN items \ Deleted(v.items)
      BY <3>3, SeenOwnRows
    <3> QED  BY <2>4, <2>6, <3>2, <3>4, <3>5
  <2>8. ASSUME NEW d \in Calls \ {c} PROVE Sound(wrote[d], Boards, columns, grs, its)
    <3>1. NoGroup \notin DOMAIN groups
      BY <1>0 DEF TypeOK, NoGroup
    <3>2. Sound(wrote[d], Boards, columns, groups, items) /\ Apart(u, wrote[d])
      BY <1>0, <2>5
    <3>3. Sound(wrote[d], Boards, Seen(columns, u.columns), Seen(groups, u.groups),
                Seen(items, u.items))
      BY <2>5, <3>1, <3>2, SeenSound
    <3> QED  BY <2>4, <2>6, <3>3
  <2>9. col \in DOMAIN columns /\ g \in {NoGroup} \cup DOMAIN grs
    <3>1. col \in DOMAIN columns /\ g \in {NoGroup} \cup DOMAIN MyGroups(c)
      BY <2>1, MyTables DEF CanInsert
    <3>2. DOMAIN MyGroups(c) \subseteq DOMAIN grs
      <4>1. Deleted(w.groups) = {}
        BY <2>2, PlainKeepsAll
      <4>2. DOMAIN w.groups \cap Deleted(wrote[c].groups) = {}
        BY <2>1, MyTables DEF CanWrite
      <4>3. v.groups = Over(w.groups, wrote[c].groups)
        BY DEF v, Written
      <4>4. Deleted(v.groups) = Deleted(wrote[c].groups)
        <5> DEFINE a == w.groups
                   b == wrote[c].groups
        <5>1. Deleted(a) = {} /\ DOMAIN a \cap Deleted(b) = {} /\ v.groups = Over(a, b)
          BY <4>1, <4>2, <4>3
        <5> HIDE DEF a, b
        <5>2. Deleted(Over(a, b)) = Deleted(b)
          BY <5>1, OverKept
        <5> QED  BY <5>1, <5>2 DEF b
      <4>5. DOMAIN v.groups \subseteq DOMAIN groups
        BY <2>3 DEF Sound
      <4>6. DOMAIN grs = DOMAIN groups \ Deleted(v.groups)
        BY <4>5, SeenOwnRows
      <4> QED  BY <4>4, <4>6, MyTables
    <3> QED  BY <3>1, <3>2
  <2> HIDE DEF grs, its
  <2>10. new \in Nat /\ new = lastId.item + 1
    BY <1>0
  <2>11. \A d \in Calls \ {c} :
            col \notin Deleted(wrote[d].columns) /\ g \notin Deleted(wrote[d].groups)
    BY <2>1 DEF CanInsert
  <2> HIDE DEF col, g, new
  <2>12. new \notin DOMAIN its
    BY <1>0, <2>7, <2>10 DEF TypeOK
  <2>13. /\ DOMAIN items' = DOMAIN its \cup {new}
         /\ items'[new] = row
         /\ \A i \in DOMAIN its : items'[i] = its[i]
         /\ items' = [i \in DOMAIN items' |-> items'[i]]
    BY <2>1, <2>12 DEF Over
  <2>14. \A i \in DOMAIN items' :
            items'[i] \in [columnId : DOMAIN columns,
                           groupId  : {NoGroup} \cup DOMAIN grs, rowIndex : Nat]
    <3>1. row \in [columnId : DOMAIN columns, groupId  : {NoGroup} \cup DOMAIN grs,
                   rowIndex : Nat]
      BY <2>9
    <3> HIDE DEF row
    <3>2. \A i \in DOMAIN its :
            its[i] \in [columnId : DOMAIN columns, groupId : {NoGroup} \cup DOMAIN grs,
                        rowIndex : Nat]
      BY <2>7 DEF TypedTables, ItemTable
    <3> QED  BY <2>13, <3>1, <3>2
  <2>15. /\ lastId' \in [board : Nat, column : Nat, group : Nat, item : Nat]
         /\ lastId'.board = lastId.board /\ lastId'.column = lastId.column
         /\ lastId'.group = lastId.group /\ lastId'.item = new
    BY <1>0, <2>1, <2>10
  <2>16. /\ DOMAIN groups' \subseteq 1..lastId'.group
         /\ DOMAIN items' \subseteq 1..lastId'.item
    BY <1>0, <2>1, <2>7, <2>10, <2>13, <2>15 DEF TypeOK
  <2>17. groups' \in [DOMAIN groups' -> [columnId : DOMAIN columns, orderIndex : Nat]]
    BY <2>1, <2>7 DEF TypedTables, GroupTable
  <2>18. items' \in [DOMAIN items' -> [columnId : DOMAIN columns,
                                       groupId  : {NoGroup} \cup DOMAIN grs, rowIndex : Nat]]
    BY <2>13, <2>14
  <2>19. TypeOK' /\ Boards' = Boards
    BY <1>0, <2>1, <2>15, <2>16, <2>17, <2>18 DEF TypeOK, Boards
  <2>20. ASSUME NEW d \in Calls \ {c}
         PROVE  Sound(wrote[d], Boards', columns', groups', items')
    <3>1. Sound(wrote[d], Boards, columns, grs, its)
      BY <2>8
    <3>2. /\ items'[new].columnId \notin Deleted(wrote[d].columns)
          /\ items'[new].groupId \notin Deleted(wrote[d].groups)
      BY <2>11, <2>13
    <3>3. Sound(wrote[d], Boards, columns, grs, items')
      BY <2>13, <3>1, <3>2, SoundMore
    <3> QED  BY <2>1, <2>19, <3>3
  <2>21. Finish(c) /\ lastId'.board \in Nat /\ lastId.board <= lastId'.board
    BY <1>0, <2>1, <2>15
  <2>22. TypeOK'
    BY <2>19
  <2> QED  BY <2>20, <2>21, <2>22, InsertTypeOK
<1> QED  BY <1>1, <1>2, <1>3

\* reorderColumns writes positions in a list, counted from 0.
LEMMA ReorderTypeOK ==
    ASSUME RequestTypeOK, NEW c \in Calls, UNCHANGED lanes, ReorderWrite(c)
    PROVE  RequestTypeOK'
<1> DEFINE order == call[c].order
           at(d) == CHOOSE n \in DOMAIN order : order[n] = d
           row(d) == [columns[d] EXCEPT !.orderIndex = at(d) - 1]
           rows == [d \in Range(order) |-> row(d)]
           w == [NoWrites EXCEPT !.columns = rows]
<1>1. Range(order) \subseteq DOMAIN columns /\ Commit(c, w)
  BY DEF ReorderWrite
<1>2. \A n \in DOMAIN order : n \in Nat \ {0}
  BY DEF ReorderWrite, RequestTypeOK, CallsOK, RequestOK
<1>3. \A d \in Range(order) : at(d) \in DOMAIN order
  BY DEF Range
<1> HIDE DEF order, at
<1>4. \A d \in Range(order) : at(d) - 1 \in Nat
  BY <1>2, <1>3
<1>5. \A d \in Range(order) : row(d) \in [boardId : Boards, orderIndex : Nat]
  BY <1>1, <1>4 DEF RequestTypeOK, TypeOK
<1>6. w.columns = rows /\ w.groups = <<>> /\ w.items = <<>>
  BY DEF NoWrites
<1> HIDE DEF w, row
<1>7. Plain(w, Boards, {}, {})
  BY <1>5, <1>6 DEF Plain
<1> QED  BY <1>1, <1>7, PlainCommitTypeOK

\* The writes of the sync requests are those of their changes.
LEMMA SyncTypeOK ==
    ASSUME RequestTypeOK, NEW c \in Calls, UNCHANGED lanes,
           \/ SyncItemsUpdate(c)
           \/ SyncGroupsUpdate(c)
           \/ SyncGroupsCarry(c)
    PROVE  RequestTypeOK'
<1>0. RequestOK(call[c], Boards)
  BY DEF RequestTypeOK, CallsOK
<1>1. CASE SyncItemsUpdate(c)
  <2> DEFINE ch == call[c].moves.changes
             before == call[c].moves.before
             w == [NoWrites EXCEPT !.items = Restrict(WrittenItems(ch, items), Named(ch))]
             r == Normalizing(call[c].moves, NoMoves, ItemSyncGroups(ch, before),
                              ItemSyncColumns(ch, before))
  <2>1. Named(ch) \subseteq DOMAIN items /\ Write(c, w, r) /\ call[c].step = "SYNC_ITEMS"
    BY <1>1 DEF SyncItemsUpdate
  <2>2. ChangesOK(ch)
    BY <1>0, <2>1 DEF RequestOK
  <2>3. PICK S : ch \in Batches(S)
    BY <2>2 DEF ChangesOK
  <2> DEFINE X == {ch[n].newColumnId : n \in DOMAIN ch}
             Y == {ch[n].newGroupId : n \in DOMAIN ch}
  <2> HIDE DEF ch
  <2>4. ASSUME NEW i \in Named(ch)
        PROVE  WrittenItems(ch, items)[i] \in [columnId : X, groupId : Y, rowIndex : Nat]
    <3> DEFINE n == LastFor(ch, i)
    <3>1. n \in DOMAIN ch
      BY <2>3, LastForProperty
    <3>2. WrittenItems(ch, items)[i]
            = [columnId |-> ch[n].newColumnId, groupId |-> ch[n].newGroupId,
               rowIndex |-> ch[n].newIndex]
      BY <2>1 DEF WrittenItems
    <3> HIDE DEF n
    <3>3. ch[n].newIndex \in Nat
      BY <2>2, <3>1 DEF ChangesOK
    <3> QED  BY <3>1, <3>2, <3>3
  <2>5. w.columns = <<>> /\ w.groups = <<>>
        /\ w.items = Restrict(WrittenItems(ch, items), Named(ch))
    BY DEF NoWrites
  <2> HIDE DEF w, X, Y
  <2>6. /\ DOMAIN w.items = Named(ch)
        /\ \A i \in Named(ch) : w.items[i] = WrittenItems(ch, items)[i]
    BY <2>5 DEF Restrict
  <2>7. Plain(w, Boards, X, Y)
    BY <2>4, <2>5, <2>6 DEF Plain
  <2>8. RequestOK(r, Boards) /\ r.step \notin Reading
    BY DEF RequestOK, NormalizingOK, Normalizing, Reading
  <2> HIDE DEF r
  <2> QED  BY <2>1, <2>7, <2>8, WriteTypeOK
<1>2. ASSUME call[c].step \in {"SYNC_GROUPS", "NEXT_GROUP", "CARRY_ITEMS"}
      PROVE  RequestOK(NextChange(c), Boards) /\ NextChange(c).step \notin Reading
  <2> DEFINE n == call[c].next
             moves == call[c].moves
             ch == moves.changes
  <2>1. ChangesOK(ch) /\ n \in DOMAIN ch
    BY <1>0, <1>2 DEF RequestOK
  <2>2. DOMAIN ch = 1..Len(ch) /\ Len(ch) \in Nat
    BY <2>1, ChangesNumbered
  <2>3. CASE n < Len(ch)
    <3>1. n + 1 \in DOMAIN ch
      BY <2>1, <2>2, <2>3
    <3>2. NextChange(c) = [step |-> "NEXT_GROUP", next |-> n + 1, moves |-> moves]
      BY <2>3 DEF NextChange
    <3> QED  BY <2>1, <3>1, <3>2 DEF RequestOK, Reading
  <2>4. CASE ~(n < Len(ch))
    <3>1. NextChange(c) = Normalizing(NoMoves, moves, {}, GroupSyncColumns(ch, moves.before))
      BY <2>4 DEF NextChange
    <3> QED  BY <3>1 DEF RequestOK, NormalizingOK, Normalizing, Reading
  <2> QED  BY <2>3, <2>4
<1>3. CASE SyncGroupsUpdate(c)
  <2> DEFINE change == call[c].moves.changes[call[c].next]
             g == change.id
             w == [NoWrites EXCEPT !.groups =
                        [h \in {g} |-> [columnId |-> change.newColumnId,
                                        orderIndex |-> change.newIndex]]]
             r == IF call[c].moves.before[g].columnId # change.newColumnId
                  THEN [step |-> "CARRY_ITEMS", next |-> call[c].next,
                        moves |-> call[c].moves, found |-> Members(g, MyItems(c))]
                  ELSE NextChange(c)
  <2>1. Write(c, w, r) /\ call[c].step \in {"SYNC_GROUPS", "NEXT_GROUP"}
    BY <1>3 DEF SyncGroupsUpdate
  <2>2. ChangesOK(call[c].moves.changes) /\ call[c].next \in DOMAIN call[c].moves.changes
    BY <1>0, <2>1 DEF RequestOK
  <2>3. change.newIndex \in Nat
    BY <2>2 DEF ChangesOK
  <2> DEFINE row == [columnId |-> change.newColumnId, orderIndex |-> change.newIndex]
  <2>4. w.columns = <<>> /\ w.items = <<>> /\ w.groups = [h \in {g} |-> row]
    BY DEF NoWrites
  <2>7. row \in [columnId : {change.newColumnId}, orderIndex : Nat]
    BY <2>3
  <2> HIDE DEF w, row
  <2>8. /\ DOMAIN w.columns = {} /\ DOMAIN w.items = {}
        /\ \A h \in DOMAIN w.groups : w.groups[h] = row
    BY <2>4
  <2>5. Plain(w, Boards, {change.newColumnId}, {})
    BY <2>7, <2>8 DEF Plain
  <2>6. RequestOK(r, Boards) /\ r.step \notin Reading
    <3>1. CASE call[c].moves.before[g].columnId # change.newColumnId
      BY <2>2, <3>1 DEF RequestOK, Reading
    <3>2. CASE call[c].moves.before[g].columnId = change.newColumnId
      BY <1>2, <2>1, <3>2
    <3> QED  BY <3>1, <3>2
  <2> HIDE DEF r, g, change
  <2> QED  BY <2>1, <2>5, <2>6, WriteTypeOK
<1>4. CASE SyncGroupsCarry(c)
  <2> DEFINE change == call[c].moves.changes[call[c].next]
             its == MyItems(c)
             D == call[c].found \cap Members(change.id, its)
             row(i) == [its[i] EXCEPT !.columnId = change.newColumnId]
             w == [NoWrites EXCEPT !.items = [i \in D |-> row(i)]]
             Y == {NoGroup} \cup DOMAIN MyGroups(c)
  <2>1. Write(c, w, NextChange(c)) /\ call[c].step = "CARRY_ITEMS"
    BY <1>4 DEF SyncGroupsCarry
  <2>2. \A i \in D : its[i] \in [columnId : DOMAIN MyColumns(c), groupId : Y, rowIndex : Nat]
    BY MyRows DEF Members
  <2>3. w.columns = <<>> /\ w.groups = <<>> /\ w.items = [i \in D |-> row(i)]
    BY DEF NoWrites
  <2> HIDE DEF w, its, change, D, Y
  <2>4. \A i \in D : row(i) \in [columnId : {change.newColumnId}, groupId : Y, rowIndex : Nat]
    BY <2>2
  <2> HIDE DEF row
  <2>5. Plain(w, Boards, {change.newColumnId}, Y)
    BY <2>3, <2>4 DEF Plain
  <2>6. RequestOK(NextChange(c), Boards) /\ NextChange(c).step \notin Reading
    BY <1>2, <2>1
  <2> QED  BY <2>1, <2>5, <2>6, WriteTypeOK
<1> QED  BY <1>1, <1>3, <1>4

\* deleteColumn writes what the schema cascades to, then closes the gap.
LEMMA DeleteColumnTypeOK ==
    ASSUME RequestTypeOK, NEW c \in Calls, UNCHANGED lanes,
           DeleteColumnDelete(c) \/ DeleteColumnDecrement(c)
    PROVE  RequestTypeOK'
<1>0. TypeOK /\ RequestOK(call[c], Boards)
  BY DEF RequestTypeOK, CallsOK
<1>1. CASE DeleteColumnDelete(c)
  <2> DEFINE col == call[c].id
             old == call[c].old
             kept == ItemsWithoutColumn(col, groups, items)
             I == {j \in DOMAIN items : j \in DOMAIN kept => kept[j] # items[j]}
             w == [columns |-> [d \in {col} |-> Gone],
                   groups  |-> [g \in GroupsOf(col, groups) |-> Gone],
                   items   |-> [i \in I |-> IF i \in DOMAIN kept THEN kept[i] ELSE Gone]]
             r == [step |-> "DECREMENT", id |-> col, old |-> old,
                   found |-> {d \in ColumnsOf(old.boardId, columns) \ {col} :
                                columns[d].orderIndex > old.orderIndex}]
  <2>1. Write(c, w, r) /\ call[c].step = "DELETE_COLUMN"
    BY <1>1 DEF DeleteColumnDelete
  <2>2. RequestOK(r, Boards) /\ r.step \notin Reading
    BY <1>0, <2>1 DEF RequestOK, Reading
  <2>3. wrote[c] = NoWrites
    BY <2>1 DEF RequestTypeOK, WritesOK, Reading
  <2>4. /\ w = [columns |-> w.columns, groups |-> w.groups, items |-> w.items]
        /\ DOMAIN w.columns = {col} /\ \A d \in {col} : w.columns[d] = Gone
        /\ w.columns = [d \in DOMAIN w.columns |-> w.columns[d]]
        /\ DOMAIN w.groups = GroupsOf(col, groups)
        /\ \A g \in GroupsOf(col, groups) : w.groups[g] = Gone
        /\ w.groups = [g \in DOMAIN w.groups |-> w.groups[g]]
        /\ DOMAIN w.items = I
        /\ \A i \in I : w.items[i] = IF i \in DOMAIN kept THEN kept[i] ELSE Gone
        /\ w.items = [i \in DOMAIN w.items |-> w.items[i]]
    OBVIOUS
  <2>5. /\ DOMAIN kept = {j \in DOMAIN items : items[j].columnId # col}
        /\ \A i \in DOMAIN kept :
              kept[i] = IF items[i].groupId \in GroupsOf(col, groups)
                        THEN [items[i] EXCEPT !.groupId = NoGroup] ELSE items[i]
    BY DEF ItemsWithoutColumn
  <2>6. /\ \A i \in DOMAIN items :
              items[i] \in [columnId : DOMAIN columns,
                            groupId : {NoGroup} \cup DOMAIN groups, rowIndex : Nat]
        /\ NoGroup \notin DOMAIN groups
        /\ GroupsOf(col, groups) \subseteq DOMAIN groups
    BY <1>0 DEF TypeOK, NoGroup, GroupsOf
  <2> HIDE DEF w, r, kept
  <2>7. \A i \in I : i \in DOMAIN kept =>
            /\ w.items[i] \in [columnId : DOMAIN columns, groupId : {NoGroup}, rowIndex : Nat]
            /\ w.items[i].columnId # col
    BY <2>4, <2>5, <2>6
  <2>8. \A i \in I : i \notin DOMAIN kept => w.items[i] = Gone
    BY <2>4
  <2>9. \A i \in DOMAIN items :
            \/ items[i].columnId = col
            \/ items[i].groupId \in GroupsOf(col, groups)
            => i \in I
    <3> TAKE i \in DOMAIN items
    <3>1. CASE items[i].columnId = col
      BY <2>5, <3>1
    <3>2. CASE items[i].columnId # col /\ items[i].groupId \in GroupsOf(col, groups)
      <4>1. kept[i].groupId = NoGroup
        BY <2>5, <2>6, <3>2
      <4>2. items[i].groupId # NoGroup
        BY <2>6, <3>2
      <4> QED  BY <4>1, <4>2
    <3> QED  BY <3>1, <3>2
  <2>10. I \subseteq DOMAIN items
    OBVIOUS
  <2> HIDE DEF I, col, old
  <2>11. /\ Deleted(w.columns) = {col} /\ Kept(w.columns) = {}
         /\ Deleted(w.groups) = GroupsOf(col, groups) /\ Kept(w.groups) = {}
    BY <2>4 DEF Deleted, Kept
  <2>12. Kept(w.items) \subseteq I /\ \A i \in Kept(w.items) : i \in DOMAIN kept
    BY <2>4, <2>8 DEF Deleted, Kept
  <2>13. Sound(w, Boards, columns, groups, items)
    <3>1. col \in DOMAIN columns
      BY <2>1, <2>4, MyTables DEF Write, CanWrite
    <3>2. KeepsTypes(w, Boards, columns, groups)
      BY <2>7, <2>11, <2>12 DEF KeepsTypes
    <3>3. Keeps(w, w)
      BY <2>7, <2>11, <2>12 DEF Keeps, ColumnsReferredTo, GroupsReferredTo
    <3>4. Cascades(w, groups, items)
      BY <2>4, <2>9, <2>11 DEF Cascades, GroupsOf
    <3> QED  BY <2>4, <2>6, <2>10, <3>1, <3>2, <3>3, <3>4 DEF Sound
  <2>14. Written(c, w) = w
    BY <2>3, <2>4, FirstWritten
  <2>15. \A d \in Calls \ {c} : Apart(w, wrote[d])
    BY <2>1 DEF Write, CanWrite
  <2>16. /\ call' = [call EXCEPT ![c] = r] /\ wrote' = [wrote EXCEPT ![c] = w]
         /\ UNCHANGED <<tables, lanes>>
    BY <2>1, <2>14 DEF Write, GoOn
  <2> QED  BY <2>2, <2>13, <2>15, <2>16, StepTypeOK
<1>2. CASE DeleteColumnDecrement(c)
  <2> DEFINE old == call[c].old
             cols == MyColumns(c)
             closed == ColumnsWithout(call[c].id, old, cols)
             w == [NoWrites EXCEPT !.columns =
                        Restrict(closed, call[c].found \cap DOMAIN closed)]
  <2>1. Commit(c, w) /\ call[c].step = "DECREMENT"
    BY <1>2 DEF DeleteColumnDecrement
  <2>2. old.orderIndex \in Nat
    BY <1>0, <2>1 DEF RequestOK
  <2>3. \A d \in DOMAIN cols : cols[d] \in [boardId : Boards, orderIndex : Nat]
    BY MyRows
  <2> HIDE DEF cols, old
  <2>4. ASSUME NEW d \in DOMAIN closed
        PROVE  closed[d] \in [boardId : Boards, orderIndex : Nat]
    <3>1. d \in DOMAIN cols
      BY DEF ColumnsWithout
    <3>2. \/ closed[d] = cols[d]
          \/ /\ cols[d].orderIndex > old.orderIndex
             /\ closed[d] = [cols[d] EXCEPT !.orderIndex = @ - 1]
      BY <3>1 DEF ColumnsWithout
    <3> HIDE DEF closed
    <3> DEFINE n == cols[d].orderIndex
    <3>3. n \in Nat /\ (n > old.orderIndex => n - 1 \in Nat)
      <4>1. n \in Nat
        BY <2>3, <3>1
      <4> HIDE DEF n
      <4> QED  BY <2>2, <4>1
    <3> QED  BY <2>3, <3>1, <3>2, <3>3
  <2>5. w.columns = Restrict(closed, call[c].found \cap DOMAIN closed)
        /\ w.groups = <<>> /\ w.items = <<>>
    BY DEF NoWrites
  <2> HIDE DEF w, closed
  <2>6. \A d \in DOMAIN w.columns : d \in DOMAIN closed /\ w.columns[d] = closed[d]
    BY <2>5 DEF Restrict
  <2>7. DOMAIN w.groups = {} /\ DOMAIN w.items = {}
    BY <2>5
  <2>8. \A d \in DOMAIN w.columns : w.columns[d] \in [boardId : Boards, orderIndex : Nat]
    BY <2>4, <2>6
  <2>9. Plain(w, Boards, {}, {})
    BY <2>7, <2>8 DEF Plain
  <2> QED  BY <2>1, <2>9, PlainCommitTypeOK
<1> QED  BY <1>1, <1>2

LEMMA UngroupReadTypeOK ==
    ASSUME RequestTypeOK, NEW c \in Calls, UNCHANGED lanes,
           UngroupReadItems(c) \/ UngroupReadGroups(c) \/ UngroupReadMembers(c)
    PROVE  RequestTypeOK'
<1>0. RequestOK(call[c], Boards) /\ IsFiniteSet(DOMAIN items) /\ IsFiniteSet(DOMAIN groups)
  BY TablesOK DEF RequestTypeOK, CallsOK, FiniteTables
<1>1. /\ \A col : IsFiniteSet(DOMAIN Restrict(items, RootItems(col, items)))
      /\ \A g : IsFiniteSet(DOMAIN Restrict(items, Members(g, items)))
      /\ \A col, g : IsFiniteSet(DOMAIN Restrict(groups, GroupsOf(col, groups) \ {g}))
  <2>1. \A T, S : DOMAIN Restrict(T, S) = S
    BY DEF Restrict
  <2>2. \A col : RootItems(col, items) \subseteq DOMAIN items
    BY DEF RootItems
  <2>3. \A g : Members(g, items) \subseteq DOMAIN items
    BY DEF Members
  <2>4. \A col, g : GroupsOf(col, groups) \ {g} \subseteq DOMAIN groups
    BY DEF GroupsOf
  <2>5. \A S : S \subseteq DOMAIN items => IsFiniteSet(S)
    BY <1>0, FS_Subset
  <2>6. \A S : S \subseteq DOMAIN groups => IsFiniteSet(S)
    BY <1>0, FS_Subset
  <2> QED  BY <2>1, <2>2, <2>3, <2>4, <2>5, <2>6
<1>2. CASE UngroupReadItems(c)
  <2> DEFINE rows == Restrict(items, RootItems(call[c].old.columnId, items))
             r == [step |-> "UNGROUP_GROUPS", id |-> call[c].id, old |-> call[c].old,
                   items |-> rows]
  <2>1. call[c].step = "DELETE_GROUP" /\ Statement(c, r)
    BY <1>2 DEF UngroupReadItems
  <2>2. IsFiniteSet(DOMAIN rows)
    BY <1>1
  <2> HIDE DEF rows
  <2>3. RequestOK(r, Boards)
    BY <1>0, <2>1, <2>2 DEF RequestOK
  <2>4. call[c].step \in Reading
    BY <2>1 DEF Reading
  <2> HIDE DEF r
  <2> QED  BY <2>1, <2>3, <2>4, StatementTypeOK
<1>3. CASE UngroupReadGroups(c)
  <2> DEFINE rows == Restrict(groups, GroupsOf(call[c].old.columnId, groups) \ {call[c].id})
             r == [step |-> "UNGROUP_MEMBERS", id |-> call[c].id, old |-> call[c].old,
                   items |-> call[c].items, groups |-> rows]
  <2>1. call[c].step = "UNGROUP_GROUPS" /\ Statement(c, r)
    BY <1>3 DEF UngroupReadGroups
  <2>2. IsFiniteSet(DOMAIN rows)
    BY <1>1
  <2> HIDE DEF rows
  <2>3. RequestOK(r, Boards)
    BY <1>0, <2>1, <2>2 DEF RequestOK
  <2>4. call[c].step \in Reading
    BY <2>1 DEF Reading
  <2> HIDE DEF r
  <2> QED  BY <2>1, <2>3, <2>4, StatementTypeOK
<1>4. CASE UngroupReadMembers(c)
  <2> DEFINE rows == Restrict(items, Members(call[c].id, items))
             r == [step |-> "UNGROUP", id |-> call[c].id, old |-> call[c].old,
                   groups |-> call[c].groups, items |-> call[c].items, members |-> rows]
  <2>1. call[c].step = "UNGROUP_MEMBERS" /\ Statement(c, r)
    BY <1>4 DEF UngroupReadMembers
  <2>2. IsFiniteSet(DOMAIN rows)
    BY <1>1
  <2> HIDE DEF rows
  <2>3. RequestOK(r, Boards)
    BY <1>0, <2>1, <2>2 DEF RequestOK
  <2>4. call[c].step \in Reading
    BY <2>1 DEF Reading
  <2> HIDE DEF r
  <2> QED  BY <2>1, <2>3, <2>4, StatementTypeOK
<1> QED  BY <1>2, <1>3, <1>4

\* deleteGroup takes the group from its cards and renumbers what it has read.
LEMMA UngroupTypeOK ==
    ASSUME RequestTypeOK, NEW c \in Calls, UNCHANGED lanes, UngroupWrite(c)
    PROVE  RequestTypeOK'
<1> DEFINE g == call[c].id
           old == call[c].old
           rows == call[c]
           siblings == RootEntries(old.columnId, rows.groups, rows.items,
                                   UnmovedMarks(rows.groups), UnmovedMarks(rows.items))
           insertAt == UngroupAt(old, siblings)
           size == Cardinality(DOMAIN rows.members)
           place(e) == LET r == Rank(e, siblings) IN IF r < insertAt THEN r ELSE r + size
           places(i) ==
               (IF i \in DOMAIN rows.items
                THEN {place(ItemEntry(i, rows.items, UnmovedMarks(rows.items)))} ELSE {})
               \cup
               (IF i \in DOMAIN rows.members
                THEN {insertAt + MemberRank(i, rows.members)} ELSE {})
           written == DOMAIN rows.items \cup DOMAIN rows.members \cup Members(g, items)
           at(h) == place(GroupEntry(h, rows.groups, UnmovedMarks(rows.groups)))
           row(i) == [items[i] EXCEPT
                        !.groupId = IF @ = g THEN NoGroup ELSE @,
                        !.rowIndex = IF places(i) = {} THEN @ ELSE Max(places(i))]
           w == [columns |-> <<>>,
                 groups |-> [h \in {g} \cup DOMAIN rows.groups |->
                                IF h = g THEN Gone
                                ELSE [groups[h] EXCEPT !.orderIndex = at(h)]],
                 items |-> [i \in written |-> row(i)]]
           r == Normalizing(NoMoves, NoMoves, {}, {old.columnId})
<1>0. TypeOK /\ RequestOK(call[c], Boards)
  BY DEF RequestTypeOK, CallsOK
<1>1. /\ call[c].step = "UNGROUP"
      /\ written \subseteq DOMAIN items /\ g \in DOMAIN groups
      /\ DOMAIN rows.groups \subseteq DOMAIN groups
      /\ Write(c, w, r)
  BY DEF UngroupWrite
<1>2. /\ old.orderIndex \in Nat /\ IsFiniteSet(DOMAIN rows.items)
      /\ IsFiniteSet(DOMAIN rows.groups) /\ IsFiniteSet(DOMAIN rows.members)
  BY <1>0, <1>1 DEF RequestOK
<1>3. IsFiniteSet(siblings)
  BY <1>2, RootEntriesFinite
<1>4. /\ insertAt \in Nat /\ size \in Nat
      /\ \A e : Rank(e, siblings) \in Nat
  <2>1. Cardinality(siblings) \in Nat
    BY <1>3, FS_CardinalityType
  <2>2. \A e : Rank(e, siblings) \in Nat
    BY <1>3, RankType
  <2>3. size \in Nat
    BY <1>2, FS_CardinalityType
  <2> HIDE DEF siblings
  <2> QED  BY <1>2, <2>1, <2>2, <2>3 DEF UngroupAt
<1> HIDE DEF siblings, insertAt, size
<1>5. \A e : place(e) \in Nat
  BY <1>4
<1>6. \A i : MemberRank(i, rows.members) \in Nat
  BY <1>2, MemberRankType
<1> HIDE DEF place
<1>7. ASSUME NEW i, places(i) # {} PROVE Max(places(i)) \in Nat
  <2> DEFINE a == place(ItemEntry(i, rows.items, UnmovedMarks(rows.items)))
             b == insertAt + MemberRank(i, rows.members)
             P == places(i)
  <2>1. a \in Nat /\ b \in Nat
    BY <1>4, <1>5, <1>6
  <2>2. P \subseteq {a, b}
    OBVIOUS
  <2> HIDE DEF a, b, P
  <2>3. IsFiniteSet({a, b})
    <3>1. IsFiniteSet({a}) /\ IsFiniteSet({b})
      BY FS_Singleton
    <3>2. {a, b} = {a} \cup {b}
      OBVIOUS
    <3> QED  BY <3>1, <3>2, FS_Union
  <2>4. IsFiniteSet(P) /\ P \in SUBSET Nat
    BY <2>1, <2>2, <2>3, FS_Subset
  <2>5. P # {}
    BY <1>7 DEF P
  <2>6. Max(P) \in P
    BY <2>4, <2>5, MaxProperty
  <2> QED  BY <2>4, <2>6 DEF P
<1> DEFINE Y == ({NoGroup} \cup DOMAIN groups) \ {g}
<1>8. /\ \A h \in DOMAIN groups : groups[h] \in [columnId : DOMAIN columns, orderIndex : Nat]
      /\ \A i \in DOMAIN items :
            items[i] \in [columnId : DOMAIN columns,
                          groupId : {NoGroup} \cup DOMAIN groups, rowIndex : Nat]
      /\ NoGroup \notin DOMAIN groups
  BY <1>0 DEF TypeOK, NoGroup
<1>9. \A h \in DOMAIN rows.groups :
        [groups[h] EXCEPT !.orderIndex = at(h)] \in [columnId : DOMAIN columns, orderIndex : Nat]
  BY <1>1, <1>5, <1>8
<1> HIDE DEF at, places
<1>10. ASSUME NEW i \in written
       PROVE  row(i) \in [columnId : DOMAIN columns, groupId : Y, rowIndex : Nat]
  <2> DEFINE gid == IF items[i].groupId = g THEN NoGroup ELSE items[i].groupId
             index == IF places(i) = {} THEN items[i].rowIndex ELSE Max(places(i))
  <2>1. items[i] \in [columnId : DOMAIN columns, groupId : {NoGroup} \cup DOMAIN groups,
                      rowIndex : Nat]
    BY <1>1, <1>8
  <2>2. gid \in Y
    BY <1>1, <1>8, <2>1
  <2>3. index \in Nat
    BY <1>7, <2>1
  <2>4. row(i) = [items[i] EXCEPT !.groupId = gid, !.rowIndex = index]
    OBVIOUS
  <2> HIDE DEF gid, index, Y
  <2> QED  BY <2>1, <2>2, <2>3, <2>4
<1>11. Members(g, items) \subseteq written
  OBVIOUS
<1>12. /\ w = [columns |-> w.columns, groups |-> w.groups, items |-> w.items]
       /\ w.columns = <<>>
       /\ DOMAIN w.groups = {g} \cup DOMAIN rows.groups /\ w.groups[g] = Gone
       /\ \A h \in DOMAIN rows.groups \ {g} :
            w.groups[h] = [groups[h] EXCEPT !.orderIndex = at(h)]
       /\ w.groups = [h \in DOMAIN w.groups |-> w.groups[h]]
       /\ DOMAIN w.items = written /\ \A i \in written : w.items[i] = row(i)
       /\ w.items = [i \in DOMAIN w.items |-> w.items[i]]
  OBVIOUS
<1> HIDE DEF w, row, written, rows, g, Y
<1>13. /\ Deleted(w.columns) = {} /\ Kept(w.columns) = {}
       /\ DOMAIN w.columns = {} /\ w.columns = [d \in DOMAIN w.columns |-> w.columns[d]]
  BY <1>12, NothingWritten
<1>14. \A h \in DOMAIN w.groups \ {g} :
            w.groups[h] \in [columnId : DOMAIN columns, orderIndex : Nat]
  BY <1>9, <1>12
<1>15. Deleted(w.groups) = {g} /\ Kept(w.groups) = DOMAIN w.groups \ {g}
  BY <1>12, <1>14, GoneIsNoRow DEF Deleted, Kept
<1>16. Deleted(w.items) = {} /\ Kept(w.items) = written
  BY <1>10, <1>12, GoneIsNoRow DEF Deleted, Kept
<1>17. GroupsReferredTo(w) \cap {g} = {}
  BY <1>10, <1>12, <1>16 DEF GroupsReferredTo, Y
<1>18. Sound(w, Boards, columns, groups, items)
  <2>1. KeepsTypes(w, Boards, columns, groups)
    <3>1. \A i \in written : w.items[i] \in [columnId : DOMAIN columns,
                                             groupId : {NoGroup} \cup DOMAIN groups,
                                             rowIndex : Nat]
      BY <1>10, <1>12 DEF Y
    <3> QED  BY <1>13, <1>14, <1>15, <1>16, <3>1 DEF KeepsTypes
  <2>2. Keeps(w, w)
    BY <1>13, <1>15, <1>17 DEF Keeps
  <2>3. Cascades(w, groups, items)
    BY <1>11, <1>12, <1>13, <1>15 DEF Cascades, Members
  <2> QED  BY <1>1, <1>12, <1>13, <2>1, <2>2, <2>3 DEF Sound
<1>19. wrote[c] = NoWrites
  BY <1>1 DEF RequestTypeOK, WritesOK, Reading
<1>20. Written(c, w) = w
  BY <1>12, <1>13, <1>19, FirstWritten
<1>21. \A d \in Calls \ {c} : Apart(w, wrote[d])
  BY <1>1 DEF Write, CanWrite
<1>22. RequestOK(r, Boards) /\ r.step \notin Reading
  BY DEF RequestOK, NormalizingOK, Normalizing, Reading
<1> HIDE DEF r
<1>23. /\ call' = [call EXCEPT ![c] = r] /\ wrote' = [wrote EXCEPT ![c] = w]
       /\ UNCHANGED <<tables, lanes>>
  BY <1>1, <1>20 DEF Write, GoOn
<1> QED  BY <1>18, <1>21, <1>22, <1>23, StepTypeOK

LEMMA TransactTypeOK ==
    ASSUME RequestTypeOK, NEW c \in Calls, UNCHANGED lanes, Transact(c)
    PROVE  RequestTypeOK'
<1>1. CASE CreateColumnInsert(c) \/ CreateGroupInsert(c)
  BY <1>1, CreateTypeOK
<1>2. CASE AddItemFindItems(c) \/ AddItemFindGroups(c) \/ AddItemInsert(c)
  BY <1>2, AddItemTypeOK
<1>3. CASE ReorderWrite(c)
  BY <1>3, ReorderTypeOK
<1>4. CASE SyncItemsUpdate(c) \/ SyncGroupsUpdate(c) \/ SyncGroupsCarry(c)
  BY <1>4, SyncTypeOK
<1>5. CASE DeleteColumnDelete(c) \/ DeleteColumnDecrement(c)
  BY <1>5, DeleteColumnTypeOK
<1>6. CASE UngroupReadItems(c) \/ UngroupReadGroups(c) \/ UngroupReadMembers(c)
  BY <1>6, UngroupReadTypeOK
<1>7. CASE UngroupWrite(c)
  BY <1>7, UngroupTypeOK
<1>8. CASE ReadMembers(c) \/ ReadRootItems(c) \/ ReadRootGroups(c) \/ CommitOrder(c)
  BY <1>8, NormalizeTypeOK
<1>9. CASE Abort(c)
  BY <1>9, AbortTypeOK
<1> QED
  BY <1>1, <1>2, <1>3, <1>4, <1>5, <1>6, <1>7, <1>8, <1>9 DEF Transact

LEMMA NextRequestTypeOK == RequestTypeOK /\ [RequestNext]_requestVars => RequestTypeOK'
<1> SUFFICES ASSUME RequestTypeOK, [RequestNext]_requestVars PROVE RequestTypeOK'
  OBVIOUS
<1>1. CASE UNCHANGED requestVars
  BY <1>1 DEF requestVars, RequestTypeOK, CallsOK, WritesOK, TypeOK, Boards
<1>2. CASE RequestNext
  <2>1. UNCHANGED lanes /\ lanes \subseteq Calls
    BY <1>2 DEF RequestNext, RequestTypeOK, CallsOK
  <2> QED  BY <1>2, <2>1, ReadTypeOK, TransactTypeOK, SingleTypeOK DEF RequestNext
<1> QED  BY <1>1, <1>2

\* However the statements of overlapping transactions interleave, and wherever
\* they abort, every committed row keeps its type and no foreign key dangles.
THEOREM RequestsTypeCorrect == RequestSpec => []TypeOK
<1>1. RequestSpec => []RequestTypeOK
  BY InitRequestTypeOK, NextRequestTypeOK, PTL DEF RequestSpec
<1>2. RequestTypeOK => TypeOK
  BY DEF RequestTypeOK
<1> QED  BY <1>1, <1>2, PTL
=============================================================================
