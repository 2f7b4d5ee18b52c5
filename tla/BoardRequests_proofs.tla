------------------------ MODULE BoardRequests_proofs ------------------------
(***************************************************************************)
(* Proofs about calls whose statements interleave, for every value of the  *)
(* constants and any number of calls in flight: the second part, which     *)
(* follows that of their types in RetroBoard_proofs.                       *)
(*                                                                         *)
(* First the calls made one at a time: what a call has read stays what the *)
(* tables hold, and what is left of a normalisation, done at once, gives   *)
(* the tables of the single step of RetroBoard (RequestInv).  Then the     *)
(* calls that overlap: the entries of the columns that a transaction has   *)
(* renumbered so far have distinct indexes, and those of the columns it    *)
(* does not renumber stand as committed, but for the rows that other calls *)
(* have written since it began (RepairInv).                                *)
(***************************************************************************)
EXTENDS RetroBoard_proofs

-----------------------------------------------------------------------------
(* What a statement leaves for those that follow.                          *)

\* Rows written over those of a transaction, none of them deleted, are what it
\* sees from then on.
LEMMA OverSeen ==
    ASSUME NEW rows, NEW old, NEW new, Deleted(new) = {}, DOMAIN new \subseteq DOMAIN Seen(rows, old)
    PROVE  Seen(rows, Over(new, old)) = Over(new, Seen(rows, old))
<1> DEFINE w == Over(new, old)
           s == Seen(rows, old)
           t == Seen(rows, w)
           u == Over(new, s)
<1>1. /\ DOMAIN s = (DOMAIN rows \cup DOMAIN old) \ Deleted(old)
      /\ \A x \in DOMAIN old \ Deleted(old) : s[x] = old[x]
      /\ \A x \in DOMAIN rows \ DOMAIN old : s[x] = rows[x]
  <2>1. /\ DOMAIN Seen(rows, old) = (DOMAIN rows \cup DOMAIN old) \ Deleted(old)
        /\ \A x \in DOMAIN old \ Deleted(old) : Seen(rows, old)[x] = old[x]
        /\ \A x \in DOMAIN rows \ DOMAIN old : Seen(rows, old)[x] = rows[x]
        /\ Seen(rows, old) = [x \in DOMAIN Seen(rows, old) |-> Seen(rows, old)[x]]
    BY SeenRows, Zenon
  <2> QED  BY <2>1
<1>2. DOMAIN new \cap Deleted(old) = {}
  BY <1>1
<1>3. /\ DOMAIN w = DOMAIN new \cup DOMAIN old
      /\ Deleted(w) = Deleted(old)
      /\ \A x \in DOMAIN new : w[x] = new[x]
      /\ \A x \in DOMAIN old \ DOMAIN new : w[x] = old[x]
  BY <1>2, OverKept
<1>4. /\ DOMAIN t = (DOMAIN rows \cup DOMAIN w) \ Deleted(w)
      /\ \A x \in DOMAIN w \ Deleted(w) : t[x] = w[x]
      /\ \A x \in DOMAIN rows \ DOMAIN w : t[x] = rows[x]
      /\ t = [x \in DOMAIN t |-> t[x]]
  <2> HIDE DEF w
  <2> QED  BY SeenRows
<1>5. /\ DOMAIN u = DOMAIN new \cup DOMAIN s
      /\ \A x \in DOMAIN new : u[x] = new[x]
      /\ \A x \in DOMAIN s \ DOMAIN new : u[x] = s[x]
      /\ u = [x \in DOMAIN u |-> u[x]]
  <2> HIDE DEF s
  <2>1. /\ DOMAIN u = DOMAIN new \cup DOMAIN s
        /\ \A x \in DOMAIN new : u[x] = new[x]
        /\ \A x \in DOMAIN s \ DOMAIN new : u[x] = s[x]
    BY OverRows
  <2>2. u = [x \in DOMAIN u |-> u[x]]
    BY DEF Over
  <2> QED  BY <2>1, <2>2
<1> HIDE DEF s, t, u, w
<1>6. DOMAIN t = DOMAIN u
  BY <1>1, <1>2, <1>3, <1>4, <1>5
<1>7. \A x \in DOMAIN t : t[x] = u[x]
  <2> TAKE x \in DOMAIN t
  <2>1. CASE x \in DOMAIN new
    BY <2>1, <1>2, <1>3, <1>4, <1>5
  <2>2. CASE x \notin DOMAIN new /\ x \in DOMAIN old
    BY <2>2, <1>1, <1>3, <1>4, <1>5, <1>6
  <2>3. CASE x \notin DOMAIN new /\ x \notin DOMAIN old
    BY <2>3, <1>1, <1>3, <1>4, <1>5, <1>6
  <2> QED  BY <2>1, <2>2, <2>3
<1>8. t = u
  BY <1>4, <1>5, <1>6, <1>7
<1> QED  BY <1>8 DEF t, u, w, s

IsTable(rows) == rows = [x \in DOMAIN rows |-> rows[x]]

\* Where a transaction has written nothing, it sees the table.
LEMMA SeenAll ==
    ASSUME NEW rows, IsTable(rows), NEW w, DOMAIN w = {}
    PROVE  Seen(rows, w) = rows
<1>1. Deleted(w) = {}
  BY DEF Deleted
<1>2. /\ DOMAIN Seen(rows, w) = (DOMAIN rows \cup DOMAIN w) \ Deleted(w)
      /\ \A x \in DOMAIN rows \ DOMAIN w : Seen(rows, w)[x] = rows[x]
      /\ Seen(rows, w) = [x \in DOMAIN Seen(rows, w) |-> Seen(rows, w)[x]]
  BY SeenRows
<1> QED  BY <1>1, <1>2 DEF IsTable

LEMMA OverNothing ==
    ASSUME NEW rows, IsTable(rows), NEW new, DOMAIN new = {}
    PROVE  Over(new, rows) = rows
<1>1. /\ DOMAIN Over(new, rows) = DOMAIN new \cup DOMAIN rows
      /\ \A x \in DOMAIN new : Over(new, rows)[x] = new[x]
      /\ \A x \in DOMAIN rows \ DOMAIN new : Over(new, rows)[x] = rows[x]
  BY OverRows
<1>2. Over(new, rows) = [x \in DOMAIN Over(new, rows) |-> Over(new, rows)[x]]
  BY DEF Over
<1> QED  BY <1>1, <1>2 DEF IsTable

LEMMA TablesAreFunctions ==
    ASSUME RequestTypeOK, NEW c \in Calls
    PROVE  /\ IsTable(columns) /\ IsTable(groups) /\ IsTable(items)
           /\ IsTable(MyColumns(c)) /\ IsTable(MyGroups(c)) /\ IsTable(MyItems(c))
<1>1. TypedTables(Boards, columns, groups, items)
  BY TypedAsTables DEF RequestTypeOK
<1>2. TypedTables(Boards, MyColumns(c), MyGroups(c), MyItems(c))
  BY MyTables
<1> QED  BY <1>1, <1>2 DEF TypedTables, ColumnTable, GroupTable, ItemTable, IsTable

\* What the next statement sees after one that writes rows,
LEMMA KeepingWriteSees ==
    ASSUME RequestTypeOK, NEW c \in Calls, NEW w, NEW r, Write(c, w, r),
           Deleted(w.groups) = {}, Deleted(w.items) = {}
    PROVE  /\ UNCHANGED tables
           /\ call'[c] = r
           /\ wrote'[c].columns = Over(w.columns, wrote[c].columns)
           /\ MyGroups(c)' = Over(w.groups, MyGroups(c))
           /\ MyItems(c)' = Over(w.items, MyItems(c))
<1>1. /\ UNCHANGED tables
      /\ call'[c] = r
      /\ wrote'[c] = Written(c, w)
      /\ CanWrite(c, w)
  BY DEF Write, GoOn, RequestTypeOK, CallsOK, WritesOK
<1>2. /\ wrote'[c].columns = Over(w.columns, wrote[c].columns)
      /\ wrote'[c].groups = Over(w.groups, wrote[c].groups)
      /\ wrote'[c].items = Over(w.items, wrote[c].items)
  BY <1>1 DEF Written
<1>3. Deleted(w.groups) = {} /\ Deleted(w.items) = {}
  OBVIOUS
<1>4. MyGroups(c)' = Seen(groups, Over(w.groups, wrote[c].groups))
  BY <1>1, <1>2 DEF MyGroups, tables
<1>5. MyItems(c)' = Seen(items, Over(w.items, wrote[c].items))
  BY <1>1, <1>2 DEF MyItems, tables
<1>6. Seen(groups, Over(w.groups, wrote[c].groups)) = Over(w.groups, MyGroups(c))
  <2> DEFINE new == w.groups
             old == wrote[c].groups
  <2>1. DOMAIN new \subseteq DOMAIN Seen(groups, old)
    BY <1>1 DEF CanWrite, MyGroups
  <2>2. Deleted(new) = {}
    BY <1>3
  <2> HIDE DEF new, old
  <2>3. Seen(groups, Over(new, old)) = Over(new, Seen(groups, old))
    BY <2>1, <2>2, OverSeen
  <2> QED  BY <2>3 DEF new, old, MyGroups
<1>7. Seen(items, Over(w.items, wrote[c].items)) = Over(w.items, MyItems(c))
  <2> DEFINE new == w.items
             old == wrote[c].items
  <2>1. DOMAIN new \subseteq DOMAIN Seen(items, old)
    BY <1>1 DEF CanWrite, MyItems
  <2>2. Deleted(new) = {}
    BY <1>3
  <2> HIDE DEF new, old
  <2>3. Seen(items, Over(new, old)) = Over(new, Seen(items, old))
    BY <2>1, <2>2, OverSeen
  <2> QED  BY <2>3 DEF new, old, MyItems
<1> QED  BY <1>1, <1>2, <1>4, <1>5, <1>6, <1>7

LEMMA WriteSees ==
    ASSUME RequestTypeOK, NEW c \in Calls, NEW w, NEW r, Write(c, w, r),
           NEW X, NEW Y, Plain(w, Boards, X, Y)
    PROVE  /\ UNCHANGED tables
           /\ call'[c] = r
           /\ wrote'[c].columns = Over(w.columns, wrote[c].columns)
           /\ MyGroups(c)' = Over(w.groups, MyGroups(c))
           /\ MyItems(c)' = Over(w.items, MyItems(c))
<1>1. Deleted(w.groups) = {} /\ Deleted(w.items) = {}
  BY PlainKeepsAll
<1> QED  BY <1>1, KeepingWriteSees

\* and what everyone sees after a transaction that ends with one.
LEMMA CommitSees ==
    ASSUME RequestTypeOK, NEW c \in Calls, NEW w, Commit(c, w),
           NEW X, NEW Y, Plain(w, Boards, X, Y)
    PROVE  /\ columns' = Over(w.columns, MyColumns(c))
           /\ groups' = Over(w.groups, MyGroups(c))
           /\ items' = Over(w.items, MyItems(c))
           /\ UNCHANGED lastId
           /\ call'[c] = Idle /\ wrote'[c] = NoWrites
<1>1. /\ columns' = Seen(columns, Over(w.columns, wrote[c].columns))
      /\ groups' = Seen(groups, Over(w.groups, wrote[c].groups))
      /\ items' = Seen(items, Over(w.items, wrote[c].items))
      /\ UNCHANGED lastId /\ CanWrite(c, w)
      /\ call'[c] = Idle /\ wrote'[c] = NoWrites
  BY DEF Commit, Finish, GoOn, Written, RequestTypeOK, CallsOK, WritesOK
<1>2. Deleted(w.columns) = {} /\ Deleted(w.groups) = {} /\ Deleted(w.items) = {}
  BY PlainKeepsAll
<1>3. Seen(columns, Over(w.columns, wrote[c].columns)) = Over(w.columns, MyColumns(c))
  <2> DEFINE new == w.columns
             old == wrote[c].columns
  <2>1. DOMAIN new \subseteq DOMAIN Seen(columns, old) /\ Deleted(new) = {}
    BY <1>1, <1>2 DEF CanWrite, MyColumns
  <2> HIDE DEF new, old
  <2>2. Seen(columns, Over(new, old)) = Over(new, Seen(columns, old))
    BY <2>1, OverSeen
  <2> QED  BY <2>2 DEF new, old, MyColumns
<1>4. Seen(groups, Over(w.groups, wrote[c].groups)) = Over(w.groups, MyGroups(c))
  <2> DEFINE new == w.groups
             old == wrote[c].groups
  <2>1. DOMAIN new \subseteq DOMAIN Seen(groups, old) /\ Deleted(new) = {}
    BY <1>1, <1>2 DEF CanWrite, MyGroups
  <2> HIDE DEF new, old
  <2>2. Seen(groups, Over(new, old)) = Over(new, Seen(groups, old))
    BY <2>1, OverSeen
  <2> QED  BY <2>2 DEF new, old, MyGroups
<1>5. Seen(items, Over(w.items, wrote[c].items)) = Over(w.items, MyItems(c))
  <2> DEFINE new == w.items
             old == wrote[c].items
  <2>1. DOMAIN new \subseteq DOMAIN Seen(items, old) /\ Deleted(new) = {}
    BY <1>1, <1>2 DEF CanWrite, MyItems
  <2> HIDE DEF new, old
  <2>2. Seen(items, Over(new, old)) = Over(new, Seen(items, old))
    BY <2>1, OverSeen
  <2> QED  BY <2>2 DEF new, old, MyItems
<1> QED  BY <1>1, <1>3, <1>4, <1>5

-----------------------------------------------------------------------------
(* A normalisation group by group and column by column.                    *)

\* Renumbering one group leaves the others to be renumbered as they were.
LEMMA MembersInTurn ==
    ASSUME NEW gs, NEW its, NEW C, NEW G, IsFiniteSet(DOMAIN its), ItemTable(its, C, G),
           NEW g \in gs
    PROVE  NormalizedMembers(gs \ {g}, NormalizedMembers({g}, its)) = NormalizedMembers(gs, its)
<1> DEFINE m == NormalizedMembers({g}, its)
           l == NormalizedMembers(gs \ {g}, m)
           r == NormalizedMembers(gs, its)
<1>1. /\ DOMAIN m = DOMAIN its
      /\ \A i \in DOMAIN its : /\ m[i].groupId = its[i].groupId
                               /\ its[i].groupId # g => m[i] = its[i]
  <2>1. \A i \in DOMAIN its : its[i].groupId = g =>
            m[i] = [its[i] EXCEPT !.rowIndex = MemberRank(i, its)]
    BY DEF NormalizedMembers
  <2>2. \A i \in DOMAIN its : its[i].groupId # g => m[i] = its[i]
    BY DEF NormalizedMembers
  <2>3. DOMAIN m = DOMAIN its
    BY DEF NormalizedMembers
  <2>4. \A i \in DOMAIN its : m[i].groupId = its[i].groupId
    BY <2>1, <2>2 DEF ItemTable
  <2> QED  BY <2>1, <2>2, <2>3, <2>4
<1>0. \A i \in DOMAIN its : its[i].groupId = g =>
            m[i] = [its[i] EXCEPT !.rowIndex = MemberRank(i, its)]
  BY DEF NormalizedMembers
<1>2. /\ DOMAIN l = DOMAIN m /\ DOMAIN r = DOMAIN its
      /\ l = [i \in DOMAIN l |-> l[i]] /\ r = [i \in DOMAIN r |-> r[i]]
  BY DEF NormalizedMembers
<1>3. \A i \in DOMAIN m : l[i] = IF m[i].groupId \in gs \ {g}
                                 THEN [m[i] EXCEPT !.rowIndex = MemberRank(i, m)] ELSE m[i]
  <2> HIDE DEF m
  <2> QED  BY DEF NormalizedMembers
<1>4. \A i \in DOMAIN its : r[i] = IF its[i].groupId \in gs
                                   THEN [its[i] EXCEPT !.rowIndex = MemberRank(i, its)]
                                   ELSE its[i]
  BY DEF NormalizedMembers
<1> HIDE DEF m, l, r
<1>5. ASSUME NEW i \in DOMAIN its, its[i].groupId # g
      PROVE  MemberRank(i, m) = MemberRank(i, its)
  <2>1. m[i] = its[i]
    BY <1>1, <1>5
  <2>2. Members(its[i].groupId, m) = Members(its[i].groupId, its)
    BY <1>1 DEF Members
  <2>3. \A j \in Members(its[i].groupId, its) : m[j] = its[j]
    BY <1>1, <1>5 DEF Members
  <2> DEFINE A == {j \in Members(its[i].groupId, m) :
                      \/ m[j].rowIndex < m[i].rowIndex
                      \/ m[j].rowIndex = m[i].rowIndex /\ j < i}
             B == {j \in Members(its[i].groupId, its) :
                      \/ its[j].rowIndex < its[i].rowIndex
                      \/ its[j].rowIndex = its[i].rowIndex /\ j < i}
  <2>4. A = B
    BY <2>1, <2>2, <2>3
  <2>5. MemberRank(i, m) = Cardinality(A) /\ MemberRank(i, its) = Cardinality(B)
    BY <2>1 DEF MemberRank
  <2> QED  BY <2>4, <2>5
<1>6. ASSUME NEW i \in DOMAIN its
      PROVE  l[i] = r[i]
  <2>1. CASE its[i].groupId = g
    <3>1. m[i] = [its[i] EXCEPT !.rowIndex = MemberRank(i, its)] /\ m[i].groupId = g
      BY <2>1, <1>0, <1>1
    <3>2. l[i] = m[i]
      BY <3>1, <1>1, <1>3
    <3>3. r[i] = [its[i] EXCEPT !.rowIndex = MemberRank(i, its)]
      BY <2>1, <1>4
    <3> QED  BY <3>1, <3>2, <3>3
  <2>2. CASE its[i].groupId # g
    <3>1. m[i] = its[i] /\ MemberRank(i, m) = MemberRank(i, its)
      BY <2>2, <1>1, <1>5
    <3> QED  BY <2>2, <3>1, <1>1, <1>3, <1>4
  <2> QED  BY <2>1, <2>2
<1>7. l = r
  BY <1>1, <1>2, <1>6
<1> QED  BY <1>7 DEF l, r, m

\* So does renumbering the root of one column.
LEMMA RootsInTurn ==
    ASSUME NEW cols, NEW grs, NEW its, NEW groupMark, NEW itemMark, NEW C, NEW G,
           FiniteTables(grs, its), GroupTable(grs, C), ItemTable(its, C, G), NEW col \in cols,
           NEW n, n = NormalizedRoots({col}, grs, its, groupMark, itemMark)
    PROVE  NormalizedRoots(cols \ {col}, n.groups, n.items, groupMark, itemMark)
                = NormalizedRoots(cols, grs, its, groupMark, itemMark)
<1> DEFINE E(c) == RootEntries(c, grs, its, groupMark, itemMark)
           ge(g) == GroupEntry(g, grs, groupMark)
           ie(i) == ItemEntry(i, its, itemMark)
           ng == n.groups
           ni == n.items
           F(c) == RootEntries(c, ng, ni, groupMark, itemMark)
           gf(g) == GroupEntry(g, ng, groupMark)
           jf(i) == ItemEntry(i, ni, itemMark)
           l == NormalizedRoots(cols \ {col}, ng, ni, groupMark, itemMark)
           r == NormalizedRoots(cols, grs, its, groupMark, itemMark)
<1>1. /\ DOMAIN ng = DOMAIN grs
      /\ \A g \in DOMAIN grs : ng[g].columnId = grs[g].columnId
      /\ DOMAIN ni = DOMAIN its
      /\ \A i \in DOMAIN its : /\ ni[i].columnId = its[i].columnId
                                /\ ni[i].groupId = its[i].groupId
  BY NormalizedRootsType
<1>2. /\ ng = [g \in DOMAIN grs |->
            IF grs[g].columnId \in {col}
            THEN [grs[g] EXCEPT !.orderIndex = Place(ge(g), E(grs[g].columnId))]
            ELSE grs[g]]
      /\ ni = [i \in DOMAIN its |->
            IF its[i].columnId \in {col} /\ its[i].groupId = NoGroup
            THEN [its[i] EXCEPT !.rowIndex = Place(ie(i), E(its[i].columnId))]
            ELSE its[i]]
  BY DEF NormalizedRoots
<1> HIDE DEF ng, ni
<1>3. /\ l = [groups |-> l.groups, items |-> l.items]
      /\ l.groups = [g \in DOMAIN ng |->
            IF ng[g].columnId \in cols \ {col}
            THEN [ng[g] EXCEPT !.orderIndex = Place(gf(g), F(ng[g].columnId))]
            ELSE ng[g]]
      /\ l.items = [i \in DOMAIN ni |->
            IF ni[i].columnId \in cols \ {col} /\ ni[i].groupId = NoGroup
            THEN [ni[i] EXCEPT !.rowIndex = Place(jf(i), F(ni[i].columnId))]
            ELSE ni[i]]
  BY DEF NormalizedRoots
<1>4. /\ r = [groups |-> r.groups, items |-> r.items]
      /\ r.groups = [g \in DOMAIN grs |->
            IF grs[g].columnId \in cols
            THEN [grs[g] EXCEPT !.orderIndex = Place(ge(g), E(grs[g].columnId))]
            ELSE grs[g]]
      /\ r.items = [i \in DOMAIN its |->
            IF its[i].columnId \in cols /\ its[i].groupId = NoGroup
            THEN [its[i] EXCEPT !.rowIndex = Place(ie(i), E(its[i].columnId))]
            ELSE its[i]]
  BY DEF NormalizedRoots
<1>5. /\ \A g \in DOMAIN grs : grs[g].columnId # col => ng[g] = grs[g] /\ gf(g) = ge(g)
      /\ \A i \in DOMAIN its : its[i].columnId # col => ni[i] = its[i] /\ jf(i) = ie(i)
  BY <1>2 DEF GroupEntry, ItemEntry
<1>6. \A c : c # col => F(c) = E(c)
  <2> TAKE c
  <2> HAVE c # col
  <2>1. /\ GroupsOf(c, ng) = GroupsOf(c, grs) /\ RootItems(c, ni) = RootItems(c, its)
        /\ \A g \in GroupsOf(c, grs) : gf(g) = ge(g)
        /\ \A i \in RootItems(c, its) : jf(i) = ie(i)
    BY <1>1, <1>5 DEF GroupsOf, RootItems
  <2> QED  BY <2>1 DEF RootEntries
<1> HIDE DEF E, F, ge, gf, ie, jf, l, r
<1>7. l.groups = r.groups
  <2>0. /\ l.groups = [g \in DOMAIN grs |-> l.groups[g]]
        /\ r.groups = [g \in DOMAIN grs |-> r.groups[g]]
    <3>1. IsTable(l.groups) /\ DOMAIN l.groups = DOMAIN grs
      BY <1>1, <1>3 DEF IsTable
    <3>2. IsTable(r.groups) /\ DOMAIN r.groups = DOMAIN grs
      BY <1>4 DEF IsTable
    <3> QED  BY <3>1, <3>2 DEF IsTable
  <2>1. ASSUME NEW g \in DOMAIN grs PROVE l.groups[g] = r.groups[g]
    <3>1. CASE grs[g].columnId = col
      BY <3>1, <1>1, <1>2, <1>3, <1>4
    <3>2. CASE grs[g].columnId # col
      BY <3>2, <1>1, <1>3, <1>4, <1>5, <1>6
    <3> QED  BY <3>1, <3>2
  <2> QED  BY <2>0, <2>1
<1>8. l.items = r.items
  <2>0. /\ l.items = [i \in DOMAIN its |-> l.items[i]]
        /\ r.items = [i \in DOMAIN its |-> r.items[i]]
    <3>1. IsTable(l.items) /\ DOMAIN l.items = DOMAIN its
      BY <1>1, <1>3 DEF IsTable
    <3>2. IsTable(r.items) /\ DOMAIN r.items = DOMAIN its
      BY <1>4 DEF IsTable
    <3> QED  BY <3>1, <3>2 DEF IsTable
  <2>1. ASSUME NEW i \in DOMAIN its PROVE l.items[i] = r.items[i]
    <3>1. CASE its[i].columnId = col
      BY <3>1, <1>1, <1>2, <1>3, <1>4
    <3>2. CASE its[i].columnId # col
      BY <3>2, <1>1, <1>3, <1>4, <1>5, <1>6
    <3> QED  BY <3>1, <3>2
  <2> QED  BY <2>0, <2>1
<1>9. l = r
  BY <1>3, <1>4, <1>7, <1>8
<1> QED  BY <1>9 DEF l, r, ng, ni

-----------------------------------------------------------------------------
(* Calls made one at a time: what is left of a normalisation, done at      *)
(* once, gives what RetroBoard writes in one step.                         *)

GroupMarks(q, grs) == GroupMoveMarks(q.groupMoves.changes, q.groupMoves.before, grs)

ItemMarks(q, its) == ItemMoveMarks(q.itemMoves.changes, q.itemMoves.before, its)

Sorted(cols, gs, q, grs, its) ==
    NormalizedRoots(cols, grs, NormalizedMembers(gs, its), GroupMarks(q, grs),
                    ItemMarks(q, its))

IndexedGroups(gi, grs) == Over([g \in DOMAIN gi |-> [grs[g] EXCEPT !.orderIndex = gi[g]]], grs)

IndexedItems(ii, its) == Over([i \in DOMAIN ii |-> [its[i] EXCEPT !.rowIndex = ii[i]]], its)

\* The tables after a request or a deletion that ends in a normalisation.
Outcome(o) ==
    \/ \E b \in Boards : \E ch \in Batches(ItemChanges(b)) :
            o = ItemSync(ch, items, groups, items)
    \/ \E b \in Boards : \E ch \in Batches(GroupChanges(b)) :
            /\ RepeatedGroups \/ NamesOnce(ch)
            /\ o = GroupSync(ch, groups, groups, items)
    \/ \E g \in DOMAIN groups : o = GroupDeletion(g, groups[g], groups, items)

NormalizeFresh(q, grs, its) ==
    Outcome(Sorted(q.columns, q.groups, q,
                   IndexedGroups(q.groupIndex, grs), IndexedItems(q.itemIndex, its)))

RootsFresh(r, grs, its) ==
    /\ r.normalizing.groups = {}
    /\ r.column \notin r.normalizing.columns
    /\ r.items = Restrict(its, RootItems(r.column, its))
    /\ Outcome(Sorted(r.normalizing.columns \cup {r.column}, {}, r.normalizing, grs, its))

LEMMA OutcomeKept ==
    ASSUME UNCHANGED tables, NEW o, Outcome(o)
    PROVE  Outcome(o)'
<1>1. columns' = columns /\ groups' = groups /\ items' = items /\ Boards' = Boards
  BY DEF tables, Boards
<1> QED  BY <1>1 DEF Outcome, ItemChanges, GroupChanges

LEMMA IndexedTables ==
    ASSUME NEW gi, NEW ii, NEW grs, NEW its, NEW C, NEW G,
           FiniteTables(grs, its), GroupTable(grs, C), ItemTable(its, C, G),
           DOMAIN gi \subseteq DOMAIN grs, DOMAIN ii \subseteq DOMAIN its,
           \A g \in DOMAIN gi : gi[g] \in Nat, \A i \in DOMAIN ii : ii[i] \in Nat,
           NEW a, a = IndexedGroups(gi, grs), NEW b, b = IndexedItems(ii, its)
    PROVE  /\ FiniteTables(a, b) /\ GroupTable(a, C) /\ ItemTable(b, C, G)
           /\ DOMAIN a = DOMAIN grs /\ DOMAIN b = DOMAIN its
           /\ IsTable(a) /\ IsTable(b)
<1>1. a = [g \in DOMAIN grs |-> IF g \in DOMAIN gi THEN [grs[g] EXCEPT !.orderIndex = gi[g]]
                                ELSE grs[g]]
  BY DEF IndexedGroups, Over
<1>2. b = [i \in DOMAIN its |-> IF i \in DOMAIN ii THEN [its[i] EXCEPT !.rowIndex = ii[i]]
                                ELSE its[i]]
  BY DEF IndexedItems, Over
<1>3. GroupTable(a, C) /\ DOMAIN a = DOMAIN grs
  BY <1>1 DEF GroupTable
<1>4. ItemTable(b, C, G) /\ DOMAIN b = DOMAIN its
  BY <1>2 DEF ItemTable
<1> QED  BY <1>3, <1>4 DEF FiniteTables, GroupTable, ItemTable, IsTable

LEMMA IndexedByNothing ==
    ASSUME NEW rows, IsTable(rows)
    PROVE  IndexedGroups(<<>>, rows) = rows /\ IndexedItems(<<>>, rows) = rows
<1> DEFINE a == [g \in DOMAIN <<>> |-> [rows[g] EXCEPT !.orderIndex = <<>>[g]]]
           b == [i \in DOMAIN <<>> |-> [rows[i] EXCEPT !.rowIndex = <<>>[i]]]
<1>1. DOMAIN a = {} /\ DOMAIN b = {}
  BY NothingWritten
<1>2. IndexedGroups(<<>>, rows) = Over(a, rows) /\ IndexedItems(<<>>, rows) = Over(b, rows)
  BY DEF IndexedGroups, IndexedItems
<1> HIDE DEF a, b
<1> QED  BY <1>1, <1>2, OverNothing

\* The tables that a normalisation has read and rewritten so far.
LEMMA RenumberedSo ==
    ASSUME RequestTypeOK, NEW c \in Calls, call[c].step = "NORMALIZE", RowsAreThere(c)
    PROVE  /\ Over(Renumbering(c).groups, MyGroups(c)) = IndexedGroups(call[c].groupIndex, MyGroups(c))
           /\ Over(Renumbering(c).items, MyItems(c)) = IndexedItems(call[c].itemIndex, MyItems(c))
           /\ RenumberedItems(c) = IndexedItems(call[c].itemIndex, MyItems(c))
<1> DEFINE new == Renumbering(c).items
           old == wrote[c].items
<1>1. Over(Renumbering(c).groups, MyGroups(c)) = IndexedGroups(call[c].groupIndex, MyGroups(c))
  BY DEF Renumbering, IndexedGroups
<1>2. Over(new, MyItems(c)) = IndexedItems(call[c].itemIndex, MyItems(c))
  BY DEF Renumbering, IndexedItems
<1>3. Deleted(new) = {}
  BY RenumberingPlain, PlainKeepsAll
<1>4. DOMAIN new \subseteq DOMAIN Seen(items, old)
  BY DEF Renumbering, RowsAreThere, MyItems
<1>5. RenumberedItems(c) = Seen(items, Over(new, old))
  BY DEF RenumberedItems, Written
<1> HIDE DEF new, old
<1>6. Seen(items, Over(new, old)) = Over(new, Seen(items, old))
  BY <1>3, <1>4, OverSeen
<1>7. Over(new, Seen(items, old)) = Over(new, MyItems(c))
  BY DEF MyItems, old
<1> QED  BY <1>1, <1>2, <1>5, <1>6, <1>7 DEF new

\* What the normalisation of c has so far made of the tables has their types.
LEMMA IndexedSoFar ==
    ASSUME RequestTypeOK, NEW c \in Calls, call[c].step = "NORMALIZE", RowsAreThere(c),
           NEW a, a = IndexedGroups(call[c].groupIndex, MyGroups(c)),
           NEW b, b = IndexedItems(call[c].itemIndex, MyItems(c))
    PROVE  /\ FiniteTables(a, b)
           /\ GroupTable(a, DOMAIN MyColumns(c))
           /\ ItemTable(b, DOMAIN MyColumns(c), DOMAIN MyGroups(c))
           /\ IsTable(a) /\ IsTable(b)
<1> DEFINE q == call[c]
           grs == MyGroups(c)
           its == MyItems(c)
           C == DOMAIN MyColumns(c)
           G == DOMAIN MyGroups(c)
           gi == q.groupIndex
           ii == q.itemIndex
<1>1. NormalizingOK(q)
  BY DEF RequestTypeOK, CallsOK, RequestOK
<1>2. /\ \A g \in DOMAIN gi : gi[g] \in Nat
      /\ \A i \in DOMAIN ii : ii[i] \in Nat
  BY <1>1 DEF NormalizingOK
<1>3. DOMAIN gi \subseteq DOMAIN grs /\ DOMAIN ii \subseteq DOMAIN its
  BY DEF RowsAreThere
<1>4. FiniteTables(grs, its) /\ GroupTable(grs, C) /\ ItemTable(its, C, G)
  BY MyTables DEF TypedTables
<1>5. a = IndexedGroups(gi, grs) /\ b = IndexedItems(ii, its)
  OBVIOUS
<1> HIDE DEF q, grs, its, C, G, gi, ii
<1>6. /\ FiniteTables(a, b) /\ GroupTable(a, C) /\ ItemTable(b, C, G)
      /\ DOMAIN a = DOMAIN grs /\ DOMAIN b = DOMAIN its
      /\ IsTable(a) /\ IsTable(b)
  BY <1>2, <1>3, <1>4, <1>5, IndexedTables
<1> QED  BY <1>6 DEF C, G

LEMMA MarksStay ==
    ASSUME NEW q, NEW p, p.itemMoves = q.itemMoves, p.groupMoves = q.groupMoves,
           NEW grs, NEW its, NEW a, NEW b, DOMAIN a = DOMAIN grs, DOMAIN b = DOMAIN its
    PROVE  GroupMarks(p, a) = GroupMarks(q, grs) /\ ItemMarks(p, b) = ItemMarks(q, its)
BY DEF GroupMarks, ItemMarks, GroupMoveMarks, ItemMoveMarks

\* One group less to renumber.
LEMMA OneGroupLess ==
    ASSUME NEW q, NEW p, p.itemMoves = q.itemMoves, p.groupMoves = q.groupMoves,
           NEW cols, NEW gs, NEW g \in gs, NEW a, NEW b, NEW C, NEW G,
           FiniteTables(a, b), ItemTable(b, C, G),
           NEW m, m = NormalizedMembers({g}, b)
    PROVE  Sorted(cols, gs \ {g}, p, a, m) = Sorted(cols, gs, q, a, b)
<1>1. DOMAIN m = DOMAIN b
  BY DEF NormalizedMembers
<1>2. GroupMarks(p, a) = GroupMarks(q, a) /\ ItemMarks(p, m) = ItemMarks(q, b)
  BY <1>1, MarksStay
<1>3. NormalizedMembers(gs \ {g}, m) = NormalizedMembers(gs, b)
  BY MembersInTurn DEF FiniteTables
<1> QED  BY <1>2, <1>3 DEF Sorted

LEMMA NoMembers ==
    ASSUME NEW its, IsTable(its)
    PROVE  NormalizedMembers({}, its) = its
<1>1. NormalizedMembers({}, its) = [i \in DOMAIN its |-> its[i]]
  BY DEF NormalizedMembers
<1> QED  BY <1>1 DEF IsTable

\* With nothing left to renumber, the tables are as they should be.
LEMMA NothingLess ==
    ASSUME NEW q, NEW a, NEW b, IsTable(a), IsTable(b)
    PROVE  Sorted({}, {}, q, a, b) = [groups |-> a, items |-> b]
<1> DEFINE gm == GroupMarks(q, a)
           im == ItemMarks(q, b)
           n == NormalizedRoots({}, a, b, gm, im)
<1>1. Sorted({}, {}, q, a, b) = n
  BY NoMembers DEF Sorted
<1>2. /\ n = [groups |-> n.groups, items |-> n.items]
      /\ n.groups = [g \in DOMAIN a |-> a[g]]
      /\ n.items = [i \in DOMAIN b |-> b[i]]
  <2> HIDE DEF gm, im
  <2> QED  BY DEF NormalizedRoots
<1> HIDE DEF n
<1> QED  BY <1>1, <1>2 DEF IsTable

\* The tables rewritten by what a query of the normalisation has found.
LEMMA MembersIndexed ==
    ASSUME NEW its, IsTable(its), NEW g
    PROVE  IndexedItems([i \in Members(g, its) |-> MemberRank(i, its)], its)
                = NormalizedMembers({g}, its)
<1> DEFINE rank == [i \in Members(g, its) |-> MemberRank(i, its)]
           l == IndexedItems(rank, its)
           r == NormalizedMembers({g}, its)
<1>1. /\ r = [i \in DOMAIN its |-> IF its[i].groupId \in {g}
                                   THEN [its[i] EXCEPT !.rowIndex = MemberRank(i, its)]
                                   ELSE its[i]]
      /\ l = [i \in Members(g, its) \cup DOMAIN its |->
                IF i \in Members(g, its) THEN [its[i] EXCEPT !.rowIndex = rank[i]] ELSE its[i]]
  BY DEF IndexedItems, NormalizedMembers, Over
<1>2. Members(g, its) \cup DOMAIN its = DOMAIN its
  BY DEF Members
<1>3. \A i \in Members(g, its) : rank[i] = MemberRank(i, its)
  OBVIOUS
<1>4. \A i \in DOMAIN its : i \in Members(g, its) <=> its[i].groupId \in {g}
  BY DEF Members
<1> HIDE DEF rank
<1>5. l = [i \in DOMAIN its |->
                IF its[i].groupId \in {g} THEN [its[i] EXCEPT !.rowIndex = MemberRank(i, its)]
                ELSE its[i]]
  BY <1>1, <1>2, <1>3, <1>4
<1> HIDE DEF l, r
<1>6. l = r
  BY <1>1, <1>5
<1> QED  BY <1>6 DEF l, r, rank

LEMMA RootsIndexed ==
    ASSUME NEW col, NEW a, NEW b, NEW C, NEW G, GroupTable(a, C), ItemTable(b, C, G),
           NEW q, NEW its, its = Restrict(b, RootItems(col, b)),
           NEW S, S = RootEntries(col, a, its, GroupMarks(q, a), ItemMarks(q, its)),
           NEW gi, gi = [g \in GroupsOf(col, a) |-> Place(GroupEntry(g, a, GroupMarks(q, a)), S)],
           NEW ii, ii = [i \in DOMAIN its |-> Place(ItemEntry(i, its, ItemMarks(q, its)), S)],
           NEW n, n = NormalizedRoots({col}, a, b, GroupMarks(q, a), ItemMarks(q, b))
    PROVE  IndexedGroups(gi, a) = n.groups /\ IndexedItems(ii, b) = n.items
<1> DEFINE R == RootItems(col, b)
           T == RootEntries(col, a, b, GroupMarks(q, a), ItemMarks(q, b))
           gm == GroupMarks(q, a)
           im == ItemMarks(q, b)
           km == ItemMarks(q, its)
<1>1. DOMAIN its = R /\ R \subseteq DOMAIN b /\ \A i \in R : its[i] = b[i]
  BY DEF Restrict, RootItems
<1>2. RootItems(col, its) = R
  BY <1>1 DEF RootItems
<1>3. \A i \in R : km[i] = im[i]
  BY <1>1 DEF ItemMarks, ItemMoveMarks
<1>4. \A i \in R : ItemEntry(i, its, km) = ItemEntry(i, b, im)
  BY <1>1, <1>3 DEF ItemEntry
<1>5. S = T
  <2> HIDE DEF gm, im, km
  <2>1. S = RootEntries(col, a, its, gm, km) /\ T = RootEntries(col, a, b, gm, im)
    BY DEF gm, im, km
  <2> HIDE DEF T, R
  <2> QED  BY <1>2, <1>4, <2>1 DEF RootEntries, R
<1>6. /\ n.groups = [g \in DOMAIN a |->
            IF a[g].columnId \in {col}
            THEN [a[g] EXCEPT !.orderIndex =
                    Place(GroupEntry(g, a, gm), RootEntries(a[g].columnId, a, b, gm, im))]
            ELSE a[g]]
      /\ n.items = [i \in DOMAIN b |->
            IF b[i].columnId \in {col} /\ b[i].groupId = NoGroup
            THEN [b[i] EXCEPT !.rowIndex =
                    Place(ItemEntry(i, b, im), RootEntries(b[i].columnId, a, b, gm, im))]
            ELSE b[i]]
  <2>1. n = NormalizedRoots({col}, a, b, gm, im)
    OBVIOUS
  <2> HIDE DEF gm, im
  <2> QED  BY <2>1 DEF NormalizedRoots
<1>7. /\ DOMAIN gi = GroupsOf(col, a)
      /\ \A g \in GroupsOf(col, a) : gi[g] = Place(GroupEntry(g, a, gm), T)
      /\ DOMAIN ii = R
      /\ \A i \in R : ii[i] = Place(ItemEntry(i, b, im), T)
  <2>1. ii = [i \in DOMAIN its |-> Place(ItemEntry(i, its, km), S)]
    OBVIOUS
  <2>2. gi = [g \in GroupsOf(col, a) |-> Place(GroupEntry(g, a, gm), S)]
    OBVIOUS
  <2> HIDE DEF gm, im, km, T, R
  <2> QED  BY <1>1, <1>4, <1>5, <2>1, <2>2
<1>8. T = RootEntries(col, a, b, gm, im)
  OBVIOUS
<1> HIDE DEF T, gm, im, km
<1>9. \A g \in DOMAIN a : g \in DOMAIN gi <=> a[g].columnId \in {col}
  BY <1>7 DEF GroupsOf
<1>10. \A i \in DOMAIN b : i \in DOMAIN ii <=> b[i].columnId \in {col} /\ b[i].groupId = NoGroup
  BY <1>7 DEF RootItems, R
<1>11. IndexedGroups(gi, a) = n.groups
  <2>1. DOMAIN gi \cup DOMAIN a = DOMAIN a
    BY <1>7 DEF GroupsOf
  <2>2. IndexedGroups(gi, a) = [g \in DOMAIN a |->
            IF g \in DOMAIN gi THEN [a[g] EXCEPT !.orderIndex = gi[g]] ELSE a[g]]
    BY <2>1 DEF IndexedGroups, Over
  <2>3. \A g \in DOMAIN a : g \in DOMAIN gi =>
            gi[g] = Place(GroupEntry(g, a, gm), RootEntries(a[g].columnId, a, b, gm, im))
    BY <1>7, <1>8, <1>9
  <2> QED  BY <1>6, <1>9, <2>2, <2>3
<1>12. IndexedItems(ii, b) = n.items
  <2>1. DOMAIN ii \cup DOMAIN b = DOMAIN b
    BY <1>1, <1>7
  <2>2. IndexedItems(ii, b) = [i \in DOMAIN b |->
            IF i \in DOMAIN ii THEN [b[i] EXCEPT !.rowIndex = ii[i]] ELSE b[i]]
    BY <2>1 DEF IndexedItems, Over
  <2>3. \A i \in DOMAIN b : i \in DOMAIN ii =>
            ii[i] = Place(ItemEntry(i, b, im), RootEntries(b[i].columnId, a, b, gm, im))
    BY <1>7, <1>8, <1>10
  <2> QED  BY <1>6, <1>10, <2>2, <2>3
<1> QED  BY <1>11, <1>12

\* What a call that normalises has before it and after each step.
Sorts(c) ==
    /\ DOMAIN wrote[c].columns = {}
    /\ call[c].step = "NORMALIZE" => NormalizeFresh(call[c], MyGroups(c), MyItems(c))
    /\ call[c].step = "ROOT_GROUPS" => RootsFresh(call[c], MyGroups(c), MyItems(c))

LEMMA NormalizeFreshNext ==
    ASSUME UNCHANGED tables, NEW c, NEW o, Outcome(o), NEW r, call'[c] = r,
           DOMAIN wrote'[c].columns = {}, r.step = "NORMALIZE",
           NEW a, MyGroups(c)' = a, NEW b, MyItems(c)' = b,
           Sorted(r.columns, r.groups, r,
                  IndexedGroups(r.groupIndex, a), IndexedItems(r.itemIndex, b)) = o
    PROVE  Sorts(c)'
<1>1. Outcome(o)'
  BY OutcomeKept
<1>2. NormalizeFresh(call[c], MyGroups(c), MyItems(c))'
  BY <1>1 DEF NormalizeFresh
<1> QED  BY <1>2 DEF Sorts

LEMMA RootsFreshNext ==
    ASSUME UNCHANGED tables, NEW c, NEW o, Outcome(o), NEW r, call'[c] = r,
           DOMAIN wrote'[c].columns = {}, r.step = "ROOT_GROUPS",
           NEW a, MyGroups(c)' = a, NEW b, MyItems(c)' = b,
           r.normalizing.groups = {}, r.column \notin r.normalizing.columns, r.items = Restrict(b, RootItems(r.column, b)),
           Sorted(r.normalizing.columns \cup {r.column}, {}, r.normalizing, a, b) = o
    PROVE  Sorts(c)'
<1>1. Outcome(o)'
  BY OutcomeKept
<1>2. RootsFresh(call[c], MyGroups(c), MyItems(c))'
  BY <1>1 DEF RootsFresh
<1> QED  BY <1>2 DEF Sorts

\* A normalisation that begins: the tables as the transaction has left them.
LEMMA SortsFromHere ==
    ASSUME UNCHANGED tables, NEW c, NEW o, Outcome(o),
           NEW im, NEW gm, NEW gs, NEW cols, call'[c] = Normalizing(im, gm, gs, cols),
           DOMAIN wrote'[c].columns = {},
           NEW a, MyGroups(c)' = a, IsTable(a), NEW b, MyItems(c)' = b, IsTable(b),
           NormalizedRoots(cols, a, NormalizedMembers(gs, b),
                           GroupMoveMarks(gm.changes, gm.before, a),
                           ItemMoveMarks(im.changes, im.before, b)) = o
    PROVE  Sorts(c)'
<1> DEFINE r == Normalizing(im, gm, gs, cols)
<1>1. /\ r.step = "NORMALIZE" /\ r.columns = cols /\ r.groups = gs
      /\ r.itemMoves = im /\ r.groupMoves = gm
      /\ r.groupIndex = <<>> /\ r.itemIndex = <<>>
  BY DEF Normalizing
<1>2. call'[c] = r
  OBVIOUS
<1> HIDE DEF r
<1>3. IndexedGroups(r.groupIndex, a) = a /\ IndexedItems(r.itemIndex, b) = b
  BY <1>1, IndexedByNothing
<1>4. Sorted(r.columns, r.groups, r, a, b) = o
  BY <1>1 DEF Sorted, GroupMarks, ItemMarks
<1>5. Sorted(r.columns, r.groups, r,
             IndexedGroups(r.groupIndex, a), IndexedItems(r.itemIndex, b)) = o
  BY <1>3, <1>4
<1> QED  BY <1>1, <1>2, <1>5, NormalizeFreshNext

\* What a step of the normalisation writes is what it has renumbered so far.
LEMMA SortedSoFar ==
    ASSUME RequestTypeOK, NEW c \in Calls, call[c].step = "NORMALIZE", RowsAreThere(c),
           DOMAIN wrote[c].columns = {}, NEW r, Write(c, Renumbering(c), r),
           NEW a, a = IndexedGroups(call[c].groupIndex, MyGroups(c)),
           NEW b, b = IndexedItems(call[c].itemIndex, MyItems(c))
    PROVE  /\ UNCHANGED tables /\ call'[c] = r
           /\ DOMAIN wrote'[c].columns = {}
           /\ MyGroups(c)' = a /\ MyItems(c)' = b
           /\ RenumberedItems(c) = b
<1> DEFINE w == Renumbering(c)
           X == DOMAIN MyColumns(c)
           Y == {NoGroup} \cup DOMAIN MyGroups(c)
<1>1. Plain(w, Boards, X, Y)
  BY RenumberingPlain
<1>2. w.columns = <<>>
  BY DEF Renumbering
<1> HIDE DEF w, X, Y
<1>3. /\ UNCHANGED tables /\ call'[c] = r
      /\ wrote'[c].columns = Over(w.columns, wrote[c].columns)
      /\ MyGroups(c)' = Over(w.groups, MyGroups(c))
      /\ MyItems(c)' = Over(w.items, MyItems(c))
  <2>1. Write(c, w, r)
    BY DEF w
  <2> QED  BY <1>1, <2>1, WriteSees
<1>4. DOMAIN wrote'[c].columns = {}
  BY <1>2, <1>3, NothingWritten DEF Over
<1> QED  BY <1>3, <1>4, RenumberedSo DEF w

LEMMA ReadMembersFresh ==
    ASSUME RequestTypeOK, NEW c \in Calls, Sorts(c), ReadMembers(c)
    PROVE  UNCHANGED tables /\ call'[c].step = "NORMALIZE" /\ Sorts(c)'
<1> DEFINE its == RenumberedItems(c)
           q == call[c]
           a == IndexedGroups(q.groupIndex, MyGroups(c))
           b == IndexedItems(q.itemIndex, MyItems(c))
           C == DOMAIN MyColumns(c)
           G == DOMAIN MyGroups(c)
<1>1. q.step = "NORMALIZE" /\ RowsAreThere(c) /\ DOMAIN wrote[c].columns = {} /\ NormalizingOK(q)
  BY DEF ReadMembers, Sorts, RequestTypeOK, CallsOK, RequestOK
<1>2. PICK g \in q.groups :
            Write(c, Renumbering(c),
                  [q EXCEPT !.groups = @ \ {g}, !.groupIndex = <<>>,
                            !.itemIndex = [i \in Members(g, its) |-> MemberRank(i, its)]])
  BY DEF ReadMembers
<1> HIDE DEF its
<1> DEFINE rank == [i \in Members(g, its) |-> MemberRank(i, its)]
           left == q.groups \ {g}
           r == WithGroups(q, left, <<>>, rank)
<1>3. Write(c, Renumbering(c), r)
  BY <1>2 DEF WithGroups
<1>4. /\ FiniteTables(a, b) /\ GroupTable(a, C) /\ ItemTable(b, C, G)
      /\ IsTable(a) /\ IsTable(b)
  BY <1>1, IndexedSoFar
<1>5. Outcome(Sorted(q.columns, q.groups, q, a, b))
  BY <1>1 DEF Sorts, NormalizeFresh
<1> HIDE DEF r, rank, left, C, G
<1>6. /\ UNCHANGED tables /\ call'[c] = r /\ DOMAIN wrote'[c].columns = {}
      /\ MyGroups(c)' = a /\ MyItems(c)' = b /\ RenumberedItems(c) = b
  BY <1>1, <1>3, SortedSoFar
<1>7. r = Normalization(q.itemMoves, q.groupMoves, left, q.columns, q.renumbers, <<>>, rank)
  BY <1>1, NormalizingGoesOn DEF r
<1>8. /\ r.step = "NORMALIZE" /\ r.columns = q.columns /\ r.groups = left
      /\ r.itemMoves = q.itemMoves /\ r.groupMoves = q.groupMoves
      /\ r.groupIndex = <<>> /\ r.itemIndex = rank
  BY <1>7 DEF Normalization
<1> HIDE DEF a, b, q
<1>9. IndexedGroups(r.groupIndex, a) = a
  BY <1>4, <1>8, IndexedByNothing
<1>10. IndexedItems(r.itemIndex, b) = NormalizedMembers({g}, b)
  BY <1>4, <1>6, <1>8, MembersIndexed DEF rank, its
<1>11. Sorted(q.columns, left, r, a, NormalizedMembers({g}, b))
            = Sorted(q.columns, q.groups, q, a, b)
  <2> DEFINE m == NormalizedMembers({g}, b)
             gs == q.groups
             cols == q.columns
  <2>1. g \in gs /\ left = gs \ {g}
    BY DEF left
  <2>2. m = NormalizedMembers({g}, b)
    OBVIOUS
  <2> HIDE DEF m, gs, cols
  <2>3. Sorted(cols, gs \ {g}, r, a, m) = Sorted(cols, gs, q, a, b)
    BY <1>4, <1>8, <2>1, <2>2, OneGroupLess
  <2> QED  BY <2>1, <2>3 DEF m, gs, cols
<1>12. Sorted(r.columns, r.groups, r,
              IndexedGroups(r.groupIndex, a), IndexedItems(r.itemIndex, b))
            = Sorted(q.columns, q.groups, q, a, b)
  BY <1>8, <1>9, <1>10, <1>11
<1>13. Sorts(c)'
  <2> DEFINE o == Sorted(q.columns, q.groups, q, a, b)
  <2>1. Outcome(o) /\ Sorted(r.columns, r.groups, r,
              IndexedGroups(r.groupIndex, a), IndexedItems(r.itemIndex, b)) = o
    BY <1>5, <1>12
  <2> HIDE DEF o
  <2> QED  BY <1>6, <1>8, <2>1, NormalizeFreshNext
<1> QED  BY <1>6, <1>8, <1>13

LEMMA ReadRootItemsFresh ==
    ASSUME RequestTypeOK, NEW c \in Calls, Sorts(c), ReadRootItems(c)
    PROVE  UNCHANGED tables /\ call'[c].step = "ROOT_GROUPS" /\ Sorts(c)'
<1> DEFINE its == RenumberedItems(c)
           q == call[c]
           a == IndexedGroups(q.groupIndex, MyGroups(c))
           b == IndexedItems(q.itemIndex, MyItems(c))
<1>1. /\ q.step = "NORMALIZE" /\ RowsAreThere(c) /\ q.groups = {}
      /\ DOMAIN wrote[c].columns = {} /\ NormalizingOK(q)
  BY DEF ReadRootItems, Sorts, RequestTypeOK, CallsOK, RequestOK
<1>2. PICK col \in q.columns :
            Write(c, Renumbering(c),
                  [step |-> "ROOT_GROUPS", column |-> col,
                   items |-> Restrict(its, RootItems(col, its)),
                   normalizing |-> [q EXCEPT !.columns = @ \ {col},
                                             !.groupIndex = <<>>, !.itemIndex = <<>>]])
  BY DEF ReadRootItems
<1> HIDE DEF its
<1> DEFINE rows == Restrict(its, RootItems(col, its))
           left == q.columns \ {col}
           next == WithColumns(q, left, <<>>, <<>>)
           r == [step |-> "ROOT_GROUPS", column |-> col, items |-> rows, normalizing |-> next]
<1>3. Write(c, Renumbering(c), r)
  BY <1>2 DEF WithColumns
<1>4. Outcome(Sorted(q.columns, {}, q, a, b))
  BY <1>1 DEF Sorts, NormalizeFresh
<1> HIDE DEF next, left, rows
<1>5. /\ r.step = "ROOT_GROUPS" /\ r.column = col /\ r.items = rows /\ r.normalizing = next
  OBVIOUS
<1> HIDE DEF r
<1>6. /\ UNCHANGED tables /\ call'[c] = r /\ DOMAIN wrote'[c].columns = {}
      /\ MyGroups(c)' = a /\ MyItems(c)' = b /\ RenumberedItems(c) = b
  BY <1>1, <1>3, SortedSoFar
<1>7. next = Normalization(q.itemMoves, q.groupMoves, q.groups, left, q.renumbers, <<>>, <<>>)
  <2> DEFINE none == <<>>
  <2>1. NormalizingOK(q) /\ next = WithColumns(q, left, none, none)
    BY <1>1 DEF next
  <2> HIDE DEF q, none
  <2>2. next = Normalization(q.itemMoves, q.groupMoves, q.groups, left, q.renumbers, none, none)
    BY <2>1, NormalizingGoesOn
  <2> QED  BY <2>2 DEF none
<1>8. /\ next.groups = {} /\ next.columns = left
      /\ next.itemMoves = q.itemMoves /\ next.groupMoves = q.groupMoves
  BY <1>1, <1>7 DEF Normalization
<1> HIDE DEF a, b, q
<1>9. Sorted(next.columns \cup {col}, {}, next, a, b) = Sorted(q.columns, {}, q, a, b)
  <2>1. next.columns \cup {col} = q.columns
    BY <1>8 DEF left
  <2>2. GroupMarks(next, a) = GroupMarks(q, a) /\ ItemMarks(next, b) = ItemMarks(q, b)
    BY <1>8, MarksStay
  <2> QED  BY <2>1, <2>2 DEF Sorted
<1>10. r.items = Restrict(b, RootItems(r.column, b))
  BY <1>5, <1>6 DEF rows, its
<1>11. Sorts(c)'
  <2> DEFINE o == Sorted(q.columns, {}, q, a, b)
  <2>1. Outcome(o) /\ Sorted(r.normalizing.columns \cup {r.column}, {}, r.normalizing, a, b) = o
    BY <1>4, <1>5, <1>9
  <2>2. r.normalizing.groups = {} /\ r.column \notin r.normalizing.columns
    BY <1>5, <1>8 DEF left
  <2> HIDE DEF o
  <2> QED  BY <1>5, <1>6, <1>10, <2>1, <2>2, RootsFreshNext
<1> QED  BY <1>5, <1>6, <1>11

LEMMA ReadRootGroupsFresh ==
    ASSUME RequestTypeOK, NEW c \in Calls, Sorts(c), ReadRootGroups(c)
    PROVE  UNCHANGED tables /\ call'[c].step = "NORMALIZE" /\ Sorts(c)'
<1> DEFINE col == call[c].column
           its == call[c].items
           a == MyGroups(c)
           b == MyItems(c)
           next == call[c].normalizing
           im == ItemMarks(next, its)
           gm == GroupMarks(next, a)
           S == RootEntries(col, a, its, gm, im)
           gi == [g \in GroupsOf(col, a) |-> Place(GroupEntry(g, a, gm), S)]
           ii == [i \in DOMAIN its |-> Place(ItemEntry(i, its, im), S)]
           r == WithIndexes(next, gi, ii)
           C == DOMAIN MyColumns(c)
           G == DOMAIN MyGroups(c)
<1>1. call[c].step = "ROOT_GROUPS" /\ Statement(c, r)
  BY DEF ReadRootGroups, WithIndexes, ItemMarks, GroupMarks
<1>2. /\ NormalizingOK(next) /\ next.groups = {} /\ col \notin next.columns
      /\ its = Restrict(b, RootItems(col, b))
      /\ Outcome(Sorted(next.columns \cup {col}, {}, next, a, b))
      /\ DOMAIN wrote[c].columns = {}
  BY <1>1 DEF Sorts, RootsFresh, RequestTypeOK, CallsOK, RequestOK
<1>3. FiniteTables(a, b) /\ GroupTable(a, C) /\ ItemTable(b, C, G)
  BY MyTables DEF TypedTables
<1>4. S = RootEntries(col, a, its, GroupMarks(next, a), ItemMarks(next, its))
  OBVIOUS
<1>5. gi = [g \in GroupsOf(col, a) |-> Place(GroupEntry(g, a, GroupMarks(next, a)), S)]
  OBVIOUS
<1>6. ii = [i \in DOMAIN its |-> Place(ItemEntry(i, its, ItemMarks(next, its)), S)]
  OBVIOUS
<1> HIDE DEF r, gi, ii, S, im, gm, C, G
<1>7. /\ UNCHANGED tables /\ call'[c] = r /\ wrote' = wrote
      /\ MyGroups(c)' = a /\ MyItems(c)' = b
  <2>1. UNCHANGED tables /\ call'[c] = r /\ wrote' = wrote
    BY <1>1 DEF Statement, GoOn, RequestTypeOK, CallsOK
  <2> QED  BY <2>1 DEF MyGroups, MyItems, tables
<1>8. r = Normalization(next.itemMoves, next.groupMoves, next.groups, next.columns,
                        next.renumbers, gi, ii)
  <2> HIDE DEF next
  <2> QED  BY <1>2, NormalizingGoesOn DEF r
<1>9. /\ r.step = "NORMALIZE" /\ r.columns = next.columns /\ r.groups = {}
      /\ r.itemMoves = next.itemMoves /\ r.groupMoves = next.groupMoves
      /\ r.groupIndex = gi /\ r.itemIndex = ii
  BY <1>2, <1>8 DEF Normalization
<1> HIDE DEF a, b, next, its, col
<1> DEFINE gk == GroupMarks(next, a)
           ik == ItemMarks(next, b)
           n == NormalizedRoots({col}, a, b, gk, ik)
           ng == n.groups
           ni == n.items
           cols == next.columns \cup {col}
           left == r.columns
<1>10. n = NormalizedRoots({col}, a, b, GroupMarks(next, a), ItemMarks(next, b))
  OBVIOUS
<1>14. gk = GroupMarks(next, a) /\ ik = ItemMarks(next, b) /\ n = NormalizedRoots({col}, a, b, gk, ik)
  OBVIOUS
<1>15. ng = n.groups /\ ni = n.items
  OBVIOUS
<1> HIDE DEF gk, ik, n, ng, ni
<1>11. IndexedGroups(gi, a) = ng /\ IndexedItems(ii, b) = ni
  <2>1. IndexedGroups(gi, a) = n.groups /\ IndexedItems(ii, b) = n.items
    BY <1>2, <1>3, <1>4, <1>5, <1>6, <1>10, RootsIndexed
  <2> QED  BY <2>1, <1>15
<1>12. Sorted(left, {}, r, ng, ni) = Sorted(cols, {}, next, a, b)
  <2>1. left = cols \ {col} /\ col \in cols
    BY <1>2, <1>9
  <2>2. r.itemMoves = next.itemMoves /\ r.groupMoves = next.groupMoves
    BY <1>9
  <2> HIDE DEF cols, left
  <2>3. DOMAIN n.groups = DOMAIN a /\ DOMAIN n.items = DOMAIN b /\ ItemTable(n.items, C, G)
    BY <1>3, <1>14, NormalizedRootsType
  <2>4. GroupMarks(r, ng) = gk /\ ItemMarks(r, ni) = ik
    BY <1>14, <1>15, <2>2, <2>3, MarksStay
  <2>5. NormalizedMembers({}, b) = b /\ NormalizedMembers({}, ni) = ni
    BY <1>3, <1>15, <2>3, NoMembers DEF ItemTable, IsTable
  <2>6. NormalizedRoots(cols \ {col}, n.groups, n.items, gk, ik)
            = NormalizedRoots(cols, a, b, gk, ik)
    BY <1>3, <1>14, <2>1, RootsInTurn
  <2> QED  BY <1>14, <1>15, <2>1, <2>4, <2>5, <2>6 DEF Sorted
<1>13. Sorts(c)'
  <2> DEFINE o == Sorted(cols, {}, next, a, b)
  <2>1. Outcome(o) /\ Sorted(r.columns, r.groups, r,
              IndexedGroups(r.groupIndex, a), IndexedItems(r.itemIndex, b)) = o
    BY <1>2, <1>9, <1>11, <1>12
  <2>2. DOMAIN wrote'[c].columns = {}
    BY <1>2, <1>7
  <2> HIDE DEF o
  <2> QED  BY <1>7, <1>9, <2>1, <2>2, NormalizeFreshNext
<1> QED  BY <1>7, <1>9, <1>13

-----------------------------------------------------------------------------
(* Calls made one at a time: what a call has read is what the tables hold, *)
(* and what it has written is part of the single step of RetroBoard.       *)

FreshColumn(row) ==
    \E b \in Boards :
        row = [boardId |-> b,
               orderIndex |-> NextIndex({columns[d].orderIndex : d \in ColumnsOf(b, columns)})]

FreshGroup(row) ==
    \E col \in DOMAIN columns :
        row = [columnId |-> col, orderIndex |-> NextIndex(RootIndexes(col, groups, items))]

FreshOrder(order) ==
    \E b \in Boards : \E old, new \in 0..Cardinality(ColumnsOf(b, columns)) - 1 :
        \E s \in InOrder(b) : order = SplicedColumns(s, old, new)

FreshItemChanges(ch) == \E b \in Boards : ch \in Batches(ItemChanges(b))

FreshGroupChanges(ch) ==
    /\ \E b \in Boards : ch \in Batches(GroupChanges(b))
    /\ RepeatedGroups \/ NamesOnce(ch)

\* What a call has read.
ReadFresh(r) ==
    /\ r.step = "CREATE_COLUMN" => FreshColumn(r.row)
    /\ r.step = "CREATE_GROUP" => FreshGroup(r.row)
    /\ r.step \in {"ADD_ITEM", "ADD_ITEM_GROUPS", "ADD_ITEM_INSERT"} =>
        /\ r.column \in DOMAIN columns
        /\ r.group \in {NoGroup} \cup GroupsOf(r.column, groups)
    /\ r.step = "ADD_ITEM_GROUPS" =>
        /\ r.group = NoGroup
        /\ r.foundItems = CardsBeside(r.column, r.group, items)
    /\ r.step = "REORDER" => FreshOrder(r.order)
    /\ r.step = "SYNC_ITEMS" =>
        /\ FreshItemChanges(r.moves.changes)
        /\ r.moves.before = Restrict(items, Named(r.moves.changes))
    /\ r.step \in {"SYNC_GROUPS", "NEXT_GROUP", "CARRY_ITEMS"} =>
        /\ FreshGroupChanges(r.moves.changes)
        /\ r.moves.before = Restrict(groups, Named(r.moves.changes))
    /\ r.step = "SYNC_GROUPS" => r.next = 1
    /\ r.step \in {"DELETE_COLUMN", "DECREMENT"} => r.id \in DOMAIN columns /\ r.old = columns[r.id]
    /\ r.step = "DECREMENT" =>
        r.found = {d \in ColumnsOf(r.old.boardId, columns) \ {r.id} :
                     columns[d].orderIndex > r.old.orderIndex}
    /\ r.step \in {"DELETE_GROUP", "UNGROUP_GROUPS", "UNGROUP_MEMBERS", "UNGROUP"} =>
        r.id \in DOMAIN groups /\ r.old = groups[r.id]
    /\ r.step \in {"UNGROUP_GROUPS", "UNGROUP_MEMBERS", "UNGROUP"} =>
        r.items = Restrict(items, RootItems(r.old.columnId, items))
    /\ r.step \in {"UNGROUP_MEMBERS", "UNGROUP"} =>
        r.groups = Restrict(groups, GroupsOf(r.old.columnId, groups) \ {r.id})
    /\ r.step = "UNGROUP" => r.members = Restrict(items, Members(r.id, items))

\* addItemToColumn, about to insert: what is left to move down is left of the
\* cards and groups beside the new card.
Adds(r, grs, its, down, below) ==
    /\ Over(down, its) = Restrict(ItemsWithNewItem(lastId.item + 1, r.column, r.group, items),
                                  DOMAIN items)
    /\ Over(below, grs) = GroupsBelowNewItem(r.column, r.group, groups)

First(ch, n) == [m \in 1..n |-> ch[m]]

\* syncGroupPositions, with n of its changes written to the groups and m to
\* their cards.
Syncs(r, n, m, grs, its) ==
    /\ grs = WrittenGroups(First(r.moves.changes, n), groups)
    /\ its = CarriedItems(First(r.moves.changes, m), r.moves.before, items)

Carries(r, its) ==
    LET change == r.moves.changes[r.next] IN
    /\ r.moves.before[change.id].columnId # change.newColumnId
    /\ r.found = Members(change.id, its)

\* deleteColumn, with the column deleted.
Decrements(r, written, grs, its) ==
    /\ written = [d \in {r.id} |-> Gone]
    /\ grs = GroupsWithoutColumn(r.id, groups)
    /\ its = ItemsWithoutColumn(r.id, groups, items)

WriteFresh(c) ==
    /\ call[c].step # "DECREMENT" => Sorts(c)
    /\ call[c].step = "DECREMENT" =>
            Decrements(call[c], wrote[c].columns, MyGroups(c), MyItems(c))
    /\ call[c].step = "ADD_ITEM_INSERT" =>
            Adds(call[c], MyGroups(c), MyItems(c), ItemsDown(c), GroupsDown(c))
    /\ call[c].step = "NEXT_GROUP" =>
            Syncs(call[c], call[c].next - 1, call[c].next - 1, MyGroups(c), MyItems(c))
    /\ call[c].step = "CARRY_ITEMS" =>
            /\ Syncs(call[c], call[c].next, call[c].next - 1, MyGroups(c), MyItems(c))
            /\ Carries(call[c], MyItems(c))

Fresh(c) == ReadFresh(call[c]) /\ WriteFresh(c)

\* What was fresh stays so while no table changes.
LEMMA FreshKept ==
    ASSUME UNCHANGED tables, NEW c, NEW r, ReadFresh(r), call'[c] = r
    PROVE  ReadFresh(call[c])'
<1>1. columns' = columns /\ groups' = groups /\ items' = items /\ Boards' = Boards
  BY DEF tables, Boards
<1>2. \A row : FreshColumn(row)' <=> FreshColumn(row)
  BY <1>1 DEF FreshColumn
<1>3. \A row : FreshGroup(row)' <=> FreshGroup(row)
  BY <1>1 DEF FreshGroup
<1>4. \A order : FreshOrder(order)' <=> FreshOrder(order)
  BY <1>1 DEF FreshOrder, InOrder
<1>5. \A ch : FreshItemChanges(ch)' <=> FreshItemChanges(ch)
  BY <1>1 DEF FreshItemChanges, ItemChanges
<1>6. \A ch : FreshGroupChanges(ch)' <=> FreshGroupChanges(ch)
  BY <1>1 DEF FreshGroupChanges, GroupChanges
<1> QED  BY <1>1, <1>2, <1>3, <1>4, <1>5, <1>6 DEF ReadFresh

\* A statement that only reads, before anything is written,
LEMMA StatementFresh ==
    ASSUME CallsOK, NEW c \in Calls, wrote[c] = NoWrites, NEW r, ReadFresh(r), r.step \in Reading,
           Statement(c, r)
    PROVE  UNCHANGED tables /\ Fresh(c)'
<1>1. UNCHANGED tables /\ call'[c] = r /\ wrote'[c] = NoWrites
  BY DEF Statement, GoOn, CallsOK
<1>2. ReadFresh(call[c])'
  BY <1>1, FreshKept
<1>3. DOMAIN wrote'[c].columns = {}
  BY <1>1, NothingWritten
<1>4. WriteFresh(c)'
  BY <1>1, <1>3 DEF WriteFresh, Sorts, Reading
<1> QED  BY <1>1, <1>2, <1>4 DEF Fresh

\* and a call that ends, which has nothing left to do.
LEMMA FinishFresh ==
    ASSUME RequestTypeOK, NEW c \in Calls, Finish(c)
    PROVE  Fresh(c)'
<1>1. call'[c] = Idle /\ wrote'[c] = NoWrites
  BY DEF Finish, GoOn, RequestTypeOK, CallsOK, WritesOK
<1>2. DOMAIN wrote'[c].columns = {}
  BY <1>1, NothingWritten
<1> QED  BY <1>1, <1>2 DEF Fresh, ReadFresh, WriteFresh, Sorts, Idle

\* Whatever a call reads, it writes nothing and finds what there is.
LEMMA ReadStep ==
    ASSUME RequestTypeOK, NEW c \in Calls, Read(c)
    PROVE  UNCHANGED tables /\ Fresh(c)'
<1> DEFINE Goal == UNCHANGED tables /\ Fresh(c)'
<1>0. CallsOK /\ wrote[c] = NoWrites
  BY DEF Read, MayBegin, Idle, Reading, RequestTypeOK, WritesOK
<1>1. ASSUME NEW b \in Boards, CreateColumnRead(c, b) PROVE Goal
  <2> DEFINE r == [step |-> "CREATE_COLUMN",
                   row  |-> [boardId |-> b,
                             orderIndex |-> NextIndex({columns[d].orderIndex :
                                                         d \in ColumnsOf(b, columns)})]]
  <2>1. ReadFresh(r) /\ r.step \in Reading
    BY DEF ReadFresh, FreshColumn, Reading
  <2>2. Statement(c, r)
    BY <1>1 DEF CreateColumnRead, Begin
  <2> QED  BY <1>0, <2>1, <2>2, StatementFresh
<1>2. ASSUME NEW col \in DOMAIN columns, CreateGroupRead(c, col) PROVE Goal
  <2> DEFINE r == [step |-> "CREATE_GROUP",
                   row  |-> [columnId |-> col,
                             orderIndex |-> NextIndex(RootIndexes(col, groups, items))]]
  <2>1. ReadFresh(r) /\ r.step \in Reading
    BY DEF ReadFresh, FreshGroup, Reading
  <2>2. Statement(c, r)
    BY <1>2 DEF CreateGroupRead, Begin
  <2> QED  BY <1>0, <2>1, <2>2, StatementFresh
<1>3. ASSUME NEW col \in DOMAIN columns, NEW g \in {NoGroup} \cup GroupsOf(col, groups),
             AddItemCheck(c, col, g)
      PROVE  Goal
  <2> DEFINE r == [step |-> "ADD_ITEM", column |-> col, group |-> g]
  <2>1. ReadFresh(r) /\ r.step \in Reading
    BY DEF ReadFresh, Reading
  <2>2. Statement(c, r)
    BY <1>3 DEF AddItemCheck, Begin
  <2> QED  BY <1>0, <2>1, <2>2, StatementFresh
<1>4. ASSUME NEW b \in Boards,
             NEW old \in 0..Cardinality(ColumnsOf(b, columns)) - 1,
             NEW new \in 0..Cardinality(ColumnsOf(b, columns)) - 1,
             ReorderRead(c, b, old, new)
      PROVE  Goal
  <2>1. PICK s \in InOrder(b) :
            Statement(c, [step |-> "REORDER", order |-> SplicedColumns(s, old, new)])
    BY <1>4 DEF ReorderRead, Begin, Begin
  <2> DEFINE r == [step |-> "REORDER", order |-> SplicedColumns(s, old, new)]
  <2>2. ReadFresh(r) /\ r.step \in Reading
    BY DEF ReadFresh, FreshOrder, Reading
  <2> QED  BY <1>0, <2>1, <2>2, StatementFresh
<1>5. ASSUME NEW b \in Boards, NEW ch \in Batches(ItemChanges(b)), SyncItemsRead(c, ch)
      PROVE  Goal
  <2> DEFINE r == [step |-> "SYNC_ITEMS",
                   moves |-> [changes |-> ch, before |-> Restrict(items, Named(ch))]]
  <2>1. ReadFresh(r) /\ r.step \in Reading
    BY DEF ReadFresh, FreshItemChanges, Reading
  <2>2. Statement(c, r)
    BY <1>5 DEF SyncItemsRead, Begin
  <2> QED  BY <1>0, <2>1, <2>2, StatementFresh
<1>6. ASSUME NEW b \in Boards, NEW ch \in Batches(GroupChanges(b)),
             RepeatedGroups \/ NamesOnce(ch), SyncGroupsRead(c, ch)
      PROVE  Goal
  <2> DEFINE r == [step |-> "SYNC_GROUPS", next |-> 1,
                   moves |-> [changes |-> ch, before |-> Restrict(groups, Named(ch))]]
  <2>1. ReadFresh(r) /\ r.step \in Reading
    BY <1>6 DEF ReadFresh, FreshGroupChanges, Reading
  <2>2. Statement(c, r)
    BY <1>6 DEF SyncGroupsRead, Begin
  <2> QED  BY <1>0, <2>1, <2>2, StatementFresh
<1>7. ASSUME NEW col \in DOMAIN columns, DeleteColumnRead(c, col) PROVE Goal
  <2> DEFINE r == [step |-> "DELETE_COLUMN", id |-> col, old |-> columns[col]]
  <2>1. ReadFresh(r) /\ r.step \in Reading
    BY DEF ReadFresh, Reading
  <2>2. Statement(c, r)
    BY <1>7 DEF DeleteColumnRead, Begin
  <2> QED  BY <1>0, <2>1, <2>2, StatementFresh
<1>8. ASSUME NEW g \in DOMAIN groups, DeleteGroupRead(c, g) PROVE Goal
  <2> DEFINE r == [step |-> "DELETE_GROUP", id |-> g, old |-> groups[g]]
  <2>1. ReadFresh(r) /\ r.step \in Reading
    BY DEF ReadFresh, Reading
  <2>2. Statement(c, r)
    BY <1>8 DEF DeleteGroupRead, Begin
  <2> QED  BY <1>0, <2>1, <2>2, StatementFresh
<1> QED  BY <1>1, <1>2, <1>3, <1>4, <1>5, <1>6, <1>7, <1>8 DEF Read

-----------------------------------------------------------------------------
(* Calls made one at a time: rows are added.                               *)

LEMMA CreateStep ==
    ASSUME RequestTypeOK, NEW c \in Calls, Fresh(c),
           CreateColumnInsert(c) \/ CreateGroupInsert(c)
    PROVE  [Next]_vars /\ Fresh(c)'
<1> DEFINE r == call[c]
<1>0. ReadFresh(r)
  BY DEF Fresh
<1>1. CASE CreateColumnInsert(c)
  <2>1. PICK b \in Boards :
            r.row = [boardId |-> b,
                     orderIndex |-> NextIndex({columns[d].orderIndex :
                                                 d \in ColumnsOf(b, columns)})]
    BY <1>0, <1>1 DEF CreateColumnInsert, ReadFresh, FreshColumn
  <2>2. CreateColumn(b) /\ Finish(c)
    BY <1>1, <2>1 DEF CreateColumnInsert, CreateColumn
  <2> QED  BY <2>2, FinishFresh DEF Next
<1>2. CASE CreateGroupInsert(c)
  <2>1. PICK col \in DOMAIN columns :
            r.row = [columnId |-> col,
                     orderIndex |-> NextIndex(RootIndexes(col, groups, items))]
    BY <1>0, <1>2 DEF CreateGroupInsert, ReadFresh, FreshGroup
  <2>2. CreateGroup(col) /\ Finish(c)
    BY <1>2, <2>1 DEF CreateGroupInsert, CreateGroup
  <2> QED  BY <2>2, FinishFresh DEF Next
<1> QED  BY <1>1, <1>2

\* The cards, and the groups, that a statement of r moves down.
Down(r, its) ==
    Restrict(ItemsWithNewItem(lastId.item + 1, r.column, r.group, its),
             r.foundItems \cap CardsBeside(r.column, r.group, its))

Below(r, grs) ==
    Restrict(GroupsBelowNewItem(r.column, r.group, grs),
             r.foundGroups \cap GroupsOf(r.column, grs))

LEMMA AddsNext ==
    ASSUME UNCHANGED tables, NEW c, NEW r, call'[c] = r, r.step = "ADD_ITEM_INSERT",
           ReadFresh(r), DOMAIN wrote'[c].columns = {},
           NEW a, MyGroups(c)' = a, NEW b, MyItems(c)' = b,
           Adds(r, a, b, Down(r, b), Below(r, a))
    PROVE  Fresh(c)'
<1>1. ReadFresh(call[c])'
  BY FreshKept
<1>2. lastId' = lastId /\ groups' = groups /\ items' = items
  BY DEF tables
<1>3. ItemsDown(c)' = Down(r, b) /\ GroupsDown(c)' = Below(r, a)
  BY <1>2 DEF ItemsDown, GroupsDown, Down, Below
<1> DEFINE down == Down(r, b)
           below == Below(r, a)
<1> HIDE DEF down, below
<1>4. Adds(call[c], MyGroups(c), MyItems(c), ItemsDown(c), GroupsDown(c))'
  BY <1>2, <1>3 DEF Adds, down, below
<1> QED  BY <1>1, <1>4 DEF Fresh, WriteFresh, Sorts

\* All cards beside the new one, found and moved down,
LEMMA AllDown ==
    ASSUME NEW its, IsTable(its), NEW new, new \notin DOMAIN its, NEW col, NEW g
    PROVE  Over(Restrict(ItemsWithNewItem(new, col, g, its), CardsBeside(col, g, its)), its)
                = Restrict(ItemsWithNewItem(new, col, g, its), DOMAIN its)
<1> DEFINE n == ItemsWithNewItem(new, col, g, its)
           S == CardsBeside(col, g, its)
           l == Over(Restrict(n, S), its)
           r == Restrict(n, DOMAIN its)
<1>1. S = {i \in DOMAIN its : its[i].groupId = g /\ its[i].columnId = col}
  BY DEF CardsBeside, Members
<1>2. \A i \in DOMAIN its \ S : n[i] = its[i]
  BY <1>1 DEF ItemsWithNewItem
<1> HIDE DEF n, S
<1>3. /\ l = [i \in S \cup DOMAIN its |-> IF i \in S THEN Restrict(n, S)[i] ELSE its[i]]
      /\ r = [i \in DOMAIN its |-> n[i]]
  BY DEF Over, Restrict
<1>4. \A i \in S : Restrict(n, S)[i] = n[i]
  BY DEF Restrict
<1>5. S \cup DOMAIN its = DOMAIN its
  BY <1>1
<1> HIDE DEF l, r
<1>6. l = r
  BY <1>2, <1>3, <1>4, <1>5
<1> QED  BY <1>6 DEF l, r, n, S

\* and all groups.
LEMMA AllBelow ==
    ASSUME NEW grs, IsTable(grs), NEW col
    PROVE  Over(Restrict(GroupsBelowNewItem(col, NoGroup, grs), GroupsOf(col, grs)), grs)
                = GroupsBelowNewItem(col, NoGroup, grs)
<1> DEFINE n == GroupsBelowNewItem(col, NoGroup, grs)
           S == GroupsOf(col, grs)
           l == Over(Restrict(n, S), grs)
<1>1. S = {h \in DOMAIN grs : grs[h].columnId = col}
  BY DEF GroupsOf
<1>2. /\ \A h \in DOMAIN grs \ S : n[h] = grs[h]
      /\ n = [h \in DOMAIN grs |-> n[h]]
  BY <1>1 DEF GroupsBelowNewItem
<1> HIDE DEF n, S
<1>3. l = [h \in S \cup DOMAIN grs |-> IF h \in S THEN Restrict(n, S)[h] ELSE grs[h]]
  BY DEF Over, Restrict
<1>4. \A h \in S : Restrict(n, S)[h] = n[h]
  BY DEF Restrict
<1>5. S \cup DOMAIN grs = DOMAIN grs
  BY <1>1
<1> HIDE DEF l
<1>6. l = n
  BY <1>2, <1>3, <1>4, <1>5
<1> QED  BY <1>6 DEF l, n, S

\* No group moves down for a card that enters a group.
LEMMA NoneBelow ==
    ASSUME NEW grs, IsTable(grs), NEW col, NEW g, g # NoGroup
    PROVE  GroupsBelowNewItem(col, g, grs) = grs
BY DEF GroupsBelowNewItem, IsTable

LEMMA RestrictNothing ==
    ASSUME NEW rows, IsTable(rows), NEW n, NEW S, S = {}
    PROVE  Over(Restrict(n, S), rows) = rows
BY OverNothing DEF Restrict

\* A new id is the id of no row.
LEMMA NewItem ==
    ASSUME TypeOK
    PROVE  lastId.item + 1 \notin DOMAIN items
<1>1. DOMAIN items \subseteq 1..lastId.item /\ lastId.item \in Nat
  BY DEF TypeOK
<1> QED  BY <1>1

\* Before its first write a transaction sees the tables.
LEMMA SeenAtFirst ==
    ASSUME RequestTypeOK, NEW c \in Calls, wrote[c] = NoWrites
    PROVE  MyColumns(c) = columns /\ MyGroups(c) = groups /\ MyItems(c) = items
<1>1. IsTable(columns) /\ IsTable(groups) /\ IsTable(items)
  BY TablesAreFunctions
<1>2. DOMAIN wrote[c].columns = {} /\ DOMAIN wrote[c].groups = {} /\ DOMAIN wrote[c].items = {}
  BY NothingWritten
<1> QED  BY <1>1, <1>2, SeenAll DEF MyColumns, MyGroups, MyItems

LEMMA FindItemsStep ==
    ASSUME RequestTypeOK, NEW c \in Calls, Fresh(c), AddItemFindItems(c)
    PROVE  UNCHANGED tables /\ Fresh(c)'
<1> DEFINE col == call[c].column
           g == call[c].group
           found == CardsBeside(col, g, items)
           next == IF g = NoGroup THEN "ADD_ITEM_GROUPS" ELSE "ADD_ITEM_INSERT"
           r == [step |-> next, column |-> col, group |-> g,
                 foundItems |-> found, foundGroups |-> {}]
<1>1. call[c].step = "ADD_ITEM" /\ Statement(c, r)
  BY DEF AddItemFindItems
<1>2. wrote[c] = NoWrites /\ CallsOK
  BY <1>1 DEF RequestTypeOK, WritesOK, Reading
<1>3. col \in DOMAIN columns /\ g \in {NoGroup} \cup GroupsOf(col, groups)
  BY <1>1 DEF Fresh, ReadFresh
<1> HIDE DEF col, g, found
<1>4. /\ r.step = next /\ r.column = col /\ r.group = g
      /\ r.foundItems = found /\ r.foundGroups = {}
  OBVIOUS
<1> HIDE DEF r
<1>5. ReadFresh(r)
  BY <1>3, <1>4 DEF ReadFresh, found
<1>6. CASE g = NoGroup
  BY <1>1, <1>2, <1>4, <1>5, <1>6, StatementFresh DEF Reading
<1>7. CASE g # NoGroup
  <2>1. UNCHANGED tables /\ call'[c] = r /\ wrote'[c] = NoWrites
    BY <1>1, <1>2 DEF Statement, GoOn, CallsOK
  <2>2. MyGroups(c)' = groups /\ MyItems(c)' = items
    <3>1. wrote'[c] = wrote[c] /\ groups' = groups /\ items' = items
      BY <1>2, <2>1 DEF tables
    <3> QED  BY <1>2, <3>1, SeenAtFirst DEF MyGroups, MyItems
  <2>3. IsTable(groups) /\ IsTable(items)
    BY TablesAreFunctions
  <2>4. Over(Down(r, items), items)
            = Restrict(ItemsWithNewItem(lastId.item + 1, r.column, r.group, items), DOMAIN items)
    <3> DEFINE new == lastId.item + 1
    <3>1. new \notin DOMAIN items
      BY NewItem DEF RequestTypeOK
    <3>2. r.foundItems \cap CardsBeside(r.column, r.group, items) = CardsBeside(col, g, items)
      BY <1>4 DEF found
    <3> HIDE DEF new
    <3>3. Over(Restrict(ItemsWithNewItem(new, col, g, items), CardsBeside(col, g, items)), items)
                = Restrict(ItemsWithNewItem(new, col, g, items), DOMAIN items)
      BY <2>3, <3>1, AllDown
    <3> QED  BY <1>4, <3>2, <3>3 DEF Down, new
  <2>5. Over(Below(r, groups), groups) = GroupsBelowNewItem(r.column, r.group, groups)
    <3>1. r.foundGroups \cap GroupsOf(r.column, groups) = {}
      BY <1>4
    <3>2. Over(Below(r, groups), groups) = groups
      BY <2>3, <3>1, RestrictNothing DEF Below
    <3> QED  BY <1>4, <1>7, <2>3, <3>2, NoneBelow
  <2>6. Adds(r, groups, items, Down(r, items), Below(r, groups))
    BY <2>4, <2>5 DEF Adds
  <2>7. r.step = "ADD_ITEM_INSERT" /\ DOMAIN wrote'[c].columns = {}
    BY <1>4, <1>7, <2>1, NothingWritten
  <2>8. Fresh(c)'
    BY <1>5, <2>1, <2>2, <2>6, <2>7, AddsNext
  <2> QED  BY <2>1, <2>8
<1> QED  BY <1>6, <1>7

LEMMA FindGroupsStep ==
    ASSUME RequestTypeOK, NEW c \in Calls, Fresh(c), AddItemFindGroups(c)
    PROVE  UNCHANGED tables /\ Fresh(c)'
<1> DEFINE col == call[c].column
           g == call[c].group
           w == [NoWrites EXCEPT !.items = ItemsDown(c)]
           r == [step |-> "ADD_ITEM_INSERT", column |-> col, group |-> g,
                 foundItems |-> {}, foundGroups |-> GroupsOf(col, groups)]
           X == DOMAIN MyColumns(c)
           Y == {NoGroup} \cup DOMAIN MyGroups(c)
           b == Restrict(ItemsWithNewItem(lastId.item + 1, col, g, items), DOMAIN items)
<1>1. call[c].step = "ADD_ITEM_GROUPS" /\ Write(c, w, r)
  BY DEF AddItemFindGroups
<1>2. wrote[c] = NoWrites
  BY <1>1 DEF RequestTypeOK, WritesOK, Reading
<1>3. /\ col \in DOMAIN columns /\ g = NoGroup
      /\ call[c].foundItems = CardsBeside(col, g, items)
  BY <1>1 DEF Fresh, ReadFresh
<1>4. MyGroups(c) = groups /\ MyItems(c) = items /\ IsTable(groups) /\ IsTable(items)
  BY <1>2, SeenAtFirst, TablesAreFunctions
<1>5. w.columns = <<>> /\ w.groups = <<>> /\ w.items = ItemsDown(c)
  BY DEF NoWrites
<1>6. /\ r.step = "ADD_ITEM_INSERT" /\ r.column = col /\ r.group = g
      /\ r.foundItems = {} /\ r.foundGroups = GroupsOf(col, groups)
  OBVIOUS
<1> HIDE DEF w, r, X, Y, b, col, g
<1>7. Plain(w, Boards, X, Y)
  BY <1>5, NothingWritten, DownPlain DEF Plain, X, Y
<1>8. /\ UNCHANGED tables /\ call'[c] = r
      /\ wrote'[c].columns = Over(w.columns, wrote[c].columns)
      /\ MyGroups(c)' = Over(w.groups, MyGroups(c))
      /\ MyItems(c)' = Over(w.items, MyItems(c))
  BY <1>1, <1>7, WriteSees
<1>9. DOMAIN wrote'[c].columns = {} /\ MyGroups(c)' = groups
  <2>1. DOMAIN wrote'[c].columns = {}
    BY <1>2, <1>5, <1>8, NothingWritten DEF Over
  <2>2. Over(w.groups, groups) = groups
    BY <1>4, <1>5, NothingWritten, OverNothing
  <2> QED  BY <1>4, <1>8, <2>1, <2>2
<1>10. MyItems(c)' = b
  <2> DEFINE new == lastId.item + 1
  <2>1. new \notin DOMAIN items
    BY NewItem DEF RequestTypeOK
  <2>2. ItemsDown(c) = Restrict(ItemsWithNewItem(new, col, g, items), CardsBeside(col, g, items))
    BY <1>3, <1>4 DEF ItemsDown, col, g
  <2> HIDE DEF new
  <2>3. Over(Restrict(ItemsWithNewItem(new, col, g, items), CardsBeside(col, g, items)), items)
                = Restrict(ItemsWithNewItem(new, col, g, items), DOMAIN items)
    BY <1>4, <2>1, AllDown
  <2> QED  BY <1>4, <1>5, <1>8, <2>2, <2>3 DEF b, new
<1>11. Over(Down(r, b), b) = b
  <2>1. IsTable(b)
    BY DEF b, Restrict, IsTable
  <2>2. r.foundItems \cap CardsBeside(r.column, r.group, b) = {}
    BY <1>6
  <2> QED  BY <2>1, <2>2, RestrictNothing DEF Down
<1>12. Over(Below(r, groups), groups) = GroupsBelowNewItem(r.column, r.group, groups)
  <2>1. r.foundGroups \cap GroupsOf(r.column, groups) = GroupsOf(col, groups)
    BY <1>6
  <2> QED  BY <1>3, <1>4, <1>6, <2>1, AllBelow DEF Below
<1>13. Adds(r, groups, b, Down(r, b), Below(r, groups))
  BY <1>6, <1>11, <1>12 DEF Adds, b
<1>14. ReadFresh(r)
  BY <1>3, <1>6 DEF ReadFresh
<1>15. Fresh(c)'
  BY <1>6, <1>8, <1>9, <1>10, <1>13, <1>14, AddsNext
<1> QED  BY <1>8, <1>15

\* The card above those moved down.
LEMMA InsertedAbove ==
    ASSUME NEW its, NEW new, new \notin DOMAIN its, NEW col, NEW g,
           NEW d, d = Restrict(ItemsWithNewItem(new, col, g, its), DOMAIN its),
           NEW row, row = [columnId |-> col, groupId |-> g, rowIndex |-> 0],
           NEW s, DOMAIN s = {new}, s[new] = row
    PROVE  Over(d, s) = ItemsWithNewItem(new, col, g, its)
<1> DEFINE n == ItemsWithNewItem(new, col, g, its)
<1>1. n = [i \in DOMAIN its \cup {new} |-> n[i]] /\ n[new] = row
  BY DEF ItemsWithNewItem
<1> HIDE DEF n
<1>2. d = [i \in DOMAIN its |-> n[i]]
  BY DEF Restrict, n
<1>3. DOMAIN s = {new} /\ s[new] = row
  OBVIOUS
<1>4. Over(d, s) = [i \in DOMAIN its \cup {new} |-> IF i \in DOMAIN its THEN d[i] ELSE s[i]]
  BY <1>2, <1>3 DEF Over
<1>5. Over(d, s) = n
  BY <1>1, <1>2, <1>3, <1>4
<1> QED  BY <1>5 DEF n

LEMMA AddItemStep ==
    ASSUME RequestTypeOK, NEW c \in Calls, Fresh(c), AddItemInsert(c)
    PROVE  [Next]_vars /\ Fresh(c)'
<1> DEFINE col == call[c].column
           g == call[c].group
           new == lastId.item + 1
           down == ItemsDown(c)
           below == GroupsDown(c)
           w == [NoWrites EXCEPT !.groups = below, !.items = down]
           row == [columnId |-> col, groupId |-> g, rowIndex |-> 0]
           X == DOMAIN MyColumns(c)
           Y == {NoGroup} \cup DOMAIN MyGroups(c)
<1>1. /\ call[c].step = "ADD_ITEM_INSERT"
      /\ CanWrite(c, w)
      /\ lastId.item < MaxItems
      /\ lastId' = [lastId EXCEPT !.item = new]
      /\ groups' = Seen(groups, Written(c, w).groups)
      /\ items' = Over(Seen(items, Written(c, w).items), [i \in {new} |-> row])
      /\ Finish(c)
      /\ columns' = columns
  BY DEF AddItemInsert
<1>2. col \in DOMAIN columns /\ g \in {NoGroup} \cup GroupsOf(col, groups)
  BY <1>1 DEF Fresh, ReadFresh
<1>3. /\ Over(down, MyItems(c)) = Restrict(ItemsWithNewItem(new, col, g, items), DOMAIN items)
      /\ Over(below, MyGroups(c)) = GroupsBelowNewItem(col, g, groups)
  BY <1>1 DEF Fresh, WriteFresh, Adds
<1>4. w.columns = <<>> /\ w.groups = below /\ w.items = down
  BY DEF NoWrites
<1> HIDE DEF w, X, Y
<1>5. Plain(w, Boards, X, Y)
  BY <1>4, NothingWritten, DownPlain DEF Plain, X, Y
<1>6. Deleted(w.groups) = {} /\ Deleted(w.items) = {}
  BY <1>5, PlainKeepsAll
<1> HIDE DEF down, below, col, g, new, row
<1>7. Seen(groups, Written(c, w).groups) = GroupsBelowNewItem(col, g, groups)
  <2> DEFINE old == wrote[c].groups
  <2>1. DOMAIN below \subseteq DOMAIN Seen(groups, old) /\ Deleted(below) = {}
    BY <1>1, <1>4, <1>6 DEF CanWrite, MyGroups
  <2> HIDE DEF old
  <2>2. Seen(groups, Over(below, old)) = Over(below, Seen(groups, old))
    BY <2>1, OverSeen
  <2>3. Written(c, w).groups = Over(below, old)
    BY <1>4 DEF Written, old
  <2> QED  BY <1>3, <2>2, <2>3 DEF old, MyGroups
<1>8. Seen(items, Written(c, w).items)
            = Restrict(ItemsWithNewItem(new, col, g, items), DOMAIN items)
  <2> DEFINE old == wrote[c].items
  <2>1. DOMAIN down \subseteq DOMAIN Seen(items, old) /\ Deleted(down) = {}
    BY <1>1, <1>4, <1>6 DEF CanWrite, MyItems
  <2> HIDE DEF old
  <2>2. Seen(items, Over(down, old)) = Over(down, Seen(items, old))
    BY <2>1, OverSeen
  <2>3. Written(c, w).items = Over(down, old)
    BY <1>4 DEF Written, old
  <2> QED  BY <1>3, <2>2, <2>3 DEF old, MyItems
<1>9. items' = ItemsWithNewItem(new, col, g, items)
  <2> DEFINE d == Restrict(ItemsWithNewItem(new, col, g, items), DOMAIN items)
             s == [i \in {new} |-> row]
  <2>1. items' = Over(d, s) /\ DOMAIN s = {new} /\ s[new] = row
    BY <1>1, <1>8
  <2>2. new \notin DOMAIN items
    BY NewItem DEF RequestTypeOK, new
  <2>3. d = Restrict(ItemsWithNewItem(new, col, g, items), DOMAIN items)
    OBVIOUS
  <2>4. row = [columnId |-> col, groupId |-> g, rowIndex |-> 0]
    BY DEF row
  <2> HIDE DEF d, s
  <2> QED  BY <2>1, <2>2, <2>3, <2>4, InsertedAbove
<1>10. AddItemToColumn(col, g)
  BY <1>1, <1>7, <1>9 DEF AddItemToColumn, new
<1>11. Next
  BY <1>2, <1>10 DEF Next
<1> QED  BY <1>1, <1>11, FinishFresh

\* The list of a board's columns, in order, has each column at its order.
LEMMA InOrderPlaces ==
    ASSUME TypeOK, ColumnOrderDense, NEW b \in Boards, NEW s \in InOrder(b)
    PROVE  /\ s \in Seq(ColumnsOf(b, columns))
           /\ Len(s) = Cardinality(ColumnsOf(b, columns))
           /\ \A p, q \in 1..Len(s) : s[p] = s[q] => p = q
           /\ \A p \in 1..Len(s) : columns[s[p]].orderIndex = p - 1
           /\ \A c \in ColumnsOf(b, columns) : \E p \in 1..Len(s) : s[p] = c
<1> DEFINE S == ColumnsOf(b, columns)
           n == Cardinality(S)
<1>1. IsFiniteSet(S) /\ n \in Nat
  BY BoardColumnsFinite, FS_CardinalityType
<1>2. Dense(S, columns)
  BY DEF ColumnOrderDense, Dense
<1>3. /\ s \in [1..n -> S]
      /\ \A p, q \in 1..n : p # q => s[p] # s[q]
      /\ \A p, q \in 1..n : p < q => columns[s[p]].orderIndex <= columns[s[q]].orderIndex
  BY DEF InOrder, SetToSeqs
<1>4. Numbered(S, columns)
  BY <1>1, <1>2, DenseMeansNumbered
<1>5. s \in Seq(S) /\ Len(s) = n
  BY <1>1, <1>3
<1> HIDE DEF n
<1>6. \A c \in S : \E p \in 1..n : s[p] = c
  <2>1. s \in Injection(1..n, S)
    BY <1>3 DEF Injection, IsInjective
  <2>2. IsFiniteSet(1..n) /\ Cardinality(1..n) = n
    BY <1>1, FS_Interval
  <2>3. s \in Surjection(1..n, S)
    BY <1>1, <2>1, <2>2, FS_Injection DEF n
  <2> QED  BY <2>3 DEF Surjection
<1>7. ASSUME NEW p \in 1..n
      PROVE  columns[s[p]].orderIndex = p - 1
  <2> DEFINE below == {d \in S : columns[d].orderIndex < columns[s[p]].orderIndex}
             f == [q \in 1..p - 1 |-> s[q]]
  <2>1. \A q \in 1..n : columns[s[q]].orderIndex < columns[s[p]].orderIndex <=> q < p
    <3>1. \A q \in 1..n : s[q] \in S /\ columns[s[q]].orderIndex \in Nat
      BY <1>3 DEF ColumnsOf, TypeOK
    <3>2. \A q \in 1..n : q # p => columns[s[q]].orderIndex # columns[s[p]].orderIndex
      BY <1>3, <1>4, <3>1 DEF Numbered
    <3> QED  BY <1>1, <1>3, <3>1, <3>2
  <2>2. p - 1 \in Nat /\ \A q \in 1..p - 1 : q \in 1..n /\ q < p
    BY <1>1
  <2>3. f \in Bijection(1..p - 1, below)
    <3>1. \A q \in 1..p - 1 : f[q] \in below
      BY <1>3, <2>1, <2>2
    <3>2. \A q, r \in 1..p - 1 : f[q] = f[r] => q = r
      BY <1>3, <2>2
    <3>3. \A d \in below : \E q \in 1..p - 1 : f[q] = d
      <4>1. SUFFICES ASSUME NEW d \in below PROVE \E q \in 1..p - 1 : f[q] = d
        OBVIOUS
      <4>2. PICK q \in 1..n : s[q] = d
        BY <1>6
      <4>3. q \in 1..p - 1
        BY <1>1, <2>1, <4>2
      <4> QED  BY <4>2, <4>3
    <3> HIDE DEF below
    <3> QED  BY <3>1, <3>2, <3>3 DEF Bijection, Injection, Surjection, IsInjective
  <2>4. Cardinality(below) = p - 1
    <3>1. IsFiniteSet(1..p - 1) /\ Cardinality(1..p - 1) = p - 1
      BY <2>2, FS_Interval
    <3> HIDE DEF f, below
    <3>2. ExistsBijection(1..p - 1, below)
      BY <2>3 DEF ExistsBijection
    <3> QED  BY <3>1, <3>2, FS_Bijection
  <2>5. Cardinality(below) = columns[s[p]].orderIndex
    <3>1. s[p] \in S
      BY <1>3
    <3> HIDE DEF S
    <3> QED  BY <1>1, <1>2, <3>1, PlaceIsOrder
  <2> QED  BY <2>4, <2>5
<1> HIDE DEF S
<1>8. \A p, q \in 1..n : s[p] = s[q] => p = q
  BY <1>3
<1> QED  BY <1>5, <1>6, <1>7, <1>8 DEF S, n

\* Writing back the list with one column moved gives every column of the board
\* the order that RetroBoard computes for it.
LEMMA ReorderFresh ==
    ASSUME TypeOK, ColumnOrderDense, NEW b \in Boards,
           NEW old \in 0..Cardinality(ColumnsOf(b, columns)) - 1,
           NEW new \in 0..Cardinality(ColumnsOf(b, columns)) - 1,
           NEW s \in InOrder(b), NEW order, order = SplicedColumns(s, old, new)
    PROVE  /\ \A m \in DOMAIN order : order[m] \in ColumnsOf(b, columns)
           /\ \A d \in ColumnsOf(b, columns) :
                /\ \E m \in DOMAIN order : order[m] = d
                /\ (CHOOSE m \in DOMAIN order : order[m] = d) - 1
                        = ReorderedIndex(d, old, new, columns)
<1> DEFINE S == ColumnsOf(b, columns)
           n == Len(s)
           at(p) == IF p = old THEN new
                    ELSE IF old < p /\ p <= new THEN p - 1
                    ELSE IF new <= p /\ p < old THEN p + 1
                    ELSE p
           from(m) == IF m = new + 1 THEN old + 1
                      ELSE IF old < m /\ m <= new THEN m + 1
                      ELSE IF new < m /\ m <= old + 1 THEN m - 1
                      ELSE m
<1>1. /\ s \in Seq(S)
      /\ n = Cardinality(S)
      /\ \A p, q \in 1..n : s[p] = s[q] => p = q
      /\ \A p \in 1..n : columns[s[p]].orderIndex = p - 1
      /\ \A d \in S : \E p \in 1..n : s[p] = d
  BY InOrderPlaces
<1>2. n \in Nat /\ old \in 0..n - 1 /\ new \in 0..n - 1
  BY <1>1
<1>3. /\ order \in Seq(S) /\ Len(order) = n
      /\ \A m \in 1..n : order[m] = s[from(m)]
  <2>1. old \in 0..Len(s) - 1 /\ new \in 0..Len(s) - 1
    BY <1>2
  <2>2. /\ order \in Seq(S) /\ Len(order) = Len(s)
        /\ \A m \in 1..Len(s) :
             order[m] = IF m = new + 1 THEN s[old + 1]
                        ELSE IF old < m /\ m <= new THEN s[m + 1]
                        ELSE IF new < m /\ m <= old + 1 THEN s[m - 1]
                        ELSE s[m]
    <3> HIDE DEF S, n, at, from
    <3>1. s \in Seq(S)
      BY <1>1
    <3> QED  BY <2>1, <3>1, SpliceProperty
  <2> QED  BY <2>2
<1> HIDE DEF n
<1>4. DOMAIN order = 1..n
  BY <1>3
<1>5. \A m \in 1..n : from(m) \in 1..n
  BY <1>2
<1>6. \A p \in 1..n : at(p - 1) + 1 \in 1..n /\ from(at(p - 1) + 1) = p
  BY <1>2
<1>7. \A m, p \in 1..n : from(m) = p => m = at(p - 1) + 1
  BY <1>2
<1> HIDE DEF at, from
<1>8. ASSUME NEW p \in 1..n
      PROVE  \A m \in DOMAIN order : order[m] = s[p] <=> m = at(p - 1) + 1
  <2> TAKE m \in DOMAIN order
  <2>1. m \in 1..n /\ order[m] = s[from(m)] /\ from(m) \in 1..n
    BY <1>3, <1>4, <1>5
  <2>2. order[m] = s[p] <=> from(m) = p
    BY <1>1, <2>1
  <2> QED  BY <1>6, <1>7, <2>1, <2>2
<1>9. ASSUME NEW d \in S
      PROVE  /\ \E m \in DOMAIN order : order[m] = d
             /\ (CHOOSE m \in DOMAIN order : order[m] = d) - 1
                    = ReorderedIndex(d, old, new, columns)
  <2>1. PICK p \in 1..n : s[p] = d
    BY <1>1
  <2>2. at(p - 1) + 1 \in DOMAIN order /\ at(p - 1) \in Int
    <3>1. at(p - 1) \in Int
      BY <1>2 DEF at
    <3> QED  BY <1>4, <1>6, <3>1
  <2>3. (CHOOSE m \in DOMAIN order : order[m] = d) = at(p - 1) + 1
    BY <1>8, <2>1, <2>2
  <2>4. ReorderedIndex(d, old, new, columns) = at(p - 1)
    <3>1. columns[d].boardId = b /\ columns[d].orderIndex = p - 1
      BY <1>1, <2>1 DEF ColumnsOf
    <3>2. IsFiniteSet(S) /\ Dense(S, columns)
      BY BoardColumnsFinite DEF ColumnOrderDense, Dense
    <3>3. Cardinality({e \in S : columns[e].orderIndex < columns[d].orderIndex}) = p - 1
      <4> HIDE DEF S
      <4>1. Cardinality({e \in S : columns[e].orderIndex < columns[d].orderIndex})
              = columns[d].orderIndex
        BY <3>2, PlaceIsOrder
      <4> QED  BY <3>1, <4>1
    <3> QED  BY <3>1, <3>3 DEF ReorderedIndex, at
  <2> QED  BY <1>8, <2>1, <2>2, <2>3, <2>4
<1>10. \A m \in DOMAIN order : order[m] \in S
  BY <1>3, <1>4
<1> QED  BY <1>9, <1>10

LEMMA ReorderStep ==
    ASSUME RequestTypeOK, ColumnOrderDense, NEW c \in Calls, Fresh(c), ReorderWrite(c)
    PROVE  [Next]_vars /\ Fresh(c)'
<1> DEFINE order == call[c].order
           at(d) == CHOOSE m \in DOMAIN order : order[m] = d
           row(d) == [columns[d] EXCEPT !.orderIndex = at(d) - 1]
           rows == [d \in Range(order) |-> row(d)]
           w == [NoWrites EXCEPT !.columns = rows]
<1>1. call[c].step = "REORDER" /\ Range(order) \subseteq DOMAIN columns /\ Commit(c, w)
  BY DEF ReorderWrite
<1>2. PICK b \in Boards : \E old, new \in 0..Cardinality(ColumnsOf(b, columns)) - 1 :
            \E s \in InOrder(b) : order = SplicedColumns(s, old, new)
  BY <1>1 DEF Fresh, ReadFresh, FreshOrder
<1>3. PICK old \in 0..Cardinality(ColumnsOf(b, columns)) - 1,
           new \in 0..Cardinality(ColumnsOf(b, columns)) - 1 :
            \E s \in InOrder(b) : order = SplicedColumns(s, old, new)
  BY <1>2
<1>4. PICK s \in InOrder(b) : order = SplicedColumns(s, old, new)
  BY <1>3
<1>5. /\ \A m \in DOMAIN order : order[m] \in ColumnsOf(b, columns)
      /\ \A d \in ColumnsOf(b, columns) :
           /\ \E m \in DOMAIN order : order[m] = d
           /\ at(d) - 1 = ReorderedIndex(d, old, new, columns)
  BY <1>4, ReorderFresh DEF RequestTypeOK
<1>6. \A d \in Range(order) : at(d) - 1 \in Nat
  <2>1. \A m \in DOMAIN order : m \in Nat \ {0}
    BY <1>1 DEF RequestTypeOK, CallsOK, RequestOK
  <2>2. \A d \in Range(order) : at(d) \in DOMAIN order
    BY DEF Range
  <2> HIDE DEF order, at
  <2> QED  BY <2>1, <2>2
<1> HIDE DEF order, at
<1>7. \A d \in DOMAIN columns : d \in Range(order) <=> columns[d].boardId = b
  BY <1>5 DEF ColumnsOf, Range
<1>8. \A d \in DOMAIN columns : columns[d].boardId = b =>
            at(d) - 1 = ReorderedIndex(d, old, new, columns)
  BY <1>5 DEF ColumnsOf
<1>9. \A d \in Range(order) : row(d) \in [boardId : Boards, orderIndex : Nat]
  BY <1>1, <1>6 DEF RequestTypeOK, TypeOK
<1>10. w.columns = rows /\ w.groups = <<>> /\ w.items = <<>>
  BY DEF NoWrites
<1>11. DOMAIN rows = Range(order) /\ \A d \in Range(order) : rows[d] = row(d)
  OBVIOUS
<1> HIDE DEF w, row, rows
<1>12. Plain(w, Boards, {}, {})
  BY <1>9, <1>10, <1>11, NothingWritten DEF Plain
<1>13. wrote[c] = NoWrites
  BY <1>1 DEF RequestTypeOK, WritesOK, Reading
<1>14. /\ MyColumns(c) = columns /\ MyGroups(c) = groups /\ MyItems(c) = items
       /\ IsTable(columns) /\ IsTable(groups) /\ IsTable(items)
  BY <1>13, SeenAtFirst, TablesAreFunctions
<1>15. /\ columns' = Over(w.columns, MyColumns(c))
       /\ groups' = Over(w.groups, MyGroups(c))
       /\ items' = Over(w.items, MyItems(c))
       /\ UNCHANGED lastId /\ Finish(c)
  BY <1>1, <1>12, CommitSees DEF Commit
<1>16. groups' = groups /\ items' = items
  BY <1>10, <1>14, <1>15, NothingWritten, OverNothing
<1>17. columns' = [d \in DOMAIN columns |->
                IF columns[d].boardId = b
                THEN [columns[d] EXCEPT !.orderIndex = ReorderedIndex(d, old, new, columns)]
                ELSE columns[d]]
  <2>1. columns' = [d \in DOMAIN columns |-> IF d \in Range(order) THEN rows[d] ELSE columns[d]]
    <3>1. Range(order) \cup DOMAIN columns = DOMAIN columns
      BY <1>1
    <3> QED  BY <1>10, <1>11, <1>14, <1>15, <3>1 DEF Over
  <2>2. \A d \in DOMAIN columns : d \in Range(order) =>
            rows[d] = [columns[d] EXCEPT !.orderIndex = ReorderedIndex(d, old, new, columns)]
    BY <1>7, <1>8, <1>11 DEF row
  <2> QED  BY <1>7, <2>1, <2>2
<1>18. ReorderColumns(b, old, new)
  BY <1>15, <1>16, <1>17 DEF ReorderColumns
<1> QED  BY <1>15, <1>18, FinishFresh DEF Next

\* The end of a normalisation is the single step of its request.
LEMMA CommitStep ==
    ASSUME RequestTypeOK, NEW c \in Calls, Fresh(c), CommitOrder(c)
    PROVE  [Next]_vars /\ Fresh(c)'
<1> DEFINE q == call[c]
           w == Renumbering(c)
           X == DOMAIN MyColumns(c)
           Y == {NoGroup} \cup DOMAIN MyGroups(c)
           a == IndexedGroups(q.groupIndex, MyGroups(c))
           b == IndexedItems(q.itemIndex, MyItems(c))
<1>1. /\ q.step = "NORMALIZE" /\ RowsAreThere(c) /\ Commit(c, w)
      /\ q.groups = {} /\ q.columns = {}
  BY DEF CommitOrder
<1>2. DOMAIN wrote[c].columns = {} /\ Outcome(Sorted({}, {}, q, a, b))
  BY <1>1 DEF Fresh, WriteFresh, Sorts, NormalizeFresh
<1>3. IsTable(a) /\ IsTable(b)
  BY <1>1, IndexedSoFar
<1>4. Over(w.groups, MyGroups(c)) = a /\ Over(w.items, MyItems(c)) = b
  BY <1>1, RenumberedSo
<1>5. Plain(w, Boards, X, Y)
  BY <1>1, RenumberingPlain
<1>6. w.columns = <<>>
  BY DEF Renumbering
<1> HIDE DEF q, w, X, Y, a, b
<1>7. /\ columns' = Over(w.columns, MyColumns(c))
      /\ groups' = a /\ items' = b
      /\ UNCHANGED lastId /\ Finish(c)
  BY <1>1, <1>4, <1>5, CommitSees DEF Commit
<1>8. columns' = columns
  <2>1. IsTable(columns) /\ DOMAIN wrote[c].columns = {}
    BY <1>2, TablesAreFunctions
  <2>2. MyColumns(c) = columns
    BY <2>1, SeenAll DEF MyColumns
  <2> QED  BY <1>6, <1>7, <2>1, <2>2, NothingWritten, OverNothing
<1>9. Outcome([groups |-> a, items |-> b])
  <2>1. Sorted({}, {}, q, a, b) = [groups |-> a, items |-> b]
    BY <1>3, NothingLess
  <2> QED  BY <1>2, <2>1
<1>10. Next
  <2> DEFINE o == [groups |-> a, items |-> b]
  <2>1. Outcome(o) /\ groups' = o.groups /\ items' = o.items /\ UNCHANGED <<lastId, columns>>
    BY <1>7, <1>8, <1>9
  <2> HIDE DEF o
  <2>2. ASSUME NEW d \in Boards, NEW ch \in Batches(ItemChanges(d)),
               o = ItemSync(ch, items, groups, items)
        PROVE  Next
    BY <2>1, <2>2 DEF Next, SyncItemPositions
  <2>3. ASSUME NEW d \in Boards, NEW ch \in Batches(GroupChanges(d)),
               RepeatedGroups \/ NamesOnce(ch), o = GroupSync(ch, groups, groups, items)
        PROVE  Next
    BY <2>1, <2>3 DEF Next, SyncGroupPositions
  <2>4. ASSUME NEW g \in DOMAIN groups, o = GroupDeletion(g, groups[g], groups, items)
        PROVE  Next
    BY <2>1, <2>4 DEF Next, DeleteGroup
  <2> QED  BY <2>1, <2>2, <2>3, <2>4 DEF Outcome
<1> QED  BY <1>7, <1>10, FinishFresh

-----------------------------------------------------------------------------
(* The changes of syncGroupPositions, written one after another.           *)

LEMMA MaxIs ==
    ASSUME NEW S \in SUBSET Nat, NEW k \in S, \A n \in S : n <= k
    PROVE  Max(S) = k
<1>1. \A x \in S : (\A y \in S : x >= y) <=> x = k
  OBVIOUS
<1> QED  BY <1>1 DEF Max

\* What the n-th change adds to those before it.
LEMMA OneMore ==
    ASSUME NEW ch, NEW n \in Nat \ {0}
    PROVE  /\ \A x : x \in Named(First(ch, n)) <=> x = ch[n].id \/ x \in Named(First(ch, n - 1))
           /\ LastFor(First(ch, n), ch[n].id) = n
           /\ \A x : x # ch[n].id => LastFor(First(ch, n), x) = LastFor(First(ch, n - 1), x)
           /\ First(ch, n)[n] = ch[n]
           /\ \A m \in 1..n - 1 : First(ch, n)[m] = First(ch, n - 1)[m]
           /\ DOMAIN First(ch, n) = 1..n
           /\ DOMAIN First(ch, n - 1) = 1..n - 1
<1> DEFINE f == First(ch, n)
           p == First(ch, n - 1)
<1>1. /\ DOMAIN f = 1..n /\ DOMAIN p = 1..n - 1
      /\ \A m \in 1..n : f[m] = ch[m]
      /\ \A m \in 1..n - 1 : p[m] = ch[m]
  BY DEF First
<1>2. /\ n \in 1..n /\ \A m : m \in 1..n <=> m = n \/ m \in 1..n - 1
      /\ \A m \in 1..n : m \in Nat /\ m <= n
  OBVIOUS
<1> HIDE DEF f, p
<1>3. \A x : x \in Named(f) <=> x = ch[n].id \/ x \in Named(p)
  BY <1>1, <1>2 DEF Named
<1>4. LastFor(f, ch[n].id) = n
  <2> DEFINE P == {m \in DOMAIN f : f[m].id = ch[n].id}
  <2>1. P \in SUBSET Nat /\ n \in P /\ \A m \in P : m <= n
    BY <1>1, <1>2
  <2> HIDE DEF P
  <2>2. Max(P) = n
    BY <2>1, MaxIs
  <2> QED  BY <2>2 DEF LastFor, P
<1>5. \A x : x # ch[n].id => LastFor(f, x) = LastFor(p, x)
  <2> TAKE x
  <2> HAVE x # ch[n].id
  <2> DEFINE P == {m \in DOMAIN f : f[m].id = x}
             Q == {m \in DOMAIN p : p[m].id = x}
  <2>1. P = Q
    BY <1>1, <1>2
  <2> HIDE DEF P, Q
  <2>2. Max(P) = Max(Q)
    BY <2>1
  <2> QED  BY <2>2 DEF LastFor, P, Q
<1> QED  BY <1>1, <1>2, <1>3, <1>4, <1>5 DEF f, p

LEMMA OneMoreWritten ==
    ASSUME NEW ch, NEW n \in Nat \ {0}, NEW grs, ch[n].id \in DOMAIN grs,
           NEW row, row = [columnId |-> ch[n].newColumnId, orderIndex |-> ch[n].newIndex],
           NEW new, DOMAIN new = {ch[n].id}, new[ch[n].id] = row
    PROVE  Over(new, WrittenGroups(First(ch, n - 1), grs)) = WrittenGroups(First(ch, n), grs)
<1> DEFINE f == First(ch, n)
           p == First(ch, n - 1)
           g == ch[n].id
           l == Over(new, WrittenGroups(p, grs))
           r == WrittenGroups(f, grs)
           wf(h) == [columnId |-> f[LastFor(f, h)].newColumnId,
                     orderIndex |-> f[LastFor(f, h)].newIndex]
           wp(h) == [columnId |-> p[LastFor(p, h)].newColumnId,
                     orderIndex |-> p[LastFor(p, h)].newIndex]
<1>1. /\ \A x : x \in Named(f) <=> x = g \/ x \in Named(p)
      /\ LastFor(f, g) = n
      /\ \A x : x # g => LastFor(f, x) = LastFor(p, x)
      /\ f[n] = ch[n]
      /\ \A m \in 1..n - 1 : f[m] = p[m]
  BY OneMore
<1>2. r = [h \in DOMAIN grs |-> IF h \in Named(f) THEN wf(h) ELSE grs[h]]
  BY DEF WrittenGroups
<1>3. l = [h \in {g} \cup DOMAIN grs |->
            IF h \in {g} THEN new[h] ELSE IF h \in Named(p) THEN wp(h) ELSE grs[h]]
  <2>1. WrittenGroups(p, grs)
            = [h \in DOMAIN grs |-> IF h \in Named(p) THEN wp(h) ELSE grs[h]]
    BY DEF WrittenGroups
  <2> QED  BY <2>1 DEF Over
<1>4. wf(g) = row
  BY <1>1
<1>5. ASSUME NEW h, h # g, h \in Named(p) PROVE wf(h) = wp(h)
  <2> DEFINE P == {m \in DOMAIN p : p[m].id = h}
  <2>1. DOMAIN p = 1..n - 1
    BY DEF First
  <2>2. P # {} /\ P \in SUBSET Nat /\ IsFiniteSet(P)
    <3> HIDE DEF p
    <3>1. P # {}
      BY <1>5 DEF Named
    <3>2. P \subseteq 1..n - 1 /\ n - 1 \in Nat
      BY <2>1
    <3> HIDE DEF P
    <3> QED  BY <3>1, <3>2, IdsFinite
  <2>3. LastFor(p, h) \in P
    <3> HIDE DEF P
    <3>1. Max(P) \in P
      BY <2>2, MaxProperty
    <3> QED  BY <3>1 DEF LastFor, P
  <2>4. f[LastFor(f, h)] = p[LastFor(p, h)]
    BY <1>1, <1>5, <2>1, <2>3
  <2> QED  BY <2>4
<1> HIDE DEF wf, wp, l, r, f, p
<1>6. l = r
  <2>1. {g} \cup DOMAIN grs = DOMAIN grs
    OBVIOUS
  <2>2. \A h \in DOMAIN grs : (IF h \in {g} THEN new[h] ELSE IF h \in Named(p) THEN wp(h) ELSE grs[h])
            = (IF h \in Named(f) THEN wf(h) ELSE grs[h])
    BY <1>1, <1>4, <1>5
  <2> QED  BY <1>2, <1>3, <2>1, <2>2
<1> QED  BY <1>6 DEF l, r, f, p

\* The n-th change carries cards only where it moves its group to a new column.
LEMMA OneMoreCarrying ==
    ASSUME NEW ch, NEW n \in Nat \ {0}, NEW before, NEW g
    PROVE  /\ g = ch[n].id /\ before[g].columnId # ch[n].newColumnId
                => /\ CarryingChanges(First(ch, n), g, before) # {}
                   /\ Max(CarryingChanges(First(ch, n), g, before)) = n
           /\ ~(g = ch[n].id /\ before[g].columnId # ch[n].newColumnId)
                => CarryingChanges(First(ch, n), g, before)
                        = CarryingChanges(First(ch, n - 1), g, before)
<1> DEFINE f == First(ch, n)
           p == First(ch, n - 1)
           P == CarryingChanges(f, g, before)
           Q == CarryingChanges(p, g, before)
<1>1. /\ DOMAIN f = 1..n /\ DOMAIN p = 1..n - 1
      /\ \A m \in 1..n : f[m] = ch[m]
      /\ \A m \in 1..n - 1 : p[m] = ch[m]
  BY DEF First
<1>2. /\ n \in 1..n /\ \A m : m \in 1..n <=> m = n \/ m \in 1..n - 1
      /\ \A m \in 1..n : m \in Nat /\ m <= n
  OBVIOUS
<1> HIDE DEF f, p
<1>3. /\ P = {m \in 1..n : ch[m].id = g /\ before[g].columnId # ch[m].newColumnId}
      /\ Q = {m \in 1..n - 1 : ch[m].id = g /\ before[g].columnId # ch[m].newColumnId}
  BY <1>1, <1>2 DEF CarryingChanges
<1> HIDE DEF P, Q
<1>4. ASSUME g = ch[n].id, before[g].columnId # ch[n].newColumnId
      PROVE  P # {} /\ Max(P) = n
  <2>1. P \in SUBSET Nat /\ n \in P /\ \A m \in P : m <= n
    BY <1>2, <1>3, <1>4
  <2> QED  BY <2>1, MaxIs
<1>5. ~(g = ch[n].id /\ before[g].columnId # ch[n].newColumnId) => P = Q
  BY <1>2, <1>3
<1> QED  BY <1>4, <1>5 DEF P, Q, f, p

\* Cards of the groups that the n-th change does not carry are as before it.
LEMMA CarriedAsBefore ==
    ASSUME NEW ch, NEW n \in Nat \ {0}, NEW before, NEW g,
           ~(g = ch[n].id /\ before[g].columnId # ch[n].newColumnId),
           NEW f, f = First(ch, n), NEW p, p = First(ch, n - 1),
           NEW K, K = CarryingChanges(f, g, before), NEW L, L = CarryingChanges(p, g, before)
    PROVE  /\ (g \in Named(f) /\ K # {}) <=> (g \in Named(p) /\ L # {})
           /\ L # {} => f[Max(K)] = p[Max(L)]
<1>1. K = L
  BY OneMoreCarrying
<1>2. /\ \A x : x \in Named(f) <=> x = ch[n].id \/ x \in Named(p)
      /\ \A m \in 1..n - 1 : f[m] = p[m]
      /\ DOMAIN p = 1..n - 1
  <2>1. /\ \A x : x \in Named(First(ch, n)) <=> x = ch[n].id \/ x \in Named(First(ch, n - 1))
        /\ \A m \in 1..n - 1 : First(ch, n)[m] = First(ch, n - 1)[m]
        /\ DOMAIN First(ch, n - 1) = 1..n - 1
    BY OneMore
  <2> QED  BY <2>1
<1>3. L \subseteq 1..n - 1 /\ n - 1 \in Nat /\ \A m \in L : p[m].id = g
  BY <1>2 DEF CarryingChanges
<1>4. L # {} => g \in Named(p)
  BY <1>2, <1>3 DEF Named
<1>5. L # {} => Max(L) \in L
  <2>1. L \in SUBSET Nat /\ IsFiniteSet(L)
    BY <1>3, IdsFinite
  <2> QED  BY <2>1, MaxProperty
<1> QED  BY <1>1, <1>2, <1>3, <1>4, <1>5

LEMMA CarriedTable ==
    ASSUME NEW f, NEW before, NEW its
    PROVE  /\ DOMAIN CarriedItems(f, before, its) = DOMAIN its
           /\ IsTable(CarriedItems(f, before, its))
BY DEF CarriedItems, IsTable

LEMMA RowAsBefore ==
    ASSUME NEW ch, NEW n \in Nat \ {0}, NEW before, NEW its, NEW i \in DOMAIN its,
           ~(its[i].groupId = ch[n].id /\ before[its[i].groupId].columnId # ch[n].newColumnId)
    PROVE  CarriedItems(First(ch, n), before, its)[i]
                = CarriedItems(First(ch, n - 1), before, its)[i]
<1> DEFINE f == First(ch, n)
           p == First(ch, n - 1)
           g == its[i].groupId
           K == CarryingChanges(f, g, before)
           L == CarryingChanges(p, g, before)
<1>1. /\ (g \in Named(f) /\ K # {}) <=> (g \in Named(p) /\ L # {})
      /\ L # {} => f[Max(K)] = p[Max(L)]
  <2> HIDE DEF g
  <2>1. ~(g = ch[n].id /\ before[g].columnId # ch[n].newColumnId)
    BY DEF g
  <2> QED  BY <2>1, CarriedAsBefore
<1>2. CarriedItems(f, before, its)[i]
            = IF g \in Named(f) /\ K # {}
              THEN [its[i] EXCEPT !.columnId = f[Max(K)].newColumnId] ELSE its[i]
  BY DEF CarriedItems
<1>3. CarriedItems(p, before, its)[i]
            = IF g \in Named(p) /\ L # {}
              THEN [its[i] EXCEPT !.columnId = p[Max(L)].newColumnId] ELSE its[i]
  BY DEF CarriedItems
<1> HIDE DEF f, p, g, K, L
<1>4. CarriedItems(f, before, its)[i] = CarriedItems(p, before, its)[i]
  BY <1>1, <1>2, <1>3
<1> QED  BY <1>4 DEF f, p

\* The n-th change, where its group stays in its column,
LEMMA NoneCarried ==
    ASSUME NEW ch, NEW n \in Nat \ {0}, NEW before, NEW its,
           before[ch[n].id].columnId = ch[n].newColumnId
    PROVE  CarriedItems(First(ch, n), before, its) = CarriedItems(First(ch, n - 1), before, its)
<1> DEFINE a == CarriedItems(First(ch, n), before, its)
           b == CarriedItems(First(ch, n - 1), before, its)
<1>1. DOMAIN a = DOMAIN its /\ DOMAIN b = DOMAIN its /\ IsTable(a) /\ IsTable(b)
  BY CarriedTable
<1>2. \A i \in DOMAIN its : a[i] = b[i]
  BY RowAsBefore
<1> HIDE DEF a, b
<1>3. a = b
  BY <1>1, <1>2 DEF IsTable
<1> QED  BY <1>3 DEF a, b

InColumn(d, its, S) == [i \in S |-> [its[i] EXCEPT !.columnId = d]]

\* and where it does not: the cards then in the group go with it.
LEMMA OneMoreCarried ==
    ASSUME NEW ch, NEW n \in Nat \ {0}, NEW before, NEW its, NEW C, NEW G, ItemTable(its, C, G),
           NEW g, g = ch[n].id, before[g].columnId # ch[n].newColumnId,
           NEW b, b = CarriedItems(First(ch, n - 1), before, its),
           NEW new, new = InColumn(ch[n].newColumnId, b, Members(g, b))
    PROVE  Over(new, b) = CarriedItems(First(ch, n), before, its)
<1> DEFINE a == CarriedItems(First(ch, n), before, its)
           l == Over(new, b)
           target == ch[n].newColumnId
<1>0. /\ DOMAIN new = Members(g, b)
      /\ \A i \in Members(g, b) : new[i] = [b[i] EXCEPT !.columnId = target]
  BY DEF InColumn
<1>1. /\ DOMAIN a = DOMAIN its /\ DOMAIN b = DOMAIN its /\ IsTable(a) /\ IsTable(b)
  BY CarriedTable
<1>2. \A i \in DOMAIN its : b[i] = its[i] \/ \E d : b[i] = [its[i] EXCEPT !.columnId = d]
  BY DEF CarriedItems
<1>3. \A i \in DOMAIN its : b[i].groupId = its[i].groupId
  BY <1>2 DEF ItemTable
<1>4. \A i \in DOMAIN its : its[i].groupId # g => a[i] = b[i]
  BY RowAsBefore
<1>5. ASSUME NEW i \in DOMAIN its, its[i].groupId = g
      PROVE  a[i] = [its[i] EXCEPT !.columnId = target]
  <2> DEFINE f == First(ch, n)
             K == CarryingChanges(f, g, before)
  <2>1. K # {} /\ Max(K) = n
    BY OneMoreCarrying
  <2>2. g \in Named(f) /\ f[n] = ch[n]
    BY OneMore
  <2>3. a[i] = IF g \in Named(f) /\ K # {}
               THEN [its[i] EXCEPT !.columnId = f[Max(K)].newColumnId] ELSE its[i]
    BY <1>5 DEF CarriedItems
  <2> HIDE DEF f, K, a
  <2> QED  BY <2>1, <2>2, <2>3
<1>6. ASSUME NEW i \in DOMAIN its, its[i].groupId = g
      PROVE  [b[i] EXCEPT !.columnId = target] = [its[i] EXCEPT !.columnId = target]
  <2>1. its[i] \in [columnId : C, groupId : {NoGroup} \cup G, rowIndex : Nat]
    BY DEF ItemTable
  <2>2. CASE b[i] = its[i]
    BY <2>2
  <2>3. ASSUME NEW d, b[i] = [its[i] EXCEPT !.columnId = d]
        PROVE  [b[i] EXCEPT !.columnId = target] = [its[i] EXCEPT !.columnId = target]
    <3> HIDE DEF target
    <3> QED  BY <2>1, <2>3
  <2> QED  BY <1>2, <2>2, <2>3
<1>7. Members(g, b) = {i \in DOMAIN its : its[i].groupId = g}
  BY <1>1, <1>3 DEF Members
<1>8. /\ DOMAIN l = Members(g, b) \cup DOMAIN b
      /\ \A i \in Members(g, b) : l[i] = new[i]
      /\ \A i \in DOMAIN b \ Members(g, b) : l[i] = b[i]
      /\ IsTable(l)
  <2>1. IsTable(l)
    BY DEF Over, IsTable
  <2>2. /\ DOMAIN Over(new, b) = DOMAIN new \cup DOMAIN b
        /\ \A i \in DOMAIN new : Over(new, b)[i] = new[i]
        /\ \A i \in DOMAIN b \ DOMAIN new : Over(new, b)[i] = b[i]
    BY DEF Over
  <2> QED  BY <1>0, <2>1, <2>2
<1> HIDE DEF a, l, target
<1>9. DOMAIN l = DOMAIN its
  BY <1>1, <1>7, <1>8
<1>10. \A i \in DOMAIN its : l[i] = a[i]
  <2> TAKE i \in DOMAIN its
  <2>1. CASE its[i].groupId = g
    <3>1. l[i] = new[i] /\ new[i] = [b[i] EXCEPT !.columnId = target]
      BY <1>0, <1>7, <1>8, <2>1
    <3> QED  BY <1>5, <1>6, <2>1, <3>1
  <2>2. CASE its[i].groupId # g
    BY <1>1, <1>4, <1>7, <1>8, <2>2
  <2> QED  BY <2>1, <2>2
<1>11. l = a
  BY <1>1, <1>8, <1>9, <1>10 DEF IsTable
<1> QED  BY <1>11 DEF l, a

-----------------------------------------------------------------------------
(* Calls made one at a time: the sync requests write their changes.        *)

\* Rows read ahead of the transaction, and unchanged since, are the rows it
\* writes.
LEMMA FreshItemSync ==
    ASSUME NEW ch, NEW grs, NEW its, Named(ch) \subseteq DOMAIN its
    PROVE  ItemSync(ch, Restrict(its, Named(ch)), grs, its) = ItemSync(ch, its, grs, its)
<1> DEFINE before == Restrict(its, Named(ch))
<1>1. \A i \in Named(ch) : before[i] = its[i]
  BY DEF Restrict
<1> HIDE DEF before
<1>2. ItemSyncColumns(ch, before) = ItemSyncColumns(ch, its)
  BY <1>1 DEF ItemSyncColumns
<1>3. ItemSyncGroups(ch, before) = ItemSyncGroups(ch, its)
  BY <1>1 DEF ItemSyncGroups
<1>4. ItemMoveMarks(ch, before, its) = ItemMoveMarks(ch, its, its)
  BY <1>1 DEF ItemMoveMarks
<1>5. ItemSync(ch, before, grs, its) = ItemSync(ch, its, grs, its)
  BY <1>2, <1>3, <1>4 DEF ItemSync
<1> QED  BY <1>5 DEF before

LEMMA FreshGroupSync ==
    ASSUME NEW ch, NEW grs, NEW its, Named(ch) \subseteq DOMAIN grs
    PROVE  GroupSync(ch, Restrict(grs, Named(ch)), grs, its) = GroupSync(ch, grs, grs, its)
<1> DEFINE before == Restrict(grs, Named(ch))
<1>1. \A g \in Named(ch) : before[g] = grs[g]
  BY DEF Restrict
<1> HIDE DEF before
<1>2. GroupSyncColumns(ch, before) = GroupSyncColumns(ch, grs)
  BY <1>1 DEF GroupSyncColumns
<1>3. \A g \in Named(ch) : CarryingChanges(ch, g, before) = CarryingChanges(ch, g, grs)
  BY <1>1 DEF CarryingChanges
<1>4. CarriedItems(ch, before, its) = CarriedItems(ch, grs, its)
  BY <1>3 DEF CarriedItems
<1>5. GroupMoveMarks(ch, before, grs) = GroupMoveMarks(ch, grs, grs)
  BY <1>1 DEF GroupMoveMarks
<1>6. GroupSync(ch, before, grs, its) = GroupSync(ch, grs, grs, its)
  BY <1>2, <1>4, <1>5 DEF GroupSync
<1> QED  BY <1>6 DEF before

\* A row written in full is there.
LEMMA FullRows ==
    /\ \A x, y : [columnId |-> x, orderIndex |-> y] # Gone
    /\ \A x, y, z : [columnId |-> x, groupId |-> y, rowIndex |-> z] # Gone
BY DEF Gone

LEMMA AllWritten ==
    ASSUME NEW its, NEW n, DOMAIN n = DOMAIN its, IsTable(n), NEW S, S \subseteq DOMAIN its,
           \A i \in DOMAIN its \ S : n[i] = its[i]
    PROVE  Over(Restrict(n, S), its) = n
<1> DEFINE l == Over(Restrict(n, S), its)
<1>1. l = [i \in S \cup DOMAIN its |-> IF i \in S THEN Restrict(n, S)[i] ELSE its[i]]
  BY DEF Over, Restrict
<1>2. \A i \in S : Restrict(n, S)[i] = n[i]
  BY DEF Restrict
<1>3. S \cup DOMAIN its = DOMAIN its
  OBVIOUS
<1> HIDE DEF l
<1>4. l = n
  BY <1>1, <1>2, <1>3 DEF IsTable
<1> QED  BY <1>4 DEF l

LEMMA ItemsUpdateStep ==
    ASSUME RequestTypeOK, NEW c \in Calls, Fresh(c), SyncItemsUpdate(c)
    PROVE  UNCHANGED tables /\ Fresh(c)'
<1> DEFINE moves == call[c].moves
           ch == moves.changes
           before == moves.before
           n == WrittenItems(ch, items)
           S == Named(ch)
           w == [NoWrites EXCEPT !.items = Restrict(n, S)]
           gs == ItemSyncGroups(ch, before)
           cols == ItemSyncColumns(ch, before)
           r == Normalizing(moves, NoMoves, gs, cols)
<1>1. call[c].step = "SYNC_ITEMS" /\ S \subseteq DOMAIN items /\ Write(c, w, r)
  BY DEF SyncItemsUpdate
<1>2. FreshItemChanges(ch) /\ before = Restrict(items, S)
  BY <1>1 DEF Fresh, ReadFresh
<1>3. wrote[c] = NoWrites
  BY <1>1 DEF RequestTypeOK, WritesOK, Reading
<1>4. MyGroups(c) = groups /\ MyItems(c) = items /\ IsTable(groups) /\ IsTable(items)
  BY <1>3, SeenAtFirst, TablesAreFunctions
<1>5. /\ DOMAIN n = DOMAIN items /\ IsTable(n)
      /\ \A i \in DOMAIN items \ S : n[i] = items[i]
      /\ \A i \in S : n[i] # Gone
  <2>1. n = [i \in DOMAIN items |->
                IF i \in S
                THEN [columnId |-> ch[LastFor(ch, i)].newColumnId,
                      groupId |-> ch[LastFor(ch, i)].newGroupId,
                      rowIndex |-> ch[LastFor(ch, i)].newIndex]
                ELSE items[i]]
    BY DEF WrittenItems
  <2> HIDE DEF n, S, ch
  <2>2. DOMAIN n = DOMAIN items /\ IsTable(n)
    BY <2>1 DEF IsTable
  <2>3. \A i \in DOMAIN items \ S : n[i] = items[i]
    BY <2>1
  <2>4. ASSUME NEW i \in S PROVE n[i] # Gone
    BY <1>1, <2>1, FullRows
  <2> QED  BY <2>2, <2>3, <2>4
<1>6. w.columns = <<>> /\ w.groups = <<>> /\ w.items = Restrict(n, S)
  BY DEF NoWrites
<1>7. r.step = "NORMALIZE"
  BY DEF Normalizing
<1>8. ItemSync(ch, before, groups, items) = ItemSync(ch, items, groups, items)
  BY <1>1, <1>2, FreshItemSync
<1>9. ItemSync(ch, before, groups, items)
        = NormalizedRoots(cols, groups, NormalizedMembers(gs, n),
                          UnmovedMarks(groups), ItemMoveMarks(ch, before, items))
  BY DEF ItemSync
<1>10. ItemMoveMarks(ch, before, items) = ItemMoveMarks(ch, before, n)
  BY <1>5 DEF ItemMoveMarks
<1>11. GroupMoveMarks(NoMoves.changes, NoMoves.before, groups) = UnmovedMarks(groups)
  BY DEF GroupMoveMarks, NoMoves, UnmovedMarks, Named
<1> HIDE DEF ch, before, n, S, w, gs, cols, moves
<1>12. Deleted(w.groups) = {} /\ Deleted(w.items) = {}
  BY <1>5, <1>6, NothingWritten DEF Deleted, Restrict
<1>13. /\ UNCHANGED tables /\ call'[c] = r
       /\ wrote'[c].columns = Over(w.columns, wrote[c].columns)
       /\ MyGroups(c)' = Over(w.groups, MyGroups(c))
       /\ MyItems(c)' = Over(w.items, MyItems(c))
  <2> HIDE DEF r
  <2> QED  BY <1>1, <1>12, KeepingWriteSees
<1>14. MyGroups(c)' = groups /\ DOMAIN wrote'[c].columns = {}
  <2>1. Over(w.groups, groups) = groups
    BY <1>4, <1>6, NothingWritten, OverNothing
  <2>2. DOMAIN wrote'[c].columns = {}
    BY <1>3, <1>6, <1>13, NothingWritten DEF Over
  <2> QED  BY <1>4, <1>13, <2>1, <2>2
<1>15. MyItems(c)' = n
  <2>1. Over(Restrict(n, S), items) = n
    BY <1>1, <1>5, AllWritten
  <2> QED  BY <1>4, <1>6, <1>13, <2>1
<1>16. Sorts(c)'
  <2> DEFINE o == ItemSync(ch, before, groups, items)
  <2>1. Outcome(o)
    BY <1>2, <1>8 DEF Outcome, FreshItemChanges
  <2>2. NormalizedRoots(cols, groups, NormalizedMembers(gs, n),
                        GroupMoveMarks(NoMoves.changes, NoMoves.before, groups),
                        ItemMoveMarks(moves.changes, moves.before, n)) = o
    BY <1>9, <1>10, <1>11 DEF ch, before
  <2>3. call'[c] = Normalizing(moves, NoMoves, gs, cols)
    BY <1>13
  <2> HIDE DEF o, r
  <2> QED  BY <1>4, <1>5, <1>13, <1>14, <1>15, <2>1, <2>2, <2>3, SortsFromHere
<1>17. call'[c].step = "NORMALIZE"
  BY <1>7, <1>13
<1> QED  BY <1>13, <1>16, <1>17 DEF Fresh, ReadFresh, WriteFresh

\* syncGroupPositions goes on once a change is written: the next one, or the
\* normalisation.
LEMMA SyncGoesOn ==
    ASSUME RequestTypeOK, NEW c \in Calls, UNCHANGED tables,
           call[c].step \in {"SYNC_GROUPS", "NEXT_GROUP", "CARRY_ITEMS"}, ReadFresh(call[c]),
           call'[c] = NextChange(c), DOMAIN wrote'[c].columns = {},
           NEW a, MyGroups(c)' = a, NEW b, MyItems(c)' = b,
           NEW ch, ch = call[c].moves.changes, NEW k, k = call[c].next,
           a = WrittenGroups(First(ch, k), groups),
           b = CarriedItems(First(ch, k), call[c].moves.before, items)
    PROVE  Fresh(c)'
<1> DEFINE moves == call[c].moves
           before == moves.before
<1>1. /\ ChangesOK(ch) /\ k \in DOMAIN ch
      /\ FreshGroupChanges(ch)
      /\ before = Restrict(groups, Named(ch))
  BY DEF RequestTypeOK, CallsOK, RequestOK, ReadFresh
<1>2. /\ DOMAIN ch = 1..Len(ch) /\ Len(ch) \in Nat
      /\ \E S : ch \in [1..Len(ch) -> S]
  <2>1. PICK S : ch \in Batches(S)
    BY <1>1 DEF ChangesOK
  <2>2. PICK n \in 1..MaxBatch : ch \in [1..n -> S]
    BY <2>1 DEF Batches
  <2>3. Len(ch) = n /\ n \in Nat
    BY <2>2, BoundsAssumption
  <2> QED  BY <2>2, <2>3
<1>3. groups' = groups /\ items' = items
  BY DEF tables
<1>4. CASE k < Len(ch)
  <2> DEFINE r == [step |-> "NEXT_GROUP", next |-> k + 1, moves |-> moves]
  <2>1. call'[c] = r
    BY <1>4 DEF NextChange
  <2>2. /\ r.step = "NEXT_GROUP" /\ r.next = k + 1
        /\ r.moves.changes = ch /\ r.moves.before = before
    OBVIOUS
  <2>3. r.next - 1 = k /\ b = CarriedItems(First(ch, k), before, items)
    BY <1>1, <1>2
  <2> HIDE DEF r, before, moves
  <2>4. ReadFresh(r)
    BY <1>1, <2>2 DEF ReadFresh
  <2>5. ReadFresh(call[c])'
    BY <2>1, <2>4, FreshKept
  <2>6. Syncs(r, r.next - 1, r.next - 1, a, b)
    BY <2>2, <2>3 DEF Syncs
  <2>7. WriteFresh(c)'
    BY <1>3, <2>1, <2>2, <2>6 DEF WriteFresh, Syncs, Sorts
  <2> QED  BY <2>5, <2>7 DEF Fresh
<1>5. CASE ~(k < Len(ch))
  <2> DEFINE cols == GroupSyncColumns(ch, before)
             o == GroupSync(ch, before, groups, items)
  <2>1. call'[c] = Normalizing(NoMoves, moves, {}, cols)
    BY <1>5 DEF NextChange
  <2>2. First(ch, k) = ch
    BY <1>1, <1>2, <1>5 DEF First
  <2>3. Named(ch) \subseteq DOMAIN groups
    <3>1. PICK x \in Boards : ch \in Batches(GroupChanges(x))
      BY <1>1 DEF FreshGroupChanges
    <3>2. \A n \in DOMAIN ch : ch[n] \in GroupChanges(x)
      BY <3>1 DEF Batches
    <3> QED  BY <3>2 DEF Named, GroupChanges
  <2>4. o = GroupSync(ch, groups, groups, items)
    BY <1>1, <2>3, FreshGroupSync
  <2>5. Outcome(o)
    BY <1>1, <2>4 DEF Outcome, FreshGroupChanges
  <2>6. a = WrittenGroups(ch, groups) /\ b = CarriedItems(ch, before, items)
    BY <2>2
  <2>7. /\ IsTable(a) /\ DOMAIN a = DOMAIN groups
        /\ IsTable(b) /\ DOMAIN b = DOMAIN items
    BY <2>6 DEF WrittenGroups, CarriedItems, IsTable
  <2>8. GroupMoveMarks(moves.changes, moves.before, a) = GroupMoveMarks(ch, before, groups)
    BY <2>7 DEF GroupMoveMarks
  <2>9. ItemMoveMarks(NoMoves.changes, NoMoves.before, b) = UnmovedMarks(items)
    BY <2>7 DEF ItemMoveMarks, NoMoves, UnmovedMarks, Named
  <2>10. o = NormalizedRoots(cols, a, b, GroupMoveMarks(ch, before, groups), UnmovedMarks(items))
    BY <2>6 DEF GroupSync
  <2>11. NormalizedMembers({}, b) = b
    BY <2>7, NoMembers
  <2> HIDE DEF o, cols, moves, before
  <2>12. NormalizedRoots(cols, a, NormalizedMembers({}, b),
                         GroupMoveMarks(moves.changes, moves.before, a),
                         ItemMoveMarks(NoMoves.changes, NoMoves.before, b)) = o
    BY <2>8, <2>9, <2>10, <2>11
  <2>13. Sorts(c)'
    BY <2>1, <2>5, <2>7, <2>12, SortsFromHere
  <2>14. call'[c].step = "NORMALIZE"
    BY <2>1 DEF Normalizing
  <2> QED  BY <2>13, <2>14 DEF Fresh, ReadFresh, WriteFresh
<1> QED  BY <1>4, <1>5

\* Before the first change, nothing has moved.
LEMMA NoChangeYet ==
    ASSUME NEW ch, NEW before, NEW grs, NEW its, IsTable(grs), IsTable(its)
    PROVE  WrittenGroups(First(ch, 0), grs) = grs /\ CarriedItems(First(ch, 0), before, its) = its
<1>1. DOMAIN First(ch, 0) = {}
  BY DEF First
<1>2. Named(First(ch, 0)) = {}
  BY <1>1 DEF Named
<1>3. WrittenGroups(First(ch, 0), grs) = [g \in DOMAIN grs |-> grs[g]]
  BY <1>2 DEF WrittenGroups
<1>4. CarriedItems(First(ch, 0), before, its) = [i \in DOMAIN its |-> its[i]]
  BY <1>2 DEF CarriedItems
<1> QED  BY <1>3, <1>4 DEF IsTable

LEMMA GroupsUpdateStep ==
    ASSUME RequestTypeOK, NEW c \in Calls, Fresh(c), SyncGroupsUpdate(c)
    PROVE  UNCHANGED tables /\ Fresh(c)'
<1> DEFINE q == call[c]
           moves == q.moves
           ch == moves.changes
           before == moves.before
           k == q.next
           g == ch[k].id
           row == [columnId |-> ch[k].newColumnId, orderIndex |-> ch[k].newIndex]
           new == [h \in {g} |-> row]
           w == [NoWrites EXCEPT !.groups = new]
           carries == before[g].columnId # ch[k].newColumnId
           found == Members(g, MyItems(c))
           carry == [step |-> "CARRY_ITEMS", next |-> k, moves |-> moves, found |-> found]
           r == IF carries THEN carry ELSE NextChange(c)
           a == WrittenGroups(First(ch, k), groups)
           b == CarriedItems(First(ch, k - 1), before, items)
<1>1. q.step \in {"SYNC_GROUPS", "NEXT_GROUP"} /\ Write(c, w, r)
  BY DEF SyncGroupsUpdate
<1>2. /\ ChangesOK(ch) /\ k \in DOMAIN ch /\ ReadFresh(q)
      /\ FreshGroupChanges(ch)
      /\ before = Restrict(groups, Named(ch))
  BY <1>1 DEF RequestTypeOK, CallsOK, RequestOK, Fresh, ReadFresh
<1>3. k \in Nat \ {0}
  <2> HIDE DEF ch, k
  <2> QED  BY <1>2, ChangesNumbered
<1>4. g \in DOMAIN groups
  <2>1. PICK x \in Boards : ch \in Batches(GroupChanges(x))
    BY <1>2 DEF FreshGroupChanges
  <2>2. ch[k] \in GroupChanges(x)
    BY <1>2, <2>1 DEF Batches
  <2> QED  BY <2>2 DEF GroupChanges
<1>5. IsTable(groups) /\ IsTable(items)
  BY TablesAreFunctions
<1>6. /\ MyGroups(c) = WrittenGroups(First(ch, k - 1), groups)
      /\ MyItems(c) = b
      /\ DOMAIN wrote[c].columns = {}
  <2>1. CASE q.step = "SYNC_GROUPS"
    <3>1. wrote[c] = NoWrites
      BY <2>1 DEF RequestTypeOK, WritesOK, Reading
    <3>2. k - 1 = 0
      BY <1>2, <2>1 DEF ReadFresh
    <3>3. MyGroups(c) = groups /\ MyItems(c) = items
      BY <3>1, SeenAtFirst
    <3> HIDE DEF k, ch, before
    <3>4. /\ WrittenGroups(First(ch, 0), groups) = groups
          /\ CarriedItems(First(ch, 0), before, items) = items
      BY <1>5, NoChangeYet
    <3> QED  BY <3>1, <3>2, <3>3, <3>4, NothingWritten
  <2>2. CASE q.step = "NEXT_GROUP"
    <3>1. Syncs(q, k - 1, k - 1, MyGroups(c), MyItems(c)) /\ DOMAIN wrote[c].columns = {}
      BY <2>2 DEF Fresh, WriteFresh, Sorts
    <3> QED  BY <3>1 DEF Syncs
  <2> QED  BY <1>1, <2>1, <2>2
<1>7. w.columns = <<>> /\ w.groups = new /\ w.items = <<>> /\ DOMAIN new = {g} /\ new[g] = row
  BY DEF NoWrites
<1>8. row # Gone
  BY FullRows
<1> HIDE DEF w, new, r, a, b
<1>9. Deleted(w.groups) = {} /\ Deleted(w.items) = {}
  <2> HIDE DEF row
  <2> QED  BY <1>7, <1>8, NothingWritten DEF Deleted
<1>10. /\ UNCHANGED tables /\ call'[c] = r
       /\ wrote'[c].columns = Over(w.columns, wrote[c].columns)
       /\ MyGroups(c)' = Over(w.groups, MyGroups(c))
       /\ MyItems(c)' = Over(w.items, MyItems(c))
  BY <1>1, <1>9, KeepingWriteSees
<1>11. DOMAIN wrote'[c].columns = {}
  BY <1>6, <1>7, <1>10, NothingWritten DEF Over
<1>12. MyGroups(c)' = a
  <2>1. /\ row = [columnId |-> ch[k].newColumnId, orderIndex |-> ch[k].newIndex]
        /\ DOMAIN new = {ch[k].id} /\ new[ch[k].id] = row /\ ch[k].id \in DOMAIN groups
    BY <1>4, <1>7
  <2> HIDE DEF row, g, k, ch
  <2>2. Over(new, WrittenGroups(First(ch, k - 1), groups)) = WrittenGroups(First(ch, k), groups)
    BY <1>3, <2>1, OneMoreWritten
  <2> QED  BY <1>6, <1>7, <1>10, <2>2 DEF a
<1>13. MyItems(c)' = b
  <2>1. IsTable(MyItems(c))
    BY TablesAreFunctions
  <2> QED  BY <1>6, <1>7, <1>10, <2>1, OverNothing, NothingWritten
<1>14. CASE carries
  <2>1. call'[c] = carry
    BY <1>10, <1>14 DEF r
  <2>2. /\ carry.step = "CARRY_ITEMS" /\ carry.next = k /\ carry.moves = moves
        /\ carry.found = Members(g, b)
    BY <1>6
  <2>3. groups' = groups /\ items' = items
    BY <1>10 DEF tables
  <2> HIDE DEF carry, found
  <2>4. ReadFresh(carry)
    BY <1>2, <2>2 DEF ReadFresh
  <2>5. ReadFresh(call[c])'
    BY <1>10, <2>1, <2>4, FreshKept
  <2>6. Syncs(carry, carry.next, carry.next - 1, a, b)
    BY <2>2 DEF Syncs, a, b
  <2>7. Carries(carry, b)
    BY <1>14, <2>2 DEF Carries
  <2>8. WriteFresh(c)'
    <3>1. Syncs(call[c], call[c].next, call[c].next - 1, MyGroups(c), MyItems(c))'
      BY <1>12, <1>13, <2>1, <2>3, <2>6 DEF Syncs
    <3>2. Carries(call[c], MyItems(c))'
      BY <1>13, <2>1, <2>7 DEF Carries
    <3> QED  BY <1>11, <2>1, <2>2, <3>1, <3>2 DEF WriteFresh, Sorts
  <2> QED  BY <1>10, <2>5, <2>8 DEF Fresh
<1>15. CASE ~carries
  <2>1. call'[c] = NextChange(c)
    BY <1>10, <1>15 DEF r
  <2>2. before[ch[k].id].columnId = ch[k].newColumnId
    BY <1>15
  <2> HIDE DEF k, ch, before, g
  <2>3. CarriedItems(First(ch, k), before, items) = b
    BY <1>3, <2>2, NoneCarried DEF b
  <2>4. a = WrittenGroups(First(ch, k), groups)
    BY DEF a
  <2>5. Fresh(c)'
    <3> DEFINE before2 == call[c].moves.before
    <3>1. /\ ch = call[c].moves.changes /\ k = call[c].next /\ before2 = before
      BY DEF ch, k, before
    <3>2. b = CarriedItems(First(ch, k), call[c].moves.before, items)
      BY <2>3, <3>1
    <3> QED  BY <1>1, <1>2, <1>10, <1>11, <1>12, <1>13, <2>1, <2>4, <3>1, <3>2, SyncGoesOn
  <2> QED  BY <1>10, <2>5
<1> QED  BY <1>14, <1>15

LEMMA GroupsCarryStep ==
    ASSUME RequestTypeOK, NEW c \in Calls, Fresh(c), SyncGroupsCarry(c)
    PROVE  UNCHANGED tables /\ Fresh(c)'
<1> DEFINE q == call[c]
           moves == q.moves
           ch == moves.changes
           before == moves.before
           k == q.next
           g == ch[k].id
           its == MyItems(c)
           S == q.found \cap Members(g, its)
           new == [i \in S |-> [its[i] EXCEPT !.columnId = ch[k].newColumnId]]
           w == [NoWrites EXCEPT !.items = new]
           a == WrittenGroups(First(ch, k), groups)
           b == CarriedItems(First(ch, k - 1), before, items)
<1>1. q.step = "CARRY_ITEMS" /\ Write(c, w, NextChange(c))
  BY DEF SyncGroupsCarry
<1>2. /\ ChangesOK(ch) /\ k \in DOMAIN ch /\ ReadFresh(q)
  BY <1>1 DEF RequestTypeOK, CallsOK, RequestOK, Fresh
<1>3. k \in Nat \ {0}
  <2> HIDE DEF ch, k
  <2> QED  BY <1>2, ChangesNumbered
<1>4. /\ MyGroups(c) = a /\ its = b
      /\ before[g].columnId # ch[k].newColumnId
      /\ q.found = Members(g, its)
      /\ DOMAIN wrote[c].columns = {}
  <2>1. /\ Syncs(q, k, k - 1, MyGroups(c), its) /\ Carries(q, its)
        /\ DOMAIN wrote[c].columns = {}
    BY <1>1 DEF Fresh, WriteFresh, Sorts
  <2>2. MyGroups(c) = a /\ its = b
    BY <2>1 DEF Syncs
  <2>3. before[g].columnId # ch[k].newColumnId /\ q.found = Members(g, its)
    BY <2>1 DEF Carries
  <2> QED  BY <2>1, <2>2, <2>3
<1>5. /\ w.columns = <<>> /\ w.groups = <<>> /\ w.items = new
      /\ DOMAIN new = S
      /\ \A i \in S : new[i] = [its[i] EXCEPT !.columnId = ch[k].newColumnId]
  BY DEF NoWrites
<1>14. new = InColumn(ch[k].newColumnId, its, S)
  BY DEF InColumn
<1>6. ItemTable(its, DOMAIN MyColumns(c), DOMAIN MyGroups(c)) /\ IsTable(MyGroups(c))
  BY MyTables, TablesAreFunctions DEF TypedTables
<1>7. ItemTable(items, DOMAIN columns, DOMAIN groups)
  BY TypedAsTables DEF RequestTypeOK, TypedTables
<1>8. Deleted(w.groups) = {} /\ Deleted(w.items) = {}
  <2>1. ASSUME NEW i \in S PROVE new[i] # Gone
    <3>1. i \in DOMAIN its
      BY DEF Members
    <3> HIDE DEF its, new, S
    <3>2. its[i] \in [columnId : DOMAIN MyColumns(c), groupId : {NoGroup} \cup DOMAIN MyGroups(c),
                      rowIndex : Nat]
      BY <1>6, <3>1 DEF ItemTable
    <3>3. [its[i] EXCEPT !.columnId = ch[k].newColumnId]
            = [columnId |-> ch[k].newColumnId, groupId |-> its[i].groupId,
               rowIndex |-> its[i].rowIndex]
      BY <3>2
    <3> QED  BY <1>5, <3>3, FullRows
  <2> HIDE DEF new, w, S
  <2> QED  BY <1>5, <2>1, NothingWritten DEF Deleted
<1> HIDE DEF w, new, a, b
<1>9. /\ UNCHANGED tables /\ call'[c] = NextChange(c)
      /\ wrote'[c].columns = Over(w.columns, wrote[c].columns)
      /\ MyGroups(c)' = Over(w.groups, MyGroups(c))
      /\ MyItems(c)' = Over(w.items, MyItems(c))
  BY <1>1, <1>8, KeepingWriteSees
<1>10. DOMAIN wrote'[c].columns = {}
  BY <1>4, <1>5, <1>9, NothingWritten DEF Over
<1>11. MyGroups(c)' = a
  <2>1. DOMAIN w.groups = {}
    BY <1>5, NothingWritten
  <2>2. Over(w.groups, MyGroups(c)) = MyGroups(c)
    BY <1>6, <2>1, OverNothing
  <2> QED  BY <1>4, <1>9, <2>2
<1>12. MyItems(c)' = CarriedItems(First(ch, k), before, items)
  <2>1. S = Members(g, its)
    BY <1>4
  <2>2. g = ch[k].id
    OBVIOUS
  <2> HIDE DEF S, its, g, k, ch, before
  <2>3. new = InColumn(ch[k].newColumnId, b, Members(g, b))
    BY <1>4, <1>14, <2>1
  <2>4. b = CarriedItems(First(ch, k - 1), before, items)
    BY DEF b
  <2>5. Over(new, b) = CarriedItems(First(ch, k), before, items)
    BY <1>3, <1>4, <1>7, <2>2, <2>3, <2>4, OneMoreCarried
  <2> QED  BY <1>4, <1>5, <1>9, <2>5 DEF its
<1>13. Fresh(c)'
  <2> DEFINE b2 == CarriedItems(First(ch, k), before, items)
  <2>1. /\ ch = call[c].moves.changes /\ k = call[c].next
        /\ a = WrittenGroups(First(ch, k), groups)
        /\ b2 = CarriedItems(First(ch, k), call[c].moves.before, items)
    BY DEF a
  <2>2. MyItems(c)' = b2
    BY <1>12
  <2> HIDE DEF b2, ch, k
  <2> QED  BY <1>1, <1>2, <1>9, <1>10, <1>11, <2>1, <2>2, SyncGoesOn
<1> QED  BY <1>9, <1>13

-----------------------------------------------------------------------------
(* Calls made one at a time: a column is deleted.                          *)

\* The first write of a transaction is all that sets its tables apart.
LEMMA FirstWriteSees ==
    ASSUME RequestTypeOK, NEW c \in Calls, wrote[c] = NoWrites, NEW w, NEW r, Write(c, w, r),
           w = [columns |-> w.columns, groups |-> w.groups, items |-> w.items],
           IsTable(w.columns), IsTable(w.groups), IsTable(w.items)
    PROVE  /\ UNCHANGED tables
           /\ call'[c] = r
           /\ wrote'[c].columns = w.columns
           /\ MyGroups(c)' = Seen(groups, w.groups)
           /\ MyItems(c)' = Seen(items, w.items)
           /\ DOMAIN w.columns \subseteq DOMAIN columns
<1>1. Written(c, w) = w
  BY FirstWritten DEF IsTable
<1>2. UNCHANGED tables /\ call'[c] = r /\ wrote'[c] = w
  BY <1>1 DEF Write, GoOn, RequestTypeOK, CallsOK, WritesOK
<1>3. MyColumns(c) = columns
  BY SeenAtFirst
<1>4. DOMAIN w.columns \subseteq DOMAIN columns
  BY <1>3 DEF Write, CanWrite
<1> QED  BY <1>2, <1>4 DEF MyGroups, MyItems, tables

LEMMA DeletingStep ==
    ASSUME RequestTypeOK, NEW c \in Calls, Fresh(c), DeleteColumnDelete(c)
    PROVE  UNCHANGED tables /\ Fresh(c)'
<1> DEFINE col == call[c].id
           old == call[c].old
           kept == ItemsWithoutColumn(col, groups, items)
           left == GroupsWithoutColumn(col, groups)
           G == GroupsOf(col, groups)
           I == {j \in DOMAIN items : j \in DOMAIN kept => kept[j] # items[j]}
           found == {d \in ColumnsOf(old.boardId, columns) \ {col} :
                        columns[d].orderIndex > old.orderIndex}
           wc == [d \in {col} |-> Gone]
           wg == [g \in G |-> Gone]
           wi == [i \in I |-> IF i \in DOMAIN kept THEN kept[i] ELSE Gone]
           w == [columns |-> wc, groups |-> wg, items |-> wi]
           r == [step |-> "DECREMENT", id |-> col, old |-> old, found |-> found]
<1>1. call[c].step = "DELETE_COLUMN" /\ Write(c, w, r)
  BY DEF DeleteColumnDelete
<1>2. wrote[c] = NoWrites
  BY <1>1 DEF RequestTypeOK, WritesOK, Reading
<1>3. col \in DOMAIN columns /\ old = columns[col]
  BY <1>1 DEF Fresh, ReadFresh
<1>4. IsTable(groups) /\ IsTable(items) /\ TypeOK
  BY TablesAreFunctions DEF RequestTypeOK
<1>5. /\ IsTable(wc) /\ IsTable(wg) /\ IsTable(wi)
      /\ DOMAIN wc = {col} /\ DOMAIN wg = G /\ DOMAIN wi = I
      /\ \A g \in G : wg[g] = Gone
      /\ \A i \in I : wi[i] = IF i \in DOMAIN kept THEN kept[i] ELSE Gone
  BY DEF IsTable
<1>6. /\ DOMAIN kept = {j \in DOMAIN items : items[j].columnId # col} /\ IsTable(kept)
      /\ \A i \in DOMAIN kept :
            kept[i] = IF items[i].groupId \in G THEN [items[i] EXCEPT !.groupId = NoGroup]
                      ELSE items[i]
  BY DEF ItemsWithoutColumn, IsTable
<1>7. left = [g \in DOMAIN groups \ G |-> groups[g]] /\ G \subseteq DOMAIN groups
  BY DEF GroupsWithoutColumn, GroupsOf
<1>8. \A i \in DOMAIN kept : kept[i] # Gone
  <2> TAKE i \in DOMAIN kept
  <2>1. i \in DOMAIN items
    BY <1>6
  <2>2. items[i] \in [columnId : DOMAIN columns, groupId : {NoGroup} \cup DOMAIN groups,
                      rowIndex : Nat]
    BY <1>4, <2>1 DEF TypeOK
  <2> DEFINE row == kept[i]
  <2>3. row = IF items[i].groupId \in G THEN [items[i] EXCEPT !.groupId = NoGroup] ELSE items[i]
    BY <1>6
  <2> HIDE DEF row, G, kept
  <2>4. \/ row = [columnId |-> items[i].columnId, groupId |-> NoGroup,
                  rowIndex |-> items[i].rowIndex]
        \/ row = [columnId |-> items[i].columnId, groupId |-> items[i].groupId,
                  rowIndex |-> items[i].rowIndex]
    BY <2>2, <2>3
  <2>5. row # Gone
    BY <2>4, FullRows
  <2> QED  BY <2>5 DEF row
<1>9. /\ w.columns = wc /\ w.groups = wg /\ w.items = wi
      /\ w = [columns |-> w.columns, groups |-> w.groups, items |-> w.items]
      /\ IsTable(w.columns) /\ IsTable(w.groups) /\ IsTable(w.items)
  BY <1>5
<1>10. wc = [d \in {col} |-> Gone]
  OBVIOUS
<1>11. r.step = "DECREMENT" /\ r.id = col /\ r.old = old /\ r.found = found
  OBVIOUS
<1> HIDE DEF w, wc, wg, wi, r, kept, left
<1>12. /\ UNCHANGED tables /\ call'[c] = r /\ wrote'[c].columns = wc
       /\ MyGroups(c)' = Seen(groups, wg) /\ MyItems(c)' = Seen(items, wi)
  <2>1. /\ UNCHANGED tables /\ call'[c] = r /\ wrote'[c].columns = w.columns
        /\ MyGroups(c)' = Seen(groups, w.groups) /\ MyItems(c)' = Seen(items, w.items)
        /\ DOMAIN w.columns \subseteq DOMAIN columns
    BY <1>1, <1>2, <1>9, FirstWriteSees
  <2> QED  BY <1>9, <2>1
<1>13. Seen(groups, wg) = left
  <2>1. Deleted(wg) = G
    BY <1>5 DEF Deleted
  <2>2. /\ DOMAIN Seen(groups, wg) = (DOMAIN groups \cup DOMAIN wg) \ Deleted(wg)
        /\ \A x \in DOMAIN groups \ DOMAIN wg : Seen(groups, wg)[x] = groups[x]
        /\ IsTable(Seen(groups, wg))
    BY SeenRows DEF IsTable
  <2> DEFINE s == Seen(groups, wg)
  <2>3. DOMAIN s = DOMAIN groups \ G /\ \A x \in DOMAIN s : s[x] = groups[x]
    BY <1>5, <1>7, <2>1, <2>2
  <2>4. s = [x \in DOMAIN s |-> s[x]]
    BY <2>2 DEF IsTable
  <2> HIDE DEF s, G
  <2>5. s = left
    BY <1>7, <2>3, <2>4
  <2> QED  BY <2>5 DEF s
<1>14. Seen(items, wi) = kept
  <2>1. Deleted(wi) = DOMAIN items \ DOMAIN kept
    <3>1. \A i \in I : wi[i] = Gone <=> i \notin DOMAIN kept
      BY <1>5, <1>8
    <3>2. \A i : i \in I <=> i \in DOMAIN items /\ (i \in DOMAIN kept => kept[i] # items[i])
      OBVIOUS
    <3> HIDE DEF I
    <3> QED  BY <1>5, <3>1, <3>2 DEF Deleted
  <2> DEFINE s == Seen(items, wi)
  <2>2. /\ DOMAIN Seen(items, wi) = (DOMAIN items \cup DOMAIN wi) \ Deleted(wi)
        /\ \A x \in DOMAIN wi \ Deleted(wi) : Seen(items, wi)[x] = wi[x]
        /\ \A x \in DOMAIN items \ DOMAIN wi : Seen(items, wi)[x] = items[x]
        /\ Seen(items, wi) = [x \in DOMAIN Seen(items, wi) |-> Seen(items, wi)[x]]
    BY SeenRows
  <2>3. /\ DOMAIN s = (DOMAIN items \cup DOMAIN wi) \ Deleted(wi)
        /\ \A x \in DOMAIN wi \ Deleted(wi) : s[x] = wi[x]
        /\ \A x \in DOMAIN items \ DOMAIN wi : s[x] = items[x]
        /\ IsTable(s)
    BY <2>2 DEF IsTable
  <2> HIDE DEF s
  <2>4. DOMAIN s = DOMAIN kept
    BY <1>5, <1>6, <2>1, <2>3
  <2>5. ASSUME NEW i \in DOMAIN kept PROVE s[i] = kept[i]
    <3>1. CASE i \in I
      BY <1>5, <2>1, <2>3, <2>5, <3>1
    <3>2. CASE i \notin I
      BY <1>5, <1>6, <2>3, <2>5, <3>2
    <3> QED  BY <3>1, <3>2
  <2>6. s = kept
    BY <1>6, <2>3, <2>4, <2>5 DEF IsTable
  <2> QED  BY <2>6 DEF s
<1>15. ReadFresh(r)
  <2>1. r.found = {d \in ColumnsOf(r.old.boardId, columns) \ {r.id} :
                     columns[d].orderIndex > r.old.orderIndex}
    BY <1>11
  <2> HIDE DEF found
  <2> QED  BY <1>3, <1>11, <2>1 DEF ReadFresh
<1>16. ReadFresh(call[c])'
  BY <1>12, <1>15, FreshKept
<1>17. WriteFresh(c)'
  <2>1. groups' = groups /\ items' = items
    BY <1>12 DEF tables
  <2> HIDE DEF col
  <2>2. Decrements(call[c], wrote[c].columns, MyGroups(c), MyItems(c))'
    BY <1>10, <1>11, <1>12, <1>13, <1>14, <2>1 DEF Decrements, left, kept
  <2> QED  BY <1>11, <1>12, <2>2 DEF WriteFresh
<1> QED  BY <1>12, <1>16, <1>17 DEF Fresh

LEMMA DecrementStep ==
    ASSUME RequestTypeOK, NEW c \in Calls, Fresh(c), DeleteColumnDecrement(c)
    PROVE  [Next]_vars /\ Fresh(c)'
<1> DEFINE col == call[c].id
           old == call[c].old
           found == call[c].found
           cols == MyColumns(c)
           closed == ColumnsWithout(col, old, cols)
           S == found \cap DOMAIN closed
           w == [NoWrites EXCEPT !.columns = Restrict(closed, S)]
<1>1. call[c].step = "DECREMENT" /\ Commit(c, w)
  BY DEF DeleteColumnDecrement
<1>2. /\ ReadFresh(call[c])
      /\ Decrements(call[c], wrote[c].columns, MyGroups(c), MyItems(c))
  BY <1>1 DEF Fresh, WriteFresh
<1>3. /\ col \in DOMAIN columns /\ old = columns[col]
      /\ found = {d \in ColumnsOf(old.boardId, columns) \ {col} :
                    columns[d].orderIndex > old.orderIndex}
      /\ wrote[c].columns = [d \in {col} |-> Gone]
      /\ MyGroups(c) = GroupsWithoutColumn(col, groups)
      /\ MyItems(c) = ItemsWithoutColumn(col, groups, items)
  BY <1>1, <1>2 DEF ReadFresh, Decrements
<1>4. IsTable(columns) /\ IsTable(cols) /\ IsTable(MyGroups(c)) /\ IsTable(MyItems(c)) /\ TypeOK
  BY TablesAreFunctions DEF RequestTypeOK
<1>5. \A d \in DOMAIN columns : columns[d] \in [boardId : Boards, orderIndex : Nat]
  BY <1>4 DEF TypeOK
<1>6. DOMAIN cols = DOMAIN columns \ {col} /\ \A d \in DOMAIN cols : cols[d] = columns[d]
  <2> DEFINE gone == wrote[c].columns
  <2>1. DOMAIN gone = {col} /\ Deleted(gone) = {col}
    BY <1>3 DEF Deleted
  <2>2. /\ DOMAIN Seen(columns, gone) = (DOMAIN columns \cup DOMAIN gone) \ Deleted(gone)
        /\ \A x \in DOMAIN columns \ DOMAIN gone : Seen(columns, gone)[x] = columns[x]
    BY SeenRows
  <2>3. cols = Seen(columns, gone)
    BY DEF MyColumns
  <2> HIDE DEF gone, cols
  <2> QED  BY <1>3, <2>1, <2>2, <2>3
<1>7. closed = [d \in DOMAIN cols \ {col} |->
            IF cols[d].boardId = old.boardId /\ cols[d].orderIndex > old.orderIndex
            THEN [cols[d] EXCEPT !.orderIndex = @ - 1] ELSE cols[d]]
  BY DEF ColumnsWithout
<1>8. ColumnsWithout(col, old, columns) = [d \in DOMAIN columns \ {col} |->
            IF columns[d].boardId = old.boardId /\ columns[d].orderIndex > old.orderIndex
            THEN [columns[d] EXCEPT !.orderIndex = @ - 1] ELSE columns[d]]
  BY DEF ColumnsWithout
<1>9. w.columns = Restrict(closed, S) /\ w.groups = <<>> /\ w.items = <<>>
  BY DEF NoWrites
<1> HIDE DEF cols, old, w
<1>10. closed = ColumnsWithout(col, old, columns)
  <2>1. DOMAIN cols \ {col} = DOMAIN columns \ {col}
    BY <1>6
  <2> HIDE DEF col, closed
  <2> QED  BY <1>6, <1>7, <1>8, <2>1
<1>11. /\ IsTable(closed) /\ DOMAIN closed = DOMAIN cols
       /\ \A d \in DOMAIN cols \ S : closed[d] = cols[d]
  <2>1. IsTable(closed) /\ DOMAIN closed = DOMAIN cols
    BY <1>6 DEF ColumnsWithout, IsTable
  <2>2. \A d \in DOMAIN cols :
            cols[d].boardId = old.boardId /\ cols[d].orderIndex > old.orderIndex => d \in S
    BY <1>3, <1>6, <2>1 DEF ColumnsOf
  <2> HIDE DEF closed, S
  <2>3. \A d \in DOMAIN cols \ S : closed[d] = cols[d]
    BY <1>6, <1>7, <2>2
  <2> QED  BY <2>1, <2>3
<1>12. \A d \in DOMAIN closed : closed[d] \in [boardId : Boards, orderIndex : Nat]
  <2> TAKE d \in DOMAIN closed
  <2>1. old.orderIndex \in Nat
    BY <1>3, <1>5
  <2>2. cols[d] \in [boardId : Boards, orderIndex : Nat]
    BY <1>5, <1>6, <1>11
  <2>3. \/ closed[d] = cols[d]
        \/ /\ cols[d].orderIndex > old.orderIndex
           /\ closed[d] = [cols[d] EXCEPT !.orderIndex = @ - 1]
    BY <1>7, <1>11
  <2> DEFINE n == cols[d].orderIndex
  <2>4. n \in Nat /\ (n > old.orderIndex => n - 1 \in Nat)
    <3>1. n \in Nat
      BY <2>2
    <3> HIDE DEF n
    <3> QED  BY <2>1, <3>1
  <2> HIDE DEF closed
  <2> QED  BY <2>2, <2>3, <2>4
<1> HIDE DEF closed, S
<1>13. Plain(w, Boards, {}, {})
  <2>1. /\ DOMAIN w.groups = {} /\ DOMAIN w.items = {}
        /\ \A d \in DOMAIN w.columns : d \in DOMAIN closed /\ w.columns[d] = closed[d]
    BY <1>9, NothingWritten DEF Restrict, S
  <2> QED  BY <1>12, <2>1 DEF Plain
<1>14. /\ columns' = Over(w.columns, cols)
       /\ groups' = Over(w.groups, MyGroups(c))
       /\ items' = Over(w.items, MyItems(c))
       /\ UNCHANGED lastId /\ Finish(c)
  BY <1>1, <1>13, CommitSees DEF Commit, cols
<1>15. columns' = closed
  <2>1. S \subseteq DOMAIN cols
    BY <1>11 DEF S
  <2>2. Over(Restrict(closed, S), cols) = closed
    BY <1>11, <2>1, AllWritten
  <2> QED  BY <1>9, <1>14, <2>2
<1>16. groups' = MyGroups(c) /\ items' = MyItems(c)
  <2>1. DOMAIN w.groups = {} /\ DOMAIN w.items = {}
    BY <1>9, NothingWritten
  <2>2. Over(w.groups, MyGroups(c)) = MyGroups(c) /\ Over(w.items, MyItems(c)) = MyItems(c)
    BY <1>4, <2>1, OverNothing
  <2> QED  BY <1>14, <2>2
<1>17. DeleteColumn(col)
  BY <1>3, <1>10, <1>14, <1>15, <1>16 DEF DeleteColumn
<1> QED  BY <1>3, <1>14, <1>17, FinishFresh DEF Next

-----------------------------------------------------------------------------
(* Calls made one at a time: a group is deleted.                           *)

LEMMA UngroupReadStep ==
    ASSUME RequestTypeOK, NEW c \in Calls, Fresh(c),
           UngroupReadItems(c) \/ UngroupReadGroups(c) \/ UngroupReadMembers(c)
    PROVE  UNCHANGED tables /\ Fresh(c)'
<1>0. CallsOK /\ ReadFresh(call[c])
  BY DEF RequestTypeOK, Fresh
<1>1. CASE UngroupReadItems(c)
  <2> DEFINE rows == Restrict(items, RootItems(call[c].old.columnId, items))
             r == [step |-> "UNGROUP_GROUPS", id |-> call[c].id, old |-> call[c].old,
                   items |-> rows]
  <2>1. call[c].step = "DELETE_GROUP" /\ Statement(c, r)
    BY <1>1 DEF UngroupReadItems
  <2>2. wrote[c] = NoWrites
    BY <2>1 DEF RequestTypeOK, WritesOK, Reading
  <2>3. ReadFresh(r) /\ r.step \in Reading
    <3> HIDE DEF rows
    <3>1. rows = Restrict(items, RootItems(call[c].old.columnId, items))
      BY DEF rows
    <3> QED  BY <1>0, <2>1, <3>1 DEF ReadFresh, Reading
  <2> HIDE DEF r
  <2> QED  BY <1>0, <2>1, <2>2, <2>3, StatementFresh
<1>2. CASE UngroupReadGroups(c)
  <2> DEFINE rows == Restrict(groups, GroupsOf(call[c].old.columnId, groups) \ {call[c].id})
             r == [step |-> "UNGROUP_MEMBERS", id |-> call[c].id, old |-> call[c].old,
                   items |-> call[c].items, groups |-> rows]
  <2>1. call[c].step = "UNGROUP_GROUPS" /\ Statement(c, r)
    BY <1>2 DEF UngroupReadGroups
  <2>2. wrote[c] = NoWrites
    BY <2>1 DEF RequestTypeOK, WritesOK, Reading
  <2>3. ReadFresh(r) /\ r.step \in Reading
    <3> HIDE DEF rows
    <3>1. rows = Restrict(groups, GroupsOf(call[c].old.columnId, groups) \ {call[c].id})
      BY DEF rows
    <3> QED  BY <1>0, <2>1, <3>1 DEF ReadFresh, Reading
  <2> HIDE DEF r
  <2> QED  BY <1>0, <2>1, <2>2, <2>3, StatementFresh
<1>3. CASE UngroupReadMembers(c)
  <2> DEFINE rows == Restrict(items, Members(call[c].id, items))
             r == [step |-> "UNGROUP", id |-> call[c].id, old |-> call[c].old,
                   groups |-> call[c].groups, items |-> call[c].items, members |-> rows]
  <2>1. call[c].step = "UNGROUP_MEMBERS" /\ Statement(c, r)
    BY <1>3 DEF UngroupReadMembers
  <2>2. wrote[c] = NoWrites
    BY <2>1 DEF RequestTypeOK, WritesOK, Reading
  <2>3. ReadFresh(r) /\ r.step \in Reading
    <3> HIDE DEF rows
    <3>1. rows = Restrict(items, Members(call[c].id, items))
      BY DEF rows
    <3> QED  BY <1>0, <2>1, <3>1 DEF ReadFresh, Reading
  <2> HIDE DEF r
  <2> QED  BY <1>0, <2>1, <2>2, <2>3, StatementFresh
<1> QED  BY <1>1, <1>2, <1>3

SameEntries(col, g, grs, its, rg, ri, rm) ==
    /\ RootEntries(col, rg, ri, UnmovedMarks(rg), UnmovedMarks(ri))
            = RootEntries(col, [h \in DOMAIN grs \ {g} |-> grs[h]], its,
                          UnmovedMarks(grs), UnmovedMarks(its))
    /\ \A h \in DOMAIN rg :
            GroupEntry(h, rg, UnmovedMarks(rg)) = GroupEntry(h, grs, UnmovedMarks(grs))
    /\ \A i \in DOMAIN ri :
            ItemEntry(i, ri, UnmovedMarks(ri)) = ItemEntry(i, its, UnmovedMarks(its))
    /\ \A i \in DOMAIN rm : MemberRank(i, rm) = MemberRank(i, its)

\* The rows that deleteGroup reads hold all that its splice looks at.
LEMMA UngroupReads ==
    ASSUME NEW col, NEW g, NEW grs, NEW its, g # NoGroup,
           NEW rg, rg = Restrict(grs, GroupsOf(col, grs) \ {g}),
           NEW ri, ri = Restrict(its, RootItems(col, its)),
           NEW rm, rm = Restrict(its, Members(g, its))
    PROVE  SameEntries(col, g, grs, its, rg, ri, rm)
<1> DEFINE left == [h \in DOMAIN grs \ {g} |-> grs[h]]
<1>1. /\ DOMAIN rg = GroupsOf(col, grs) \ {g} /\ \A h \in DOMAIN rg : rg[h] = grs[h]
      /\ DOMAIN ri = RootItems(col, its) /\ \A i \in DOMAIN ri : ri[i] = its[i]
      /\ DOMAIN rm = Members(g, its) /\ \A i \in DOMAIN rm : rm[i] = its[i]
  BY DEF Restrict
<1>2. /\ DOMAIN rg \subseteq DOMAIN grs /\ DOMAIN ri \subseteq DOMAIN its
      /\ DOMAIN rm \subseteq DOMAIN its
  BY <1>1 DEF GroupsOf, RootItems, Members
<1>3. \A h \in DOMAIN rg :
        GroupEntry(h, rg, UnmovedMarks(rg)) = GroupEntry(h, grs, UnmovedMarks(grs))
  BY <1>1, <1>2 DEF GroupEntry, UnmovedMarks
<1>4. \A i \in DOMAIN ri :
        ItemEntry(i, ri, UnmovedMarks(ri)) = ItemEntry(i, its, UnmovedMarks(its))
  BY <1>1, <1>2 DEF ItemEntry, UnmovedMarks
<1>5. GroupsOf(col, rg) = DOMAIN rg /\ GroupsOf(col, left) = DOMAIN rg
  BY <1>1 DEF GroupsOf
<1>6. RootItems(col, ri) = DOMAIN ri /\ RootItems(col, its) = DOMAIN ri
  BY <1>1 DEF RootItems
<1>7. \A h \in DOMAIN rg :
        GroupEntry(h, left, UnmovedMarks(grs)) = GroupEntry(h, grs, UnmovedMarks(grs))
  BY <1>1, <1>2 DEF GroupEntry
<1> DEFINE gm == UnmovedMarks(grs)
           im == UnmovedMarks(its)
           rgm == UnmovedMarks(rg)
           rim == UnmovedMarks(ri)
<1>8. RootEntries(col, rg, ri, rgm, rim) = RootEntries(col, left, its, gm, im)
  <2> HIDE DEF gm, im, rgm, rim, left
  <2>1. \A h \in DOMAIN rg : GroupEntry(h, rg, rgm) = GroupEntry(h, left, gm)
    BY <1>3, <1>7 DEF gm, rgm
  <2>2. \A i \in DOMAIN ri : ItemEntry(i, ri, rim) = ItemEntry(i, its, im)
    BY <1>4 DEF im, rim
  <2> QED  BY <1>5, <1>6, <2>1, <2>2 DEF RootEntries
<1>9. ASSUME NEW i \in DOMAIN rm PROVE MemberRank(i, rm) = MemberRank(i, its)
  <2>1. rm[i].groupId = g /\ its[i].groupId = g /\ rm[i].rowIndex = its[i].rowIndex
    BY <1>1, <1>2 DEF Members
  <2>2. Members(g, rm) = DOMAIN rm /\ Members(g, its) = DOMAIN rm
    BY <1>1 DEF Members
  <2>3. MemberRank(i, rm)
            = Cardinality({j \in DOMAIN rm : \/ rm[j].rowIndex < rm[i].rowIndex
                                             \/ rm[j].rowIndex = rm[i].rowIndex /\ j < i})
    BY <2>1, <2>2 DEF MemberRank
  <2>4. MemberRank(i, its)
            = Cardinality({j \in DOMAIN rm : \/ its[j].rowIndex < its[i].rowIndex
                                             \/ its[j].rowIndex = its[i].rowIndex /\ j < i})
    BY <2>1, <2>2 DEF MemberRank
  <2>5. \A j \in DOMAIN rm : rm[j].rowIndex = its[j].rowIndex
    BY <1>1
  <2> QED  BY <2>3, <2>4, <2>5
<1> QED  BY <1>3, <1>4, <1>8, <1>9 DEF SameEntries

\* The single write of deleteGroup, from rows that are as they were read.
LEMMA UngroupStep ==
    ASSUME RequestTypeOK, NEW c \in Calls, Fresh(c), UngroupWrite(c)
    PROVE  UNCHANGED tables /\ Fresh(c)'
<1> DEFINE g == call[c].id
           old == call[c].old
           col == old.columnId
           rg == call[c].groups
           ri == call[c].items
           rm == call[c].members
           siblings == RootEntries(old.columnId, rg, ri, UnmovedMarks(rg), UnmovedMarks(ri))
           insertAt == UngroupAt(old, siblings)
           size == Cardinality(DOMAIN rm)
           place(e) == LET r == Rank(e, siblings) IN IF r < insertAt THEN r ELSE r + size
           inRoot(i) == place(ItemEntry(i, ri, UnmovedMarks(ri)))
           inGroup(i) == insertAt + MemberRank(i, rm)
           places(i) == (IF i \in DOMAIN ri THEN {inRoot(i)} ELSE {})
                            \cup (IF i \in DOMAIN rm THEN {inGroup(i)} ELSE {})
           written == DOMAIN ri \cup DOMAIN rm \cup Members(g, items)
           at(h) == place(GroupEntry(h, rg, UnmovedMarks(rg)))
           row(i) == [items[i] EXCEPT
                        !.groupId = IF @ = g THEN NoGroup ELSE @,
                        !.rowIndex = IF places(i) = {} THEN @ ELSE Max(places(i))]
           wg == [h \in {g} \cup DOMAIN rg |->
                    IF h = g THEN Gone ELSE [groups[h] EXCEPT !.orderIndex = at(h)]]
           wi == [i \in written |-> row(i)]
           w == [columns |-> <<>>, groups |-> wg, items |-> wi]
           r == Normalizing(NoMoves, NoMoves, {}, {col})
           u == Ungrouped(g, old, groups, items)
<1>1. /\ call[c].step = "UNGROUP"
      /\ written \subseteq DOMAIN items /\ g \in DOMAIN groups
      /\ Write(c, w, r)
  BY DEF UngroupWrite
<1>2. /\ old = groups[g]
      /\ ri = Restrict(items, RootItems(col, items))
      /\ rg = Restrict(groups, GroupsOf(col, groups) \ {g})
      /\ rm = Restrict(items, Members(g, items))
  BY <1>1 DEF Fresh, ReadFresh
<1>3. /\ wrote[c] = NoWrites /\ TypeOK /\ RequestOK(call[c], Boards)
      /\ IsTable(groups) /\ IsTable(items)
  BY <1>1, TablesAreFunctions DEF RequestTypeOK, WritesOK, Reading, CallsOK
<1>4. /\ \A h \in DOMAIN groups : groups[h] \in [columnId : DOMAIN columns, orderIndex : Nat]
      /\ \A i \in DOMAIN items :
            items[i] \in [columnId : DOMAIN columns,
                          groupId : {NoGroup} \cup DOMAIN groups, rowIndex : Nat]
      /\ NoGroup \notin DOMAIN groups
  BY <1>3 DEF TypeOK, NoGroup
<1>5. /\ DOMAIN ri = RootItems(col, items) /\ DOMAIN rm = Members(g, items)
      /\ DOMAIN rg = GroupsOf(col, groups) \ {g}
      /\ g # NoGroup
  <2>1. \A T, S : DOMAIN Restrict(T, S) = S
    BY DEF Restrict
  <2>2. g # NoGroup
    BY <1>1, <1>4
  <2> HIDE DEF ri, rg, rm, g, old
  <2>3. DOMAIN ri = RootItems(col, items)
    BY <1>2, <2>1
  <2>4. DOMAIN rm = Members(g, items)
    BY <1>2, <2>1
  <2>5. DOMAIN rg = GroupsOf(col, groups) \ {g}
    BY <1>2, <2>1
  <2> QED  BY <2>2, <2>3, <2>4, <2>5
<1>6. /\ siblings = RootEntries(col, [h \in DOMAIN groups \ {g} |-> groups[h]], items,
                                UnmovedMarks(groups), UnmovedMarks(items))
      /\ \A h \in DOMAIN rg :
            GroupEntry(h, rg, UnmovedMarks(rg)) = GroupEntry(h, groups, UnmovedMarks(groups))
      /\ \A i \in DOMAIN ri :
            ItemEntry(i, ri, UnmovedMarks(ri)) = ItemEntry(i, items, UnmovedMarks(items))
      /\ \A i \in DOMAIN rm : MemberRank(i, rm) = MemberRank(i, items)
  <2> HIDE DEF g, rg, ri, rm, col
  <2>1. SameEntries(col, g, groups, items, rg, ri, rm)
    BY <1>2, <1>5, UngroupReads
  <2> QED  BY <2>1 DEF col, SameEntries
<1>7. /\ insertAt \in Nat /\ size \in Nat /\ \A e : Rank(e, siblings) \in Nat
      /\ \A i : MemberRank(i, rm) \in Nat
  <2>1. /\ old.orderIndex \in Nat /\ IsFiniteSet(DOMAIN ri)
        /\ IsFiniteSet(DOMAIN rg) /\ IsFiniteSet(DOMAIN rm)
    BY <1>1, <1>3 DEF RequestOK
  <2>2. IsFiniteSet(siblings)
    BY <2>1, RootEntriesFinite
  <2>3. Cardinality(siblings) \in Nat /\ size \in Nat
    BY <2>1, <2>2, FS_CardinalityType
  <2>4. \A e : Rank(e, siblings) \in Nat
    BY <2>2, RankType
  <2>5. \A i : MemberRank(i, rm) \in Nat
    BY <2>1, MemberRankType
  <2> HIDE DEF siblings, size
  <2> QED  BY <2>1, <2>3, <2>4, <2>5 DEF UngroupAt
<1>8. /\ u.groups = [h \in DOMAIN groups \ {g} |->
            IF groups[h].columnId = col
            THEN [groups[h] EXCEPT !.orderIndex =
                    place(GroupEntry(h, groups, UnmovedMarks(groups)))]
            ELSE groups[h]]
      /\ u.items = [i \in DOMAIN items |->
            IF items[i].groupId = g
            THEN [items[i] EXCEPT !.groupId = NoGroup,
                                  !.rowIndex = insertAt + MemberRank(i, items)]
            ELSE IF i \in RootItems(col, items)
            THEN [items[i] EXCEPT !.rowIndex =
                    place(ItemEntry(i, items, UnmovedMarks(items)))]
            ELSE items[i]]
  BY <1>5, <1>6 DEF Ungrouped
<1>9. /\ w.columns = <<>> /\ w.groups = wg /\ w.items = wi
      /\ w = [columns |-> w.columns, groups |-> w.groups, items |-> w.items]
      /\ DOMAIN wg = {g} \cup DOMAIN rg /\ wg[g] = Gone
      /\ \A h \in DOMAIN rg : wg[h] = IF h = g THEN Gone ELSE [groups[h] EXCEPT !.orderIndex = at(h)]
      /\ IsTable(wg) /\ IsTable(wi)
      /\ DOMAIN wi = written /\ \A i \in written : wi[i] = row(i)
  BY DEF IsTable
<1> HIDE DEF siblings, insertAt, size, u, w, wg, wi, r
<1>10. \A e : place(e) \in Nat
  BY <1>7
<1> HIDE DEF place
<1>11. ASSUME NEW i \in Members(g, items)
       PROVE  row(i) = [items[i] EXCEPT !.groupId = NoGroup,
                                        !.rowIndex = insertAt + MemberRank(i, items)]
  <2> DEFINE n == inGroup(i)
             P == places(i)
  <2>1. items[i].groupId = g /\ i \in DOMAIN rm /\ i \notin DOMAIN ri
    BY <1>5 DEF Members, RootItems
  <2>2. P = {n}
    BY <2>1
  <2>3. n \in Nat /\ n = insertAt + MemberRank(i, items)
    BY <1>6, <1>7, <2>1
  <2> HIDE DEF n, P
  <2>4. P # {} /\ Max(P) = n
    BY <2>2, <2>3, MaxIs
  <2>5. row(i) = [items[i] EXCEPT !.groupId = NoGroup, !.rowIndex = n]
    <3>1. row(i) = [items[i] EXCEPT
                        !.groupId = IF items[i].groupId = g THEN NoGroup ELSE items[i].groupId,
                        !.rowIndex = IF P = {} THEN items[i].rowIndex ELSE Max(P)]
      BY DEF P
    <3> HIDE DEF row, g
    <3> QED  BY <2>1, <2>4, <3>1
  <2> QED  BY <2>3, <2>5
<1>12. ASSUME NEW i \in RootItems(col, items)
       PROVE  row(i) = [items[i] EXCEPT !.rowIndex =
                            place(ItemEntry(i, items, UnmovedMarks(items)))]
  <2> DEFINE n == inRoot(i)
             P == places(i)
  <2>1. items[i].groupId = NoGroup /\ i \in DOMAIN ri /\ i \notin DOMAIN rm
    BY <1>5 DEF Members, RootItems
  <2>2. P = {n}
    BY <2>1
  <2>3. n \in Nat /\ n = place(ItemEntry(i, items, UnmovedMarks(items)))
    BY <1>6, <1>10, <2>1
  <2> HIDE DEF n, P
  <2>4. P # {} /\ Max(P) = n
    BY <2>2, <2>3, MaxIs
  <2>5. row(i) = [items[i] EXCEPT !.rowIndex = n]
    <3>1. row(i) = [items[i] EXCEPT
                        !.groupId = IF items[i].groupId = g THEN NoGroup ELSE items[i].groupId,
                        !.rowIndex = IF P = {} THEN items[i].rowIndex ELSE Max(P)]
      BY DEF P
    <3>2. items[i] \in [columnId : DOMAIN columns, groupId : {NoGroup} \cup DOMAIN groups,
                        rowIndex : Nat]
      BY <1>4 DEF RootItems
    <3> HIDE DEF row, g
    <3> QED  BY <1>5, <2>1, <2>4, <3>1, <3>2
  <2> QED  BY <2>3, <2>5
<1>13. \A h \in DOMAIN rg :
        at(h) = place(GroupEntry(h, groups, UnmovedMarks(groups)))
  BY <1>6
<1> HIDE DEF row, at, inRoot, inGroup, places, written
<1>14. written = RootItems(col, items) \cup Members(g, items)
  BY <1>5 DEF written
<1>15. /\ UNCHANGED tables /\ call'[c] = r /\ wrote'[c].columns = <<>>
       /\ MyGroups(c)' = Seen(groups, wg) /\ MyItems(c)' = Seen(items, wi)
  <2>1. IsTable(w.columns) /\ IsTable(w.groups) /\ IsTable(w.items)
    BY <1>9 DEF IsTable
  <2>2. Write(c, w, r)
    BY <1>1 DEF w, wg, wi, r, row, at, written, places, place, inRoot, inGroup
  <2>3. w = [columns |-> w.columns, groups |-> w.groups, items |-> w.items]
    BY <1>9
  <2>4. /\ UNCHANGED tables /\ call'[c] = r /\ wrote'[c].columns = w.columns
        /\ MyGroups(c)' = Seen(groups, w.groups) /\ MyItems(c)' = Seen(items, w.items)
        /\ DOMAIN w.columns \subseteq DOMAIN columns
    BY <1>3, <2>1, <2>2, <2>3, FirstWriteSees
  <2> QED  BY <1>9, <2>4
<1>16. Seen(groups, wg) = u.groups
  <2> DEFINE s == Seen(groups, wg)
             t == u.groups
  <2>1. Deleted(wg) = {g}
    <3>1. \A h \in DOMAIN rg : h # g /\ wg[h] # Gone
      <4> TAKE h \in DOMAIN rg
      <4>1. h \in DOMAIN groups /\ h # g
        BY <1>5 DEF GroupsOf
      <4>2. wg[h] = [groups[h] EXCEPT !.orderIndex = at(h)]
        BY <1>9, <4>1
      <4>3. groups[h] \in [columnId : DOMAIN columns, orderIndex : Nat]
        BY <1>4, <4>1
      <4> DEFINE x == wg[h]
      <4>4. x = [columnId |-> groups[h].columnId, orderIndex |-> at(h)]
        BY <4>2, <4>3
      <4> HIDE DEF x
      <4> QED  BY <4>1, <4>4, FullRows DEF x
    <3> QED  BY <1>9, <3>1 DEF Deleted
  <2>2. /\ DOMAIN Seen(groups, wg) = (DOMAIN groups \cup DOMAIN wg) \ Deleted(wg)
        /\ \A x \in DOMAIN wg \ Deleted(wg) : Seen(groups, wg)[x] = wg[x]
        /\ \A x \in DOMAIN groups \ DOMAIN wg : Seen(groups, wg)[x] = groups[x]
        /\ Seen(groups, wg) = [x \in DOMAIN Seen(groups, wg) |-> Seen(groups, wg)[x]]
    BY SeenRows
  <2>3. DOMAIN s = DOMAIN groups \ {g}
    BY <1>1, <1>5, <1>9, <2>1, <2>2 DEF GroupsOf
  <2>4. IsTable(s) /\ IsTable(t) /\ DOMAIN t = DOMAIN groups \ {g}
    BY <1>8, <2>2 DEF IsTable
  <2>5. ASSUME NEW h \in DOMAIN groups \ {g} PROVE s[h] = t[h]
    <3>1. CASE groups[h].columnId = col
      <4>1. h \in DOMAIN rg
        BY <1>5, <3>1 DEF GroupsOf
      <4>2. s[h] = wg[h] /\ wg[h] = [groups[h] EXCEPT !.orderIndex = at(h)]
        BY <1>9, <2>1, <2>2, <4>1
      <4>3. t[h] = [groups[h] EXCEPT !.orderIndex =
                        place(GroupEntry(h, groups, UnmovedMarks(groups)))]
        BY <1>8, <3>1
      <4> QED  BY <1>13, <4>1, <4>2, <4>3
    <3>2. CASE groups[h].columnId # col
      <4>1. h \notin DOMAIN wg
        BY <1>5, <1>9, <3>2 DEF GroupsOf
      <4>2. t[h] = groups[h]
        BY <1>8, <3>2
      <4> QED  BY <2>2, <4>1, <4>2
    <3> QED  BY <3>1, <3>2
  <2> HIDE DEF s, t
  <2>6. s = t
    BY <2>3, <2>4, <2>5 DEF IsTable
  <2> QED  BY <2>6 DEF s, t
<1>17. Seen(items, wi) = u.items
  <2> DEFINE s == Seen(items, wi)
             t == u.items
  <2>1. /\ \A i \in Members(g, items) :
                wi[i] = [items[i] EXCEPT !.groupId = NoGroup,
                                         !.rowIndex = insertAt + MemberRank(i, items)]
        /\ \A i \in RootItems(col, items) :
                wi[i] = [items[i] EXCEPT !.rowIndex =
                            place(ItemEntry(i, items, UnmovedMarks(items)))]
    BY <1>9, <1>11, <1>12, <1>14
  <2>2. /\ \A i \in DOMAIN items : i \in Members(g, items) <=> items[i].groupId = g
        /\ Members(g, items) \subseteq DOMAIN items
        /\ RootItems(col, items) \subseteq DOMAIN items
        /\ DOMAIN wi = RootItems(col, items) \cup Members(g, items)
        /\ \A i \in RootItems(col, items) : items[i].groupId # g
    BY <1>5, <1>9, <1>14 DEF Members, RootItems
  <2>3. \A i \in DOMAIN wi : wi[i] = t[i]
    <3>1. \A i \in Members(g, items) : wi[i] = t[i]
      BY <1>8, <2>1, <2>2
    <3>2. \A i \in RootItems(col, items) : wi[i] = t[i]
      BY <1>8, <2>1, <2>2
    <3> QED  BY <2>2, <3>1, <3>2
  <2>4. \A i \in DOMAIN items \ DOMAIN wi : items[i] = t[i]
    BY <1>8, <2>2
  <2>5. IsTable(t) /\ DOMAIN t = DOMAIN items
    BY <1>8 DEF IsTable
  <2>6. Deleted(wi) = {}
    <3>1. ASSUME NEW i \in DOMAIN wi PROVE wi[i] # Gone
      <4>1. wi[i] = row(i) /\ items[i] \in [columnId : DOMAIN columns,
                                            groupId : {NoGroup} \cup DOMAIN groups,
                                            rowIndex : Nat]
        BY <1>4, <1>9, <2>2
      <4>2. \E x, y, z : wi[i] = [columnId |-> x, groupId |-> y, rowIndex |-> z]
        BY <4>1 DEF row
      <4> QED  BY <4>2, FullRows
    <3> QED  BY <3>1 DEF Deleted
  <2>7. /\ DOMAIN Seen(items, wi) = (DOMAIN items \cup DOMAIN wi) \ Deleted(wi)
        /\ \A x \in DOMAIN wi \ Deleted(wi) : Seen(items, wi)[x] = wi[x]
        /\ \A x \in DOMAIN items \ DOMAIN wi : Seen(items, wi)[x] = items[x]
        /\ Seen(items, wi) = [x \in DOMAIN Seen(items, wi) |-> Seen(items, wi)[x]]
    BY SeenRows
  <2>8. DOMAIN s = DOMAIN items /\ IsTable(s)
    BY <2>2, <2>6, <2>7 DEF IsTable
  <2>9. \A i \in DOMAIN items : s[i] = t[i]
    BY <2>3, <2>4, <2>6, <2>7
  <2> HIDE DEF s, t
  <2>10. s = t
    BY <2>5, <2>8, <2>9 DEF IsTable
  <2> QED  BY <2>10 DEF s, t
<1>18. Sorts(c)'
  <2> DEFINE a == u.groups
             b == u.items
             o == GroupDeletion(g, old, groups, items)
  <2>1. Outcome(o)
    BY <1>1, <1>2 DEF Outcome
  <2>2. IsTable(a) /\ IsTable(b)
    BY <1>8 DEF IsTable
  <2>3. o = NormalizedRoots({col}, a, b, UnmovedMarks(a), UnmovedMarks(b))
    BY DEF GroupDeletion, u
  <2>4. MyGroups(c)' = a /\ MyItems(c)' = b /\ call'[c] = Normalizing(NoMoves, NoMoves, {}, {col})
    BY <1>15, <1>16, <1>17 DEF r
  <2>5. DOMAIN wrote'[c].columns = {}
    BY <1>15, NothingWritten
  <2> HIDE DEF a, b, o, col
  <2>6. /\ GroupMoveMarks(NoMoves.changes, NoMoves.before, a) = UnmovedMarks(a)
        /\ ItemMoveMarks(NoMoves.changes, NoMoves.before, b) = UnmovedMarks(b)
    BY DEF GroupMoveMarks, ItemMoveMarks, NoMoves, UnmovedMarks, Named
  <2>7. NormalizedMembers({}, b) = b
    BY <2>2, NoMembers
  <2>8. NormalizedRoots({col}, a, NormalizedMembers({}, b),
                        GroupMoveMarks(NoMoves.changes, NoMoves.before, a),
                        ItemMoveMarks(NoMoves.changes, NoMoves.before, b)) = o
    BY <2>3, <2>6, <2>7
  <2> QED  BY <1>15, <2>1, <2>2, <2>4, <2>5, <2>8, SortsFromHere
<1>19. call'[c].step = "NORMALIZE"
  BY <1>15 DEF r, Normalizing
<1> QED  BY <1>15, <1>18, <1>19 DEF Fresh, ReadFresh, WriteFresh

-----------------------------------------------------------------------------
(* The instance Atomic: its operators are those of RetroBoard, and where   *)
(* calls are made one at a time its variables are the tables.              *)

\* Selections and orders are the same in the instance.
LEMMA SetsSame ==
    ASSUME NEW S, NEW x, NEW y, NEW rows, NEW its
    PROVE  /\ Atomic!NextIndex(S) = NextIndex(S)
           /\ Atomic!Batches(S) = Batches(S)
           /\ Atomic!NamesOnce(S) <=> NamesOnce(S)
           /\ Atomic!ColumnsOf(x, rows) = ColumnsOf(x, rows)
           /\ Atomic!GroupsOf(x, rows) = GroupsOf(x, rows)
           /\ Atomic!RootIndexes(x, rows, its) = RootIndexes(x, rows, its)
           /\ Atomic!Cardinality(S) = Cardinality(S)
           /\ Atomic!NoGroup = NoGroup
<1>1. Atomic!NextIndex(S) = NextIndex(S)
  BY DEF Atomic!NextIndex, NextIndex, Atomic!Max, Max
<1>2. Atomic!Batches(S) = Batches(S)
  BY DEF Atomic!Batches, Batches
<1>3. Atomic!NamesOnce(S) <=> NamesOnce(S)
  BY DEF Atomic!NamesOnce, NamesOnce
<1>4. Atomic!ColumnsOf(x, rows) = ColumnsOf(x, rows)
  BY DEF Atomic!ColumnsOf, ColumnsOf
<1>5. Atomic!GroupsOf(x, rows) = GroupsOf(x, rows)
  BY DEF Atomic!GroupsOf, GroupsOf
<1>6. Atomic!RootIndexes(x, rows, its) = RootIndexes(x, rows, its)
  BY DEF Atomic!RootIndexes, RootIndexes, Atomic!GroupsOf, GroupsOf,
         Atomic!RootItems, RootItems, Atomic!NoGroup, NoGroup
<1>7. Atomic!Cardinality(S) = Cardinality(S)
  BY DEF Atomic!Cardinality, Cardinality
<1>8. Atomic!NoGroup = NoGroup
  BY DEF Atomic!NoGroup, NoGroup
<1> QED  BY <1>1, <1>2, <1>3, <1>4, <1>5, <1>6, <1>7, <1>8

\* So are the rewritings of one row after another,
LEMMA RewritesSame ==
    ASSUME NEW x, NEW y, NEW z, NEW old, NEW cols, NEW grs, NEW its
    PROVE  /\ Atomic!ItemsWithNewItem(x, y, z, its) = ItemsWithNewItem(x, y, z, its)
           /\ Atomic!GroupsBelowNewItem(x, y, grs) = GroupsBelowNewItem(x, y, grs)
           /\ Atomic!ReorderedIndex(x, y, z, cols) = ReorderedIndex(x, y, z, cols)
           /\ Atomic!ColumnsWithout(x, old, cols) = ColumnsWithout(x, old, cols)
           /\ Atomic!GroupsWithoutColumn(x, grs) = GroupsWithoutColumn(x, grs)
           /\ Atomic!ItemsWithoutColumn(x, grs, its) = ItemsWithoutColumn(x, grs, its)
<1>1. Atomic!ItemsWithNewItem(x, y, z, its) = ItemsWithNewItem(x, y, z, its)
  BY DEF Atomic!ItemsWithNewItem, ItemsWithNewItem
<1>2. Atomic!GroupsBelowNewItem(x, y, grs) = GroupsBelowNewItem(x, y, grs)
  BY DEF Atomic!GroupsBelowNewItem, GroupsBelowNewItem, Atomic!NoGroup, NoGroup
<1>3. Atomic!ReorderedIndex(x, y, z, cols) = ReorderedIndex(x, y, z, cols)
  BY DEF Atomic!ReorderedIndex, ReorderedIndex, Atomic!ColumnsOf, ColumnsOf,
         Atomic!Cardinality, Cardinality
<1>4. Atomic!ColumnsWithout(x, old, cols) = ColumnsWithout(x, old, cols)
  BY DEF Atomic!ColumnsWithout, ColumnsWithout
<1>5. Atomic!GroupsWithoutColumn(x, grs) = GroupsWithoutColumn(x, grs)
  BY DEF Atomic!GroupsWithoutColumn, GroupsWithoutColumn, Atomic!GroupsOf, GroupsOf
<1>6. Atomic!ItemsWithoutColumn(x, grs, its) = ItemsWithoutColumn(x, grs, its)
  BY DEF Atomic!ItemsWithoutColumn, ItemsWithoutColumn, Atomic!GroupsOf, GroupsOf,
         Atomic!NoGroup, NoGroup
<1> QED  BY <1>1, <1>2, <1>3, <1>4, <1>5, <1>6

\* normalizeColumnRootEntryOrder and normalizeGroupItemsOrder,
LEMMA NormalisationSame ==
    ASSUME NEW cols, NEW grs, NEW its, NEW groupMark, NEW itemMark, NEW gs
    PROVE  /\ Atomic!NormalizedRoots(cols, grs, its, groupMark, itemMark)
                = NormalizedRoots(cols, grs, its, groupMark, itemMark)
           /\ Atomic!NormalizedMembers(gs, its) = NormalizedMembers(gs, its)
           /\ Atomic!UnmovedMarks(its) = UnmovedMarks(its)
<1>1. Atomic!NormalizedRoots(cols, grs, its, groupMark, itemMark)
                = NormalizedRoots(cols, grs, its, groupMark, itemMark)
  BY DEF Atomic!NormalizedRoots, NormalizedRoots, Atomic!Place, Place, Atomic!Rank, Rank,
         Atomic!Precedes, Precedes, Atomic!RootEntries, RootEntries,
         Atomic!GroupEntry, GroupEntry, Atomic!ItemEntry, ItemEntry,
         Atomic!RootItems, RootItems, Atomic!GroupsOf, GroupsOf, Atomic!NoGroup, NoGroup,
         Atomic!Cardinality, Cardinality, Atomic!Bijection, Bijection,
         Atomic!Injection, Injection, Atomic!Surjection, Surjection,
         Atomic!IsInjective, IsInjective
<1>2. Atomic!NormalizedMembers(gs, its) = NormalizedMembers(gs, its)
  BY DEF Atomic!NormalizedMembers, NormalizedMembers, Atomic!MemberRank, MemberRank,
         Atomic!Members, Members, Atomic!Cardinality, Cardinality
<1>3. Atomic!UnmovedMarks(its) = UnmovedMarks(its)
  BY DEF Atomic!UnmovedMarks, UnmovedMarks, Atomic!Unmoved, Unmoved
<1> QED  BY <1>1, <1>2, <1>3

\* and the transactions of the sync requests and of deleteGroup.
LEMMA ItemSyncSame ==
    ASSUME NEW ch, NEW before, NEW grs, NEW its
    PROVE  Atomic!ItemSync(ch, before, grs, its) = ItemSync(ch, before, grs, its)
<1>1. /\ Atomic!ItemSyncColumns(ch, before) = ItemSyncColumns(ch, before)
      /\ Atomic!ItemSyncGroups(ch, before) = ItemSyncGroups(ch, before)
  BY DEF Atomic!ItemSyncColumns, ItemSyncColumns, Atomic!ItemSyncGroups, ItemSyncGroups,
         Atomic!Named, Named, Atomic!NoGroup, NoGroup
<1>2. Atomic!WrittenItems(ch, its) = WrittenItems(ch, its)
  BY DEF Atomic!WrittenItems, WrittenItems, Atomic!Named, Named, Atomic!LastFor, LastFor,
         Atomic!Max, Max
<1>3. Atomic!ItemMoveMarks(ch, before, its) = ItemMoveMarks(ch, before, its)
  BY DEF Atomic!ItemMoveMarks, ItemMoveMarks, Atomic!Named, Named, Atomic!LastFor, LastFor,
         Atomic!Max, Max, Atomic!Moved, Moved, Atomic!Unmoved, Unmoved,
         Atomic!NoGroup, NoGroup
<1> QED  BY <1>1, <1>2, <1>3, NormalisationSame DEF Atomic!ItemSync, ItemSync

LEMMA GroupSyncSame ==
    ASSUME NEW ch, NEW before, NEW grs, NEW its
    PROVE  Atomic!GroupSync(ch, before, grs, its) = GroupSync(ch, before, grs, its)
<1>1. Atomic!GroupSyncColumns(ch, before) = GroupSyncColumns(ch, before)
  BY DEF Atomic!GroupSyncColumns, GroupSyncColumns, Atomic!Named, Named
<1>2. Atomic!WrittenGroups(ch, grs) = WrittenGroups(ch, grs)
  BY DEF Atomic!WrittenGroups, WrittenGroups, Atomic!Named, Named, Atomic!LastFor, LastFor,
         Atomic!Max, Max
<1>3. Atomic!CarriedItems(ch, before, its) = CarriedItems(ch, before, its)
  BY DEF Atomic!CarriedItems, CarriedItems, Atomic!CarryingChanges, CarryingChanges,
         Atomic!Named, Named, Atomic!Max, Max
<1>4. Atomic!GroupMoveMarks(ch, before, grs) = GroupMoveMarks(ch, before, grs)
  BY DEF Atomic!GroupMoveMarks, GroupMoveMarks, Atomic!Named, Named, Atomic!LastFor, LastFor,
         Atomic!Max, Max, Atomic!Moved, Moved, Atomic!Unmoved, Unmoved
<1> QED  BY <1>1, <1>2, <1>3, <1>4, NormalisationSame DEF Atomic!GroupSync, GroupSync

LEMMA GroupDeletionSame ==
    ASSUME NEW g, NEW old, NEW grs, NEW its
    PROVE  Atomic!GroupDeletion(g, old, grs, its) = GroupDeletion(g, old, grs, its)
<1>1. Atomic!Ungrouped(g, old, grs, its) = Ungrouped(g, old, grs, its)
  BY DEF Atomic!Ungrouped, Ungrouped, Atomic!UngroupAt, UngroupAt, Atomic!Rank, Rank,
         Atomic!Precedes, Precedes, Atomic!RootEntries, RootEntries,
         Atomic!GroupEntry, GroupEntry, Atomic!ItemEntry, ItemEntry,
         Atomic!RootItems, RootItems, Atomic!GroupsOf, GroupsOf, Atomic!NoGroup, NoGroup,
         Atomic!Cardinality, Cardinality, Atomic!MemberRank, MemberRank,
         Atomic!Members, Members, Atomic!UnmovedMarks, UnmovedMarks, Atomic!Unmoved, Unmoved
<1> QED  BY <1>1, NormalisationSame DEF Atomic!GroupDeletion, GroupDeletion

\* The operations, on the tables.
LEMMA CreateBoardSame ==
    ASSUME Serial, Serial', CreateBoard
    PROVE  Atomic!CreateBoard
BY DEF Atomic!CreateBoard, CreateBoard

LEMMA CreateColumnSame ==
    ASSUME Serial, Serial', NEW b, CreateColumn(b)
    PROVE  Atomic!CreateColumn(b)
BY SetsSame DEF Atomic!CreateColumn, CreateColumn

LEMMA CreateGroupSame ==
    ASSUME Serial, Serial', NEW b, CreateGroup(b)
    PROVE  Atomic!CreateGroup(b)
BY SetsSame DEF Atomic!CreateGroup, CreateGroup

LEMMA AddItemSame ==
    ASSUME Serial, Serial', NEW c, NEW g, AddItemToColumn(c, g)
    PROVE  Atomic!AddItemToColumn(c, g)
BY RewritesSame DEF Atomic!AddItemToColumn, AddItemToColumn

LEMMA ReorderSame ==
    ASSUME Serial, Serial', NEW b, NEW old, NEW new, ReorderColumns(b, old, new)
    PROVE  Atomic!ReorderColumns(b, old, new)
<1>1. (IF Serial THEN columns ELSE <<>>) = columns
  OBVIOUS
<1>2. \A c : Atomic!ReorderedIndex(c, old, new, columns) = ReorderedIndex(c, old, new, columns)
  BY RewritesSame
<1>3. (IF Serial THEN columns ELSE <<>>)' = columns'
  OBVIOUS
<1>4. columns' = [c \in DOMAIN columns |->
            IF columns[c].boardId = b
            THEN [columns[c] EXCEPT !.orderIndex =
                    Atomic!ReorderedIndex(c, old, new, columns)]
            ELSE columns[c]]
  BY <1>2 DEF ReorderColumns
<1> QED  BY <1>1, <1>3, <1>4 DEF Atomic!ReorderColumns, ReorderColumns

LEMMA SyncItemsSame ==
    ASSUME Serial, Serial', NEW ch, SyncItemPositions(ch)
    PROVE  Atomic!SyncItemPositions(ch)
BY ItemSyncSame DEF Atomic!SyncItemPositions, SyncItemPositions

LEMMA SyncGroupsSame ==
    ASSUME Serial, Serial', NEW ch, SyncGroupPositions(ch)
    PROVE  Atomic!SyncGroupPositions(ch)
BY SetsSame, GroupSyncSame DEF Atomic!SyncGroupPositions, SyncGroupPositions

LEMMA DeleteColumnSame ==
    ASSUME Serial, Serial', NEW c, DeleteColumn(c)
    PROVE  Atomic!DeleteColumn(c)
BY RewritesSame DEF Atomic!DeleteColumn, DeleteColumn

LEMMA DeleteGroupSame ==
    ASSUME Serial, Serial', NEW g, DeleteGroup(g)
    PROVE  Atomic!DeleteGroup(g)
BY GroupDeletionSame DEF Atomic!DeleteGroup, DeleteGroup

LEMMA DeleteItemSame ==
    ASSUME Serial, Serial', NEW i, DeleteItem(i)
    PROVE  Atomic!DeleteItem(i)
BY DEF Atomic!DeleteItem, DeleteItem

\* Requests are chosen among the same boards and changes.
LEMMA ChoicesSame ==
    ASSUME Serial
    PROVE  /\ Atomic!Boards = Boards
           /\ \A b : Atomic!ItemChanges(b) = ItemChanges(b)
           /\ \A b : Atomic!GroupChanges(b) = GroupChanges(b)
<1>1. Atomic!Boards = Boards
  BY DEF Atomic!Boards, Boards
<1>2. \A b : Atomic!ItemChanges(b) = ItemChanges(b)
  BY DEF Atomic!ItemChanges, ItemChanges, Atomic!ColumnsOf, ColumnsOf, Atomic!NoGroup, NoGroup
<1>3. \A b : Atomic!GroupChanges(b) = GroupChanges(b)
  BY DEF Atomic!GroupChanges, GroupChanges, Atomic!ColumnsOf, ColumnsOf
<1> QED  BY <1>1, <1>2, <1>3

\* A step of RetroBoard is a step of the instance.
LEMMA NextSame ==
    ASSUME Serial, Serial', [Next]_vars
    PROVE  [Atomic!Next]_Atomic!vars
<1>1. CASE CreateBoard
  BY <1>1, CreateBoardSame DEF Atomic!Next
<1>2. ASSUME NEW b \in Boards, CreateColumn(b) PROVE Atomic!Next
  BY <1>2, CreateColumnSame, ChoicesSame DEF Atomic!Next
<1>3. ASSUME NEW c \in DOMAIN columns, CreateGroup(c) PROVE Atomic!Next
  BY <1>3, CreateGroupSame DEF Atomic!Next
<1>4. ASSUME NEW c \in DOMAIN columns, NEW g \in {NoGroup} \cup GroupsOf(c, groups),
             AddItemToColumn(c, g)
      PROVE  Atomic!Next
  BY <1>4, AddItemSame, SetsSame DEF Atomic!Next
<1>5. ASSUME NEW b \in Boards,
             NEW old \in 0..Cardinality(ColumnsOf(b, columns)) - 1,
             NEW new \in 0..Cardinality(ColumnsOf(b, columns)) - 1,
             ReorderColumns(b, old, new)
      PROVE  Atomic!Next
  BY <1>5, ReorderSame, SetsSame, ChoicesSame DEF Atomic!Next
<1>6. ASSUME NEW b \in Boards, NEW ch \in Batches(ItemChanges(b)), SyncItemPositions(ch)
      PROVE  Atomic!Next
  BY <1>6, SyncItemsSame, SetsSame, ChoicesSame DEF Atomic!Next
<1>7. ASSUME NEW b \in Boards, NEW ch \in Batches(GroupChanges(b)), SyncGroupPositions(ch)
      PROVE  Atomic!Next
  BY <1>7, SyncGroupsSame, SetsSame, ChoicesSame DEF Atomic!Next
<1>8. ASSUME NEW c \in DOMAIN columns, DeleteColumn(c) PROVE Atomic!Next
  BY <1>8, DeleteColumnSame DEF Atomic!Next
<1>9. ASSUME NEW g \in DOMAIN groups, DeleteGroup(g) PROVE Atomic!Next
  BY <1>9, DeleteGroupSame DEF Atomic!Next
<1>10. ASSUME NEW i \in DOMAIN items, DeleteItem(i) PROVE Atomic!Next
  BY <1>10, DeleteItemSame DEF Atomic!Next
<1>11. CASE UNCHANGED vars
  BY <1>11 DEF vars, Atomic!vars
<1> QED  BY <1>1, <1>2, <1>3, <1>4, <1>5, <1>6, <1>7, <1>8, <1>9, <1>10, <1>11 DEF Next

-----------------------------------------------------------------------------
(* Calls made one at a time: the refinement.                               *)

\* Within its transaction a call changes the tables only as it commits, and
\* then as RetroBoard does in one step.
LEMMA TransactStep ==
    ASSUME RequestTypeOK, ColumnOrderDense, NEW c \in Calls, Fresh(c), Transact(c)
    PROVE  [Next]_vars /\ Fresh(c)'
<1>0. UNCHANGED tables => UNCHANGED vars
  BY DEF tables, vars
<1>1. CASE CreateColumnInsert(c) \/ CreateGroupInsert(c)
  BY <1>1, CreateStep
<1>2. CASE AddItemFindItems(c)
  BY <1>0, <1>2, FindItemsStep
<1>3. CASE AddItemFindGroups(c)
  BY <1>0, <1>3, FindGroupsStep
<1>4. CASE AddItemInsert(c)
  BY <1>4, AddItemStep
<1>5. CASE ReorderWrite(c)
  BY <1>5, ReorderStep
<1>6. CASE SyncItemsUpdate(c)
  BY <1>0, <1>6, ItemsUpdateStep
<1>7. CASE SyncGroupsUpdate(c)
  BY <1>0, <1>7, GroupsUpdateStep
<1>8. CASE SyncGroupsCarry(c)
  BY <1>0, <1>8, GroupsCarryStep
<1>9. CASE DeleteColumnDelete(c)
  BY <1>0, <1>9, DeletingStep
<1>10. CASE DeleteColumnDecrement(c)
  BY <1>10, DecrementStep
<1>11. CASE UngroupReadItems(c) \/ UngroupReadGroups(c) \/ UngroupReadMembers(c)
  BY <1>0, <1>11, UngroupReadStep
<1>12. CASE UngroupWrite(c)
  BY <1>0, <1>12, UngroupStep
<1>13. CASE ReadMembers(c)
  <2>1. Sorts(c)
    BY <1>13 DEF ReadMembers, Fresh, WriteFresh
  <2>2. UNCHANGED tables /\ call'[c].step = "NORMALIZE" /\ Sorts(c)'
    BY <1>13, <2>1, ReadMembersFresh
  <2> QED  BY <1>0, <2>2 DEF Fresh, ReadFresh, WriteFresh
<1>14. CASE ReadRootItems(c)
  <2>1. Sorts(c)
    BY <1>14 DEF ReadRootItems, Fresh, WriteFresh
  <2>2. UNCHANGED tables /\ call'[c].step = "ROOT_GROUPS" /\ Sorts(c)'
    BY <1>14, <2>1, ReadRootItemsFresh
  <2> QED  BY <1>0, <2>2 DEF Fresh, ReadFresh, WriteFresh
<1>15. CASE ReadRootGroups(c)
  <2>1. Sorts(c)
    BY <1>15 DEF ReadRootGroups, Fresh, WriteFresh
  <2>2. UNCHANGED tables /\ call'[c].step = "NORMALIZE" /\ Sorts(c)'
    BY <1>15, <2>1, ReadRootGroupsFresh
  <2> QED  BY <1>0, <2>2 DEF Fresh, ReadFresh, WriteFresh
<1>16. CASE CommitOrder(c)
  BY <1>16, CommitStep
<1>17. CASE Abort(c)
  <2>1. UNCHANGED tables /\ Finish(c)
    BY <1>17 DEF Abort
  <2> QED  BY <1>0, <2>1, FinishFresh
<1> QED
  BY <1>1, <1>2, <1>3, <1>4, <1>5, <1>6, <1>7, <1>8, <1>9, <1>10, <1>11, <1>12, <1>13,
     <1>14, <1>15, <1>16, <1>17 DEF Transact

\* Nothing happens, and what was fresh stays so.
LEMMA StutterFresh ==
    ASSUME UNCHANGED requestVars, NEW c, Fresh(c)
    PROVE  Fresh(c)'
<1>1. /\ UNCHANGED tables /\ lastId' = lastId
      /\ call'[c] = call[c] /\ wrote'[c] = wrote[c]
      /\ columns' = columns /\ groups' = groups /\ items' = items
  BY DEF requestVars, tables
<1>2. ReadFresh(call[c])'
  BY <1>1, FreshKept DEF Fresh
<1>3. MyGroups(c)' = MyGroups(c) /\ MyItems(c)' = MyItems(c)
  BY <1>1 DEF MyGroups, MyItems
<1>4. ItemsDown(c)' = ItemsDown(c) /\ GroupsDown(c)' = GroupsDown(c)
  BY <1>1, <1>3 DEF ItemsDown, GroupsDown
<1>5. \A o : Outcome(o) => Outcome(o)'
  BY <1>1, OutcomeKept
<1>6. Sorts(c) => Sorts(c)'
  <2>1. NormalizeFresh(call[c], MyGroups(c), MyItems(c))
            => NormalizeFresh(call[c], MyGroups(c), MyItems(c))'
    BY <1>1, <1>3, <1>5 DEF NormalizeFresh
  <2>2. RootsFresh(call[c], MyGroups(c), MyItems(c))
            => RootsFresh(call[c], MyGroups(c), MyItems(c))'
    BY <1>1, <1>3, <1>5 DEF RootsFresh
  <2> QED  BY <1>1, <2>1, <2>2 DEF Sorts
<1>7. WriteFresh(c)'
  <2>1. call'[c].step = "ADD_ITEM_INSERT" =>
            Adds(call[c], MyGroups(c), MyItems(c), ItemsDown(c), GroupsDown(c))'
    BY <1>1, <1>3, <1>4 DEF Fresh, WriteFresh, Adds
  <2>2. call'[c].step = "DECREMENT" =>
            Decrements(call[c], wrote[c].columns, MyGroups(c), MyItems(c))'
    BY <1>1, <1>3 DEF Fresh, WriteFresh, Decrements
  <2>3. call'[c].step = "NEXT_GROUP" =>
            Syncs(call[c], call[c].next - 1, call[c].next - 1, MyGroups(c), MyItems(c))'
    BY <1>1, <1>3 DEF Fresh, WriteFresh, Syncs
  <2>4. call'[c].step = "CARRY_ITEMS" =>
            Syncs(call[c], call[c].next, call[c].next - 1, MyGroups(c), MyItems(c))'
    BY <1>1, <1>3 DEF Fresh, WriteFresh, Syncs
  <2>5. call'[c].step = "CARRY_ITEMS" => Carries(call[c], MyItems(c))'
    BY <1>1, <1>3 DEF Fresh, WriteFresh, Carries
  <2> QED  BY <1>1, <1>6, <2>1, <2>2, <2>3, <2>4, <2>5 DEF Fresh, WriteFresh
<1> QED  BY <1>2, <1>7 DEF Fresh

\* The invariant of the refinement: a call made alone finds its reads fresh, and
\* the columns in the order that reorderColumns relies on.
SerialRequest ==
    \A c \in Calls : lanes = {c} => Fresh(c) /\ ColumnOrderDense

RequestInv == RequestTypeOK /\ SerialRequest

LEMMA InitRequestInv == RequestInit => RequestInv
<1> SUFFICES ASSUME RequestInit PROVE RequestInv
  OBVIOUS
<1>1. ColumnOrderDense
  BY DEF RequestInit, Init, ColumnOrderDense, Boards
<1>2. \A c \in Calls : Fresh(c)
  <2> SUFFICES ASSUME NEW c \in Calls PROVE Fresh(c)
    OBVIOUS
  <2>1. call[c] = Idle /\ DOMAIN wrote[c].columns = {}
    BY NothingWritten DEF RequestInit
  <2> QED  BY <2>1 DEF Fresh, ReadFresh, WriteFresh, Sorts, Idle
<1> QED  BY <1>1, <1>2, InitRequestTypeOK DEF RequestInv, SerialRequest

\* With one call at a time, a step of BoardRequests is a step of RetroBoard.
LEMMA SerialStep ==
    ASSUME RequestInv, [RequestNext]_requestVars, NEW c \in Calls, lanes = {c}
    PROVE  lanes' = {c} /\ [Next]_vars /\ Fresh(c)' /\ ColumnOrderDense'
<1>1. lanes' = lanes /\ RequestTypeOK /\ TypeOK /\ Fresh(c) /\ ColumnOrderDense
  BY DEF RequestNext, requestVars, RequestInv, SerialRequest, RequestTypeOK
<1>2. [Next]_vars /\ Fresh(c)'
  <2>1. CASE Read(c)
    BY <1>1, <2>1, ReadStep DEF tables, vars
  <2>2. CASE Transact(c)
    BY <1>1, <2>2, TransactStep
  <2>3. CASE SingleStatement(c)
    <3>1. [Next]_vars
      BY <2>3 DEF SingleStatement, Next
    <3>2. call'[c] = Idle /\ wrote'[c] = NoWrites
      BY <1>1, <2>3 DEF SingleStatement, RequestTypeOK, WritesOK, Reading, Idle
    <3>3. DOMAIN wrote'[c].columns = {}
      BY <3>2, NothingWritten
    <3> QED  BY <3>1, <3>2, <3>3 DEF Fresh, ReadFresh, WriteFresh, Sorts, Idle
  <2>4. CASE UNCHANGED requestVars
    <3>1. UNCHANGED vars
      BY <2>4 DEF requestVars, vars
    <3> QED  BY <1>1, <2>4, <3>1, StutterFresh
  <2> QED  BY <2>1, <2>2, <2>3, <2>4 DEF RequestNext
<1>3. ColumnOrderDense'
  BY <1>1, <1>2, NextColumnsDense
<1> QED  BY <1>1, <1>2, <1>3

LEMMA NextRequestInv == RequestInv /\ [RequestNext]_requestVars => RequestInv'
<1> SUFFICES ASSUME RequestInv, [RequestNext]_requestVars PROVE RequestInv'
  OBVIOUS
<1>1. RequestTypeOK'
  BY NextRequestTypeOK DEF RequestInv
<1>2. lanes' = lanes
  BY DEF RequestNext, requestVars
<1>3. SerialRequest'
  BY <1>2, SerialStep DEF SerialRequest
<1> QED  BY <1>1, <1>3 DEF RequestInv

\* Calls made one at a time act as the single steps of RetroBoard.
THEOREM SerialCalls == RequestSpec => SerialCallsAreAtomic
<1>1. RequestSpec => []RequestInv
  BY InitRequestInv, NextRequestInv, PTL DEF RequestSpec
<1>2. RequestInit => Atomic!Init
  BY DEF RequestInit, Init, Atomic!Init
<1>3. RequestInv /\ [RequestNext]_requestVars => [Atomic!Next]_(Atomic!vars)
  <2> SUFFICES ASSUME RequestInv, [RequestNext]_requestVars
               PROVE  [Atomic!Next]_(Atomic!vars)
    OBVIOUS
  <2>1. lanes' = lanes /\ lanes \subseteq Calls
    BY DEF RequestNext, requestVars, RequestInv, RequestTypeOK, CallsOK
  <2>2. CASE Serial
    <3>1. PICK c \in Calls : lanes = {c}
      BY <2>1, <2>2 DEF Serial
    <3>2. [Next]_vars
      BY <3>1, SerialStep
    <3>3. Serial'
      BY <2>1, <2>2 DEF Serial
    <3> QED  BY <2>2, <3>2, <3>3, NextSame
  <2>3. CASE ~Serial
    <3>1. ~Serial'
      BY <2>1, <2>3 DEF Serial
    <3> QED  BY <2>3, <3>1 DEF Atomic!vars
  <2> QED  BY <2>2, <2>3
<1> QED  BY <1>1, <1>2, <1>3, PTL DEF RequestSpec, SerialCallsAreAtomic, Atomic!Spec

\* What is proved of single steps holds of calls made one at a time: the layout
\* of every board, unless a request names a group twice.
THEOREM SerialLayout ==
    ASSUME ~RepeatedGroups
    PROVE  RequestSpec => [](Serial => Layout)
<1>1. RequestSpec => []RequestInv
  BY InitRequestInv, NextRequestInv, PTL DEF RequestSpec
<1>2. RequestInit => (Serial => Layout)
  BY InitLayout DEF RequestInit
<1>3. RequestInv /\ (Serial => Layout) /\ [RequestNext]_requestVars => (Serial => Layout)'
  <2> SUFFICES ASSUME RequestInv, Serial => Layout, [RequestNext]_requestVars, Serial'
               PROVE  Layout'
    OBVIOUS
  <2>1. lanes' = lanes /\ lanes \subseteq Calls
    BY DEF RequestNext, requestVars, RequestInv, RequestTypeOK, CallsOK
  <2>2. PICK c \in Calls : lanes = {c}
    BY <2>1 DEF Serial
  <2>3. [Next]_vars /\ Layout /\ TypeOK
    BY <2>2, SerialStep DEF Serial, RequestInv, RequestTypeOK
  <2> QED  BY <2>3, NextLayout DEF LayoutInvariant
<1> QED  BY <1>1, <1>2, <1>3, PTL DEF RequestSpec

-----------------------------------------------------------------------------
(* Calls that overlap: what a transaction makes of the rows that no other  *)
(* call writes.                                                            *)

\* The index that a call is about to write for an entry, or that it has.
Planned(k, gi, ii, grs, its) ==
    IF k[1] = "ITEM"
    THEN IF k[2] \in DOMAIN ii THEN ii[k[2]] ELSE its[k[2]].rowIndex
    ELSE IF k[2] \in DOMAIN gi THEN gi[k[2]] ELSE grs[k[2]].orderIndex

\* The entries of the columns S, but for those of F, get distinct indexes.
Settled(S, F, gi, ii, grs, its) ==
    \A col \in S : \A k, l \in KeysIn(col, grs, its) \ F :
        Planned(k, gi, ii, grs, its) = Planned(l, gi, ii, grs, its) => k = l

\* The entries of the columns outside R, but for those of F, are committed there
\* with the index that they are left with.
Spared(R, F, gi, ii, grs, its, grs0, its0) ==
    \A col : col \notin R =>
        \A k \in KeysIn(col, grs, its) \ F :
            /\ k \in KeysIn(col, grs0, its0)
            /\ Planned(k, gi, ii, grs, its) = IndexIn(k, grs0, its0)

IsSync(q) == q.itemMoves # NoMoves \/ q.groupMoves # NoMoves

\* A normalisation with the columns left still to be renumbered.
Mends(q, left, F, gi, ii, grs, its, grs0, its0) ==
    /\ NoGroup \notin q.groups
    /\ left \subseteq q.renumbers
    /\ Settled(q.renumbers \ left, F, gi, ii, grs, its)
    /\ IsSync(q) => Spared(q.renumbers, F, gi, ii, grs, its, grs0, its0)

\* The invariant: a call r sees grs and its where grs0 and its0 are committed.
Repairs(r, F, grs, its, grs0, its0) ==
    /\ r.step \in {"NEXT_GROUP", "CARRY_ITEMS"} =>
        Spared(GroupSyncColumns(r.moves.changes, r.moves.before), F, <<>>, <<>>,
               grs, its, grs0, its0)
    /\ r.step = "NORMALIZE" =>
        Mends(r, r.columns, F, r.groupIndex, r.itemIndex, grs, its, grs0, its0)
    /\ r.step = "ROOT_GROUPS" =>
        /\ Mends(r.normalizing, r.normalizing.columns \cup {r.column}, F, <<>>, <<>>,
                 grs, its, grs0, its0)
        /\ \A i : <<"ITEM", i>> \notin F =>
                (i \in DOMAIN r.items <=> i \in RootItems(r.column, its))

RepairInv ==
    RequestTypeOK /\ \A c \in Calls :
        Repairs(call[c], foreign[c], MyGroups(c), MyItems(c), groups, items)

\* Rows outside F are the same in both states of the tables.
SameBut(F, grs, its, a, b) ==
    /\ \A g : <<"GROUP", g>> \notin F =>
            /\ g \in DOMAIN a <=> g \in DOMAIN grs
            /\ g \in DOMAIN grs => a[g] = grs[g]
    /\ \A i : <<"ITEM", i>> \notin F =>
            /\ i \in DOMAIN b <=> i \in DOMAIN its
            /\ i \in DOMAIN its => b[i] = its[i]

LEMMA SameKeys ==
    ASSUME NEW F, NEW grs, NEW its, NEW a, NEW b, SameBut(F, grs, its, a, b), NEW k, k \notin F
    PROVE  /\ \A col : k \in KeysIn(col, a, b) <=> k \in KeysIn(col, grs, its)
           /\ \A col : k \in KeysIn(col, grs, its) =>
                /\ IndexIn(k, a, b) = IndexIn(k, grs, its)
                /\ \A gi, ii : Planned(k, gi, ii, a, b) = Planned(k, gi, ii, grs, its)
<1>1. \A i : k = <<"ITEM", i>> => \A col : i \in RootItems(col, b) <=> i \in RootItems(col, its)
  BY DEF SameBut, RootItems
<1>2. \A g : k = <<"GROUP", g>> => \A col : g \in GroupsOf(col, a) <=> g \in GroupsOf(col, grs)
  BY DEF SameBut, GroupsOf
<1>3. ASSUME NEW col, k \in KeysIn(col, a, b) PROVE k \in KeysIn(col, grs, its)
  BY <1>1, <1>2, <1>3, KeysAreRows
<1>4. ASSUME NEW col, k \in KeysIn(col, grs, its)
      PROVE  /\ k \in KeysIn(col, a, b)
             /\ IndexIn(k, a, b) = IndexIn(k, grs, its)
             /\ \A gi, ii : Planned(k, gi, ii, a, b) = Planned(k, gi, ii, grs, its)
  <2>1. CASE \E i \in RootItems(col, its) : k = <<"ITEM", i>>
    <3>1. PICK i \in RootItems(col, its) : k = <<"ITEM", i>>
      BY <2>1
    <3>2. i \in DOMAIN its /\ b[i] = its[i] /\ k[1] = "ITEM" /\ k[2] = i
      BY <3>1 DEF SameBut, RootItems
    <3>3. k \in KeysIn(col, a, b)
      BY <1>1, <3>1, KeysAreRows
    <3> QED  BY <3>2, <3>3 DEF IndexIn, Planned
  <2>2. CASE \E g \in GroupsOf(col, grs) : k = <<"GROUP", g>>
    <3>1. PICK g \in GroupsOf(col, grs) : k = <<"GROUP", g>>
      BY <2>2
    <3>2. g \in DOMAIN grs /\ a[g] = grs[g] /\ k[1] # "ITEM" /\ k[2] = g
      BY <3>1 DEF SameBut, GroupsOf
    <3>3. k \in KeysIn(col, a, b)
      BY <1>2, <3>1, KeysAreRows
    <3> QED  BY <3>2, <3>3 DEF IndexIn, Planned
  <2> QED  BY <1>4, <2>1, <2>2, KeysAreRows
<1> QED  BY <1>3, <1>4

\* What a call keeps while other calls write: the entries they touch are set apart.
LEMMA RepairsElsewhere ==
    ASSUME NEW r, NEW F, NEW F2, F \subseteq F2,
           NEW grs, NEW its, NEW a, NEW b, SameBut(F2, grs, its, a, b),
           NEW grs0, NEW its0, NEW a0, NEW b0, SameBut(F2, grs0, its0, a0, b0),
           Repairs(r, F, grs, its, grs0, its0)
    PROVE  Repairs(r, F2, a, b, a0, b0)
<1>1. \A k : k \notin F2 => k \notin F
  OBVIOUS
<1>2. \A k : k \notin F2 => \A col : k \in KeysIn(col, a, b) <=> k \in KeysIn(col, grs, its)
  BY SameKeys
<1>3. \A k : k \notin F2 => \A col : k \in KeysIn(col, grs, its) =>
            \A gi, ii : Planned(k, gi, ii, a, b) = Planned(k, gi, ii, grs, its)
  BY SameKeys
<1>4. \A k : k \notin F2 => \A col : k \in KeysIn(col, grs0, its0) =>
            k \in KeysIn(col, a0, b0) /\ IndexIn(k, a0, b0) = IndexIn(k, grs0, its0)
  BY SameKeys
<1>5. ASSUME NEW S, NEW gi, NEW ii, Settled(S, F, gi, ii, grs, its)
      PROVE  Settled(S, F2, gi, ii, a, b)
  <2> SUFFICES ASSUME NEW col \in S, NEW k \in KeysIn(col, a, b) \ F2,
                      NEW l \in KeysIn(col, a, b) \ F2,
                      Planned(k, gi, ii, a, b) = Planned(l, gi, ii, a, b)
               PROVE  k = l
    BY DEF Settled
  <2>1. k \in KeysIn(col, grs, its) \ F /\ l \in KeysIn(col, grs, its) \ F
    BY <1>1, <1>2
  <2>2. Planned(k, gi, ii, grs, its) = Planned(l, gi, ii, grs, its)
    BY <1>3, <2>1
  <2> QED  BY <1>5, <2>1, <2>2 DEF Settled
<1>6. ASSUME NEW R, NEW gi, NEW ii, Spared(R, F, gi, ii, grs, its, grs0, its0)
      PROVE  Spared(R, F2, gi, ii, a, b, a0, b0)
  <2> SUFFICES ASSUME NEW col, col \notin R, NEW k \in KeysIn(col, a, b) \ F2
               PROVE  /\ k \in KeysIn(col, a0, b0)
                      /\ Planned(k, gi, ii, a, b) = IndexIn(k, a0, b0)
    BY DEF Spared
  <2>1. k \in KeysIn(col, grs, its) \ F
    BY <1>1, <1>2
  <2>2. /\ k \in KeysIn(col, grs0, its0)
        /\ Planned(k, gi, ii, grs, its) = IndexIn(k, grs0, its0)
    BY <1>6, <2>1 DEF Spared
  <2>3. Planned(k, gi, ii, a, b) = Planned(k, gi, ii, grs, its)
    BY <1>3, <2>1
  <2> QED  BY <1>4, <2>2, <2>3
<1>7. ASSUME NEW q, NEW left, NEW gi, NEW ii, Mends(q, left, F, gi, ii, grs, its, grs0, its0)
      PROVE  Mends(q, left, F2, gi, ii, a, b, a0, b0)
  BY <1>5, <1>6, <1>7 DEF Mends
<1>8. \A i : <<"ITEM", i>> \notin F2 =>
            \A col : i \in RootItems(col, b) <=> i \in RootItems(col, its)
  BY DEF SameBut, RootItems
<1> QED  BY <1>1, <1>6, <1>7, <1>8 DEF Repairs

LEMMA SeesTheRow ==
    ASSUME NEW rows, NEW rows2, NEW v, NEW x, x \in DOMAIN rows2 <=> x \in DOMAIN rows,
           x \in DOMAIN rows => rows2[x] = rows[x]
    PROVE  /\ x \in DOMAIN Seen(rows2, v) <=> x \in DOMAIN Seen(rows, v)
           /\ x \in DOMAIN Seen(rows, v) => Seen(rows2, v)[x] = Seen(rows, v)[x]
<1> DEFINE s == Seen(rows, v)
           t == Seen(rows2, v)
<1>1. Deleted(v) \subseteq DOMAIN v
  BY DEF Deleted
<1>2. /\ DOMAIN s = (DOMAIN rows \cup DOMAIN v) \ Deleted(v)
      /\ \A y \in DOMAIN v \ Deleted(v) : s[y] = v[y]
      /\ \A y \in DOMAIN rows \ DOMAIN v : s[y] = rows[y]
      /\ s = [y \in DOMAIN s |-> s[y]]
  BY SeenRows
<1>3. /\ DOMAIN t = (DOMAIN rows2 \cup DOMAIN v) \ Deleted(v)
      /\ \A y \in DOMAIN v \ Deleted(v) : t[y] = v[y]
      /\ \A y \in DOMAIN rows2 \ DOMAIN v : t[y] = rows2[y]
      /\ t = [y \in DOMAIN t |-> t[y]]
  BY SeenRows
<1> HIDE DEF s, t
<1>4. x \in DOMAIN t <=> x \in DOMAIN s
  BY <1>2, <1>3
<1>5. ASSUME x \in DOMAIN s PROVE t[x] = s[x]
  <2>1. CASE x \in DOMAIN v
    BY <1>2, <1>3, <1>5, <2>1
  <2>2. CASE x \notin DOMAIN v
    BY <1>2, <1>3, <1>5, <2>2
  <2> QED  BY <2>1, <2>2
<1> QED  BY <1>4, <1>5 DEF s, t

\* A transaction sees the rows that no other commits as it has left them.
LEMMA SeesTheSame ==
    ASSUME NEW F, NEW grs, NEW its, NEW a, NEW b, SameBut(F, grs, its, a, b),
           NEW v, NEW w
    PROVE  SameBut(F, Seen(grs, v), Seen(its, w), Seen(a, v), Seen(b, w))
<1>1. ASSUME NEW g, <<"GROUP", g>> \notin F
      PROVE  /\ g \in DOMAIN Seen(a, v) <=> g \in DOMAIN Seen(grs, v)
             /\ g \in DOMAIN Seen(grs, v) => Seen(a, v)[g] = Seen(grs, v)[g]
  <2>1. /\ g \in DOMAIN a <=> g \in DOMAIN grs
        /\ g \in DOMAIN grs => a[g] = grs[g]
    BY <1>1 DEF SameBut
  <2> QED  BY <2>1, SeesTheRow
<1>2. ASSUME NEW i, <<"ITEM", i>> \notin F
      PROVE  /\ i \in DOMAIN Seen(b, w) <=> i \in DOMAIN Seen(its, w)
             /\ i \in DOMAIN Seen(its, w) => Seen(b, w)[i] = Seen(its, w)[i]
  <2>1. /\ i \in DOMAIN b <=> i \in DOMAIN its
        /\ i \in DOMAIN its => b[i] = its[i]
    BY <1>2 DEF SameBut
  <2> QED  BY <2>1, SeesTheRow
<1> QED  BY <1>1, <1>2 DEF SameBut

LEMMA TouchedRows ==
    ASSUME NEW F, Touched \subseteq F
    PROVE  SameBut(F, groups, items, groups', items')
<1>1. ASSUME NEW g, <<"GROUP", g>> \notin F PROVE g \notin Changed(groups, groups')
  BY <1>1 DEF Touched
<1>2. ASSUME NEW i, <<"ITEM", i>> \notin F PROVE i \notin Changed(items, items')
  BY <1>2 DEF Touched
<1> QED  BY <1>1, <1>2 DEF SameBut, Changed

-----------------------------------------------------------------------------
(* Calls that overlap: the writes ahead of a normalisation.                *)

LEMMA NothingPlanned ==
    ASSUME NEW k, NEW grs, NEW its
    PROVE  Planned(k, <<>>, <<>>, grs, its) = IndexIn(k, grs, its)
BY NothingWritten DEF Planned, IndexIn

\* Before a transaction writes, all it sees is committed.
LEMMA SparedAtFirst ==
    ASSUME NEW R, NEW F, NEW grs, NEW its
    PROVE  Spared(R, F, <<>>, <<>>, grs, its, grs, its)
BY NothingPlanned DEF Spared

\* Rows written into the columns R leave the others as they were.
LEMMA SparedMore ==
    ASSUME NEW R, NEW F, NEW grs, NEW its, NEW grs0, NEW its0,
           Spared(R, F, <<>>, <<>>, grs, its, grs0, its0),
           NEW v, \A g \in DOMAIN v : v[g].columnId \in R, NEW a, a = Over(v, grs),
           NEW w, \A i \in DOMAIN w : w[i].columnId \in R, NEW b, b = Over(w, its)
    PROVE  Spared(R, F, <<>>, <<>>, a, b, grs0, its0)
<1>1. /\ DOMAIN a = DOMAIN v \cup DOMAIN grs
      /\ \A g \in DOMAIN v : a[g] = v[g]
      /\ \A g \in DOMAIN grs \ DOMAIN v : a[g] = grs[g]
  BY DEF Over
<1>2. /\ DOMAIN b = DOMAIN w \cup DOMAIN its
      /\ \A i \in DOMAIN w : b[i] = w[i]
      /\ \A i \in DOMAIN its \ DOMAIN w : b[i] = its[i]
  BY DEF Over
<1>3. ASSUME NEW col, col \notin R, NEW k \in KeysIn(col, a, b) \ F
      PROVE  /\ k \in KeysIn(col, grs, its)
             /\ IndexIn(k, a, b) = IndexIn(k, grs, its)
  <2>1. CASE \E i \in RootItems(col, b) : k = <<"ITEM", i>>
    <3>1. PICK i \in RootItems(col, b) : k = <<"ITEM", i>>
      BY <2>1
    <3>2. i \in DOMAIN its /\ b[i] = its[i] /\ i \in RootItems(col, its)
      BY <1>2, <1>3, <3>1 DEF RootItems
    <3> QED  BY <3>1, <3>2, KeysAreRows
  <2>2. CASE \E g \in GroupsOf(col, a) : k = <<"GROUP", g>>
    <3>1. PICK g \in GroupsOf(col, a) : k = <<"GROUP", g>>
      BY <2>2
    <3>2. g \in DOMAIN grs /\ a[g] = grs[g] /\ g \in GroupsOf(col, grs)
      BY <1>1, <1>3, <3>1 DEF GroupsOf
    <3> QED  BY <3>1, <3>2, KeysAreRows
  <2> QED  BY <1>3, <2>1, <2>2, KeysAreRows
<1> QED  BY <1>3, NothingPlanned DEF Spared

\* A normalisation begins with every column still to be renumbered.
LEMMA MendsFromHere ==
    ASSUME NEW F, NEW im, NEW gm, NEW gs, NoGroup \notin gs, NEW cols,
           NEW grs, NEW its, NEW grs0, NEW its0,
           im # NoMoves \/ gm # NoMoves => Spared(cols, F, <<>>, <<>>, grs, its, grs0, its0)
    PROVE  Repairs(Normalizing(im, gm, gs, cols), F, grs, its, grs0, its0)
<1> DEFINE r == Normalizing(im, gm, gs, cols)
<1>1. /\ r.step = "NORMALIZE" /\ r.itemMoves = im /\ r.groupMoves = gm /\ r.groups = gs
      /\ r.columns = cols /\ r.renumbers = cols /\ r.groupIndex = <<>> /\ r.itemIndex = <<>>
  BY DEF Normalizing
<1> HIDE DEF r
<1>2. Settled(r.renumbers \ r.columns, F, r.groupIndex, r.itemIndex, grs, its)
  BY <1>1 DEF Settled
<1>3. IsSync(r) => Spared(r.renumbers, F, r.groupIndex, r.itemIndex, grs, its, grs0, its0)
  BY <1>1 DEF IsSync
<1>4. Mends(r, r.columns, F, r.groupIndex, r.itemIndex, grs, its, grs0, its0)
  BY <1>1, <1>2, <1>3 DEF Mends
<1> QED  BY <1>1, <1>4 DEF Repairs, r

\* What a step of c does to the invariant, whatever set apart.
Maintains(c) == UNCHANGED tables /\
    \A F : Repairs(call[c], F, MyGroups(c), MyItems(c), groups, items)
            => Repairs(call'[c], F, MyGroups(c)', MyItems(c)', groups, items)

LEMMA SyncItemsRepairs ==
    ASSUME RequestTypeOK, NEW c \in Calls, SyncItemsUpdate(c)
    PROVE  Maintains(c)
<1> DEFINE moves == call[c].moves
           ch == moves.changes
           before == moves.before
           n == WrittenItems(ch, items)
           S == Named(ch)
           w == [NoWrites EXCEPT !.items = Restrict(n, S)]
           gs == ItemSyncGroups(ch, before)
           cols == ItemSyncColumns(ch, before)
           r == Normalizing(moves, NoMoves, gs, cols)
<1>1. call[c].step = "SYNC_ITEMS" /\ S \subseteq DOMAIN items /\ Write(c, w, r)
  BY DEF SyncItemsUpdate
<1>2. ChangesOK(ch)
  BY <1>1 DEF RequestTypeOK, CallsOK, RequestOK
<1>3. PICK X : ch \in Batches(X)
  BY <1>2 DEF ChangesOK
<1>4. wrote[c] = NoWrites
  BY <1>1 DEF RequestTypeOK, WritesOK, Reading
<1>5. MyGroups(c) = groups /\ MyItems(c) = items
  BY <1>4, SeenAtFirst
<1>6. w.groups = <<>> /\ w.items = Restrict(n, S)
  BY DEF NoWrites
<1>7. ASSUME NEW i \in S
      PROVE  n[i] # Gone /\ n[i].columnId \in cols
  <2> DEFINE m == LastFor(ch, i)
  <2>1. m \in DOMAIN ch
    <3> HIDE DEF ch
    <3> QED  BY <1>3, LastForProperty
  <2>2. n[i] = [columnId |-> ch[m].newColumnId, groupId |-> ch[m].newGroupId,
                rowIndex |-> ch[m].newIndex]
    BY <1>1 DEF WrittenItems
  <2>3. ch[m].newColumnId \in cols
    BY <2>1 DEF ItemSyncColumns
  <2> HIDE DEF n, m, cols
  <2> QED  BY <2>2, <2>3, FullRows
<1>8. NoGroup \notin gs
  BY DEF ItemSyncGroups
<1> HIDE DEF ch, before, n, S, w, gs, cols, moves, r
<1>9. DOMAIN Restrict(n, S) = S /\ \A i \in S : Restrict(n, S)[i] = n[i]
  BY DEF Restrict
<1>10. Deleted(w.groups) = {} /\ Deleted(w.items) = {}
  BY <1>6, <1>7, <1>9, NothingWritten DEF Deleted
<1>11. /\ UNCHANGED tables /\ call'[c] = r
       /\ MyGroups(c)' = Over(w.groups, MyGroups(c))
       /\ MyItems(c)' = Over(w.items, MyItems(c))
  BY <1>1, <1>10, KeepingWriteSees
<1>12. /\ \A g \in DOMAIN w.groups : w.groups[g].columnId \in cols
       /\ \A i \in DOMAIN w.items : w.items[i].columnId \in cols
  BY <1>6, <1>7, <1>9, NothingWritten
<1>13. ASSUME NEW F
       PROVE  Repairs(call'[c], F, MyGroups(c)', MyItems(c)', groups, items)
  <2> DEFINE a == Over(w.groups, MyGroups(c))
             b == Over(w.items, MyItems(c))
             v == w.groups
             u == w.items
  <2>1. Spared(cols, F, <<>>, <<>>, groups, items, groups, items)
    BY SparedAtFirst
  <2>2. /\ \A g \in DOMAIN v : v[g].columnId \in cols
        /\ \A i \in DOMAIN u : u[i].columnId \in cols
        /\ a = Over(v, groups) /\ b = Over(u, items)
    BY <1>5, <1>12
  <2>3. MyGroups(c)' = a /\ MyItems(c)' = b
    BY <1>11
  <2> HIDE DEF a, b, u, v
  <2>4. Spared(cols, F, <<>>, <<>>, a, b, groups, items)
    BY <2>1, <2>2, SparedMore
  <2>5. Repairs(Normalizing(moves, NoMoves, gs, cols), F, a, b, groups, items)
    BY <1>8, <2>4, MendsFromHere
  <2> QED  BY <1>11, <2>3, <2>5 DEF r
<1> QED  BY <1>11, <1>13 DEF Maintains

\* After a change to a group, or to its cards: the next one or a normalisation.
LEMMA GoesOnSparing ==
    ASSUME NEW c, NEW F, NEW a, NEW b, NEW grs0, NEW its0,
           Spared(GroupSyncColumns(call[c].moves.changes, call[c].moves.before), F, <<>>, <<>>,
                  a, b, grs0, its0)
    PROVE  Repairs(NextChange(c), F, a, b, grs0, its0)
<1> DEFINE moves == call[c].moves
           cols == GroupSyncColumns(moves.changes, moves.before)
           next == [step |-> "NEXT_GROUP", next |-> call[c].next + 1, moves |-> moves]
<1>1. CASE call[c].next < Len(moves.changes)
  <2>1. NextChange(c) = next
    BY <1>1 DEF NextChange
  <2>2. next.step = "NEXT_GROUP" /\ next.moves = moves
    OBVIOUS
  <2> HIDE DEF next
  <2> QED  BY <2>1, <2>2 DEF Repairs
<1>2. CASE ~(call[c].next < Len(moves.changes))
  <2>1. NextChange(c) = Normalizing(NoMoves, moves, {}, cols)
    BY <1>2 DEF NextChange
  <2>2. Spared(cols, F, <<>>, <<>>, a, b, grs0, its0)
    OBVIOUS
  <2> HIDE DEF cols, moves
  <2>3. Repairs(Normalizing(NoMoves, moves, {}, cols), F, a, b, grs0, its0)
    BY <2>2, MendsFromHere
  <2> QED  BY <2>1, <2>3
<1> QED  BY <1>1, <1>2

LEMMA SyncGroupsRepairs ==
    ASSUME RequestTypeOK, NEW c \in Calls, SyncGroupsUpdate(c)
    PROVE  Maintains(c)
<1> DEFINE q == call[c]
           moves == q.moves
           ch == moves.changes
           before == moves.before
           k == q.next
           g == ch[k].id
           row == [columnId |-> ch[k].newColumnId, orderIndex |-> ch[k].newIndex]
           new == [h \in {g} |-> row]
           w == [NoWrites EXCEPT !.groups = new]
           carries == before[g].columnId # ch[k].newColumnId
           found == Members(g, MyItems(c))
           carry == [step |-> "CARRY_ITEMS", next |-> k, moves |-> moves, found |-> found]
           r == IF carries THEN carry ELSE NextChange(c)
           R == GroupSyncColumns(ch, before)
           a == Over(new, MyGroups(c))
           b == MyItems(c)
<1>1. q.step \in {"SYNC_GROUPS", "NEXT_GROUP"} /\ Write(c, w, r)
  BY DEF SyncGroupsUpdate
<1>2. k \in DOMAIN ch
  BY <1>1 DEF RequestTypeOK, CallsOK, RequestOK
<1>3. row.columnId \in R
  BY <1>2 DEF GroupSyncColumns
<1>4. w.groups = new /\ w.items = <<>> /\ DOMAIN new = {g} /\ new[g] = row
  BY DEF NoWrites
<1>5. row # Gone
  BY FullRows
<1>6. carry.step = "CARRY_ITEMS" /\ carry.moves = moves
  OBVIOUS
<1> HIDE DEF w, new, row
<1>7. Deleted(w.groups) = {} /\ Deleted(w.items) = {}
  BY <1>4, <1>5, NothingWritten DEF Deleted
<1>8. /\ UNCHANGED tables /\ call'[c] = r
      /\ MyGroups(c)' = Over(w.groups, MyGroups(c))
      /\ MyItems(c)' = Over(w.items, MyItems(c))
  <2> HIDE DEF r
  <2> QED  BY <1>1, <1>7, KeepingWriteSees
<1>9. MyGroups(c)' = a /\ MyItems(c)' = b
  <2>1. IsTable(MyItems(c))
    BY TablesAreFunctions
  <2> QED  BY <1>4, <1>8, <2>1, OverNothing, NothingWritten
<1>10. ASSUME NEW F, Repairs(q, F, MyGroups(c), MyItems(c), groups, items)
       PROVE  Repairs(r, F, a, b, groups, items)
  <2>1. Spared(R, F, <<>>, <<>>, MyGroups(c), MyItems(c), groups, items)
    <3>1. CASE q.step = "SYNC_GROUPS"
      <4>1. wrote[c] = NoWrites
        BY <3>1 DEF RequestTypeOK, WritesOK, Reading
      <4> QED  BY <4>1, SeenAtFirst, SparedAtFirst
    <3>2. CASE q.step = "NEXT_GROUP"
      BY <1>10, <3>2 DEF Repairs
    <3> QED  BY <1>1, <3>1, <3>2
  <2>2. Spared(R, F, <<>>, <<>>, a, b, groups, items)
    <3> DEFINE grs == MyGroups(c)
               none == <<>>
    <3>1. /\ \A h \in DOMAIN new : new[h].columnId \in R
          /\ a = Over(new, grs)
      BY <1>3, <1>4
    <3>2. (\A i \in DOMAIN none : none[i].columnId \in R) /\ b = Over(none, b)
      <4>1. IsTable(MyItems(c))
        BY TablesAreFunctions
      <4> QED  BY <4>1, OverNothing, NothingWritten
    <3>3. Spared(R, F, <<>>, <<>>, grs, b, groups, items)
      BY <2>1
    <3> HIDE DEF grs, a, b, R, none
    <3> QED  BY <3>1, <3>2, <3>3, SparedMore
  <2> HIDE DEF a, b
  <2>3. CASE carries
    <3>1. r = carry
      BY <2>3
    <3> HIDE DEF carry, r
    <3> QED  BY <1>6, <2>2, <3>1 DEF Repairs
  <2>4. CASE ~carries
    <3>1. r = NextChange(c)
      BY <2>4
    <3>2. Repairs(NextChange(c), F, a, b, groups, items)
      BY <2>2, GoesOnSparing
    <3> HIDE DEF r
    <3> QED  BY <3>1, <3>2
  <2> QED  BY <2>3, <2>4
<1> HIDE DEF a, b, r
<1> QED  BY <1>8, <1>9, <1>10 DEF Maintains

LEMMA CarryRepairs ==
    ASSUME RequestTypeOK, NEW c \in Calls, SyncGroupsCarry(c)
    PROVE  Maintains(c)
<1> DEFINE q == call[c]
           moves == q.moves
           ch == moves.changes
           before == moves.before
           k == q.next
           g == ch[k].id
           its == MyItems(c)
           S == q.found \cap Members(g, its)
           new == [i \in S |-> [its[i] EXCEPT !.columnId = ch[k].newColumnId]]
           w == [NoWrites EXCEPT !.items = new]
           R == GroupSyncColumns(ch, before)
           a == MyGroups(c)
           b == Over(new, its)
<1>1. q.step = "CARRY_ITEMS" /\ Write(c, w, NextChange(c))
  BY DEF SyncGroupsCarry
<1>2. k \in DOMAIN ch
  BY <1>1 DEF RequestTypeOK, CallsOK, RequestOK
<1>3. ch[k].newColumnId \in R
  BY <1>2 DEF GroupSyncColumns
<1>4. /\ w.groups = <<>> /\ w.items = new
      /\ DOMAIN new = S
      /\ \A i \in S : new[i] = [its[i] EXCEPT !.columnId = ch[k].newColumnId]
  BY DEF NoWrites
<1>5. ItemTable(its, DOMAIN MyColumns(c), DOMAIN MyGroups(c)) /\ IsTable(MyGroups(c))
  BY MyTables, TablesAreFunctions DEF TypedTables
<1>6. ASSUME NEW i \in S PROVE new[i] # Gone /\ new[i].columnId \in R
  <2>1. i \in DOMAIN its
    BY DEF Members
  <2> HIDE DEF its, new, S, R
  <2>2. its[i] \in [columnId : DOMAIN MyColumns(c), groupId : {NoGroup} \cup DOMAIN MyGroups(c),
                    rowIndex : Nat]
    BY <1>5, <2>1 DEF ItemTable
  <2>3. [its[i] EXCEPT !.columnId = ch[k].newColumnId]
          = [columnId |-> ch[k].newColumnId, groupId |-> its[i].groupId,
             rowIndex |-> its[i].rowIndex]
    BY <2>2
  <2> QED  BY <1>3, <1>4, <2>3, FullRows
<1> HIDE DEF w, new, S
<1>7. Deleted(w.groups) = {} /\ Deleted(w.items) = {}
  BY <1>4, <1>6, NothingWritten DEF Deleted
<1>8. /\ UNCHANGED tables /\ call'[c] = NextChange(c)
      /\ MyGroups(c)' = Over(w.groups, MyGroups(c))
      /\ MyItems(c)' = Over(w.items, MyItems(c))
  BY <1>1, <1>7, KeepingWriteSees
<1>9. MyGroups(c)' = a /\ MyItems(c)' = b
  BY <1>4, <1>5, <1>8, OverNothing, NothingWritten
<1>10. ASSUME NEW F, Repairs(q, F, MyGroups(c), MyItems(c), groups, items)
       PROVE  Repairs(NextChange(c), F, a, b, groups, items)
  <2>1. Spared(R, F, <<>>, <<>>, a, its, groups, items)
    BY <1>1, <1>10 DEF Repairs
  <2>2. Spared(R, F, <<>>, <<>>, a, b, groups, items)
    <3> DEFINE none == <<>>
    <3>1. /\ \A i \in DOMAIN new : new[i].columnId \in R
          /\ b = Over(new, its)
      BY <1>4, <1>6
    <3>2. (\A h \in DOMAIN none : none[h].columnId \in R) /\ a = Over(none, a)
      BY <1>5, OverNothing, NothingWritten
    <3> HIDE DEF a, b, R, none, its
    <3> QED  BY <2>1, <3>1, <3>2, SparedMore
  <2> HIDE DEF a, b
  <2> QED  BY <2>2, GoesOnSparing
<1> HIDE DEF a, b
<1> QED  BY <1>8, <1>9, <1>10 DEF Maintains

LEMMA UngroupRepairs ==
    ASSUME RequestTypeOK, NEW c \in Calls, UngroupWrite(c)
    PROVE  Maintains(c)
<1> DEFINE r == Normalizing(NoMoves, NoMoves, {}, {call[c].old.columnId})
<1>1. UNCHANGED tables /\ call'[c] = r
  BY DEF UngroupWrite, Write, GoOn, RequestTypeOK, CallsOK
<1> HIDE DEF r
<1>2. ASSUME NEW F PROVE Repairs(call'[c], F, MyGroups(c)', MyItems(c)', groups, items)
  <2> DEFINE a == MyGroups(c)'
             b == MyItems(c)'
             cols == {call[c].old.columnId}
  <2>1. call'[c] = Normalizing(NoMoves, NoMoves, {}, cols)
    BY <1>1 DEF r
  <2> HIDE DEF a, b, cols
  <2>2. Repairs(Normalizing(NoMoves, NoMoves, {}, cols), F, a, b, groups, items)
    BY MendsFromHere
  <2> QED  BY <2>1, <2>2 DEF a, b
<1> QED  BY <1>1, <1>2 DEF Maintains

-----------------------------------------------------------------------------
(* Calls that overlap: the normalisation.                                  *)

\* Entries found in the second plan are in the first, with the same index.
SamePlan(gi, ii, grs, its, gj, ij, a, b) ==
    \A col : \A k \in KeysIn(col, a, b) :
        /\ k \in KeysIn(col, grs, its)
        /\ Planned(k, gj, ij, a, b) = Planned(k, gi, ii, grs, its)

LEMMA PlanKept ==
    ASSUME NEW gi, NEW ii, NEW grs, NEW its, NEW gj, NEW ij, NEW a, NEW b,
           SamePlan(gi, ii, grs, its, gj, ij, a, b), NEW F
    PROVE  /\ \A S : Settled(S, F, gi, ii, grs, its) => Settled(S, F, gj, ij, a, b)
           /\ \A R, grs0, its0 : Spared(R, F, gi, ii, grs, its, grs0, its0)
                                    => Spared(R, F, gj, ij, a, b, grs0, its0)
<1>1. \A S : Settled(S, F, gi, ii, grs, its) => Settled(S, F, gj, ij, a, b)
  BY DEF Settled, SamePlan
<1>2. \A R, grs0, its0 : Spared(R, F, gi, ii, grs, its, grs0, its0)
                            => Spared(R, F, gj, ij, a, b, grs0, its0)
  BY DEF Spared, SamePlan
<1> QED  BY <1>1, <1>2

\* What was planned is written.
LEMMA PlanWritten ==
    ASSUME NEW gi, NEW ii, NEW grs, NEW its, NEW C, NEW G,
           GroupTable(grs, C), ItemTable(its, C, G),
           DOMAIN gi \subseteq DOMAIN grs, DOMAIN ii \subseteq DOMAIN its,
           NEW a, a = IndexedGroups(gi, grs), NEW b, b = IndexedItems(ii, its)
    PROVE  /\ SamePlan(gi, ii, grs, its, <<>>, <<>>, a, b)
           /\ \A k, col : k \in KeysIn(col, a, b) =>
                    IndexIn(k, a, b) = Planned(k, gi, ii, grs, its)
<1>1. a = [g \in DOMAIN grs |-> IF g \in DOMAIN gi THEN [grs[g] EXCEPT !.orderIndex = gi[g]]
                                ELSE grs[g]]
  BY DEF IndexedGroups, Over
<1>2. b = [i \in DOMAIN its |-> IF i \in DOMAIN ii THEN [its[i] EXCEPT !.rowIndex = ii[i]]
                                ELSE its[i]]
  BY DEF IndexedItems, Over
<1>3. ASSUME NEW col, NEW k \in KeysIn(col, a, b)
      PROVE  /\ k \in KeysIn(col, grs, its)
             /\ IndexIn(k, a, b) = Planned(k, gi, ii, grs, its)
  <2>1. CASE \E i \in RootItems(col, b) : k = <<"ITEM", i>>
    <3>1. PICK i \in RootItems(col, b) : k = <<"ITEM", i>>
      BY <2>1
    <3>2. /\ i \in DOMAIN its
          /\ its[i] \in [columnId : C, groupId : G \cup {NoGroup}, rowIndex : Nat]
      BY <1>2, <3>1 DEF RootItems, ItemTable
    <3>3. /\ b[i].columnId = its[i].columnId /\ b[i].groupId = its[i].groupId
          /\ b[i].rowIndex = IF i \in DOMAIN ii THEN ii[i] ELSE its[i].rowIndex
      BY <1>2, <3>2
    <3>4. i \in RootItems(col, its)
      BY <3>1, <3>2, <3>3 DEF RootItems
    <3>5. k[1] = "ITEM" /\ k[2] = i
      BY <3>1
    <3> QED  BY <3>1, <3>3, <3>4, <3>5, KeysAreRows DEF IndexIn, Planned
  <2>2. CASE \E g \in GroupsOf(col, a) : k = <<"GROUP", g>>
    <3>1. PICK g \in GroupsOf(col, a) : k = <<"GROUP", g>>
      BY <2>2
    <3>2. g \in DOMAIN grs /\ grs[g] \in [columnId : C, orderIndex : Nat]
      BY <1>1, <3>1 DEF GroupsOf, GroupTable
    <3>3. /\ a[g].columnId = grs[g].columnId
          /\ a[g].orderIndex = IF g \in DOMAIN gi THEN gi[g] ELSE grs[g].orderIndex
      BY <1>1, <3>2
    <3>4. g \in GroupsOf(col, grs)
      BY <3>1, <3>2, <3>3 DEF GroupsOf
    <3>5. k[1] # "ITEM" /\ k[2] = g
      BY <3>1
    <3> QED  BY <3>1, <3>3, <3>4, <3>5, KeysAreRows DEF IndexIn, Planned
  <2> QED  BY <1>3, <2>1, <2>2, KeysAreRows
<1> QED  BY <1>3, NothingPlanned DEF SamePlan

\* The tables as a statement of the normalisation finds them, and their plan.
LEMMA PlanSoFar ==
    ASSUME RequestTypeOK, NEW c \in Calls, call[c].step = "NORMALIZE", RowsAreThere(c),
           NEW a, a = IndexedGroups(call[c].groupIndex, MyGroups(c)),
           NEW b, b = IndexedItems(call[c].itemIndex, MyItems(c))
    PROVE  /\ SamePlan(call[c].groupIndex, call[c].itemIndex, MyGroups(c), MyItems(c),
                       <<>>, <<>>, a, b)
           /\ \A k, col : k \in KeysIn(col, a, b) => IndexIn(k, a, b)
                = Planned(k, call[c].groupIndex, call[c].itemIndex, MyGroups(c), MyItems(c))
<1> DEFINE grs == MyGroups(c)
           its == MyItems(c)
           gi == call[c].groupIndex
           ii == call[c].itemIndex
           C == DOMAIN MyColumns(c)
           G == DOMAIN MyGroups(c)
<1>1. GroupTable(grs, C) /\ ItemTable(its, C, G)
  BY MyTables DEF TypedTables
<1>2. DOMAIN gi \subseteq DOMAIN grs /\ DOMAIN ii \subseteq DOMAIN its
  BY DEF RowsAreThere
<1>3. a = IndexedGroups(gi, grs) /\ b = IndexedItems(ii, its)
  OBVIOUS
<1> HIDE DEF grs, its, gi, ii, C, G
<1>4. /\ SamePlan(gi, ii, grs, its, <<>>, <<>>, a, b)
      /\ \A k, col : k \in KeysIn(col, a, b) =>
                    IndexIn(k, a, b) = Planned(k, gi, ii, grs, its)
  BY <1>1, <1>2, <1>3, PlanWritten
<1> QED  BY <1>4 DEF grs, its, gi, ii

LEMMA WrittenSoFar ==
    ASSUME RequestTypeOK, NEW c \in Calls, call[c].step = "NORMALIZE", RowsAreThere(c),
           NEW r, Write(c, Renumbering(c), r),
           NEW a, a = IndexedGroups(call[c].groupIndex, MyGroups(c)),
           NEW b, b = IndexedItems(call[c].itemIndex, MyItems(c))
    PROVE  /\ UNCHANGED tables /\ call'[c] = r
           /\ MyGroups(c)' = a /\ MyItems(c)' = b
           /\ RenumberedItems(c) = b
<1> DEFINE w == Renumbering(c)
           X == DOMAIN MyColumns(c)
           Y == {NoGroup} \cup DOMAIN MyGroups(c)
<1>1. Plain(w, Boards, X, Y)
  BY RenumberingPlain
<1> HIDE DEF w, X, Y
<1>2. /\ UNCHANGED tables /\ call'[c] = r
      /\ MyGroups(c)' = Over(w.groups, MyGroups(c))
      /\ MyItems(c)' = Over(w.items, MyItems(c))
  <2>1. Write(c, w, r)
    BY DEF w
  <2> QED  BY <1>1, <2>1, WriteSees
<1> QED  BY <1>2, RenumberedSo DEF w

\* The cards of a group are no entries of a column.
LEMMA MembersPlanned ==
    ASSUME NEW g, g # NoGroup, NEW a, NEW b, NEW rank, DOMAIN rank = Members(g, b)
    PROVE  SamePlan(<<>>, <<>>, a, b, <<>>, rank, a, b)
<1> SUFFICES ASSUME NEW col, NEW k \in KeysIn(col, a, b)
             PROVE  Planned(k, <<>>, rank, a, b) = Planned(k, <<>>, <<>>, a, b)
  BY DEF SamePlan
<1>1. CASE \E i \in RootItems(col, b) : k = <<"ITEM", i>>
  <2>1. PICK i \in RootItems(col, b) : k = <<"ITEM", i>>
    BY <1>1
  <2>2. i \notin DOMAIN rank
    BY <2>1 DEF RootItems, Members
  <2>3. k[1] = "ITEM" /\ k[2] = i
    BY <2>1
  <2> QED  BY <2>2, <2>3, NothingWritten DEF Planned
<1>2. CASE \E h \in GroupsOf(col, a) : k = <<"GROUP", h>>
  <2>1. k[1] # "ITEM"
    BY <1>2
  <2> QED  BY <2>1 DEF Planned
<1> QED  BY <1>1, <1>2, KeysAreRows

LEMMA ReadMembersRepairs ==
    ASSUME RequestTypeOK, NEW c \in Calls, ReadMembers(c)
    PROVE  Maintains(c)
<1> DEFINE its == RenumberedItems(c)
           q == call[c]
           a == IndexedGroups(q.groupIndex, MyGroups(c))
           b == IndexedItems(q.itemIndex, MyItems(c))
<1>1. q.step = "NORMALIZE" /\ RowsAreThere(c) /\ NormalizingOK(q)
  BY DEF ReadMembers, RequestTypeOK, CallsOK, RequestOK
<1>2. PICK g \in q.groups :
            Write(c, Renumbering(c),
                  [q EXCEPT !.groups = @ \ {g}, !.groupIndex = <<>>,
                            !.itemIndex = [i \in Members(g, its) |-> MemberRank(i, its)]])
  BY DEF ReadMembers
<1> HIDE DEF its
<1> DEFINE rank == [i \in Members(g, its) |-> MemberRank(i, its)]
           left == q.groups \ {g}
           r == WithGroups(q, left, <<>>, rank)
<1>3. Write(c, Renumbering(c), r)
  BY <1>2 DEF WithGroups
<1>4. DOMAIN rank = Members(g, its)
  OBVIOUS
<1> HIDE DEF r, rank
<1>5. /\ UNCHANGED tables /\ call'[c] = r
      /\ MyGroups(c)' = a /\ MyItems(c)' = b /\ RenumberedItems(c) = b
  BY <1>1, <1>3, WrittenSoFar
<1>6. r = Normalization(q.itemMoves, q.groupMoves, left, q.columns, q.renumbers, <<>>, rank)
  <2> DEFINE none == <<>>
  <2>1. NormalizingOK(q) /\ r = WithGroups(q, left, none, rank)
    BY <1>1 DEF r
  <2> HIDE DEF q, none, left
  <2>2. r = Normalization(q.itemMoves, q.groupMoves, left, q.columns, q.renumbers, none, rank)
    BY <2>1, NormalizingGoesOn
  <2> QED  BY <2>2 DEF none
<1>7. /\ r.step = "NORMALIZE" /\ r.columns = q.columns /\ r.groups = q.groups \ {g}
      /\ r.renumbers = q.renumbers
      /\ r.itemMoves = q.itemMoves /\ r.groupMoves = q.groupMoves
      /\ r.groupIndex = <<>> /\ r.itemIndex = rank
  BY <1>6 DEF Normalization
<1>8. SamePlan(q.groupIndex, q.itemIndex, MyGroups(c), MyItems(c), <<>>, <<>>, a, b)
  BY <1>1, PlanSoFar
<1>9. DOMAIN rank = Members(g, b)
  BY <1>4, <1>5 DEF its
<1> HIDE DEF a, b
<1>10. ASSUME NEW F, Repairs(q, F, MyGroups(c), MyItems(c), groups, items)
       PROVE  Repairs(r, F, a, b, groups, items)
  <2>1. Mends(q, q.columns, F, q.groupIndex, q.itemIndex, MyGroups(c), MyItems(c),
              groups, items)
    BY <1>1, <1>10 DEF Repairs
  <2>2. g # NoGroup /\ q.columns \subseteq q.renumbers /\ NoGroup \notin q.groups
    BY <2>1 DEF Mends
  <2>3. SamePlan(<<>>, <<>>, a, b, <<>>, rank, a, b)
    BY <1>9, <2>2, MembersPlanned
  <2>4. Settled(q.renumbers \ q.columns, F, <<>>, rank, a, b)
    <3> DEFINE S == q.renumbers \ q.columns
               none == <<>>
    <3>1. Settled(S, F, q.groupIndex, q.itemIndex, MyGroups(c), MyItems(c))
      BY <2>1 DEF Mends
    <3>2. Settled(S, F, <<>>, <<>>, a, b)
      BY <1>8, <3>1, PlanKept
    <3>3. Settled(S, F, <<>>, rank, a, b)
      BY <2>3, <3>2, PlanKept
    <3> QED  BY <3>3
  <2>5. IsSync(q) => Spared(q.renumbers, F, <<>>, rank, a, b, groups, items)
    <3>1. IsSync(q) => Spared(q.renumbers, F, q.groupIndex, q.itemIndex,
                              MyGroups(c), MyItems(c), groups, items)
      BY <2>1 DEF Mends
    <3>2. IsSync(q) => Spared(q.renumbers, F, <<>>, <<>>, a, b, groups, items)
      BY <1>8, <3>1, PlanKept
    <3> QED  BY <2>3, <3>2, PlanKept
  <2>6. Mends(r, r.columns, F, r.groupIndex, r.itemIndex, a, b, groups, items)
    BY <1>7, <2>2, <2>4, <2>5 DEF Mends, IsSync
  <2> QED  BY <1>7, <2>6 DEF Repairs
<1> QED  BY <1>5, <1>10 DEF Maintains

LEMMA ReadRootItemsRepairs ==
    ASSUME RequestTypeOK, NEW c \in Calls, ReadRootItems(c)
    PROVE  Maintains(c)
<1> DEFINE its == RenumberedItems(c)
           q == call[c]
           a == IndexedGroups(q.groupIndex, MyGroups(c))
           b == IndexedItems(q.itemIndex, MyItems(c))
<1>1. q.step = "NORMALIZE" /\ RowsAreThere(c) /\ NormalizingOK(q)
  BY DEF ReadRootItems, RequestTypeOK, CallsOK, RequestOK
<1>2. PICK col \in q.columns :
            Write(c, Renumbering(c),
                  [step |-> "ROOT_GROUPS", column |-> col,
                   items |-> Restrict(its, RootItems(col, its)),
                   normalizing |-> [q EXCEPT !.columns = @ \ {col},
                                             !.groupIndex = <<>>, !.itemIndex = <<>>]])
  BY DEF ReadRootItems
<1> HIDE DEF its
<1> DEFINE rows == Restrict(its, RootItems(col, its))
           left == q.columns \ {col}
           next == WithColumns(q, left, <<>>, <<>>)
           r == [step |-> "ROOT_GROUPS", column |-> col, items |-> rows, normalizing |-> next]
<1>3. Write(c, Renumbering(c), r)
  BY <1>2 DEF WithColumns
<1>4. DOMAIN rows = RootItems(col, its)
  BY DEF Restrict
<1> HIDE DEF next, left, rows
<1>5. /\ r.step = "ROOT_GROUPS" /\ r.column = col /\ r.items = rows /\ r.normalizing = next
  OBVIOUS
<1> HIDE DEF r
<1>6. /\ UNCHANGED tables /\ call'[c] = r
      /\ MyGroups(c)' = a /\ MyItems(c)' = b /\ RenumberedItems(c) = b
  BY <1>1, <1>3, WrittenSoFar
<1>7. next = Normalization(q.itemMoves, q.groupMoves, q.groups, left, q.renumbers, <<>>, <<>>)
  <2> DEFINE none == <<>>
  <2>1. NormalizingOK(q) /\ next = WithColumns(q, left, none, none)
    BY <1>1 DEF next
  <2> HIDE DEF q, none
  <2>2. next = Normalization(q.itemMoves, q.groupMoves, q.groups, left, q.renumbers, none, none)
    BY <2>1, NormalizingGoesOn
  <2> QED  BY <2>2 DEF none
<1>8. /\ next.groups = q.groups /\ next.columns = left /\ next.renumbers = q.renumbers
      /\ next.itemMoves = q.itemMoves /\ next.groupMoves = q.groupMoves
  BY <1>7 DEF Normalization
<1>9. left \cup {col} = q.columns
  BY DEF left
<1>10. SamePlan(q.groupIndex, q.itemIndex, MyGroups(c), MyItems(c), <<>>, <<>>, a, b)
  BY <1>1, PlanSoFar
<1>11. \A i : i \in DOMAIN r.items <=> i \in RootItems(r.column, b)
  BY <1>4, <1>5, <1>6 DEF its
<1> HIDE DEF a, b
<1>12. ASSUME NEW F, Repairs(q, F, MyGroups(c), MyItems(c), groups, items)
       PROVE  Repairs(r, F, a, b, groups, items)
  <2>1. Mends(q, q.columns, F, q.groupIndex, q.itemIndex, MyGroups(c), MyItems(c),
              groups, items)
    BY <1>1, <1>12 DEF Repairs
  <2>2. Settled(q.renumbers \ q.columns, F, <<>>, <<>>, a, b)
    <3> DEFINE S == q.renumbers \ q.columns
    <3>1. Settled(S, F, q.groupIndex, q.itemIndex, MyGroups(c), MyItems(c))
      BY <2>1 DEF Mends
    <3> QED  BY <1>10, <3>1, PlanKept
  <2>3. IsSync(q) => Spared(q.renumbers, F, <<>>, <<>>, a, b, groups, items)
    <3>1. IsSync(q) => Spared(q.renumbers, F, q.groupIndex, q.itemIndex,
                              MyGroups(c), MyItems(c), groups, items)
      BY <2>1 DEF Mends
    <3> QED  BY <1>10, <3>1, PlanKept
  <2>4. Mends(next, q.columns, F, <<>>, <<>>, a, b, groups, items)
    BY <1>8, <2>1, <2>2, <2>3 DEF Mends, IsSync
  <2> QED  BY <1>5, <1>8, <1>9, <1>11, <2>4 DEF Repairs
<1> QED  BY <1>6, <1>12 DEF Maintains

-----------------------------------------------------------------------------
(* Calls that overlap: the renumbering of a column, and the commit.        *)

\* The places of the cards its and of the groups of a column.
RootPlan(col, a, its, gm, im, gi, ii) ==
    LET S == RootEntries(col, a, its, gm, im) IN
    /\ IsFiniteSet(S)
    /\ \A i \in DOMAIN its : its[i].columnId = col /\ its[i].groupId = NoGroup
    /\ DOMAIN gi = GroupsOf(col, a)
    /\ \A g \in GroupsOf(col, a) : gi[g] = Place(GroupEntry(g, a, gm), S)
    /\ DOMAIN ii = DOMAIN its
    /\ \A i \in DOMAIN its : ii[i] = Place(ItemEntry(i, its, im), S)

\* The cards its are those of the column.
ListsRoot(col, its, F, b) ==
    \A i : <<"ITEM", i>> \notin F => (i \in DOMAIN its <=> i \in RootItems(col, b))

PlansRoot(col, F, gi, ii, a, b) ==
    /\ \A k, l \in KeysIn(col, a, b) \ F :
        Planned(k, gi, ii, a, b) = Planned(l, gi, ii, a, b) => k = l
    /\ \A other : other # col => \A k \in KeysIn(other, a, b) \ F :
        Planned(k, gi, ii, a, b) = Planned(k, <<>>, <<>>, a, b)

\* The entries of the column being renumbered get distinct places, and those
\* of other columns are left alone.
LEMMA RootsPlanned ==
    ASSUME NEW col, NEW a, NEW b, NEW its, NEW gm, NEW im,
           NEW gi, NEW ii, RootPlan(col, a, its, gm, im, gi, ii),
           NEW F, ListsRoot(col, its, F, b)
    PROVE  PlansRoot(col, F, gi, ii, a, b)
<1> DEFINE S == RootEntries(col, a, its, gm, im)
<1>0. /\ IsFiniteSet(S)
      /\ \A i \in DOMAIN its : its[i].columnId = col /\ its[i].groupId = NoGroup
      /\ DOMAIN gi = GroupsOf(col, a)
      /\ \A g \in GroupsOf(col, a) : gi[g] = Place(GroupEntry(g, a, gm), S)
      /\ DOMAIN ii = DOMAIN its
      /\ \A i \in DOMAIN its : ii[i] = Place(ItemEntry(i, its, im), S)
      /\ \A i : <<"ITEM", i>> \notin F => (i \in DOMAIN its <=> i \in RootItems(col, b))
  BY DEF RootPlan, ListsRoot
<1> DEFINE entry(k) == IF k[1] = "ITEM" THEN ItemEntry(k[2], its, im)
                       ELSE GroupEntry(k[2], a, gm)
<1>1. /\ \A i \in DOMAIN its : ItemEntry(i, its, im) \in S
      /\ \A g \in GroupsOf(col, a) : GroupEntry(g, a, gm) \in S
  BY <1>0 DEF RootEntries, RootItems
<1> HIDE DEF S
<1>2. ASSUME NEW k \in KeysIn(col, a, b) \ F
      PROVE  /\ entry(k) \in S /\ Planned(k, gi, ii, a, b) = Place(entry(k), S)
             /\ entry(k).id = k[2] /\ entry(k).type = IF k[1] = "ITEM" THEN 0 ELSE 1
             /\ k = <<IF k[1] = "ITEM" THEN "ITEM" ELSE "GROUP", k[2]>>
  <2>1. CASE \E i \in RootItems(col, b) : k = <<"ITEM", i>>
    <3>1. PICK i \in RootItems(col, b) : k = <<"ITEM", i>>
      BY <2>1
    <3>2. i \in DOMAIN its /\ k[1] = "ITEM" /\ k[2] = i
      BY <1>0, <3>1
    <3> QED  BY <1>0, <1>1, <3>1, <3>2 DEF Planned, ItemEntry
  <2>2. CASE \E g \in GroupsOf(col, a) : k = <<"GROUP", g>>
    <3>1. PICK g \in GroupsOf(col, a) : k = <<"GROUP", g>>
      BY <2>2
    <3>2. k[1] # "ITEM" /\ k[2] = g
      BY <3>1
    <3> QED  BY <1>0, <1>1, <3>1, <3>2 DEF Planned, GroupEntry
  <2> QED  BY <2>1, <2>2, KeysAreRows
<1>3. \A e, f \in S : Place(e, S) = Place(f, S) => e = f
  BY <1>0, PlaceProperty
<1> HIDE DEF entry
<1>4. ASSUME NEW k \in KeysIn(col, a, b) \ F, NEW l \in KeysIn(col, a, b) \ F,
             Planned(k, gi, ii, a, b) = Planned(l, gi, ii, a, b)
      PROVE  k = l
  <2>1. entry(k) = entry(l)
    BY <1>2, <1>3, <1>4
  <2>2. k[2] = l[2] /\ (k[1] = "ITEM" <=> l[1] = "ITEM")
    BY <1>2, <2>1
  <2> QED  BY <1>2, <2>2
<1>5. ASSUME NEW other, other # col, NEW k \in KeysIn(other, a, b) \ F
      PROVE  Planned(k, gi, ii, a, b) = Planned(k, <<>>, <<>>, a, b)
  <2>1. CASE \E i \in RootItems(other, b) : k = <<"ITEM", i>>
    <3>1. PICK i \in RootItems(other, b) : k = <<"ITEM", i>>
      BY <2>1
    <3>2. i \notin DOMAIN ii /\ k[1] = "ITEM" /\ k[2] = i
      BY <1>0, <1>5, <3>1 DEF RootItems
    <3> QED  BY <3>2, NothingWritten DEF Planned
  <2>2. CASE \E g \in GroupsOf(other, a) : k = <<"GROUP", g>>
    <3>1. PICK g \in GroupsOf(other, a) : k = <<"GROUP", g>>
      BY <2>2
    <3>2. g \notin DOMAIN gi /\ k[1] # "ITEM" /\ k[2] = g
      BY <1>0, <1>5, <3>1 DEF GroupsOf
    <3> QED  BY <3>2, NothingWritten DEF Planned
  <2> QED  BY <1>5, <2>1, <2>2, KeysAreRows
<1> QED  BY <1>4, <1>5 DEF PlansRoot

LEMMA ReadRootGroupsRepairs ==
    ASSUME RequestTypeOK, NEW c \in Calls, ReadRootGroups(c)
    PROVE  Maintains(c)
<1> DEFINE col == call[c].column
           its == call[c].items
           a == MyGroups(c)
           b == MyItems(c)
           next == call[c].normalizing
           im == ItemMarks(next, its)
           gm == GroupMarks(next, a)
           S == RootEntries(col, a, its, gm, im)
           gi == [g \in GroupsOf(col, a) |-> Place(GroupEntry(g, a, gm), S)]
           ii == [i \in DOMAIN its |-> Place(ItemEntry(i, its, im), S)]
           r == WithIndexes(next, gi, ii)
<1>1. call[c].step = "ROOT_GROUPS" /\ Statement(c, r)
  BY DEF ReadRootGroups, WithIndexes, ItemMarks, GroupMarks
<1>2. /\ NormalizingOK(next)
      /\ IsFiniteSet(DOMAIN its)
      /\ \A i \in DOMAIN its : its[i].columnId = col /\ its[i].groupId = NoGroup
  BY <1>1 DEF RequestTypeOK, CallsOK, RequestOK
<1>3. IsFiniteSet(DOMAIN a)
  BY MyTables DEF FiniteTables
<1> HIDE DEF gm, im
<1>4. IsFiniteSet(S)
  <2> HIDE DEF a, its, col
  <2> QED  BY <1>2, <1>3, RootEntriesFinite
<1>5. /\ DOMAIN gi = GroupsOf(col, a)
      /\ \A g \in GroupsOf(col, a) : gi[g] = Place(GroupEntry(g, a, gm), S)
      /\ DOMAIN ii = DOMAIN its
      /\ \A i \in DOMAIN its : ii[i] = Place(ItemEntry(i, its, im), S)
  OBVIOUS
<1>6. RootPlan(col, a, its, gm, im, gi, ii)
  BY <1>2, <1>4, <1>5 DEF RootPlan
<1> HIDE DEF r, gi, ii, S
<1>7. /\ UNCHANGED tables /\ call'[c] = r /\ wrote' = wrote
      /\ MyGroups(c)' = a /\ MyItems(c)' = b
  <2>1. UNCHANGED tables /\ call'[c] = r /\ wrote' = wrote
    BY <1>1 DEF Statement, GoOn, RequestTypeOK, CallsOK
  <2> QED  BY <2>1 DEF MyGroups, MyItems, tables
<1>8. r = Normalization(next.itemMoves, next.groupMoves, next.groups, next.columns,
                        next.renumbers, gi, ii)
  <2> HIDE DEF next
  <2> QED  BY <1>2, NormalizingGoesOn DEF r
<1>9. /\ r.step = "NORMALIZE" /\ r.columns = next.columns /\ r.groups = next.groups
      /\ r.renumbers = next.renumbers
      /\ r.itemMoves = next.itemMoves /\ r.groupMoves = next.groupMoves
      /\ r.groupIndex = gi /\ r.itemIndex = ii
  BY <1>8 DEF Normalization
<1>10. ASSUME NEW F, Repairs(call[c], F, a, b, groups, items)
       PROVE  Repairs(r, F, a, b, groups, items)
  <2>1. /\ Mends(next, next.columns \cup {col}, F, <<>>, <<>>, a, b, groups, items)
        /\ \A i : <<"ITEM", i>> \notin F => (i \in DOMAIN its <=> i \in RootItems(col, b))
    BY <1>1, <1>10 DEF Repairs
  <2> HIDE DEF a, b, next, its, col
  <2>2. /\ \A k, l \in KeysIn(col, a, b) \ F :
                Planned(k, gi, ii, a, b) = Planned(l, gi, ii, a, b) => k = l
        /\ \A other : other # col => \A k \in KeysIn(other, a, b) \ F :
                Planned(k, gi, ii, a, b) = Planned(k, <<>>, <<>>, a, b)
    <3>1. ListsRoot(col, its, F, b)
      BY <2>1 DEF ListsRoot
    <3>2. PlansRoot(col, F, gi, ii, a, b)
      BY <1>6, <3>1, RootsPlanned
    <3> QED  BY <3>2 DEF PlansRoot
  <2>3. /\ NoGroup \notin next.groups
        /\ next.columns \cup {col} \subseteq next.renumbers
        /\ Settled(next.renumbers \ (next.columns \cup {col}), F, <<>>, <<>>, a, b)
        /\ IsSync(next) => Spared(next.renumbers, F, <<>>, <<>>, a, b, groups, items)
    BY <2>1 DEF Mends
  <2>4. Settled(next.renumbers \ next.columns, F, gi, ii, a, b)
    <3> SUFFICES ASSUME NEW d \in next.renumbers \ next.columns,
                        NEW k \in KeysIn(d, a, b) \ F, NEW l \in KeysIn(d, a, b) \ F,
                        Planned(k, gi, ii, a, b) = Planned(l, gi, ii, a, b)
                 PROVE  k = l
      BY DEF Settled
    <3>1. CASE d = col
      BY <2>2, <3>1
    <3>2. CASE d # col
      <4>1. d \in next.renumbers \ (next.columns \cup {col})
        BY <3>2
      <4>2. Planned(k, <<>>, <<>>, a, b) = Planned(l, <<>>, <<>>, a, b)
        BY <2>2, <3>2
      <4> QED  BY <2>3, <4>1, <4>2 DEF Settled
    <3> QED  BY <3>1, <3>2
  <2>5. IsSync(next) => Spared(next.renumbers, F, gi, ii, a, b, groups, items)
    <3> SUFFICES ASSUME IsSync(next), NEW d, d \notin next.renumbers,
                        NEW k \in KeysIn(d, a, b) \ F
                 PROVE  /\ k \in KeysIn(d, groups, items)
                        /\ Planned(k, gi, ii, a, b) = IndexIn(k, groups, items)
      BY DEF Spared
    <3>1. d # col
      BY <2>3
    <3>2. Planned(k, gi, ii, a, b) = Planned(k, <<>>, <<>>, a, b)
      BY <2>2, <3>1
    <3> QED  BY <2>3, <3>2 DEF Spared
  <2>6. Mends(r, r.columns, F, r.groupIndex, r.itemIndex, a, b, groups, items)
    BY <1>9, <2>3, <2>4, <2>5 DEF Mends, IsSync
  <2> QED  BY <1>9, <2>6 DEF Repairs
<1> HIDE DEF a, b
<1> QED  BY <1>7, <1>10 DEF Maintains, a, b

\* Ahead of the normalisation, and after it, nothing is required.
Vacant(r) == r.step \notin {"NEXT_GROUP", "CARRY_ITEMS", "NORMALIZE", "ROOT_GROUPS"}

LEMMA VacantRepairs ==
    ASSUME NEW r, Vacant(r), NEW F, NEW grs, NEW its, NEW grs0, NEW its0
    PROVE  Repairs(r, F, grs, its, grs0, its0)
BY DEF Vacant, Repairs

LEMMA FinishVacant ==
    ASSUME RequestTypeOK, NEW c \in Calls, Finish(c)
    PROVE  Vacant(call'[c])
BY DEF Finish, GoOn, Vacant, Idle, RequestTypeOK, CallsOK

LEMMA ReadVacant ==
    ASSUME RequestTypeOK, NEW c \in Calls, Read(c)
    PROVE  Vacant(call'[c])
<1>0. CallsOK
  BY DEF RequestTypeOK
<1>1. ASSUME NEW b, CreateColumnRead(c, b) PROVE Vacant(call'[c])
  BY <1>0, <1>1 DEF CreateColumnRead, Begin, Statement, GoOn, Vacant, CallsOK
<1>2. ASSUME NEW col, CreateGroupRead(c, col) PROVE Vacant(call'[c])
  BY <1>0, <1>2 DEF CreateGroupRead, Begin, Statement, GoOn, Vacant, CallsOK
<1>3. ASSUME NEW col, NEW g, AddItemCheck(c, col, g) PROVE Vacant(call'[c])
  BY <1>0, <1>3 DEF AddItemCheck, Begin, Statement, GoOn, Vacant, CallsOK
<1>4. ASSUME NEW b, NEW old, NEW new, ReorderRead(c, b, old, new) PROVE Vacant(call'[c])
  <2>1. PICK s \in InOrder(b) :
            Begin(c, [step |-> "REORDER", order |-> SplicedColumns(s, old, new)])
    BY <1>4 DEF ReorderRead
  <2> QED  BY <1>0, <2>1 DEF Begin, Statement, GoOn, Vacant, CallsOK
<1>5. ASSUME NEW ch, SyncItemsRead(c, ch) PROVE Vacant(call'[c])
  BY <1>0, <1>5 DEF SyncItemsRead, Begin, Statement, GoOn, Vacant, CallsOK
<1>6. ASSUME NEW ch, SyncGroupsRead(c, ch) PROVE Vacant(call'[c])
  BY <1>0, <1>6 DEF SyncGroupsRead, Begin, Statement, GoOn, Vacant, CallsOK
<1>7. ASSUME NEW col, DeleteColumnRead(c, col) PROVE Vacant(call'[c])
  BY <1>0, <1>7 DEF DeleteColumnRead, Begin, Statement, GoOn, Vacant, CallsOK
<1>8. ASSUME NEW g, DeleteGroupRead(c, g) PROVE Vacant(call'[c])
  BY <1>0, <1>8 DEF DeleteGroupRead, Begin, Statement, GoOn, Vacant, CallsOK
<1> QED  BY <1>1, <1>2, <1>3, <1>4, <1>5, <1>6, <1>7, <1>8 DEF Read

LEMMA TransactRepairs ==
    ASSUME RequestTypeOK, NEW c \in Calls, Transact(c)
    PROVE  Maintains(c) \/ Vacant(call'[c])
<1>0. CallsOK
  BY DEF RequestTypeOK
<1>1. CASE \/ CreateColumnInsert(c) \/ CreateGroupInsert(c) \/ AddItemInsert(c)
           \/ ReorderWrite(c) \/ DeleteColumnDecrement(c) \/ CommitOrder(c) \/ Abort(c)
  <2>1. Finish(c)
    BY <1>1 DEF CreateColumnInsert, CreateGroupInsert, AddItemInsert, ReorderWrite,
                DeleteColumnDecrement, CommitOrder, Commit, Abort
  <2> QED  BY <2>1, FinishVacant
<1>2. CASE AddItemFindItems(c)
  BY <1>0, <1>2 DEF AddItemFindItems, Statement, GoOn, Vacant, CallsOK
<1>3. CASE AddItemFindGroups(c)
  BY <1>0, <1>3 DEF AddItemFindGroups, Write, GoOn, Vacant, CallsOK
<1>4. CASE DeleteColumnDelete(c)
  BY <1>0, <1>4 DEF DeleteColumnDelete, Write, GoOn, Vacant, CallsOK
<1>5. CASE UngroupReadItems(c) \/ UngroupReadGroups(c) \/ UngroupReadMembers(c)
  BY <1>0, <1>5 DEF UngroupReadItems, UngroupReadGroups, UngroupReadMembers, Statement, GoOn,
                    Vacant, CallsOK
<1>6. CASE SyncItemsUpdate(c) \/ SyncGroupsUpdate(c) \/ SyncGroupsCarry(c)
  BY <1>6, SyncItemsRepairs, SyncGroupsRepairs, CarryRepairs
<1>7. CASE UngroupWrite(c)
  BY <1>7, UngroupRepairs
<1>8. CASE ReadMembers(c) \/ ReadRootItems(c) \/ ReadRootGroups(c)
  BY <1>8, ReadMembersRepairs, ReadRootItemsRepairs, ReadRootGroupsRepairs
<1> QED  BY <1>1, <1>2, <1>3, <1>4, <1>5, <1>6, <1>7, <1>8 DEF Transact

LEMMA InitRepairInv == RequestInit => RepairInv
<1> SUFFICES ASSUME RequestInit PROVE RepairInv
  OBVIOUS
<1>1. \A c \in Calls : Vacant(call[c])
  BY DEF RequestInit, Vacant, Idle
<1> QED  BY <1>1, VacantRepairs, InitRequestTypeOK DEF RepairInv

\* What is set apart for c grows by what a step commits, unless nothing is required.
LEMMA SetApart ==
    ASSUME RequestNext, NEW c \in Calls, ~Vacant(call'[c])
    PROVE  foreign'[c] = foreign[c] \cup Touched
BY DEF RequestNext, Vacant, Sorting

LEMMA TouchesNothing ==
    ASSUME UNCHANGED tables
    PROVE  Touched = {}
BY DEF tables, Touched, Changed

\* The acting call keeps its part of the invariant, and so do the others.
LEMMA ActingRepairs ==
    ASSUME RequestNext, NEW c \in Calls, Maintains(c) \/ Vacant(call'[c]),
           Repairs(call[c], foreign[c], MyGroups(c), MyItems(c), groups, items)
    PROVE  Repairs(call[c], foreign[c], MyGroups(c), MyItems(c), groups, items)'
<1>1. CASE Vacant(call'[c])
  BY <1>1, VacantRepairs
<1>2. CASE Maintains(c) /\ ~Vacant(call'[c])
  <2>1. groups' = groups /\ items' = items /\ Touched = {}
    BY <1>2, TouchesNothing DEF Maintains, tables
  <2>2. foreign'[c] = foreign[c]
    BY <1>2, <2>1, SetApart
  <2>3. Repairs(call'[c], foreign[c], MyGroups(c)', MyItems(c)', groups, items)
    BY <1>2 DEF Maintains
  <2> QED  BY <2>1, <2>2, <2>3
<1> QED  BY <1>1, <1>2

LEMMA OthersRepair ==
    ASSUME RequestNext, NEW d \in Calls, call'[d] = call[d], wrote'[d] = wrote[d],
           Repairs(call[d], foreign[d], MyGroups(d), MyItems(d), groups, items)
    PROVE  Repairs(call[d], foreign[d], MyGroups(d), MyItems(d), groups, items)'
<1>1. CASE Vacant(call'[d])
  BY <1>1, VacantRepairs
<1>2. CASE ~Vacant(call'[d])
  <2> DEFINE F == foreign[d]
             F2 == foreign'[d]
             v == wrote[d].groups
             w == wrote[d].items
  <2>1. F2 = F \cup Touched
    BY <1>2, SetApart
  <2>2. SameBut(F2, groups, items, groups', items')
    BY <2>1, TouchedRows
  <2>3. /\ MyGroups(d) = Seen(groups, v) /\ MyItems(d) = Seen(items, w)
        /\ MyGroups(d)' = Seen(groups', v) /\ MyItems(d)' = Seen(items', w)
    BY DEF MyGroups, MyItems
  <2>4. F \subseteq F2
    BY <2>1
  <2> HIDE DEF F, F2, v, w
  <2>5. SameBut(F2, MyGroups(d), MyItems(d), MyGroups(d)', MyItems(d)')
    BY <2>2, <2>3, SeesTheSame
  <2>6. Repairs(call[d], F, MyGroups(d), MyItems(d), groups, items)
    BY DEF F
  <2>7. Repairs(call[d], F2, MyGroups(d)', MyItems(d)', groups', items')
    BY <2>2, <2>4, <2>5, <2>6, RepairsElsewhere
  <2> QED  BY <2>7 DEF F2
<1> QED  BY <1>1, <1>2

\* A call in flight writes its own part of call and wrote.
LEMMA OnlyItsOwn ==
    ASSUME RequestTypeOK, NEW c \in Calls, Read(c) \/ Transact(c), NEW d \in Calls, d # c
    PROVE  call'[d] = call[d] /\ wrote'[d] = wrote[d]
<1> DEFINE Own == /\ \E r : GoOn(c, r)
                  /\ wrote' = wrote \/ \E w : wrote' = [wrote EXCEPT ![c] = w]
<1>1. ASSUME NEW r, Statement(c, r) PROVE Own
  BY <1>1 DEF Statement
<1>2. ASSUME NEW r, NEW w, Write(c, w, r) PROVE Own
  BY <1>2 DEF Write
<1>3. Finish(c) => Own
  BY DEF Finish
<1> HIDE DEF Own
<1>4. \A w : Commit(c, w) => Own
  BY <1>3 DEF Commit
<1>5. Read(c) => Own
  BY <1>1 DEF Read, CreateColumnRead, CreateGroupRead, AddItemCheck, ReorderRead, SyncItemsRead,
              SyncGroupsRead, DeleteColumnRead, DeleteGroupRead, Begin
<1>6. ASSUME \/ CreateColumnInsert(c) \/ CreateGroupInsert(c) \/ AddItemInsert(c)
             \/ ReorderWrite(c) \/ DeleteColumnDecrement(c) \/ CommitOrder(c) \/ Abort(c)
      PROVE  Own
  <2>1. Finish(c)
    BY <1>6 DEF CreateColumnInsert, CreateGroupInsert, AddItemInsert, ReorderWrite,
                DeleteColumnDecrement, CommitOrder, Commit, Abort
  <2> QED  BY <1>3, <2>1
<1>7. AddItemFindItems(c) => Own
  BY <1>1 DEF AddItemFindItems
<1>8. UngroupReadItems(c) => Own
  BY <1>1 DEF UngroupReadItems
<1>9. UngroupReadGroups(c) => Own
  BY <1>1 DEF UngroupReadGroups
<1>10. UngroupReadMembers(c) => Own
  BY <1>1 DEF UngroupReadMembers
<1>11. ReadRootGroups(c) => Own
  BY <1>1 DEF ReadRootGroups
<1>12. AddItemFindGroups(c) => Own
  BY <1>2 DEF AddItemFindGroups
<1>13. SyncItemsUpdate(c) => Own
  BY <1>2 DEF SyncItemsUpdate
<1>14. SyncGroupsUpdate(c) => Own
  BY <1>2 DEF SyncGroupsUpdate
<1>15. SyncGroupsCarry(c) => Own
  BY <1>2 DEF SyncGroupsCarry
<1>16. DeleteColumnDelete(c) => Own
  BY <1>2 DEF DeleteColumnDelete
<1>17. UngroupWrite(c) => Own
  BY <1>2 DEF UngroupWrite
<1>18. ReadMembers(c) \/ ReadRootItems(c) => Own
  BY <1>2 DEF ReadMembers, ReadRootItems
<1>19. Own
  BY <1>5, <1>6, <1>7, <1>8, <1>9, <1>10, <1>11, <1>12, <1>13, <1>14, <1>15, <1>16, <1>17, <1>18
     DEF Transact
<1> QED  BY <1>19 DEF Own, GoOn, RequestTypeOK, CallsOK, WritesOK

LEMMA NextRepairInv == RepairInv /\ [RequestNext]_requestVars => RepairInv'
<1> SUFFICES ASSUME RepairInv, [RequestNext]_requestVars PROVE RepairInv'
  OBVIOUS
<1>1. RequestTypeOK /\ RequestTypeOK'
  BY NextRequestTypeOK DEF RepairInv
<1>2. ASSUME NEW d \in Calls
      PROVE  Repairs(call[d], foreign[d], MyGroups(d), MyItems(d), groups, items)'
  <2>0. Repairs(call[d], foreign[d], MyGroups(d), MyItems(d), groups, items)
    BY DEF RepairInv
  <2>1. CASE UNCHANGED requestVars
    <3>1. /\ call' = call /\ wrote' = wrote /\ groups' = groups /\ items' = items
          /\ foreign' = foreign
      BY <2>1 DEF requestVars
    <3>2. MyGroups(d)' = MyGroups(d) /\ MyItems(d)' = MyItems(d)
      BY <3>1 DEF MyGroups, MyItems
    <3> QED  BY <2>0, <3>1, <3>2
  <2>2. CASE RequestNext
    <3>1. PICK c \in lanes : Read(c) \/ Transact(c) \/ SingleStatement(c)
      BY <2>2 DEF RequestNext
    <3>2. c \in Calls
      BY <1>1 DEF RequestTypeOK, CallsOK
    <3>3. CASE SingleStatement(c)
      <4>1. call'[d] = call[d] /\ wrote'[d] = wrote[d]
        BY <3>3 DEF SingleStatement
      <4> QED  BY <2>0, <2>2, <4>1, OthersRepair
    <3>4. CASE Read(c) \/ Transact(c)
      <4>1. CASE d = c
        <5>1. Maintains(d) \/ Vacant(call'[d])
          BY <1>1, <3>4, <4>1, ReadVacant, TransactRepairs
        <5> QED  BY <2>0, <2>2, <5>1, ActingRepairs
      <4>2. CASE d # c
        <5>1. call'[d] = call[d] /\ wrote'[d] = wrote[d]
          BY <1>1, <3>2, <3>4, <4>2, OnlyItsOwn
        <5> QED  BY <2>0, <2>2, <5>1, OthersRepair
      <4> QED  BY <4>1, <4>2
    <3> QED  BY <3>1, <3>3, <3>4
  <2> QED  BY <2>1, <2>2
<1> QED  BY <1>1, <1>2 DEF RepairInv

\* What a normalisation leaves, in the words of SyncRepairsOrder.
Repaired(c) ==
    \A col \in DOMAIN columns :
        \A k, l \in RootKeys(col)' \ foreign[c] :
            k # l /\ IndexOf(k)' = IndexOf(l)' =>
                /\ col \notin call[c].renumbers
                /\ call[c].itemMoves # NoMoves \/ call[c].groupMoves # NoMoves =>
                    /\ {k, l} \subseteq RootKeys(col)
                    /\ IndexOf(k) = IndexOf(l)

LEMMA CommitRepairs ==
    ASSUME RepairInv, NEW c \in Calls, CommitOrder(c)
    PROVE  Repaired(c)
<1> DEFINE q == call[c]
           w == Renumbering(c)
           X == DOMAIN MyColumns(c)
           Y == {NoGroup} \cup DOMAIN MyGroups(c)
           F == foreign[c]
           grs == MyGroups(c)
           its == MyItems(c)
           gi == q.groupIndex
           ii == q.itemIndex
           a == IndexedGroups(gi, grs)
           b == IndexedItems(ii, its)
<1>0. RequestTypeOK /\ Repairs(q, F, grs, its, groups, items)
  BY DEF RepairInv
<1>1. q.step = "NORMALIZE" /\ RowsAreThere(c) /\ Commit(c, w) /\ q.columns = {}
  BY DEF CommitOrder
<1>2. Over(w.groups, MyGroups(c)) = a /\ Over(w.items, MyItems(c)) = b
  BY <1>0, <1>1, RenumberedSo
<1>3. Plain(w, Boards, X, Y)
  BY <1>0, <1>1, RenumberingPlain
<1>4. /\ SamePlan(gi, ii, grs, its, <<>>, <<>>, a, b)
      /\ \A k, col : k \in KeysIn(col, a, b) => IndexIn(k, a, b) = Planned(k, gi, ii, grs, its)
  BY <1>0, <1>1, PlanSoFar
<1>5. groups' = a /\ items' = b
  <2> HIDE DEF q, w, X, Y, a, b
  <2> QED  BY <1>0, <1>1, <1>2, <1>3, CommitSees
<1>6. /\ Settled(q.renumbers, F, gi, ii, grs, its)
      /\ IsSync(q) => Spared(q.renumbers, F, gi, ii, grs, its, groups, items)
  <2>1. Mends(q, {}, F, gi, ii, grs, its, groups, items)
    BY <1>0, <1>1 DEF Repairs
  <2>2. q.renumbers \ {} = q.renumbers
    OBVIOUS
  <2> HIDE DEF q, F, gi, ii, grs, its
  <2> QED  BY <2>1, <2>2 DEF Mends
<1>7. /\ \A col : RootKeys(col)' = KeysIn(col, a, b) /\ RootKeys(col) = KeysIn(col, groups, items)
      /\ \A k : IndexOf(k)' = IndexIn(k, a, b) /\ IndexOf(k) = IndexIn(k, groups, items)
  <2>1. \A col : RootKeys(col)' = KeysIn(col, groups', items')
    BY DEF RootKeys, KeysIn
  <2>2. \A k : IndexOf(k)' = IndexIn(k, groups', items')
    BY DEF IndexOf, IndexIn
  <2>3. /\ \A col : RootKeys(col) = KeysIn(col, groups, items)
        /\ \A k : IndexOf(k) = IndexIn(k, groups, items)
    BY DEF RootKeys, KeysIn, IndexOf, IndexIn
  <2> QED  BY <1>5, <2>1, <2>2, <2>3
<1> HIDE DEF F, grs, its, gi, ii, a, b
<1>8. ASSUME NEW col \in DOMAIN columns, NEW k \in RootKeys(col)' \ F, NEW l \in RootKeys(col)' \ F,
             k # l, IndexOf(k)' = IndexOf(l)'
      PROVE  /\ col \notin q.renumbers
             /\ q.itemMoves # NoMoves \/ q.groupMoves # NoMoves =>
                    /\ {k, l} \subseteq RootKeys(col)
                    /\ IndexOf(k) = IndexOf(l)
  <2>1. /\ k \in KeysIn(col, a, b) /\ l \in KeysIn(col, a, b)
        /\ IndexIn(k, a, b) = IndexIn(l, a, b)
    BY <1>7, <1>8
  <2>2. /\ Planned(k, gi, ii, grs, its) = Planned(l, gi, ii, grs, its)
        /\ k \in KeysIn(col, grs, its) \ F /\ l \in KeysIn(col, grs, its) \ F
    BY <1>4, <2>1 DEF SamePlan
  <2>3. col \notin q.renumbers
    BY <1>6, <1>8, <2>2 DEF Settled
  <2>4. ASSUME IsSync(q)
        PROVE  /\ k \in KeysIn(col, groups, items) /\ l \in KeysIn(col, groups, items)
               /\ IndexIn(k, groups, items) = IndexIn(l, groups, items)
    BY <1>6, <2>2, <2>3, <2>4 DEF Spared
  <2>5. IsSync(q) => {k, l} \subseteq RootKeys(col) /\ IndexOf(k) = IndexOf(l)
    BY <1>7, <2>4
  <2> QED  BY <2>3, <2>5 DEF IsSync
<1> QED  BY <1>8 DEF Repaired, F

\* A sync or the deletion of a group leaves no double index among rows that no
\* other call writes meanwhile, in any column it renumbers, and a sync makes none
\* in the others, however the statements of overlapping transactions interleave.
THEOREM SyncsRepair == RequestSpec => SyncRepairsOrder
<1>1. RequestSpec => []RepairInv
  BY InitRepairInv, NextRepairInv, PTL DEF RequestSpec
<1>2. RepairInv => \A c \in Calls : CommitOrder(c) => Repaired(c)
  BY CommitRepairs
<1>3. RepairInv => [\A c \in Calls : CommitOrder(c) =>
        \A col \in DOMAIN columns :
            \A k, l \in RootKeys(col)' \ foreign[c] :
                k # l /\ IndexOf(k)' = IndexOf(l)' =>
                    /\ col \notin call[c].renumbers
                    /\ call[c].itemMoves # NoMoves \/ call[c].groupMoves # NoMoves =>
                        /\ {k, l} \subseteq RootKeys(col)
                        /\ IndexOf(k) = IndexOf(l)]_requestVars
  BY <1>2 DEF Repaired
<1> QED  BY <1>1, <1>3, PTL DEF SyncRepairsOrder
=============================================================================
