------------------------------ MODULE RetroBoard ------------------------------
(***************************************************************************)
(* The layout of retro boards, as RetroService keeps it in PostgreSQL:     *)
(* boards have ordered columns; the root of a column is one list in which  *)
(* ungrouped cards (by rowIndex) and groups (by orderIndex) share a single *)
(* index space; a group holds an ordered list of cards of its own.         *)
(*                                                                         *)
(* In this module a service call is one step: nothing runs between the     *)
(* rows it reads and the rows it writes.  Calls refused by an access check *)
(* or a validation change nothing and are not steps.  Names, colours,      *)
(* likes and comments are left out: no index depends on them.              *)
(***************************************************************************)
EXTENDS Integers, Sequences, FiniteSets, FiniteSetsExt

CONSTANTS
    DefaultColumns,  \* columns createBoard adds to a new board (3 in the code)
    MaxBoards,       \* bound: boards ever created
    MaxColumns,      \* bound: columns ever created
    MaxGroups,       \* bound: groups ever created
    MaxItems,        \* bound: cards ever created
    MaxIndex,        \* bound: largest index a client asks for
    MaxBatch,        \* bound: longest list of changes in one sync request
    RepeatedGroups   \* may one request name a group twice (the DTO lets it)

ASSUME BoundsAssumption ==
    /\ {DefaultColumns, MaxBoards, MaxColumns, MaxGroups, MaxItems,
        MaxIndex} \subseteq Nat
    /\ MaxBatch \in Nat \ {0}
    /\ RepeatedGroups \in BOOLEAN

VARIABLES
    lastId,   \* autoincrement counters: boards, columns, groups, items
    columns,  \* column id -> [boardId, orderIndex]
    groups,   \* group id  -> [columnId, orderIndex]
    items     \* item id   -> [columnId, groupId, rowIndex]

vars == <<lastId, columns, groups, items>>

NoGroup == 0  \* the null groupId: ids start at 1

-----------------------------------------------------------------------------
(* What the queries of the service select. *)

Boards == 1..lastId.board

ColumnsOf(b, cols) == {c \in DOMAIN cols : cols[c].boardId = b}

GroupsOf(c, grs) == {g \in DOMAIN grs : grs[g].columnId = c}

RootItems(c, its) ==
    {i \in DOMAIN its : its[i].columnId = c /\ its[i].groupId = NoGroup}

Members(g, its) == {i \in DOMAIN its : its[i].groupId = g}

\* The orders in use at the root of a column.
RootIndexes(c, grs, its) ==
    {grs[g].orderIndex : g \in GroupsOf(c, grs)}
        \cup {its[i].rowIndex : i \in RootItems(c, its)}

NextIndex(indexes) == IF indexes = {} THEN 0 ELSE Max(indexes) + 1

-----------------------------------------------------------------------------
(* Normalisation: the rewriting of indexes to 0, 1, 2, ...                 *)

MovedSwapped(hasOld, old, new, order) ==  \* mutant: the priorities swapped
    [priority |-> IF ~hasOld \/ old > new THEN 2
                  ELSE IF old < new THEN 0 ELSE 1,
     order    |-> order]

\* What a sort knows of an entry that the request moved: its tie-break
\* priority and its place (from 1) in the list of changes.
Unmoved == [priority |-> 1, order |-> 0]

Moved(hasOld, old, new, order) ==
    [priority |-> IF ~hasOld \/ old > new THEN 0
                  ELSE IF old < new THEN 2 ELSE 1,
     order    |-> order]

\* An item and a group that compare equal stay in the order in which the
\* code concatenates them: items first.
ItemEntry(i, its, mark) ==
    [type |-> 0, id |-> i, index |-> its[i].rowIndex, mark |-> mark[i]]

GroupEntry(g, grs, mark) ==
    [type |-> 1, id |-> g, index |-> grs[g].orderIndex, mark |-> mark[g]]

RootEntries(c, grs, its, groupMark, itemMark) ==
    {ItemEntry(i, its, itemMark) : i \in RootItems(c, its)}
        \cup {GroupEntry(g, grs, groupMark) : g \in GroupsOf(c, grs)}

PrecedesById(e, f) ==  \* mutant: the sort forgets the index
    e.id < f.id \/ (e.id = f.id /\ e.type < f.type)

\* e comes before f in the sort of normalizeColumnRootEntryOrder.
Precedes(e, f) ==
    \/ e.index < f.index
    \/ /\ e.index = f.index
       /\ \/ e.mark.priority < f.mark.priority
          \/ /\ e.mark.priority = f.mark.priority
             /\ LET bothMoved == e.mark.order # 0 /\ f.mark.order # 0 IN
                \/ bothMoved /\ e.mark.order < f.mark.order
                \/ ~bothMoved /\ e.id < f.id
                \/ ~bothMoved /\ e.id = f.id /\ e.type < f.type

Rank(e, S) == Cardinality({f \in S : Precedes(f, e)})

\* The place of e in the sorted list S.  The comparator contradicts itself when
\* two moved entries and one that did not move tie: then the order is up to the
\* engine.
Place(e, S) ==
    LET places == 0..Cardinality(S) - 1 IN
    IF {Rank(f, S) : f \in S} = places THEN Rank(e, S)
    ELSE (CHOOSE p \in Bijection(S, places) : TRUE)[e]

\* normalizeColumnRootEntryOrder on every column of cols: both tables, rewritten.
NormalizedRoots(cols, grs, its, groupMark, itemMark) ==
    LET place(c, e) == Place(e, RootEntries(c, grs, its, groupMark, itemMark)) IN
    [groups |-> [g \in DOMAIN grs |->
        IF grs[g].columnId \in cols
        THEN [grs[g] EXCEPT !.orderIndex =
                place(grs[g].columnId, GroupEntry(g, grs, groupMark))]
        ELSE grs[g]],
     items |-> [i \in DOMAIN its |->
        IF its[i].columnId \in cols /\ its[i].groupId = NoGroup
        THEN [its[i] EXCEPT !.rowIndex =
                place(its[i].columnId, ItemEntry(i, its, itemMark))]
        ELSE its[i]]]

\* The place of a card among the cards of its group, by (rowIndex, id).
MemberRank(i, its) ==
    Cardinality({j \in Members(its[i].groupId, its) :
                    \/ its[j].rowIndex < its[i].rowIndex
                    \/ its[j].rowIndex = its[i].rowIndex /\ j < i})

\* normalizeGroupItemsOrder on every group of gs.
NormalizedMembers(gs, its) ==
    [i \in DOMAIN its |->
        IF its[i].groupId \in gs
        THEN [its[i] EXCEPT !.rowIndex = MemberRank(i, its)]
        ELSE its[i]]

UnmovedMarks(rows) == [x \in DOMAIN rows |-> Unmoved]

-----------------------------------------------------------------------------
(* Sync requests: a list of changes, applied in order, then normalised.    *)

Batches(S) == UNION {[1..n -> S] : n \in 1..MaxBatch}

Named(ch) == {ch[n].id : n \in DOMAIN ch}

\* The position of the last change of x, the one its rows are left with.
LastFor(ch, x) == Max({n \in DOMAIN ch : ch[n].id = x})

\* Item changes: [id, newColumnId, newGroupId, newIndex].  before is the item
\* rows as read ahead of the transaction, its the rows it writes.
ItemMoveMarks(ch, before, its) ==
    [i \in DOMAIN its |->
        IF i \in Named(ch)
        THEN LET n == LastFor(ch, i)
                 hasOld == /\ before[i].columnId = ch[n].newColumnId
                           /\ before[i].groupId = NoGroup
             IN  Moved(hasOld, before[i].rowIndex, ch[n].newIndex, n)
        ELSE Unmoved]

WrittenItems(ch, its) ==
    [i \in DOMAIN its |->
        IF i \in Named(ch)
        THEN LET change == ch[LastFor(ch, i)] IN
             [columnId |-> change.newColumnId, groupId |-> change.newGroupId,
              rowIndex |-> change.newIndex]
        ELSE its[i]]

ItemSyncTargets(ch, before) ==  \* mutant: source columns are left out
    {ch[n].newColumnId : n \in DOMAIN ch}

ItemSyncColumns(ch, before) ==
    {before[i].columnId : i \in Named(ch)}
        \cup {ch[n].newColumnId : n \in DOMAIN ch}

ItemSyncSourceGroups(ch, before) ==  \* mutant: target groups are left out
    {before[i].groupId : i \in Named(ch)} \ {NoGroup}

ItemSyncGroups(ch, before) ==
    ({before[i].groupId : i \in Named(ch)}
        \cup {ch[n].newGroupId : n \in DOMAIN ch}) \ {NoGroup}

\* The transaction of syncItemPositions: both tables, rewritten.
ItemSync(ch, before, grs, its) ==
    NormalizedRoots(
        ItemSyncColumns(ch, before), grs,
        NormalizedMembers(ItemSyncGroups(ch, before), WrittenItems(ch, its)),
        UnmovedMarks(grs), ItemMoveMarks(ch, before, its))

\* Group changes: [id, newColumnId, newIndex].  before is the group rows as
\* read ahead of the transaction, grs the rows it writes.
GroupMoveMarks(ch, before, grs) ==
    [g \in DOMAIN grs |->
        IF g \in Named(ch)
        THEN LET n == LastFor(ch, g) IN
             Moved(before[g].columnId = ch[n].newColumnId,
                   before[g].orderIndex, ch[n].newIndex, n)
        ELSE Unmoved]

WrittenGroups(ch, grs) ==
    [g \in DOMAIN grs |->
        IF g \in Named(ch)
        THEN LET change == ch[LastFor(ch, g)] IN
             [columnId |-> change.newColumnId, orderIndex |-> change.newIndex]
        ELSE grs[g]]

\* The changes after which the code moves the cards of g along with it: those
\* to a column other than the one g was read in.
CarryingChanges(ch, g, before) ==
    {n \in DOMAIN ch : ch[n].id = g /\ before[g].columnId # ch[n].newColumnId}

LeftBehindItems(ch, before, its) == its  \* mutant: cards do not follow

CarriedItems(ch, before, its) ==
    [i \in DOMAIN its |->
        LET g == its[i].groupId IN
        IF g \in Named(ch) /\ CarryingChanges(ch, g, before) # {}
        THEN [its[i] EXCEPT !.columnId =
                ch[Max(CarryingChanges(ch, g, before))].newColumnId]
        ELSE its[i]]

GroupSyncColumns(ch, before) ==
    {before[g].columnId : g \in Named(ch)}
        \cup {ch[n].newColumnId : n \in DOMAIN ch}

\* The transaction of syncGroupPositions: both tables, rewritten.
GroupSync(ch, before, grs, its) ==
    NormalizedRoots(
        GroupSyncColumns(ch, before), WrittenGroups(ch, grs),
        CarriedItems(ch, before, its),
        GroupMoveMarks(ch, before, grs), UnmovedMarks(its))

-----------------------------------------------------------------------------
(* The other multi-row writes.                                             *)

\* The order of column c after its board's columns, sorted by orderIndex, had
\* the one at oldIndex taken out and put back at newIndex.
ReorderedIndex(c, oldIndex, newIndex, cols) ==
    LET place == Cardinality({d \in ColumnsOf(cols[c].boardId, cols) :
                                cols[d].orderIndex < cols[c].orderIndex})
    IN  IF place = oldIndex THEN newIndex
        ELSE IF oldIndex < place /\ place <= newIndex THEN place - 1
        ELSE IF newIndex <= place /\ place < oldIndex THEN place + 1
        ELSE place

UngroupAtEnd(old, siblings) == Cardinality(siblings)  \* mutant

\* insertAt: where the members of a deleted group are spliced in.
UngroupAt(old, siblings) ==
    IF old.orderIndex < Cardinality(siblings)
    THEN old.orderIndex ELSE Cardinality(siblings)

\* The transaction of deleteGroup up to its normalisation: the members of g
\* become root cards, spliced into the other entries of the column, and
\* everything there is renumbered.  old is the row of g as read ahead of the
\* transaction.
Ungrouped(g, old, grs, its) ==
    LET siblings == RootEntries(old.columnId, [h \in DOMAIN grs \ {g} |-> grs[h]],
                                its, UnmovedMarks(grs), UnmovedMarks(its))
        size     == Cardinality(Members(g, its))
        insertAt == UngroupAt(old, siblings)
        place(e) == LET r == Rank(e, siblings) IN
                    IF r < insertAt THEN r ELSE r + size
    IN  [groups |-> [h \in DOMAIN grs \ {g} |->
            IF grs[h].columnId = old.columnId
            THEN [grs[h] EXCEPT !.orderIndex =
                    place(GroupEntry(h, grs, UnmovedMarks(grs)))]
            ELSE grs[h]],
         items |-> [i \in DOMAIN its |->
            IF its[i].groupId = g
            THEN [its[i] EXCEPT !.groupId = NoGroup,
                                !.rowIndex = insertAt + MemberRank(i, its)]
            ELSE IF i \in RootItems(old.columnId, its)
            THEN [its[i] EXCEPT !.rowIndex =
                    place(ItemEntry(i, its, UnmovedMarks(its)))]
            ELSE its[i]]]

\* The transaction of deleteGroup.
GroupDeletion(g, old, grs, its) ==
    LET after == Ungrouped(g, old, grs, its) IN
    NormalizedRoots({old.columnId}, after.groups, after.items,
                    UnmovedMarks(after.groups), UnmovedMarks(after.items))

\* A new card enters at the top of the column root or of its group, whose
\* entries each move down by one.
GroupsNotShifted(c, g, grs) == grs  \* mutant: only the cards move down

GroupsBelowNewItem(c, g, grs) ==
    [h \in DOMAIN grs |->
        IF g = NoGroup /\ grs[h].columnId = c
        THEN [grs[h] EXCEPT !.orderIndex = @ + 1] ELSE grs[h]]

ItemsWithNewItem(new, c, g, its) ==
    [i \in DOMAIN its \cup {new} |->
        IF i = new THEN [columnId |-> c, groupId |-> g, rowIndex |-> 0]
        ELSE IF its[i].columnId = c /\ its[i].groupId = g
        THEN [its[i] EXCEPT !.rowIndex = @ + 1] ELSE its[i]]

\* DELETE of a column: the schema cascades to its groups and cards, and cards
\* elsewhere that point at one of those groups lose their groupId.
GroupsNotCascaded(c, grs) == grs  \* mutant: no ON DELETE CASCADE

GroupsWithoutColumn(c, grs) ==
    [g \in DOMAIN grs \ GroupsOf(c, grs) |-> grs[g]]

ItemsWithoutColumn(c, grs, its) ==
    [i \in {j \in DOMAIN its : its[j].columnId # c} |->
        IF its[i].groupId \in GroupsOf(c, grs)
        THEN [its[i] EXCEPT !.groupId = NoGroup] ELSE its[i]]

\* deleteColumn then closes the gap after the order old.orderIndex.
ColumnsWithoutOnAnyBoard(c, old, cols) ==  \* mutant: decrements on all boards
    [d \in DOMAIN cols \ {c} |->
        IF cols[d].orderIndex > old.orderIndex
        THEN [cols[d] EXCEPT !.orderIndex = @ - 1] ELSE cols[d]]

ColumnsWithout(c, old, cols) ==
    [d \in DOMAIN cols \ {c} |->
        IF cols[d].boardId = old.boardId /\ cols[d].orderIndex > old.orderIndex
        THEN [cols[d] EXCEPT !.orderIndex = @ - 1] ELSE cols[d]]

-----------------------------------------------------------------------------
(* The operations.                                                         *)

Init ==
    /\ lastId = [board |-> 0, column |-> 0, group |-> 0, item |-> 0]
    /\ columns = <<>>
    /\ groups = <<>>
    /\ items = <<>>

CreateBoard ==
    /\ lastId.board < MaxBoards
    /\ lastId.column + DefaultColumns <= MaxColumns
    /\ lastId' = [lastId EXCEPT !.board = @ + 1, !.column = @ + DefaultColumns]
    /\ columns' =
        [c \in DOMAIN columns \cup lastId.column + 1 .. lastId.column + DefaultColumns |->
            IF c \in DOMAIN columns THEN columns[c]
            ELSE [boardId |-> lastId.board + 1, orderIndex |-> c - lastId.column - 1]]
    /\ UNCHANGED <<groups, items>>

CreateColumn(b) ==
    /\ lastId.column < MaxColumns
    /\ lastId' = [lastId EXCEPT !.column = @ + 1]
    /\ columns' =
        [c \in DOMAIN columns \cup {lastId.column + 1} |->
            IF c \in DOMAIN columns THEN columns[c]
            ELSE [boardId |-> b,
                  orderIndex |-> NextIndex({columns[d].orderIndex :
                                              d \in ColumnsOf(b, columns)})]]
    /\ UNCHANGED <<groups, items>>

CreateGroup(c) ==
    /\ lastId.group < MaxGroups
    /\ lastId' = [lastId EXCEPT !.group = @ + 1]
    /\ groups' =
        [g \in DOMAIN groups \cup {lastId.group + 1} |->
            IF g \in DOMAIN groups THEN groups[g]
            ELSE [columnId |-> c,
                  orderIndex |-> NextIndex(RootIndexes(c, groups, items))]]
    /\ UNCHANGED <<columns, items>>

AddItemToColumn(c, g) ==
    /\ lastId.item < MaxItems
    /\ lastId' = [lastId EXCEPT !.item = @ + 1]
    /\ items' = ItemsWithNewItem(lastId.item + 1, c, g, items)
    /\ groups' = GroupsBelowNewItem(c, g, groups)
    /\ UNCHANGED columns

ReorderColumns(b, oldIndex, newIndex) ==
    /\ columns' =
        [c \in DOMAIN columns |->
            IF columns[c].boardId = b
            THEN [columns[c] EXCEPT !.orderIndex =
                    ReorderedIndex(c, oldIndex, newIndex, columns)]
            ELSE columns[c]]
    /\ UNCHANGED <<lastId, groups, items>>

\* The changes syncItemPositions accepts on board b.
ItemChanges(b) ==
    {change \in [id : {i \in DOMAIN items : columns[items[i].columnId].boardId = b},
                 newColumnId : ColumnsOf(b, columns),
                 newGroupId : {NoGroup} \cup DOMAIN groups,
                 newIndex : 0..MaxIndex] :
        \/ change.newGroupId = NoGroup
        \/ groups[change.newGroupId].columnId = change.newColumnId}

SyncItemPositions(ch) ==
    LET after == ItemSync(ch, items, groups, items) IN
    /\ groups' = after.groups
    /\ items' = after.items
    /\ UNCHANGED <<lastId, columns>>

\* The changes syncGroupPositions accepts on board b.
GroupChanges(b) ==
    [id : {g \in DOMAIN groups : columns[groups[g].columnId].boardId = b},
     newColumnId : ColumnsOf(b, columns),
     newIndex : 0..MaxIndex]

NamesOnce(ch) == \A m, n \in DOMAIN ch : ch[m].id = ch[n].id => m = n

SyncGroupPositions(ch) ==
    LET after == GroupSync(ch, groups, groups, items) IN
    /\ RepeatedGroups \/ NamesOnce(ch)
    /\ groups' = after.groups
    /\ items' = after.items
    /\ UNCHANGED <<lastId, columns>>

DeleteColumn(c) ==
    /\ columns' = ColumnsWithout(c, columns[c], columns)
    /\ groups' = GroupsWithoutColumn(c, groups)
    /\ items' = ItemsWithoutColumn(c, groups, items)
    /\ UNCHANGED lastId

DeleteGroup(g) ==
    LET after == GroupDeletion(g, groups[g], groups, items) IN
    /\ groups' = after.groups
    /\ items' = after.items
    /\ UNCHANGED <<lastId, columns>>

DeleteItem(i) ==
    /\ items' = [j \in DOMAIN items \ {i} |-> items[j]]
    /\ UNCHANGED <<lastId, columns, groups>>

Next ==
    \/ CreateBoard
    \/ \E b \in Boards : CreateColumn(b)
    \/ \E c \in DOMAIN columns : CreateGroup(c)
    \/ \E c \in DOMAIN columns : \E g \in {NoGroup} \cup GroupsOf(c, groups) :
            AddItemToColumn(c, g)
    \/ \E b \in Boards :
            \E old, new \in 0..Cardinality(ColumnsOf(b, columns)) - 1 :
                ReorderColumns(b, old, new)
    \/ \E b \in Boards : \E ch \in Batches(ItemChanges(b)) : SyncItemPositions(ch)
    \/ \E b \in Boards : \E ch \in Batches(GroupChanges(b)) : SyncGroupPositions(ch)
    \/ \E c \in DOMAIN columns : DeleteColumn(c)
    \/ \E g \in DOMAIN groups : DeleteGroup(g)
    \/ \E i \in DOMAIN items : DeleteItem(i)

Spec == Init /\ [][Next]_vars

-----------------------------------------------------------------------------
(* Invariants.                                                             *)

\* Every row has its type, and every foreign key its row.
TypeOK ==
    /\ lastId \in [board : Nat, column : Nat, group : Nat, item : Nat]
    /\ DOMAIN columns \subseteq 1..lastId.column
    /\ columns \in [DOMAIN columns -> [boardId : Boards, orderIndex : Nat]]
    /\ DOMAIN groups \subseteq 1..lastId.group
    /\ groups \in [DOMAIN groups -> [columnId : DOMAIN columns, orderIndex : Nat]]
    /\ DOMAIN items \subseteq 1..lastId.item
    /\ items \in [DOMAIN items -> [columnId : DOMAIN columns,
                                   groupId  : {NoGroup} \cup DOMAIN groups,
                                   rowIndex : Nat]]

\* The columns of a board are numbered 0, 1, 2, ...: reorderColumns takes the
\* indexes a client sees for positions in the sorted list.
ColumnOrderDense ==
    \A b \in Boards :
        LET cols == ColumnsOf(b, columns) IN
        {columns[c].orderIndex : c \in cols} = 0..Cardinality(cols) - 1

RootUniqueAt(c, grs, its) ==
    /\ \A g, h \in GroupsOf(c, grs) :
            grs[g].orderIndex = grs[h].orderIndex => g = h
    /\ \A i, j \in RootItems(c, its) :
            its[i].rowIndex = its[j].rowIndex => i = j
    /\ \A g \in GroupsOf(c, grs), i \in RootItems(c, its) :
            grs[g].orderIndex # its[i].rowIndex

\* Ungrouped cards and groups of a column never share an index: the list a
\* client draws has one order, and the tie-breaks of the sort stay an order.
RootOrderUnique == \A c \in DOMAIN columns : RootUniqueAt(c, groups, items)

\* Two cards of a group never share a row.
GroupOrderUnique ==
    \A g \in DOMAIN groups : \A i, j \in Members(g, items) :
        items[i].rowIndex = items[j].rowIndex => i = j

\* A grouped card is in the column of its group: the board query reads a
\* group's cards through the group, and every write of a card's group through
\* the column checks this beforehand.
GroupedItemsShareColumn ==
    \A g \in DOMAIN groups : \A i \in Members(g, items) :
        items[i].columnId = groups[g].columnId
=============================================================================
