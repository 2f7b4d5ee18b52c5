---------------------------- MODULE BoardRequests ----------------------------
(***************************************************************************)
(* The calls of RetroService on the layout of boards, statement by         *)
(* statement: a call reads rows, then runs a transaction at READ           *)
(* COMMITTED, the default of PostgreSQL, where each statement sees what    *)
(* other calls have committed by then and what its own transaction wrote.  *)
(* With one call at a time this implements RetroBoard, where a call is one *)
(* step; with two it shows what overlaps do to the order of a column.      *)
(*                                                                         *)
(* Every SELECT inside a transaction is a step of its own, and so is the   *)
(* search of an updateMany, which then takes the rows it found that still  *)
(* match.  An UPDATE or a DELETE by id locks rows and reads nothing, so it *)
(* may as well happen later in its transaction: a run of them is one step, *)
(* or part of the statement that follows.  A statement that meets a row    *)
(* locked by another call waits.  The reads ahead of a transaction are one *)
(* step, and the id of a row is that of the order of commits.              *)
(***************************************************************************)
EXTENDS RetroBoardOrder

CONSTANTS
    Calls,       \* bound: calls in flight at a time, a set
    MaxOverlaps  \* bound: how often a call begins while another is in flight

ASSUME RequestAssumption == IsFiniteSet(Calls) /\ MaxOverlaps \in Nat

VARIABLES
    call,      \* call in flight -> what it has read and is about to do
    wrote,     \* call in flight -> the rows its transaction has written
    lanes,     \* the calls that clients make: all of Calls, or one at a time
    overlaps,  \* how often a call has begun while another was in flight
    foreign    \* history: sync or deletion of a group in its transaction ->
               \* root entries that other calls have committed meanwhile

tables == <<lastId, columns, groups, items>>

requestVars == <<lastId, columns, groups, items, call, wrote, lanes, overlaps, foreign>>

Serial == \E c \in Calls : lanes = {c}

Idle == [step |-> "IDLE"]

-----------------------------------------------------------------------------
(* Transactions: the rows written and not yet committed.                   *)

Gone == [gone |-> TRUE]  \* what a DELETE leaves of a row

NoWrites == [columns |-> <<>>, groups |-> <<>>, items |-> <<>>]

Over(new, rows) ==
    [x \in DOMAIN new \cup DOMAIN rows |-> IF x \in DOMAIN new THEN new[x] ELSE rows[x]]

Deleted(written) == {x \in DOMAIN written : written[x] = Gone}

Kept(written) == DOMAIN written \ Deleted(written)

\* A table as its writer sees it.
Seen(rows, written) ==
    Restrict(Over(written, rows), (DOMAIN rows \cup DOMAIN written) \ Deleted(written))

MyColumns(c) == Seen(columns, wrote[c].columns)
MyGroups(c)  == Seen(groups, wrote[c].groups)
MyItems(c)   == Seen(items, wrote[c].items)

\* The rows that the foreign keys of w point at.
ColumnsReferredTo(w) ==
    {w.groups[g].columnId : g \in Kept(w.groups)}
        \cup {w.items[i].columnId : i \in Kept(w.items)}

GroupsReferredTo(w) == {w.items[i].groupId : i \in Kept(w.items)} \ {NoGroup}

\* v deletes no row that w refers to.
Keeps(v, w) ==
    /\ ColumnsReferredTo(w) \cap Deleted(v.columns) = {}
    /\ GroupsReferredTo(w) \cap Deleted(v.groups) = {}

\* Neither transaction waits for a lock of the other.
Apart(v, w) ==
    /\ DOMAIN v.columns \cap DOMAIN w.columns = {}
    /\ DOMAIN v.groups \cap DOMAIN w.groups = {}
    /\ DOMAIN v.items \cap DOMAIN w.items = {}
    /\ Keeps(v, w)
    /\ Keeps(w, v)

\* The rows that w names or refers to are there, and no other call holds one.
CanWrite(c, w) ==
    /\ DOMAIN w.columns \subseteq DOMAIN MyColumns(c)
    /\ DOMAIN w.groups \subseteq DOMAIN MyGroups(c)
    /\ DOMAIN w.items \subseteq DOMAIN MyItems(c)
    /\ ColumnsReferredTo(w) \subseteq DOMAIN MyColumns(c)
    /\ GroupsReferredTo(w) \subseteq DOMAIN MyGroups(c)
    /\ \A d \in Calls \ {c} : Apart(w, wrote[d])

\* A row is inserted that refers to column col and group g.
CanInsert(c, col, g) ==
    /\ col \in DOMAIN MyColumns(c)
    /\ g \in {NoGroup} \cup DOMAIN MyGroups(c)
    /\ \A d \in Calls \ {c} :
        /\ col \notin Deleted(wrote[d].columns)
        /\ g \notin Deleted(wrote[d].groups)

Written(c, w) ==
    [columns |-> Over(w.columns, wrote[c].columns),
     groups  |-> Over(w.groups, wrote[c].groups),
     items   |-> Over(w.items, wrote[c].items)]

GoOn(c, next) == call' = [call EXCEPT ![c] = next]

\* A statement of c reads, and next holds what it read.
Statement(c, next) == GoOn(c, next) /\ UNCHANGED <<tables, wrote>>

\* A statement of c writes w.
Write(c, w, next) ==
    /\ CanWrite(c, w)
    /\ wrote' = [wrote EXCEPT ![c] = Written(c, w)]
    /\ GoOn(c, next)
    /\ UNCHANGED tables

Finish(c) == GoOn(c, Idle) /\ wrote' = [wrote EXCEPT ![c] = NoWrites]

\* The last statement writes w, and the transaction commits.
Commit(c, w) ==
    /\ CanWrite(c, w)
    /\ columns' = Seen(columns, Written(c, w).columns)
    /\ groups' = Seen(groups, Written(c, w).groups)
    /\ items' = Seen(items, Written(c, w).items)
    /\ Finish(c)
    /\ UNCHANGED lastId

\* A row is gone, a lock comes too late (a deadlock, the timeout of an
\* interactive transaction), the database fails: nothing is written.
Abort(c) ==
    /\ call[c] # Idle
    /\ Finish(c)
    /\ UNCHANGED tables

RequestInit ==
    /\ Init
    /\ call = [c \in Calls |-> Idle]
    /\ wrote = [c \in Calls |-> NoWrites]
    /\ \/ lanes = Calls
       \/ \E c \in Calls : lanes = {c}
    /\ overlaps = 0
    /\ foreign = [c \in Calls |-> {}]

NoneInFlight == \A d \in Calls : call[d] = Idle

MayBegin(c) ==
    /\ call[c] = Idle
    /\ NoneInFlight \/ overlaps < MaxOverlaps

\* A call has read what it needs ahead of its transaction.
Begin(c, request) ==
    /\ Statement(c, request)
    /\ overlaps' = IF NoneInFlight THEN overlaps ELSE overlaps + 1

-----------------------------------------------------------------------------
(* createColumn: the last order is read, then a row inserted.              *)

CreateColumnRead(c, b) ==
    Begin(c, [step |-> "CREATE_COLUMN",
              row  |-> [boardId |-> b,
                        orderIndex |-> NextIndex({columns[d].orderIndex :
                                                    d \in ColumnsOf(b, columns)})]])

CreateColumnInsert(c) ==
    /\ call[c].step = "CREATE_COLUMN"
    /\ lastId.column < MaxColumns
    /\ lastId' = [lastId EXCEPT !.column = @ + 1]
    /\ columns' = [d \in DOMAIN columns \cup {lastId.column + 1} |->
                    IF d \in DOMAIN columns THEN columns[d] ELSE call[c].row]
    /\ Finish(c)
    /\ UNCHANGED <<groups, items>>

(* createGroup: likewise, at the root of a column.                         *)

CreateGroupReadGroups(c, col) ==  \* mutant: cards are not looked at
    Begin(c, [step |-> "CREATE_GROUP",
              row  |-> [columnId |-> col,
                        orderIndex |-> NextIndex({groups[g].orderIndex :
                                                    g \in GroupsOf(col, groups)})]])

CreateGroupRead(c, col) ==
    Begin(c, [step |-> "CREATE_GROUP",
              row  |-> [columnId |-> col,
                        orderIndex |-> NextIndex(RootIndexes(col, groups, items))]])

CreateGroupInsert(c) ==
    /\ call[c].step = "CREATE_GROUP"
    /\ CanInsert(c, call[c].row.columnId, NoGroup)
    /\ lastId.group < MaxGroups
    /\ lastId' = [lastId EXCEPT !.group = @ + 1]
    /\ groups' = [g \in DOMAIN groups \cup {lastId.group + 1} |->
                    IF g \in DOMAIN groups THEN groups[g] ELSE call[c].row]
    /\ Finish(c)
    /\ UNCHANGED <<columns, items>>

-----------------------------------------------------------------------------
(* addItemToColumn: the group is looked up in the column; in the           *)
(* transaction, an updateMany moves the cards down, another, at the root,  *)
(* the groups, and the new card is inserted above them.                    *)

AddItemCheck(c, col, g) ==
    Begin(c, [step |-> "ADD_ITEM", column |-> col, group |-> g])

CardsBeside(col, g, its) == {i \in Members(g, its) : its[i].columnId = col}

AddItemFindItems(c) ==
    LET col == call[c].column
        g   == call[c].group
    IN  /\ call[c].step = "ADD_ITEM"
        /\ Statement(c, [step |-> IF g = NoGroup THEN "ADD_ITEM_GROUPS" ELSE "ADD_ITEM_INSERT",
                         column |-> col, group |-> g,
                         foundItems |-> CardsBeside(col, g, items), foundGroups |-> {}])

\* Of the cards found, those still there and beside the new one move down.
ItemsDown(c) ==
    LET col == call[c].column
        g   == call[c].group
    IN  Restrict(ItemsWithNewItem(lastId.item + 1, col, g, MyItems(c)),
                 call[c].foundItems \cap CardsBeside(col, g, MyItems(c)))

GroupsDown(c) ==
    LET col == call[c].column IN
    Restrict(GroupsBelowNewItem(col, call[c].group, MyGroups(c)),
             call[c].foundGroups \cap GroupsOf(col, MyGroups(c)))

AddItemFindGroups(c) ==
    /\ call[c].step = "ADD_ITEM_GROUPS"
    /\ Write(c, [NoWrites EXCEPT !.items = ItemsDown(c)],
             [step |-> "ADD_ITEM_INSERT",
              column |-> call[c].column, group |-> call[c].group,
              foundItems |-> {}, foundGroups |-> GroupsOf(call[c].column, groups)])

AddItemInsert(c) ==
    LET col == call[c].column
        g   == call[c].group
        new == lastId.item + 1
        w   == [NoWrites EXCEPT !.groups = GroupsDown(c), !.items = ItemsDown(c)]
    IN  /\ call[c].step = "ADD_ITEM_INSERT"
        /\ CanWrite(c, w)
        /\ CanInsert(c, col, g)
        /\ lastId.item < MaxItems
        /\ lastId' = [lastId EXCEPT !.item = new]
        /\ groups' = Seen(groups, Written(c, w).groups)
        /\ items' = Over(Seen(items, Written(c, w).items),
                         [i \in {new} |-> [columnId |-> col, groupId |-> g, rowIndex |-> 0]])
        /\ Finish(c)
        /\ UNCHANGED columns

-----------------------------------------------------------------------------
(* reorderColumns: the columns are read in order, equal orders in any      *)
(* order, and the list with one column moved is written back.              *)

InOrder(b) ==
    {s \in SetToSeqs(ColumnsOf(b, columns)) :
        \A m, n \in DOMAIN s :
            m < n => columns[s[m]].orderIndex <= columns[s[n]].orderIndex}

\* reordered.splice(oldIndex, 1), then splice(newIndex, 0, removed).
SplicedColumns(s, oldIndex, newIndex) ==
    InsertAt(RemoveAt(s, oldIndex + 1), newIndex + 1, s[oldIndex + 1])

ReorderRead(c, b, oldIndex, newIndex) ==
    \E s \in InOrder(b) :
        Begin(c, [step |-> "REORDER", order |-> SplicedColumns(s, oldIndex, newIndex)])

ReorderWrite(c) ==
    LET order == call[c].order IN
    /\ call[c].step = "REORDER"
    /\ Range(order) \subseteq DOMAIN columns
    /\ Commit(c, [NoWrites EXCEPT !.columns =
                    [d \in Range(order) |->
                        [columns[d] EXCEPT !.orderIndex =
                            (CHOOSE n \in DOMAIN order : order[n] = d) - 1]]])

-----------------------------------------------------------------------------
(* The normalisation that ends a sync or the deletion of a group: group by *)
(* group, then column by column, the entries are read, and by id their     *)
(* indexes are written.  moves holds the changes and the rows read ahead.  *)

NoMoves == [changes |-> <<>>, before |-> <<>>]

Normalizing(itemMoves, groupMoves, gs, cols) ==
    [step |-> "NORMALIZE", itemMoves |-> itemMoves, groupMoves |-> groupMoves,
     groups |-> gs, columns |-> cols, renumbers |-> cols,
     groupIndex |-> <<>>, itemIndex |-> <<>>]

\* The UPDATEs that follow a read, of the index alone.
Renumbering(c) ==
    [columns |-> <<>>,
     groups  |-> [g \in DOMAIN call[c].groupIndex |->
                    [MyGroups(c)[g] EXCEPT !.orderIndex = call[c].groupIndex[g]]],
     items   |-> [i \in DOMAIN call[c].itemIndex |->
                    [MyItems(c)[i] EXCEPT !.rowIndex = call[c].itemIndex[i]]]]

RowsAreThere(c) ==
    /\ DOMAIN call[c].groupIndex \subseteq DOMAIN MyGroups(c)
    /\ DOMAIN call[c].itemIndex \subseteq DOMAIN MyItems(c)

CommittedItems(c) == items  \* mutant: read by this.prisma, not by tx

\* The cards as the next query of the transaction finds them.
RenumberedItems(c) == Seen(items, Written(c, Renumbering(c)).items)

\* The query of normalizeGroupItemsOrder.
ReadMembers(c) ==
    LET its == RenumberedItems(c) IN
    /\ call[c].step = "NORMALIZE"
    /\ RowsAreThere(c)
    /\ \E g \in call[c].groups :
        Write(c, Renumbering(c),
              [call[c] EXCEPT !.groups = @ \ {g},
                              !.groupIndex = <<>>,
                              !.itemIndex = [i \in Members(g, its) |-> MemberRank(i, its)]])

\* The queries of normalizeColumnRootEntryOrder: its cards, then its groups.
ReadRootItems(c) ==
    LET its == RenumberedItems(c) IN
    /\ call[c].step = "NORMALIZE"
    /\ RowsAreThere(c)
    /\ call[c].groups = {}
    /\ \E col \in call[c].columns :
        Write(c, Renumbering(c),
              [step |-> "ROOT_GROUPS", column |-> col,
               items |-> Restrict(its, RootItems(col, its)),
               normalizing |-> [call[c] EXCEPT !.columns = @ \ {col},
                                               !.groupIndex = <<>>, !.itemIndex = <<>>]])

ReadRootGroups(c) ==
    LET col       == call[c].column
        its       == call[c].items
        grs       == MyGroups(c)
        next      == call[c].normalizing
        itemMark  == ItemMoveMarks(next.itemMoves.changes, next.itemMoves.before, its)
        groupMark == GroupMoveMarks(next.groupMoves.changes, next.groupMoves.before, grs)
        place(e)  == Place(e, RootEntries(col, grs, its, groupMark, itemMark))
    IN  /\ call[c].step = "ROOT_GROUPS"
        /\ Statement(c, [next EXCEPT
            !.groupIndex = [g \in GroupsOf(col, grs) |-> place(GroupEntry(g, grs, groupMark))],
            !.itemIndex = [i \in DOMAIN its |-> place(ItemEntry(i, its, itemMark))]])

CommitOrder(c) ==
    /\ call[c].step = "NORMALIZE"
    /\ RowsAreThere(c)
    /\ call[c].groups = {}
    /\ call[c].columns = {}
    /\ Commit(c, Renumbering(c))

-----------------------------------------------------------------------------
(* The sync requests: the rows named are read and the changes checked; the *)
(* transaction writes the changes and normalises, by what was read.        *)

SyncItemsRead(c, ch) ==
    Begin(c, [step |-> "SYNC_ITEMS",
              moves |-> [changes |-> ch, before |-> Restrict(items, Named(ch))]])

SyncItemsUpdate(c) ==
    LET ch     == call[c].moves.changes
        before == call[c].moves.before
    IN  /\ call[c].step = "SYNC_ITEMS"
        /\ Named(ch) \subseteq DOMAIN items
        /\ Write(c, [NoWrites EXCEPT !.items = Restrict(WrittenItems(ch, items), Named(ch))],
                 Normalizing(call[c].moves, NoMoves,
                             ItemSyncGroups(ch, before), ItemSyncColumns(ch, before)))

SyncGroupsRead(c, ch) ==
    Begin(c, [step |-> "SYNC_GROUPS", next |-> 1,
              moves |-> [changes |-> ch, before |-> Restrict(groups, Named(ch))]])

\* After the change of that number: the next one, or the normalisation.
NextChange(c) ==
    LET moves == call[c].moves IN
    IF call[c].next < Len(moves.changes)
    THEN [step |-> "NEXT_GROUP", next |-> call[c].next + 1, moves |-> moves]
    ELSE Normalizing(NoMoves, moves, {}, GroupSyncColumns(moves.changes, moves.before))

\* Where the group changes column, the updateMany finds its cards.
SyncGroupsUpdate(c) ==
    LET change == call[c].moves.changes[call[c].next]
        g      == change.id
    IN  /\ call[c].step \in {"SYNC_GROUPS", "NEXT_GROUP"}
        /\ Write(c, [NoWrites EXCEPT !.groups =
                        [h \in {g} |-> [columnId |-> change.newColumnId,
                                        orderIndex |-> change.newIndex]]],
                 IF call[c].moves.before[g].columnId # change.newColumnId
                 THEN [step |-> "CARRY_ITEMS", next |-> call[c].next,
                       moves |-> call[c].moves, found |-> Members(g, MyItems(c))]
                 ELSE NextChange(c))

SyncGroupsCarry(c) ==
    LET change == call[c].moves.changes[call[c].next]
        its    == MyItems(c)
    IN  /\ call[c].step = "CARRY_ITEMS"
        /\ Write(c, [NoWrites EXCEPT !.items =
                        [i \in call[c].found \cap Members(change.id, its) |->
                            [its[i] EXCEPT !.columnId = change.newColumnId]]],
                 NextChange(c))

-----------------------------------------------------------------------------
(* The deletions: the row is read for its board, column and order.         *)

DeleteColumnRead(c, col) ==
    Begin(c, [step |-> "DELETE_COLUMN", id |-> col, old |-> columns[col]])

\* The DELETE cascades; the updateMany finds the columns after this one.
DeleteColumnDelete(c) ==
    LET col  == call[c].id
        old  == call[c].old
        kept == ItemsWithoutColumn(col, groups, items)
    IN  /\ call[c].step = "DELETE_COLUMN"
        /\ Write(c, [columns |-> [d \in {col} |-> Gone],
                     groups  |-> [g \in GroupsOf(col, groups) |-> Gone],
                     items   |-> [i \in {j \in DOMAIN items :
                                            j \in DOMAIN kept => kept[j] # items[j]} |->
                                    IF i \in DOMAIN kept THEN kept[i] ELSE Gone]],
                 [step |-> "DECREMENT", id |-> col, old |-> old,
                  found |-> {d \in ColumnsOf(old.boardId, columns) \ {col} :
                                columns[d].orderIndex > old.orderIndex}])

DeleteColumnDecrement(c) ==
    LET closed == ColumnsWithout(call[c].id, call[c].old, MyColumns(c)) IN
    /\ call[c].step = "DECREMENT"
    /\ Commit(c, [NoWrites EXCEPT !.columns = Restrict(closed, call[c].found \cap DOMAIN closed)])

DeleteGroupRead(c, g) ==
    Begin(c, [step |-> "DELETE_GROUP", id |-> g, old |-> groups[g]])

\* The three queries of deleteGroup: the cards at the root of the column, the
\* other groups there, the cards of the group.
UngroupReadItems(c) ==
    /\ call[c].step = "DELETE_GROUP"
    /\ Statement(c, [step |-> "UNGROUP_GROUPS", id |-> call[c].id, old |-> call[c].old,
                     items |-> Restrict(items, RootItems(call[c].old.columnId, items))])

UngroupReadGroups(c) ==
    /\ call[c].step = "UNGROUP_GROUPS"
    /\ Statement(c, [step |-> "UNGROUP_MEMBERS", id |-> call[c].id, old |-> call[c].old,
                     items |-> call[c].items,
                     groups |-> Restrict(groups, GroupsOf(call[c].old.columnId, groups)
                                                    \ {call[c].id})])

UngroupReadMembers(c) ==
    /\ call[c].step = "UNGROUP_MEMBERS"
    /\ Statement(c, [step |-> "UNGROUP", id |-> call[c].id, old |-> call[c].old,
                     groups |-> call[c].groups,
                     items |-> call[c].items,
                     members |-> Restrict(items, Members(call[c].id, items))])

\* The cards now in the group leave it, by the updateMany or by ON DELETE SET
\* NULL, the group goes, and what was read is renumbered with the members
\* spliced in.  A card read both at the root and in the group is updated twice.
UngroupWrite(c) ==
    LET g        == call[c].id
        old      == call[c].old
        rows     == call[c]
        siblings == RootEntries(old.columnId, rows.groups, rows.items,
                                UnmovedMarks(rows.groups), UnmovedMarks(rows.items))
        insertAt == UngroupAt(old, siblings)
        size     == Cardinality(DOMAIN rows.members)
        place(e) == LET r == Rank(e, siblings) IN
                    IF r < insertAt THEN r ELSE r + size
        places(i) ==
            (IF i \in DOMAIN rows.items
             THEN {place(ItemEntry(i, rows.items, UnmovedMarks(rows.items)))} ELSE {})
            \cup
            (IF i \in DOMAIN rows.members
             THEN {insertAt + MemberRank(i, rows.members)} ELSE {})
        written == DOMAIN rows.items \cup DOMAIN rows.members \cup Members(g, items)
    IN  /\ call[c].step = "UNGROUP"
        /\ written \subseteq DOMAIN items
        /\ g \in DOMAIN groups
        /\ DOMAIN rows.groups \subseteq DOMAIN groups
        /\ Write(c, [columns |-> <<>>,
                     groups |-> [h \in {g} \cup DOMAIN rows.groups |->
                        IF h = g THEN Gone
                        ELSE [groups[h] EXCEPT !.orderIndex =
                                place(GroupEntry(h, rows.groups, UnmovedMarks(rows.groups)))]],
                     items |-> [i \in written |->
                        [items[i] EXCEPT
                            !.groupId = IF @ = g THEN NoGroup ELSE @,
                            !.rowIndex = IF places(i) = {} THEN @ ELSE Max(places(i))]]],
                 Normalizing(NoMoves, NoMoves, {}, {old.columnId}))

-----------------------------------------------------------------------------

Read(c) ==
    /\ MayBegin(c)
    /\ \/ \E b \in Boards : CreateColumnRead(c, b)
       \/ \E col \in DOMAIN columns : CreateGroupRead(c, col)
       \/ \E col \in DOMAIN columns : \E g \in {NoGroup} \cup GroupsOf(col, groups) :
               AddItemCheck(c, col, g)
       \/ \E b \in Boards :
               \E old, new \in 0..Cardinality(ColumnsOf(b, columns)) - 1 :
                   ReorderRead(c, b, old, new)
       \/ \E b \in Boards : \E ch \in Batches(ItemChanges(b)) : SyncItemsRead(c, ch)
       \/ \E b \in Boards : \E ch \in Batches(GroupChanges(b)) :
               (RepeatedGroups \/ NamesOnce(ch)) /\ SyncGroupsRead(c, ch)
       \/ \E col \in DOMAIN columns : DeleteColumnRead(c, col)
       \/ \E g \in DOMAIN groups : DeleteGroupRead(c, g)

Transact(c) ==
    \/ CreateColumnInsert(c)
    \/ CreateGroupInsert(c)
    \/ AddItemFindItems(c)
    \/ AddItemFindGroups(c)
    \/ AddItemInsert(c)
    \/ ReorderWrite(c)
    \/ SyncItemsUpdate(c)
    \/ SyncGroupsUpdate(c)
    \/ SyncGroupsCarry(c)
    \/ DeleteColumnDelete(c)
    \/ DeleteColumnDecrement(c)
    \/ UngroupReadItems(c)
    \/ UngroupReadGroups(c)
    \/ UngroupReadMembers(c)
    \/ UngroupWrite(c)
    \/ ReadMembers(c)
    \/ ReadRootItems(c)
    \/ ReadRootGroups(c)
    \/ CommitOrder(c)
    \/ Abort(c)

\* createBoard is one nested insert, and deleteItem uses nothing it has read.
SingleStatement(c) ==
    /\ call[c] = Idle
    /\ \/ CreateBoard
       \/ \E i \in DOMAIN items :
            /\ CanWrite(c, [NoWrites EXCEPT !.items = [j \in {i} |-> Gone]])
            /\ DeleteItem(i)
    /\ UNCHANGED <<call, wrote>>

-----------------------------------------------------------------------------

\* The steps within a transaction that ends in a normalisation.
Sorting == {"NEXT_GROUP", "CARRY_ITEMS", "UNGROUP_GROUPS", "UNGROUP_MEMBERS",
            "UNGROUP", "NORMALIZE", "ROOT_GROUPS"}

Changed(rows, new) ==
    {x \in DOMAIN rows \cup DOMAIN new :
        ~(x \in DOMAIN rows /\ x \in DOMAIN new /\ rows[x] = new[x])}

\* The root entries whose rows a step commits.
Touched ==
    {<<"ITEM", i>> : i \in Changed(items, items')}
        \cup {<<"GROUP", g>> : g \in Changed(groups, groups')}

RequestNext ==
    /\ \E c \in lanes :
        \/ Read(c)
        \/ (Transact(c) \/ SingleStatement(c)) /\ UNCHANGED overlaps
    /\ UNCHANGED lanes
    /\ foreign' = [d \in Calls |->
                    IF call'[d].step \in Sorting THEN foreign[d] \cup Touched ELSE {}]

RequestSpec == RequestInit /\ [][RequestNext]_requestVars

-----------------------------------------------------------------------------
(* Properties.                                                             *)

\* Where calls do not overlap, the tables are those of RetroBoard; where they
\* do, nothing is claimed and the abstract tables stay empty.
Atomic == INSTANCE RetroBoard WITH
    lastId  <- IF Serial THEN lastId ELSE [board |-> 0, column |-> 0, group |-> 0, item |-> 0],
    columns <- IF Serial THEN columns ELSE <<>>,
    groups  <- IF Serial THEN groups ELSE <<>>,
    items   <- IF Serial THEN items ELSE <<>>

\* Calls made one at a time act as the single steps of RetroBoard: what is
\* proved there of the layout holds here.
SerialCallsAreAtomic == Atomic!Spec

\* In a column that it renumbers, a sync request or the deletion of a group
\* leaves two root entries with one index only where another call has committed
\* one of them since the transaction began: neither stale reads nor the order
\* of the statements make a double index of rows that no other call writes.  In
\* a column that it does not renumber, a sync leaves only those it found so.
\* (Nothing is said there of a deletion whose group has moved meanwhile.)
SyncRepairsOrder ==
    [][\A c \in Calls : CommitOrder(c) =>
        \A col \in DOMAIN columns :
            \A k, l \in RootKeys(col)' \ foreign[c] :
                k # l /\ IndexOf(k)' = IndexOf(l)' =>
                    /\ col \notin call[c].renumbers
                    /\ call[c].itemMoves # NoMoves \/ call[c].groupMoves # NoMoves =>
                        /\ {k, l} \subseteq RootKeys(col)
                        /\ IndexOf(k) = IndexOf(l)]_requestVars
=============================================================================
