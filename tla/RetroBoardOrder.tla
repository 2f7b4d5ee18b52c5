--------------------------- MODULE RetroBoardOrder ---------------------------
(***************************************************************************)
(* What a client of the board relies on when it draws a column: the list   *)
(* of root entries as a sequence, and what each request may do to it.  The *)
(* reference is a list edited with splice, as the client edits its copy;   *)
(* the service instead writes raw indexes and sorts with tie-breaks.       *)
(***************************************************************************)
EXTENDS RetroBoard, SequencesExt

\* The root entries of a column, and the index each one is stored with.
RootKeys(c) ==
    {<<"ITEM", i>> : i \in RootItems(c, items)}
        \cup {<<"GROUP", g>> : g \in GroupsOf(c, groups)}

IndexOf(k) == IF k[1] = "ITEM" THEN items[k[2]].rowIndex ELSE groups[k[2]].orderIndex

RootSeq(c) ==
    LET before(k) == Cardinality({l \in RootKeys(c) : IndexOf(l) < IndexOf(k)})
    IN  [p \in 1..Cardinality(RootKeys(c)) |->
            CHOOSE k \in RootKeys(c) : before(k) = p - 1]

MemberSeq(g) ==
    [p \in 1..Cardinality(Members(g, items)) |->
        CHOOSE i \in Members(g, items) : MemberRank(i, items) = p - 1]

\* No index is skipped: what a client counts is what the rows hold.
RootDense(c) ==
    RootIndexes(c, groups, items) = 0..Cardinality(RootKeys(c)) - 1

MembersDense(g) ==
    {items[i].rowIndex : i \in Members(g, items)}
        = 0..Cardinality(Members(g, items)) - 1

Without(s, k) == RemoveFirst(s, k)

SplicedIn(s, index, k) == InsertAt(s, Min({index, Len(s)}) + 1, k)

\* The list of column c once k, and no other entry, has gone to newColumnId.
Spliced(c, k, newColumnId, newIndex) ==
    IF c = newColumnId THEN SplicedIn(Without(RootSeq(c), k), newIndex, k)
    ELSE Without(RootSeq(c), k)

\* s with the cards of g in place of g.
WithMembersFor(g, s) ==
    LET freed == [p \in DOMAIN MemberSeq(g) |-> <<"ITEM", MemberSeq(g)[p]>>]
        place == groups[g].orderIndex
    IN  SubSeq(s, 1, place) \o freed \o SubSeq(s, place + 2, Len(s))

-----------------------------------------------------------------------------

\* A card or a group dragged alone lands at the index asked for (the end when
\* there are fewer entries), and every column reads as after a splice, when
\* the target column had no gaps: the tie-break priorities of
\* syncItemPositions and syncGroupPositions amount to a splice.
MoveLandsWhereAsked ==
    [][/\ \A b \in Boards : \A change \in ItemChanges(b) :
            /\ change.newGroupId = NoGroup
            /\ RootDense(change.newColumnId)
            /\ SyncItemPositions(<<change>>)
            => \A c \in DOMAIN columns :
                 RootSeq(c)' = Spliced(c, <<"ITEM", change.id>>,
                                       change.newColumnId, change.newIndex)
       /\ \A b \in Boards : \A change \in GroupChanges(b) :
            /\ RootDense(change.newColumnId)
            /\ SyncGroupPositions(<<change>>)
            => \A c \in DOMAIN columns :
                 RootSeq(c)' = Spliced(c, <<"GROUP", change.id>>,
                                       change.newColumnId, change.newIndex)]_vars

\* Two entries that stay at the root of column c, neither of them named, are
\* after the step in the order they were in before it.
OrderKept(c, named) ==
    \A k, l \in (RootKeys(c) \cap RootKeys(c)') \ named :
        IndexOf(k) < IndexOf(l) => IndexOf(k)' < IndexOf(l)'

\* A sync request displaces no entry but those that its changes name, in any
\* column; creating or deleting a card, a group or a column displaces none.
OthersKeepOrder ==
    [][/\ \A b \in Boards : \A ch \in Batches(ItemChanges(b)) :
            SyncItemPositions(ch)
            => \A c \in DOMAIN columns : OrderKept(c, {<<"ITEM", i>> : i \in Named(ch)})
       /\ \A b \in Boards : \A ch \in Batches(GroupChanges(b)) :
            SyncGroupPositions(ch)
            => \A c \in DOMAIN columns : OrderKept(c, {<<"GROUP", g>> : g \in Named(ch)})
       /\ \/ DOMAIN items' # DOMAIN items
          \/ DOMAIN groups' # DOMAIN groups
            => \A c \in DOMAIN columns \cap DOMAIN columns' : OrderKept(c, {})]_vars

\* A column, or a group, whose indexes have no gap gets one only by losing an
\* entry that it showed: by deleting a card, the one operation that does not
\* renumber what remains.
GapsOnlyFromDeletedItems ==
    [][/\ \A c \in DOMAIN columns \cap DOMAIN columns' :
            RootDense(c) /\ ~RootDense(c)'
                => ~(RootItems(c, items) \subseteq DOMAIN items')
       /\ \A g \in DOMAIN groups \cap DOMAIN groups' :
            MembersDense(g) /\ ~MembersDense(g)'
                => ~(Members(g, items) \subseteq DOMAIN items')]_vars

\* Deleting a group leaves its cards, in their order, in the place where the
\* group stood, when the column had no gaps.
UngroupKeepsPlace ==
    [][\A g \in DOMAIN groups \ DOMAIN groups' : \A c \in DOMAIN columns' :
        /\ c = groups[g].columnId
        /\ RootDense(c)
        => RootSeq(c)' = WithMembersFor(g, RootSeq(c))]_vars
=============================================================================
