------------------------- MODULE CardContent_proofs -------------------------
(***************************************************************************)
(* Proofs about CardContent for any number of users, calls and comments:   *)
(* a write comes after the checks its handler makes, an answer shows what  *)
(* was shown at some moment of the call, and the likes hold nobody twice.  *)
(*                                                                         *)
(* A handler is a list of statements, so what a call has behind it is told *)
(* by what it still has ahead: the list of a handler is Ordered, stays so  *)
(* as its statements are done, and CallOK says of each check what is known *)
(* once it is no longer Ahead.                                             *)
(*                                                                         *)
(* Last come the calls made one at a time, between which what a call has   *)
(* read stays true (SerialInv).                                            *)
(***************************************************************************)
EXTENDS CardContent, SequenceTheorems, TLAPS

Statements ==
    {"FIND_GUEST", "CREATE_GUEST", "CONTEXT", "READ_ITEM", "READ_COMMENT",
     "READ_SETTINGS", "FLAG", "MEMBER", "ROLE", "WRITE"}

Ahead(s, step) == \E k \in 1..Len(s) : s[k] = step

\* What is true of the statements that a call has ahead: the write is the last
\* of them, the guest comes first, MEMBER follows FLAG, and the role is asked
\* for after the comment is read.
Ordered(op, s) ==
    /\ s \in Seq(Statements) /\ Len(s) > 0
    /\ \A k \in 1..Len(s) :
        /\ s[k] = "WRITE" <=> k = Len(s)
        /\ s[k] \in {"FIND_GUEST", "CREATE_GUEST"} => k = 1
        /\ s[k] = "FLAG" => k < Len(s) /\ s[k + 1] = "MEMBER"
        /\ s[k] = "MEMBER" => k = 1 \/ s[k - 1] = "FLAG"
        /\ s[k] = "READ_COMMENT" => \E j \in (k + 1)..Len(s) : s[j] = "ROLE"
        /\ s[k] = "ROLE" => \A j \in 1..Len(s) : s[j] = "READ_COMMENT" => j < k
        /\ s[k] = "ROLE" => op \notin OfItem
        /\ s[k] = "MEMBER" => op \in OfItem \cup OfComment
        /\ s[k] = "READ_COMMENT" => op \in OfComment
        /\ s[k] = "READ_ITEM" => op = "LIKE"

\* The checks and reads that the handler of op makes.
Complete(op, s) ==
    /\ op \in OfItem \cup OfComment => Ahead(s, "MEMBER")
    /\ op \notin OfItem => Ahead(s, "ROLE")
    /\ op \in OfComment => Ahead(s, "READ_COMMENT")
    /\ op = "LIKE" => Ahead(s, "READ_ITEM")
    /\ op = "SETTINGS" => Ahead(s, "READ_SETTINGS")

-----------------------------------------------------------------------------
(* Lists of statements.                                                    *)

\* t is what is left of s once n statements are done.
Left(s, t, n) ==
    /\ t \in Seq(Statements)
    /\ Len(t) = Len(s) - n
    /\ \A k \in 1..Len(t) : t[k] = s[k + n]

LEMMA SubSeqLeft ==
    ASSUME NEW s \in Seq(Statements), NEW n \in 1..2, n < Len(s)
    PROVE  Left(s, SubSeq(s, n + 1, Len(s)), n)
<1>1. Len(s) \in Nat /\ \A k \in 1..Len(s) : s[k] \in Statements
    BY LenProperties
<1>2. \A i \in (n + 1)..Len(s) : s[i] \in Statements
    BY <1>1
<1> QED
    BY <1>1, <1>2, SubSeqProperties DEF Left

LEMMA LeftOrdered ==
    ASSUME NEW op, NEW s, Ordered(op, s), NEW n \in 1..2, NEW t, Left(s, t, n), n < Len(s)
    PROVE  Ordered(op, t)
<1>1. Len(s) \in Nat /\ Len(t) \in Nat /\ Len(t) = Len(s) - n
    BY DEF Ordered, Left
<1>2. t \in Seq(Statements) /\ Len(t) > 0
    BY <1>1 DEF Left
<1>3. ASSUME NEW k \in 1..Len(t)
      PROVE  /\ t[k] = "WRITE" <=> k = Len(t)
             /\ t[k] \in {"FIND_GUEST", "CREATE_GUEST"} => k = 1
             /\ t[k] = "FLAG" => k < Len(t) /\ t[k + 1] = "MEMBER"
             /\ t[k] = "MEMBER" => k = 1 \/ t[k - 1] = "FLAG"
             /\ t[k] = "READ_COMMENT" => \E j \in (k + 1)..Len(t) : t[j] = "ROLE"
             /\ t[k] = "ROLE" => \A j \in 1..Len(t) : t[j] = "READ_COMMENT" => j < k
             /\ t[k] = "ROLE" => op \notin OfItem
             /\ t[k] = "MEMBER" => op \in OfItem \cup OfComment
             /\ t[k] = "READ_COMMENT" => op \in OfComment
             /\ t[k] = "READ_ITEM" => op = "LIKE"
    <2>1. t[k] = s[k + n] /\ k + n \in 1..Len(s)
        BY <1>1 DEF Left
    <2>2. t[k] = "WRITE" <=> k = Len(t)
        BY <1>1, <2>1 DEF Ordered
    <2>3. t[k] \notin {"FIND_GUEST", "CREATE_GUEST"}
        BY <1>1, <2>1 DEF Ordered
    <2>4. t[k] = "FLAG" => k < Len(t) /\ t[k + 1] = "MEMBER"
        BY <1>1, <2>1 DEF Ordered, Left
    <2>5. ASSUME t[k] = "MEMBER", k # 1 PROVE t[k - 1] = "FLAG"
        <3>1. k + n # 1 /\ s[(k + n) - 1] = "FLAG"
            <4>1. k + n # 1
                BY <1>1
            <4>2. \A i \in 1..Len(s) : s[i] = "MEMBER" => i = 1 \/ s[i - 1] = "FLAG"
                BY DEF Ordered
            <4> QED
                BY <2>1, <2>5, <4>1, <4>2
        <3>2. k - 1 \in 1..Len(t) /\ (k - 1) + n = (k + n) - 1
            BY <1>1, <2>5
        <3> QED
            BY <3>1, <3>2 DEF Left
    <2>6. ASSUME t[k] = "READ_COMMENT" PROVE \E j \in (k + 1)..Len(t) : t[j] = "ROLE"
        <3>0. \A i \in 1..Len(s) :
                    s[i] = "READ_COMMENT" => \E j \in (i + 1)..Len(s) : s[j] = "ROLE"
            BY DEF Ordered
        <3>1. PICK j \in (k + n + 1)..Len(s) : s[j] = "ROLE"
            BY <2>1, <2>6, <3>0
        <3>2. j - n \in (k + 1)..Len(t) /\ j - n \in 1..Len(t) /\ (j - n) + n = j
            BY <1>1, <3>1
        <3>3. t[j - n] = s[(j - n) + n]
            BY <3>2 DEF Left
        <3> QED
            BY <3>1, <3>2, <3>3
    <2>7. ASSUME t[k] = "ROLE", NEW j \in 1..Len(t), t[j] = "READ_COMMENT" PROVE j < k
        <3>1. t[j] = s[j + n] /\ j + n \in 1..Len(s)
            BY <1>1 DEF Left
        <3>2. \A i \in 1..Len(s) : s[i] = "ROLE" =>
                    \A m \in 1..Len(s) : s[m] = "READ_COMMENT" => m < i
            BY DEF Ordered
        <3>3. j + n < k + n
            BY <2>1, <2>7, <3>1, <3>2
        <3> QED
            BY <1>1, <3>3
    <2>8. /\ t[k] = "ROLE" => op \notin OfItem
          /\ t[k] = "MEMBER" => op \in OfItem \cup OfComment
          /\ t[k] = "READ_COMMENT" => op \in OfComment
          /\ t[k] = "READ_ITEM" => op = "LIKE"
        BY <2>1 DEF Ordered
    <2> QED
        BY <2>2, <2>3, <2>4, <2>5, <2>6, <2>7, <2>8
<1> QED
    BY <1>2, <1>3 DEF Ordered

LEMMA LeftFirst ==
    ASSUME NEW op, NEW s, Ordered(op, s), NEW n \in 1..2, NEW t, Left(s, t, n), n < Len(s)
    PROVE  t[1] = s[n + 1] /\ n + 1 \in 1..Len(s)
<1>1. Len(s) \in Nat /\ Len(t) = Len(s) - n
    BY DEF Ordered, Left
<1>2. 1 \in 1..Len(t) /\ 1 + n = n + 1 /\ n + 1 \in 1..Len(s)
    BY <1>1
<1>3. t[1] = s[1 + n]
    BY <1>2 DEF Left
<1> QED
    BY <1>2, <1>3

\* A statement that is no longer ahead is one of those just done.
LEMMA LeftAhead ==
    ASSUME NEW op, NEW s, Ordered(op, s), NEW n \in 1..2, NEW t, Left(s, t, n),
           n < Len(s), NEW step, Ahead(s, step), ~Ahead(t, step)
    PROVE  s[1] = step \/ (n = 2 /\ s[2] = step)
<1>1. PICK k \in 1..Len(s) : s[k] = step
    BY DEF Ahead
<1>2. Len(s) \in Nat /\ Len(t) = Len(s) - n
    BY DEF Ordered, Left
<1>3. k <= n
    <2>1. SUFFICES ASSUME k > n PROVE FALSE
        BY <1>2
    <2>2. k - n \in 1..Len(t) /\ (k - n) + n = k
        BY <1>2, <2>1
    <2> QED
        BY <1>1, <2>2 DEF Left, Ahead
<1> QED
    BY <1>1, <1>3

\* The row of the guest is to be created in place of being found.
LEMMA CreateOrdered ==
    ASSUME NEW op, NEW s, Ordered(op, s), s[1] = "FIND_GUEST", NEW t \in Seq(Statements),
           Len(t) = Len(s), t[1] = "CREATE_GUEST", \A k \in 2..Len(t) : t[k] = s[k]
    PROVE  /\ Ordered(op, t)
           /\ \A step \in Statements \ {"FIND_GUEST"} : Ahead(s, step) => Ahead(t, step)
<1>1. Len(s) \in Nat /\ Len(s) > 1
    BY DEF Ordered
<1>2. \A k \in 1..Len(s) : k = 1 \/ (k \in 2..Len(t) /\ t[k] = s[k])
    BY <1>1
<1>3. Ordered(op, t)
    <2>1. ASSUME NEW k \in 2..Len(t), t[k] = "READ_COMMENT"
          PROVE  \E j \in (k + 1)..Len(t) : t[j] = "ROLE"
        <3>1. PICK j \in (k + 1)..Len(s) : s[j] = "ROLE"
            BY <1>1, <2>1 DEF Ordered
        <3>2. j \in 2..Len(t) /\ j \in (k + 1)..Len(t)
            BY <1>1
        <3> QED
            BY <3>1, <3>2
    <2>2. ASSUME NEW k \in 2..Len(t)
          PROVE  /\ t[k] = "WRITE" <=> k = Len(t)
                 /\ t[k] \notin {"FIND_GUEST", "CREATE_GUEST"}
                 /\ t[k] = "FLAG" => k < Len(t) /\ t[k + 1] = "MEMBER"
                 /\ t[k] = "MEMBER" => t[k - 1] = "FLAG"
                 /\ t[k] = "ROLE" => op \notin OfItem
                 /\ t[k] = "MEMBER" => op \in OfItem \cup OfComment
                 /\ t[k] = "READ_COMMENT" => op \in OfComment
                 /\ t[k] = "READ_ITEM" => op = "LIKE"
        <3>1. t[k] = s[k] /\ k \in 1..Len(s) /\ k # 1
            BY <1>1
        <3>2. s[k] = "FLAG" => k < Len(t) /\ t[k + 1] = "MEMBER"
            BY <1>1, <3>1 DEF Ordered
        <3>3. s[k] = "MEMBER" => k # 2 /\ t[k - 1] = "FLAG"
            BY <1>1, <3>1 DEF Ordered
        <3> QED
            BY <1>1, <3>1, <3>2, <3>3 DEF Ordered
    <2>3. ASSUME NEW k \in 2..Len(t), t[k] = "ROLE", NEW j \in 1..Len(t),
                 t[j] = "READ_COMMENT"
          PROVE  j < k
        <3>1. j # 1 /\ t[j] = s[j]
            BY <1>1, <2>3
        <3> QED
            BY <1>1, <2>3, <3>1 DEF Ordered
    <2> QED
        BY <1>1, <2>1, <2>2, <2>3 DEF Ordered
<1> QED
    BY <1>1, <1>2, <1>3 DEF Ahead

\* The list of a call of op whose visitor has signed in.
Handles(op, s) ==
    /\ Ordered(op, s)
    /\ Complete(op, s)
    /\ s[1] # "MEMBER"
    /\ \A k \in 1..Len(s) : s[k] \notin {"FIND_GUEST", "CREATE_GUEST"}

LEMMA LikeHandles == Handles("LIKE", ToggleItemLike)
<1> DEFINE s == ToggleItemLike
<1>1. s \in Seq(Statements) /\ Len(s) = 5
    BY DEF ToggleItemLike, Statements
<1>2. /\ s[1] = "CONTEXT" /\ s[2] = "READ_ITEM" /\ s[3] = "FLAG" /\ s[4] = "MEMBER"
      /\ s[5] = "WRITE"
    BY DEF ToggleItemLike
<1> HIDE DEF s
<1>3. \A k \in 1..5 : k = 1 \/ k = 2 \/ k = 3 \/ k = 4 \/ k = 5
    OBVIOUS
<1>4. Ordered("LIKE", s)
    BY <1>1, <1>2, <1>3 DEF Ordered, OfItem, OfComment
<1>5. Complete("LIKE", s)
    BY <1>1, <1>2, <1>3 DEF Complete, Ahead, OfItem, OfComment
<1> QED
    BY <1>1, <1>2, <1>3, <1>4, <1>5 DEF Handles, s

LEMMA EditHandles == Handles("EDIT", UpdateItem)
<1> DEFINE s == UpdateItem
<1>1. s \in Seq(Statements) /\ Len(s) = 5
    BY DEF UpdateItem, Statements
<1>2. /\ s[1] = "CONTEXT" /\ s[2] = "FLAG" /\ s[3] = "MEMBER"
      /\ s[4] = "READ_SETTINGS" /\ s[5] = "WRITE"
    BY DEF UpdateItem
<1> HIDE DEF s
<1>3. \A k \in 1..5 : k = 1 \/ k = 2 \/ k = 3 \/ k = 4 \/ k = 5
    OBVIOUS
<1>4. Ordered("EDIT", s)
    BY <1>1, <1>2, <1>3 DEF Ordered, OfItem, OfComment
<1>5. Complete("EDIT", s)
    BY <1>1, <1>2, <1>3 DEF Complete, Ahead, OfItem, OfComment
<1> QED
    BY <1>1, <1>2, <1>3, <1>4, <1>5 DEF Handles, s

LEMMA DeleteHandles == Handles("DELETE", DeleteItem)
<1> DEFINE s == DeleteItem
<1>1. s \in Seq(Statements) /\ Len(s) = 4
    BY DEF DeleteItem, Statements
<1>2. /\ s[1] = "CONTEXT" /\ s[2] = "FLAG" /\ s[3] = "MEMBER"
      /\ s[4] = "WRITE"
    BY DEF DeleteItem
<1> HIDE DEF s
<1>3. \A k \in 1..4 : k = 1 \/ k = 2 \/ k = 3 \/ k = 4
    OBVIOUS
<1>4. Ordered("DELETE", s)
    BY <1>1, <1>2, <1>3 DEF Ordered, OfItem, OfComment
<1>5. Complete("DELETE", s)
    BY <1>1, <1>2, <1>3 DEF Complete, Ahead, OfItem, OfComment
<1> QED
    BY <1>1, <1>2, <1>3, <1>4, <1>5 DEF Handles, s

LEMMA CommentHandles == Handles("COMMENT", CreateItemComment)
<1> DEFINE s == CreateItemComment
<1>1. s \in Seq(Statements) /\ Len(s) = 4
    BY DEF CreateItemComment, Statements
<1>2. /\ s[1] = "CONTEXT" /\ s[2] = "FLAG" /\ s[3] = "MEMBER"
      /\ s[4] = "WRITE"
    BY DEF CreateItemComment
<1> HIDE DEF s
<1>3. \A k \in 1..4 : k = 1 \/ k = 2 \/ k = 3 \/ k = 4
    OBVIOUS
<1>4. Ordered("COMMENT", s)
    BY <1>1, <1>2, <1>3 DEF Ordered, OfItem, OfComment
<1>5. Complete("COMMENT", s)
    BY <1>1, <1>2, <1>3 DEF Complete, Ahead, OfItem, OfComment
<1> QED
    BY <1>1, <1>2, <1>3, <1>4, <1>5 DEF Handles, s

LEMMA ManageHandles ==
    ASSUME NEW op \in OfComment
    PROVE  Handles(op, ManageComment)
<1> DEFINE s == ManageComment
<1>1. s \in Seq(Statements) /\ Len(s) = 6
    BY DEF ManageComment, Statements
<1>2. /\ s[1] = "CONTEXT" /\ s[2] = "READ_COMMENT" /\ s[3] = "FLAG"
      /\ s[4] = "MEMBER" /\ s[5] = "ROLE" /\ s[6] = "WRITE"
    BY DEF ManageComment
<1> HIDE DEF s
<1>3. \A k \in 1..6 : k = 1 \/ k = 2 \/ k = 3 \/ k = 4 \/ k = 5 \/ k = 6
    OBVIOUS
<1>4. Ordered(op, s)
    BY <1>1, <1>2, <1>3 DEF Ordered, OfItem, OfComment
<1>5. Complete(op, s)
    BY <1>1, <1>2, <1>3 DEF Complete, Ahead, OfItem, OfComment
<1> QED
    BY <1>1, <1>2, <1>3, <1>4, <1>5 DEF Handles, s

LEMMA SettingsHandles == Handles("SETTINGS", UpdateBoardSettings)
<1> DEFINE s == UpdateBoardSettings
<1>1. s \in Seq(Statements) /\ Len(s) = 4
    BY DEF UpdateBoardSettings, Statements
<1>2. /\ s[1] = "CONTEXT" /\ s[2] = "ROLE" /\ s[3] = "READ_SETTINGS"
      /\ s[4] = "WRITE"
    BY DEF UpdateBoardSettings
<1> HIDE DEF s
<1>3. \A k \in 1..4 : k = 1 \/ k = 2 \/ k = 3 \/ k = 4
    OBVIOUS
<1>4. Ordered("SETTINGS", s)
    BY <1>1, <1>2, <1>3 DEF Ordered, OfItem, OfComment
<1>5. Complete("SETTINGS", s)
    BY <1>1, <1>2, <1>3 DEF Complete, Ahead, OfItem, OfComment
<1> QED
    BY <1>1, <1>2, <1>3, <1>4, <1>5 DEF Handles, s

LEMMA FlagHandles ==
    ASSUME NEW op \in OfTeam
    PROVE  Handles(op, UpdateTeamFlag)
<1> DEFINE s == UpdateTeamFlag
<1>1. s \in Seq(Statements) /\ Len(s) = 2
    BY DEF UpdateTeamFlag, Statements
<1>2. s[1] = "ROLE" /\ s[2] = "WRITE"
    BY DEF UpdateTeamFlag
<1> HIDE DEF s
<1>3. \A k \in 1..2 : k = 1 \/ k = 2
    OBVIOUS
<1>4. Ordered(op, s)
    BY <1>1, <1>2, <1>3 DEF Ordered, OfItem, OfComment, OfTeam
<1>5. Complete(op, s)
    BY <1>1, <1>2, <1>3 DEF Complete, Ahead, OfItem, OfComment, OfTeam
<1> QED
    BY <1>1, <1>2, <1>3, <1>4, <1>5 DEF Handles, s

LEMMA HandlerHandles ==
    ASSUME NEW op \in Operations
    PROVE  Handles(op, Handler[op])
<1>1. /\ Handler["LIKE"] = ToggleItemLike
      /\ Handler["EDIT"] = UpdateItem
      /\ Handler["DELETE"] = DeleteItem
      /\ Handler["COMMENT"] = CreateItemComment
      /\ Handler["EDIT_COMMENT"] = ManageComment
      /\ Handler["DELETE_COMMENT"] = ManageComment
      /\ Handler["SETTINGS"] = UpdateBoardSettings
      /\ Handler["HIDE_CARDS"] = UpdateTeamFlag
      /\ Handler["OPEN_BOARDS"] = UpdateTeamFlag
    BY DEF Handler
<1>2. /\ op = "LIKE" \/ op = "EDIT" \/ op = "DELETE" \/ op = "COMMENT" \/ op = "SETTINGS"
         \/ op \in OfComment \/ op \in OfTeam
    BY DEF Operations, OfItem
<1>3. /\ op \in OfComment => Handler[op] = ManageComment
      /\ op \in OfTeam => Handler[op] = UpdateTeamFlag
    BY <1>1 DEF OfComment, OfTeam
<1> QED
    BY <1>1, <1>2, <1>3, LikeHandles, EditHandles, DeleteHandles, CommentHandles,
       ManageHandles, SettingsHandles, FlagHandles

LEMMA Prefixed ==
    ASSUME NEW h \in Seq(Statements), Len(h) = 1, NEW t \in Seq(Statements)
    PROVE  /\ h \o t \in Seq(Statements)
           /\ Len(h \o t) = Len(t) + 1
           /\ (h \o t)[1] = h[1]
           /\ \A k \in 2..(Len(t) + 1) : (h \o t)[k] = t[k - 1]
<1>1. /\ h \o t \in Seq(Statements)
      /\ Len(h \o t) = Len(h) + Len(t)
      /\ \A i \in 1..(Len(h) + Len(t)) :
            (h \o t)[i] = IF i <= Len(h) THEN h[i] ELSE t[i - Len(h)]
    BY ConcatProperties
<1> QED
    BY <1>1

\* What is not the write has statements behind it, MEMBER after FLAG.
LEMMA NotLast ==
    ASSUME NEW op, NEW s, Ordered(op, s), s[1] # "WRITE"
    PROVE  /\ Len(s) \in Nat /\ Len(s) > 1
           /\ s[1] = "FLAG" => Len(s) > 2 /\ s[2] = "MEMBER"
<1>1. Len(s) \in Nat /\ Len(s) > 0
    BY DEF Ordered
<1>2. Len(s) # 1
    BY <1>1 DEF Ordered
<1>3. s[1] = "FLAG" => s[2] = "MEMBER"
    BY <1>1 DEF Ordered
<1>4. Len(s) = 2 => s[2] = "WRITE"
    BY <1>1 DEF Ordered
<1>5. \A n \in Nat : n > 0 /\ n # 1 => n > 1
    OBVIOUS
<1>6. \A n \in Nat : n > 1 /\ n # 2 => n > 2
    OBVIOUS
<1>7. Len(s) > 1
    BY <1>1, <1>2, <1>5
<1>8. s[1] = "FLAG" => Len(s) > 2
    BY <1>1, <1>3, <1>4, <1>6, <1>7
<1> QED
    BY <1>1, <1>3, <1>7, <1>8

\* What a call has ahead as it begins.
LEMMA FirstOrdered ==
    ASSUME NEW op \in Operations, NEW prefix, prefix = <<>> \/ prefix = <<"FIND_GUEST">>
    PROVE  /\ Ordered(op, prefix \o Handler[op])
           /\ Complete(op, prefix \o Handler[op])
           /\ (prefix \o Handler[op])[1] \notin {"MEMBER", "CREATE_GUEST"}
<1> DEFINE s == Handler[op]
<1>1. Handles(op, s)
    BY HandlerHandles
<1>2. s \in Seq(Statements) /\ Len(s) \in Nat /\ Len(s) > 0
    BY <1>1 DEF Handles, Ordered
<1> HIDE DEF s
<1>3. CASE prefix = <<>>
    <2>1. prefix \o s = s
        BY <1>2, <1>3, ConcatEmptySeq
    <2>2. s[1] \notin {"MEMBER", "CREATE_GUEST"}
        BY <1>1, <1>2 DEF Handles
    <2> QED
        BY <1>1, <2>1, <2>2 DEF Handles, s
<1>4. CASE prefix = <<"FIND_GUEST">>
    <2> DEFINE t == prefix \o s
    <2>1. prefix \in Seq(Statements) /\ Len(prefix) = 1 /\ prefix[1] = "FIND_GUEST"
        BY <1>4 DEF Statements
    <2>2. t \in Seq(Statements) /\ Len(t) = Len(s) + 1
        BY <1>2, <2>1, Prefixed
    <2>3. t[1] = "FIND_GUEST" /\ \A k \in 2..(Len(s) + 1) : t[k] = s[k - 1]
        BY <1>2, <2>1, Prefixed
    <2> HIDE DEF t
    <2>4. \A k \in 1..Len(s) : k + 1 \in 2..Len(t) /\ k + 1 \in 1..Len(t) /\ t[k + 1] = s[k]
        BY <1>2, <2>2, <2>3
    <2>5. \A k \in 2..Len(t) : k - 1 \in 1..Len(s) /\ t[k] = s[k - 1]
        BY <1>2, <2>2, <2>3
    <2>6. Complete(op, t)
        BY <1>1, <2>4 DEF Handles, Complete, Ahead
    <2>7. ASSUME NEW k \in 2..Len(t)
          PROVE  /\ t[k] = "WRITE" <=> k = Len(t)
                 /\ t[k] \notin {"FIND_GUEST", "CREATE_GUEST"}
                 /\ t[k] = "FLAG" => k < Len(t) /\ t[k + 1] = "MEMBER"
                 /\ t[k] = "MEMBER" => t[k - 1] = "FLAG"
                 /\ t[k] = "READ_COMMENT" => \E j \in (k + 1)..Len(t) : t[j] = "ROLE"
                 /\ t[k] = "ROLE" => \A j \in 1..Len(t) : t[j] = "READ_COMMENT" => j < k
                 /\ t[k] = "ROLE" => op \notin OfItem
                 /\ t[k] = "MEMBER" => op \in OfItem \cup OfComment
                 /\ t[k] = "READ_COMMENT" => op \in OfComment
                 /\ t[k] = "READ_ITEM" => op = "LIKE"
        <3> DEFINE i == k - 1
        <3>1. i \in 1..Len(s) /\ t[k] = s[i] /\ k = i + 1
            BY <1>2, <2>2, <2>5
        <3> HIDE DEF i
        <3>2. s[i] = "WRITE" <=> k = Len(t)
            BY <1>1, <1>2, <2>2, <3>1 DEF Handles, Ordered
        <3>3. s[i] \notin {"FIND_GUEST", "CREATE_GUEST"}
            BY <1>1, <3>1 DEF Handles
        <3>4. s[i] = "FLAG" => k < Len(t) /\ t[k + 1] = "MEMBER"
            <4>1. s[i] = "FLAG" => i < Len(s) /\ s[i + 1] = "MEMBER"
                BY <1>1, <3>1 DEF Handles, Ordered
            <4>2. i < Len(s) => i + 1 \in 1..Len(s) /\ k + 1 = (i + 1) + 1
                BY <1>2, <3>1
            <4>3. i < Len(s) => t[k + 1] = s[i + 1]
                BY <2>4, <4>2
            <4> QED
                BY <1>2, <2>2, <3>1, <4>1, <4>3
        <3>5. ASSUME s[i] = "MEMBER" PROVE t[k - 1] = "FLAG"
            <4>1. i # 1
                BY <1>1, <3>5 DEF Handles
            <4>2. s[i - 1] = "FLAG"
                BY <1>1, <3>1, <3>5, <4>1 DEF Handles, Ordered
            <4>3. i - 1 \in 1..Len(s) /\ (i - 1) + 1 = k - 1
                BY <1>2, <3>1, <4>1
            <4> QED
                BY <2>4, <4>2, <4>3
        <3>6. ASSUME s[i] = "READ_COMMENT"
              PROVE  \E j \in (k + 1)..Len(t) : t[j] = "ROLE"
            <4>1. PICK j \in (i + 1)..Len(s) : s[j] = "ROLE"
                BY <1>1, <3>1, <3>6 DEF Handles, Ordered
            <4>2. j \in 1..Len(s) /\ j + 1 \in (k + 1)..Len(t)
                BY <1>2, <2>2, <3>1, <4>1
            <4> QED
                BY <2>4, <4>1, <4>2
        <3>7. ASSUME s[i] = "ROLE", NEW j \in 1..Len(t), t[j] = "READ_COMMENT" PROVE j < k
            <4>1. j # 1
                BY <2>3, <3>7
            <4>2. j - 1 \in 1..Len(s) /\ s[j - 1] = "READ_COMMENT"
                BY <1>2, <2>2, <2>5, <3>7, <4>1
            <4>3. \A m \in 1..Len(s) : s[m] = "READ_COMMENT" => m < i
                BY <1>1, <3>1, <3>7 DEF Handles, Ordered
            <4>4. j - 1 < i
                BY <4>2, <4>3
            <4> QED
                BY <1>2, <2>2, <3>1, <4>4
        <3>8. /\ s[i] = "ROLE" => op \notin OfItem
              /\ s[i] = "MEMBER" => op \in OfItem \cup OfComment
              /\ s[i] = "READ_COMMENT" => op \in OfComment
              /\ s[i] = "READ_ITEM" => op = "LIKE"
            BY <1>1, <3>1 DEF Handles, Ordered
        <3> QED
            BY <3>1, <3>2, <3>3, <3>4, <3>5, <3>6, <3>7, <3>8
    <2>8. \A k \in 1..Len(t) : k = 1 \/ k \in 2..Len(t)
        BY <1>2, <2>2
    <2>9. Ordered(op, t)
        BY <1>2, <2>2, <2>3, <2>7, <2>8 DEF Ordered
    <2> QED
        BY <2>3, <2>6, <2>9 DEF t, s
<1> QED
    BY <1>3, <1>4

-----------------------------------------------------------------------------
(* The list of likes.                                                      *)

LEMMA RemoveAtIs ==
    ASSUME NEW S, NEW list \in Seq(S), NEW n \in 1..Len(list)
    PROVE  /\ RemoveAt(list, n) \in Seq(S)
           /\ Len(RemoveAt(list, n)) = Len(list) - 1
           /\ \A k \in 1..(Len(list) - 1) :
                RemoveAt(list, n)[k] = IF k < n THEN list[k] ELSE list[k + 1]
<1> DEFINE l == SubSeq(list, 1, n - 1)
           r == SubSeq(list, n + 1, Len(list))
<1>1. Len(list) \in Nat /\ \A i \in 1..Len(list) : list[i] \in S
    BY LenProperties
<1>2. \A i \in 1..(n - 1) : list[i] \in S
    BY <1>1
<1>3. \A i \in (n + 1)..Len(list) : list[i] \in S
    BY <1>1
<1>4. /\ l \in Seq(S) /\ Len(l) = n - 1
      /\ \A i \in 1..(n - 1) : l[i] = list[i]
    <2>1. /\ l \in Seq(S) /\ Len(l) = IF 1 <= n - 1 THEN (n - 1) - 1 + 1 ELSE 0
          /\ \A i \in 1..((n - 1) - 1 + 1) : l[i] = list[1 + i - 1]
        BY <1>1, <1>2, SubSeqProperties
    <2> QED
        BY <1>1, <2>1
<1>5. /\ r \in Seq(S) /\ Len(r) = Len(list) - n
      /\ \A i \in 1..(Len(list) - n) : r[i] = list[n + i]
    <2>1. /\ r \in Seq(S)
          /\ Len(r) = IF n + 1 <= Len(list) THEN Len(list) - (n + 1) + 1 ELSE 0
          /\ \A i \in 1..(Len(list) - (n + 1) + 1) : r[i] = list[(n + 1) + i - 1]
        BY <1>1, <1>3, SubSeqProperties
    <2> QED
        BY <1>1, <2>1
<1> HIDE DEF l, r
<1> DEFINE u == l \o r
<1>6. /\ u \in Seq(S) /\ Len(u) = Len(l) + Len(r)
      /\ \A i \in 1..(Len(l) + Len(r)) : u[i] = IF i <= Len(l) THEN l[i] ELSE r[i - Len(l)]
    BY <1>4, <1>5, ConcatProperties
<1>7. RemoveAt(list, n) = u
    BY DEF RemoveAt, l, r
<1> HIDE DEF u
<1>8. ASSUME NEW k \in 1..(Len(list) - 1)
      PROVE  u[k] = IF k < n THEN list[k] ELSE list[k + 1]
    <2>0. Len(l) = n - 1 /\ Len(r) = Len(list) - n /\ k \in 1..(Len(l) + Len(r))
        BY <1>1, <1>4, <1>5
    <2>1. CASE k < n
        <3>1. k <= Len(l) /\ k \in 1..(n - 1)
            BY <1>1, <2>0, <2>1
        <3>2. u[k] = l[k] /\ l[k] = list[k]
            BY <1>4, <1>6, <2>0, <3>1
        <3> QED
            BY <2>1, <3>2
    <2>2. CASE k >= n
        <3>0. ~(k <= Len(l)) /\ k - (n - 1) \in 1..(Len(list) - n)
              /\ n + (k - (n - 1)) = k + 1
            BY <1>1, <2>0, <2>2
        <3>1. u[k] = r[k - (n - 1)]
            BY <1>6, <2>0, <3>0
        <3>2. r[k - (n - 1)] = list[n + (k - (n - 1))]
            BY <1>5, <3>0
        <3>3. ~(k < n)
            BY <1>1, <2>2
        <3> QED
            BY <3>0, <3>1, <3>2, <3>3
    <2>3. k < n \/ k >= n
        BY <1>1
    <2> QED
        BY <2>1, <2>2, <2>3
<1>9. Len(u) = Len(list) - 1
    BY <1>1, <1>4, <1>5, <1>6
<1> QED
    BY <1>6, <1>7, <1>8, <1>9

\* indexOf and splice take out the one entry of a user, or push adds one: the
\* list still holds nobody twice, and of its users only this one changes.
LEMMA ToggledIs ==
    ASSUME NEW S, NEW list \in Seq(S), IsInjective(list), NEW a \in S
    PROVE  /\ Toggled(list, a) \in Seq(S)
           /\ IsInjective(Toggled(list, a))
           /\ ToSet(Toggled(list, a)) = SymDiff(ToSet(list), {a})
<1>1. /\ Len(list) \in Nat /\ DOMAIN list = 1..Len(list)
      /\ \A i, j \in 1..Len(list) : list[i] = list[j] => i = j
    BY LenProperties DEF IsInjective
<1>2. CASE Contains(list, a)
    <2> DEFINE n == IndexOf(list, a)
               u == RemoveAt(list, n)
    <2>1. n \in 1..Len(list) /\ list[n] = a
        <3>1. PICK i \in 1..Len(list) : list[i] = a
            BY <1>2 DEF Contains
        <3>2. \A m \in 1..(i - 1) : list[m] # a
            BY <1>1, <3>1
        <3> QED
            BY <3>1, <3>2 DEF IndexOf
    <2> HIDE DEF n
    <2>2. /\ u \in Seq(S) /\ Len(u) = Len(list) - 1
          /\ \A k \in 1..(Len(list) - 1) : u[k] = IF k < n THEN list[k] ELSE list[k + 1]
        BY <2>1, RemoveAtIs
    <2>3. Toggled(list, a) = u
        BY <1>2 DEF Toggled, n
    <2> HIDE DEF u
    <2>4. DOMAIN u = 1..(Len(list) - 1)
        BY <2>2, LenProperties
    <2>5. ASSUME NEW i \in 1..(Len(list) - 1), NEW j \in 1..(Len(list) - 1), u[i] = u[j]
          PROVE  i = j
        <3> DEFINE p == IF i < n THEN i ELSE i + 1
                   q == IF j < n THEN j ELSE j + 1
        <3>1. u[i] = list[p] /\ u[j] = list[q]
            BY <2>2
        <3>2. p \in 1..Len(list) /\ q \in 1..Len(list)
            BY <1>1, <2>1
        <3>3. p = q => i = j
            BY <1>1, <2>1
        <3> HIDE DEF p, q
        <3>4. p = q
            BY <1>1, <2>5, <3>1, <3>2
        <3> QED
            BY <3>3, <3>4
    <2>6. IsInjective(u)
        BY <2>4, <2>5 DEF IsInjective
    <2>7. ASSUME NEW k \in 1..(Len(list) - 1) PROVE u[k] \in ToSet(list) /\ u[k] # a
        <3>1. k \in 1..Len(list) /\ k + 1 \in 1..Len(list) /\ (k >= n => k + 1 # n)
            BY <1>1, <2>1
        <3>2. PICK m \in 1..Len(list) : u[k] = list[m] /\ m # n
            BY <1>1, <2>1, <2>2, <3>1
        <3> QED
            BY <1>1, <2>1, <3>2 DEF ToSet
    <2>8. ASSUME NEW m \in 1..Len(list), list[m] # a
          PROVE  \E k \in 1..(Len(list) - 1) : u[k] = list[m]
        <3>1. CASE m < n
            <4>1. m \in 1..(Len(list) - 1)
                BY <1>1, <2>1, <3>1
            <4> QED
                BY <2>2, <3>1, <4>1
        <3>2. CASE m > n
            <4>1. m - 1 \in 1..(Len(list) - 1) /\ ~(m - 1 < n) /\ (m - 1) + 1 = m
                BY <1>1, <2>1, <3>2
            <4>2. u[m - 1] = list[(m - 1) + 1]
                BY <2>2, <4>1
            <4> QED
                BY <4>1, <4>2
        <3> QED
            BY <1>1, <2>1, <2>8, <3>1, <3>2
    <2>9. ToSet(u) = {x \in ToSet(list) : x # a}
        <3>1. ASSUME NEW x \in ToSet(u) PROVE x \in ToSet(list) /\ x # a
            <4>1. PICK k \in 1..(Len(list) - 1) : x = u[k]
                BY <2>4 DEF ToSet
            <4> QED
                BY <2>7, <4>1
        <3>2. ASSUME NEW x \in ToSet(list), x # a PROVE x \in ToSet(u)
            <4>1. PICK m \in 1..Len(list) : x = list[m]
                BY <1>1 DEF ToSet
            <4> QED
                BY <2>4, <2>8, <3>2, <4>1 DEF ToSet
        <3> QED
            BY <3>1, <3>2
    <2>10. a \in ToSet(list)
        BY <1>1, <2>1 DEF ToSet
    <2>11. ToSet(u) = SymDiff(ToSet(list), {a})
        BY <2>9, <2>10 DEF SymDiff
    <2> QED
        BY <2>2, <2>3, <2>6, <2>11
<1>3. CASE ~Contains(list, a)
    <2> DEFINE u == Append(list, a)
    <2>1. /\ u \in Seq(S) /\ Len(u) = Len(list) + 1 /\ DOMAIN u = 1..(Len(list) + 1)
          /\ u[Len(list) + 1] = a /\ \A k \in 1..Len(list) : u[k] = list[k]
        BY <1>1, AppendProperties, LenProperties
    <2>2. \A k \in 1..Len(list) : list[k] # a
        BY <1>3 DEF Contains
    <2>3. Toggled(list, a) = u
        BY <1>3 DEF Toggled
    <2> HIDE DEF u
    <2>4. \A k \in 1..(Len(list) + 1) : k \in 1..Len(list) \/ k = Len(list) + 1
        BY <1>1
    <2>5. IsInjective(u)
        BY <1>1, <2>1, <2>2, <2>4 DEF IsInjective
    <2>6. ToSet(u) = ToSet(list) \cup {a}
        <3>1. ASSUME NEW x \in ToSet(u) PROVE x \in ToSet(list) \cup {a}
            <4>1. PICK k \in 1..(Len(list) + 1) : x = u[k]
                BY <2>1 DEF ToSet
            <4> QED
                BY <1>1, <2>1, <2>4, <4>1 DEF ToSet
        <3>2. ASSUME NEW x \in ToSet(list) PROVE x \in ToSet(u)
            <4>1. PICK k \in 1..Len(list) : x = list[k]
                BY <1>1 DEF ToSet
            <4>2. k \in 1..(Len(list) + 1)
                BY <1>1
            <4> QED
                BY <2>1, <4>1, <4>2 DEF ToSet
        <3>3. a \in ToSet(u)
            <4>1. Len(list) + 1 \in 1..(Len(list) + 1)
                BY <1>1
            <4> QED
                BY <2>1, <4>1 DEF ToSet
        <3> QED
            BY <3>1, <3>2, <3>3
    <2>7. a \notin ToSet(list)
        BY <1>1, <2>2 DEF ToSet
    <2>8. ToSet(u) = SymDiff(ToSet(list), {a})
        BY <2>6, <2>7 DEF SymDiff
    <2> QED
        BY <2>1, <2>3, <2>5, <2>8
<1> QED
    BY <1>2, <1>3

-----------------------------------------------------------------------------
(* What is known of a call in flight.                                      *)

FactNames == {"ACCESS", "MANAGER", "TEXT", "LIKES"}

Requests ==
    [op : Operations, actor : Actors, arg : Nat \cup BOOLEAN \cup {"TRUE", "FALSE", "LEFT_OUT"},
     todo : Seq(Statements), likes : Seq(Actors), creator : Actors, showLikes : BOOLEAN,
     shows : SUBSET FactNames]

CallsTyped ==
    /\ call \in [Calls -> Requests \cup {Idle}]
    /\ witnessed \in [Calls -> SUBSET FactNames]
    /\ lastComment \in Nat
    /\ meant \in [likes : SUBSET Actors, showLikes : BOOLEAN]

ArgumentFits(c) ==
    /\ call[c].op \in OfComment => call[c].arg \in 1..lastComment
    /\ call[c].op \in OfTeam => call[c].arg \in BOOLEAN
    /\ call[c].op = "SETTINGS" => call[c].arg \in {"TRUE", "FALSE", "LEFT_OUT"}

\* What holds now was witnessed, and so was all that the answer shows.
Saw(c) ==
    /\ \A a \in Actors : call[c].actor = a => Facts(a) \subseteq witnessed[c]
    /\ call[c].shows \subseteq witnessed[c]

\* What the checks that are done have found.
Checked(c) ==
    /\ /\ call[c].op \in OfItem \cup OfComment
       /\ ~Ahead(call[c].todo, "MEMBER")
       => "ACCESS" \in witnessed[c]
    /\ /\ call[c].op \notin OfItem
       /\ ~Ahead(call[c].todo, "ROLE")
       => \/ "MANAGER" \in witnessed[c]
          \/ call[c].op \in OfComment /\ call[c].creator = call[c].actor
    /\ /\ call[c].op \in OfComment
       /\ ~Ahead(call[c].todo, "READ_COMMENT")
       /\ call[c].arg \in DOMAIN comments
       => call[c].creator = comments[call[c].arg].creator

CallOK(c) ==
    call[c] # Idle =>
        /\ Ordered(call[c].op, call[c].todo)
        /\ IsInjective(call[c].likes)
        /\ ArgumentFits(c)
        /\ Saw(c)
        /\ Checked(c)

Inv ==
    /\ TypeOK
    /\ CallsTyped
    /\ LikedOnce
    /\ \A c \in Calls : CallOK(c)

LEMMA IdleIsNoRequest == Idle \notin Requests /\ \A r \in Requests : r # Idle
<1>1. Idle.op = "IDLE" /\ "IDLE" \notin Operations
    BY DEF Idle, Operations, OfItem, OfComment, OfTeam
<1> QED
    BY <1>1 DEF Requests

LEMMA InFlight ==
    ASSUME Inv, NEW c \in Calls, call[c] # Idle
    PROVE  /\ call[c] \in Requests
           /\ CallOK(c)
           /\ call[c].todo \in Seq(Statements) /\ Len(call[c].todo) \in Nat
           /\ Len(call[c].todo) > 0
           /\ Head(call[c].todo) = call[c].todo[1]
<1>1. call[c] \in Requests /\ CallOK(c)
    BY DEF Inv, CallsTyped
<1>2. call[c].todo \in Seq(Statements) /\ Len(call[c].todo) > 0
    BY <1>1 DEF CallOK, Ordered
<1>3. Len(call[c].todo) \in Nat /\ Head(call[c].todo) = call[c].todo[1]
    BY <1>2
<1> QED
    BY <1>1, <1>2, <1>3

LEMMA WitnessGrows ==
    ASSUME Inv, Witness, NEW c \in Calls, call'[c] \in Requests
    PROVE  /\ witnessed[c] \subseteq witnessed'[c]
           /\ \A a \in Actors : call'[c].actor = a => Facts(a)' \subseteq witnessed'[c]
<1>1. call'[c] # Idle
    BY IdleIsNoRequest
<1>2. witnessed'[c] =
        witnessed[c] \cup UNION {Facts(a)' : a \in {b \in Actors : call'[c].actor = b}}
    BY <1>1 DEF Witness
<1> QED
    BY <1>2

LEMMA WitnessTyped ==
    ASSUME Inv, Witness
    PROVE  witnessed' \in [Calls -> SUBSET FactNames]
<1>1. \A a \in Actors : Facts(a)' \subseteq FactNames
    BY DEF Facts, FactNames
<1>2. \A c \in Calls : witnessed[c] \subseteq FactNames
    BY DEF Inv, CallsTyped
<1>3. \A c \in Calls :
        (witnessed[c] \cup UNION {Facts(a)' : a \in {b \in Actors : call'[c].actor = b}})
            \subseteq FactNames
    BY <1>1, <1>2
<1> QED
    BY <1>3 DEF Witness

\* Comments are never given an id again, and keep their creators.
CommentsKept ==
    /\ lastComment' \in Nat /\ lastComment <= lastComment'
    /\ \A k \in 1..lastComment :
        k \in DOMAIN comments' =>
            k \in DOMAIN comments /\ comments'[k].creator = comments[k].creator

LEMMA OthersKept ==
    ASSUME Inv, Witness, CommentsKept, NEW d \in Calls, call'[d] = call[d]
    PROVE  CallOK(d)'
<1> SUFFICES ASSUME call[d] # Idle
             PROVE  (Ordered(call[d].op, call[d].todo) /\ IsInjective(call[d].likes)
                        /\ ArgumentFits(d) /\ Saw(d) /\ Checked(d))'
    BY DEF CallOK
<1>1. call[d] \in Requests /\ CallOK(d)
    BY InFlight
<1>2. Ordered(call'[d].op, call'[d].todo) /\ IsInjective(call'[d].likes)
    BY <1>1 DEF CallOK
<1>3. ArgumentFits(d)'
    BY <1>1 DEF Inv, CallsTyped, CallOK, ArgumentFits, CommentsKept
<1>4. witnessed[d] \subseteq witnessed'[d]
    BY <1>1, WitnessGrows
<1>5. Saw(d)'
    BY <1>1, <1>4, WitnessGrows DEF CallOK, Saw
<1>6. Checked(d)'
    <2>1. Checked(d) /\ ArgumentFits(d)
        BY <1>1 DEF CallOK
    <2> QED
        BY <1>4, <2>1 DEF Checked, ArgumentFits, CommentsKept
<1> QED
    BY <1>2, <1>3, <1>5, <1>6

\* A call c moves on with request, which is in order and rests on nothing else.
LEMMA CallKeeps ==
    ASSUME Inv, Witness, CommentsKept, TypeOK', LikedOnce',
           meant' \in [likes : SUBSET Actors, showLikes : BOOLEAN],
           NEW c \in Calls, NEW request \in Requests \cup {Idle},
           call' = [call EXCEPT ![c] = request], CallOK(c)'
    PROVE  Inv'
<1>1. call'[c] = request /\ \A d \in Calls \ {c} : call'[d] = call[d]
    BY DEF Inv, CallsTyped
<1>2. call' \in [Calls -> Requests \cup {Idle}]
    BY DEF Inv, CallsTyped
<1>3. CallsTyped'
    BY <1>2, WitnessTyped DEF CallsTyped, CommentsKept
<1>4. ASSUME NEW d \in Calls PROVE CallOK(d)'
    BY <1>1, OthersKept
<1> QED
    BY <1>3, <1>4 DEF Inv

\* A call that ends, by its write or by a refusal.
LEMMA FinishKeeps ==
    ASSUME Inv, Witness, CommentsKept, TypeOK', LikedOnce',
           meant' \in [likes : SUBSET Actors, showLikes : BOOLEAN],
           NEW c \in Calls, Finish(c)
    PROVE  Inv'
<1>1. call'[c] = Idle
    BY DEF Inv, CallsTyped, Finish
<1>2. CallOK(c)'
    BY <1>1 DEF CallOK
<1> QED
    BY <1>2, CallKeeps DEF Finish

\* A statement that only reads leaves the tables, but for the guest's row.
LEMMA TablesKept ==
    ASSUME Inv, UNCHANGED <<team, content, lastComment, meant>>, guestExists' \in BOOLEAN
    PROVE  /\ CommentsKept /\ TypeOK' /\ LikedOnce'
           /\ meant' \in [likes : SUBSET Actors, showLikes : BOOLEAN]
<1>1. CommentsKept
    BY DEF Inv, CallsTyped, CommentsKept, content
<1>2. TypeOK'
    BY DEF Inv, TypeOK, team, content
<1>3. LikedOnce'
    BY DEF Inv, LikedOnce, content
<1>4. meant' \in [likes : SUBSET Actors, showLikes : BOOLEAN]
    BY DEF Inv, CallsTyped
<1> QED
    BY <1>1, <1>2, <1>3, <1>4

\* n statements of the call c are done, after which it knows what known holds.
LEMMA ProceedKeeps ==
    ASSUME Inv, Witness, UNCHANGED <<team, content, lastComment, meant>>,
           guestExists' \in BOOLEAN,
           NEW c \in Calls, call[c] # Idle, NEW n \in 1..2, NEW known, Proceed(c, n, known),
           known \in Requests, IsInjective(known.likes),
           known.op = call[c].op, known.actor = call[c].actor, known.arg = call[c].arg,
           known.todo = call[c].todo, known.shows \subseteq witnessed[c],
           n < Len(call[c].todo),
           call[c].todo[1] = "MEMBER" \/ (n = 2 /\ call[c].todo[2] = "MEMBER")
                => HasAccess(call[c].actor),
           n = 2 => call[c].todo[2] = "MEMBER",
           call[c].todo[1] = "ROLE" =>
                \/ Manages(call[c].actor)
                \/ call[c].op \in OfComment /\ call[c].creator = call[c].actor,
           \/ known.creator = call[c].creator /\ call[c].todo[1] # "READ_COMMENT"
           \/ known.creator = comments[call[c].arg].creator
                /\ call[c].todo[1] = "READ_COMMENT"
    PROVE  Inv'
<1> DEFINE s == call[c].todo
           t == SubSeq(s, n + 1, Len(s))
           request == [known EXCEPT !.todo = t]
<1>1. call[c] \in Requests /\ CallOK(c) /\ Ordered(call[c].op, s)
    BY InFlight DEF CallOK
<1>2. Left(s, t, n)
    BY <1>1, SubSeqLeft DEF Ordered
<1>3. t \in Seq(Statements) /\ Ordered(call[c].op, t)
    BY <1>1, <1>2, LeftOrdered DEF Left
<1>4. \A step \in Statements : ~Ahead(t, step) =>
        ~Ahead(s, step) \/ s[1] = step \/ (n = 2 /\ s[2] = step)
    BY <1>1, <1>2, LeftAhead
<1> HIDE DEF t
<1>5. request \in Requests
    BY <1>3 DEF Requests
<1>6. /\ request.todo = t /\ request.op = call[c].op /\ request.actor = call[c].actor
      /\ request.arg = call[c].arg /\ request.likes = known.likes
      /\ request.creator = known.creator /\ request.shows = known.shows
    BY DEF Requests
<1>7. call' = [call EXCEPT ![c] = request]
    BY DEF Proceed, t
<1>8. call'[c] = request
    BY <1>7 DEF Inv, CallsTyped
<1> HIDE DEF request
<1>9. witnessed[c] \subseteq witnessed'[c]
    BY <1>5, <1>8, WitnessGrows
<1>10. ArgumentFits(c)'
    BY <1>1, <1>6, <1>8 DEF CallOK, ArgumentFits
<1>11. Saw(c)'
    BY <1>5, <1>6, <1>8, <1>9, WitnessGrows DEF Saw
<1>12. Checked(c)'
    <2>1. /\ HasAccess(call[c].actor) => "ACCESS" \in witnessed[c]
          /\ Manages(call[c].actor) => "MANAGER" \in witnessed[c]
        <3>1. call[c].actor \in Actors /\ Facts(call[c].actor) \subseteq witnessed[c]
            BY <1>1 DEF CallOK, Saw, Requests
        <3> QED
            BY <3>1 DEF Facts
    <2>2. ASSUME call[c].op \in OfItem \cup OfComment, ~Ahead(t, "MEMBER")
          PROVE  "ACCESS" \in witnessed[c]
        <3>1. ~Ahead(s, "MEMBER") \/ s[1] = "MEMBER" \/ (n = 2 /\ s[2] = "MEMBER")
            BY <1>4, <2>2 DEF Statements
        <3> QED
            BY <1>1, <2>1, <2>2, <3>1 DEF CallOK, Checked
    <2>3. ASSUME call[c].op \notin OfItem, ~Ahead(t, "ROLE")
          PROVE  \/ "MANAGER" \in witnessed[c]
                 \/ call[c].op \in OfComment /\ known.creator = call[c].actor
        <3>1. ~Ahead(s, "ROLE") \/ s[1] = "ROLE"
            BY <1>4, <2>3 DEF Statements
        <3>2. s[1] # "READ_COMMENT"
            <4>1. SUFFICES ASSUME s[1] = "READ_COMMENT" PROVE FALSE
                OBVIOUS
            <4>2. 1 \in 1..Len(s) /\ Len(s) \in Nat
                BY <1>1, InFlight
            <4>3. \E j \in 2..Len(s) : s[j] = "ROLE"
                BY <1>1, <4>1, <4>2 DEF Ordered
            <4>4. Ahead(s, "ROLE")
                BY <4>2, <4>3 DEF Ahead
            <4> QED
                BY <3>1, <4>1, <4>4
        <3>3. known.creator = call[c].creator
            BY <3>2
        <3> QED
            BY <1>1, <2>1, <2>3, <3>1, <3>3 DEF CallOK, Checked
    <2>4. ASSUME call[c].op \in OfComment, ~Ahead(t, "READ_COMMENT"),
                 call[c].arg \in DOMAIN comments
          PROVE  known.creator = comments[call[c].arg].creator
        <3>1. ~Ahead(s, "READ_COMMENT") \/ s[1] = "READ_COMMENT"
            BY <1>4, <2>4 DEF Statements
        <3> QED
            BY <1>1, <2>4, <3>1 DEF CallOK, Checked
    <2>5. comments' = comments
        BY DEF content
    <2> QED
        BY <1>6, <1>8, <1>9, <2>2, <2>3, <2>4, <2>5 DEF Checked
<1>13. Ordered(call'[c].op, call'[c].todo) /\ IsInjective(call'[c].likes)
    BY <1>3, <1>6, <1>8
<1>14. CallOK(c)'
    BY <1>10, <1>11, <1>12, <1>13 DEF CallOK
<1> QED
    BY <1>5, <1>7, <1>14, TablesKept, CallKeeps

-----------------------------------------------------------------------------
(* The steps of a call.                                                    *)

\* The call that Begin(c, op, a, arg) begins.
First(op, a, arg) ==
    [op |-> op, actor |-> a, arg |-> arg,
     todo |-> (IF a = Guest THEN <<"FIND_GUEST">> ELSE <<>>) \o Handler[op],
     likes |-> <<>>, creator |-> Guest, showLikes |-> TRUE, shows |-> {}]

LEMMA FirstType ==
    ASSUME Inv, NEW op \in Operations, NEW a \in Actors, NEW arg \in Arguments(op)
    PROVE  /\ First(op, a, arg) \in Requests
           /\ First(op, a, arg).op = op /\ First(op, a, arg).actor = a
           /\ First(op, a, arg).arg = arg /\ First(op, a, arg).shows = {}
           /\ First(op, a, arg).likes = <<>>
           /\ Ordered(op, First(op, a, arg).todo) /\ Complete(op, First(op, a, arg).todo)
           /\ First(op, a, arg).todo[1] \notin {"MEMBER", "CREATE_GUEST"}
<1> DEFINE prefix == IF a = Guest THEN <<"FIND_GUEST">> ELSE <<>>
           t == prefix \o Handler[op]
<1>1. Ordered(op, t) /\ Complete(op, t) /\ t[1] \notin {"MEMBER", "CREATE_GUEST"}
    <2>1. prefix = <<>> \/ prefix = <<"FIND_GUEST">>
        OBVIOUS
    <2> QED
        BY <2>1, FirstOrdered
<1>2. First(op, a, arg) =
        [op |-> op, actor |-> a, arg |-> arg, todo |-> t, likes |-> <<>>, creator |-> Guest,
         showLikes |-> TRUE, shows |-> {}]
    BY DEF First
<1> HIDE DEF t
<1>3. arg \in Nat \cup BOOLEAN \cup {"TRUE", "FALSE", "LEFT_OUT"}
    <2>1. lastComment \in Nat
        BY DEF Inv, CallsTyped
    <2>2. CASE op \in OfComment
        BY <2>1, <2>2 DEF Arguments
    <2>3. CASE op \notin OfComment
        BY <2>3 DEF Arguments
    <2> QED
        BY <2>2, <2>3
<1>4. Guest \in Actors /\ <<>> \in Seq(Actors) /\ {} \in SUBSET FactNames
    BY DEF Actors
<1>5. t \in Seq(Statements)
    BY <1>1 DEF Ordered
<1> QED
    BY <1>1, <1>2, <1>3, <1>4, <1>5 DEF Requests

LEMMA BeginKeeps ==
    ASSUME Inv, Witness, NEW c \in Calls, NEW op \in Operations, NEW a \in Actors,
           NEW arg \in Arguments(op), Begin(c, op, a, arg)
    PROVE  Inv'
<1> DEFINE request == First(op, a, arg)
<1>1. /\ request \in Requests /\ request.op = op /\ request.actor = a /\ request.arg = arg
      /\ request.shows = {} /\ request.likes = <<>>
      /\ Ordered(op, request.todo) /\ Complete(op, request.todo)
    BY FirstType
<1>2. call' = [call EXCEPT ![c] = request] /\ UNCHANGED <<team, content, lastComment, meant>>
      /\ guestExists' \in BOOLEAN
    <2>1. guestExists' = guestExists /\ guestExists \in BOOLEAN
        BY DEF Begin, Inv, TypeOK
    <2> QED
        BY <2>1 DEF Begin, First
<1>3. call'[c] = request
    BY <1>2 DEF Inv, CallsTyped
<1> HIDE DEF request
<1>4. ArgumentFits(c)'
    <2>1. /\ op \in OfComment => arg \in 1..lastComment
          /\ op \in OfTeam => arg \in BOOLEAN
          /\ op = "SETTINGS" => arg \in {"TRUE", "FALSE", "LEFT_OUT"}
        BY DEF Arguments, OfTeam, OfComment
    <2> QED
        BY <1>1, <1>2, <1>3, <2>1 DEF ArgumentFits
<1>5. Saw(c)'
    BY <1>1, <1>3, WitnessGrows DEF Saw
<1>6. Checked(c)'
    BY <1>1, <1>3 DEF Checked, Complete
<1>7. Ordered(call'[c].op, call'[c].todo) /\ IsInjective(call'[c].likes)
    BY <1>1, <1>3 DEF IsInjective
<1>8. CallOK(c)'
    BY <1>4, <1>5, <1>6, <1>7 DEF CallOK
<1> QED
    BY <1>1, <1>2, <1>8, TablesKept, CallKeeps

\* The list of a call that is to create the guest, or has found it.
LEMMA GuestLists ==
    ASSUME NEW op, NEW s, Ordered(op, s), s[1] = "FIND_GUEST"
    PROVE  /\ Left(s, <<>> \o Tail(s), 1)
           /\ <<"CREATE_GUEST">> \o Tail(s) \in Seq(Statements)
           /\ Len(<<"CREATE_GUEST">> \o Tail(s)) = Len(s)
           /\ (<<"CREATE_GUEST">> \o Tail(s))[1] = "CREATE_GUEST"
           /\ \A k \in 2..Len(s) : (<<"CREATE_GUEST">> \o Tail(s))[k] = s[k]
<1> DEFINE t == Tail(s)
           h == <<"CREATE_GUEST">>
           u == h \o t
<1>1. s \in Seq(Statements) /\ Len(s) \in Nat /\ Len(s) > 0 /\ s # <<>>
    BY DEF Ordered
<1>2. /\ t \in Seq(Statements) /\ Len(t) = Len(s) - 1
      /\ \A i \in 1..Len(t) : t[i] = s[i + 1]
    BY <1>1, HeadTailProperties
<1>3. h \in Seq(Statements) /\ Len(h) = 1 /\ h[1] = "CREATE_GUEST"
    BY DEF Statements
<1> HIDE DEF t, h
<1>4. <<>> \o t = t
    BY <1>2, ConcatEmptySeq
<1>5. /\ u \in Seq(Statements) /\ Len(u) = Len(t) + 1 /\ u[1] = h[1]
      /\ \A k \in 2..(Len(t) + 1) : u[k] = t[k - 1]
    BY <1>2, <1>3, Prefixed
<1> HIDE DEF u
<1>6. Len(u) = Len(s) /\ u[1] = "CREATE_GUEST"
    BY <1>1, <1>2, <1>3, <1>5
<1>7. ASSUME NEW k \in 2..Len(s) PROVE u[k] = s[k]
    <2>1. k \in 2..(Len(t) + 1) /\ k - 1 \in 1..Len(t) /\ (k - 1) + 1 = k
        BY <1>1, <1>2
    <2> QED
        BY <1>2, <1>5, <2>1
<1>8. Left(s, t, 1)
    BY <1>2 DEF Left
<1> QED
    BY <1>4, <1>5, <1>6, <1>7, <1>8 DEF t, h, u

LEMMA FindGuestKeeps ==
    ASSUME Inv, Witness, NEW c \in Calls, FindGuest(c)
    PROVE  Inv'
<1> DEFINE s == call[c].todo
<1>1. /\ call[c] \in Requests /\ call[c] # Idle /\ CallOK(c) /\ Ordered(call[c].op, s)
      /\ s[1] = "FIND_GUEST" /\ Len(s) > 1 /\ Len(s) \in Nat
    <2>1. /\ call[c] \in Requests /\ call[c] # Idle /\ CallOK(c) /\ Ordered(call[c].op, s)
          /\ s[1] = "FIND_GUEST" /\ Len(s) > 0 /\ Len(s) \in Nat
        BY InFlight DEF FindGuest, AtStep, CallOK
    <2> QED
        BY <2>1, NotLast
<1> DEFINE t == (IF guestExists THEN <<>> ELSE <<"CREATE_GUEST">>) \o Tail(s)
           request == [call[c] EXCEPT !.todo = t]
<1>2. t \in Seq(Statements) /\ Ordered(call[c].op, t)
    <2>1. CASE guestExists
        <3>1. Left(s, t, 1)
            BY <1>1, <2>1, GuestLists
        <3> HIDE DEF t
        <3> QED
            BY <1>1, <3>1, LeftOrdered DEF Left
    <2>2. CASE ~guestExists
        <3>1. t = <<"CREATE_GUEST">> \o Tail(s)
            BY <2>2
        <3> HIDE DEF t
        <3>2. /\ t \in Seq(Statements) /\ Len(t) = Len(s) /\ t[1] = "CREATE_GUEST"
              /\ \A k \in 2..Len(t) : t[k] = s[k]
            BY <1>1, <3>1, GuestLists
        <3> QED
            BY <1>1, <3>2, CreateOrdered
    <2> QED
        BY <2>1, <2>2
<1>3. \A step \in Statements \ {"FIND_GUEST"} : Ahead(s, step) => Ahead(t, step)
    <2>1. CASE guestExists
        <3>1. Left(s, t, 1)
            BY <1>1, <2>1, GuestLists
        <3> HIDE DEF t
        <3> QED
            BY <1>1, <3>1, LeftAhead
    <2>2. CASE ~guestExists
        <3>1. t = <<"CREATE_GUEST">> \o Tail(s)
            BY <2>2
        <3> HIDE DEF t
        <3>2. /\ t \in Seq(Statements) /\ Len(t) = Len(s) /\ t[1] = "CREATE_GUEST"
              /\ \A k \in 2..Len(t) : t[k] = s[k]
            BY <1>1, <3>1, GuestLists
        <3> QED
            BY <1>1, <3>2, CreateOrdered
    <2> QED
        BY <2>1, <2>2
<1>4. call' = [call EXCEPT ![c] = request]
    BY DEF FindGuest
<1>5. call'[c] = request
    BY <1>4 DEF Inv, CallsTyped
<1> HIDE DEF t
<1>6. request \in Requests
    BY <1>1, <1>2 DEF Requests
<1>7. /\ request.todo = t /\ request.op = call[c].op /\ request.actor = call[c].actor
      /\ request.arg = call[c].arg /\ request.likes = call[c].likes
      /\ request.creator = call[c].creator /\ request.shows = call[c].shows
    BY <1>1 DEF Requests
<1> HIDE DEF request
<1>8. UNCHANGED <<team, content, lastComment, meant, guestExists>> /\ guestExists' \in BOOLEAN
    BY DEF FindGuest, tables, Inv, TypeOK
<1>9. witnessed[c] \subseteq witnessed'[c]
    BY <1>5, <1>6, WitnessGrows
<1>10. ArgumentFits(c)'
    BY <1>1, <1>5, <1>7, <1>8 DEF CallOK, ArgumentFits
<1>11. Saw(c)'
    BY <1>1, <1>5, <1>6, <1>7, <1>9, WitnessGrows DEF CallOK, Saw
<1>12. Checked(c)'
    <2>1. Ahead(s, "MEMBER") => Ahead(t, "MEMBER")
        BY <1>3 DEF Statements
    <2>2. Ahead(s, "ROLE") => Ahead(t, "ROLE")
        BY <1>3 DEF Statements
    <2>3. Ahead(s, "READ_COMMENT") => Ahead(t, "READ_COMMENT")
        BY <1>3 DEF Statements
    <2>4. Checked(c)
        BY <1>1 DEF CallOK
    <2>5. comments' = comments
        BY <1>8 DEF content
    <2> QED
        BY <1>5, <1>7, <1>9, <2>1, <2>2, <2>3, <2>4, <2>5 DEF Checked
<1>13. Ordered(call'[c].op, call'[c].todo) /\ IsInjective(call'[c].likes)
    BY <1>1, <1>2, <1>5, <1>7 DEF CallOK
<1>14. CallOK(c)'
    BY <1>10, <1>11, <1>12, <1>13 DEF CallOK
<1> QED
    BY <1>4, <1>6, <1>8, <1>14, TablesKept, CallKeeps

\* A statement that only reads may find that the call is refused.
LEMMA RefusalKeeps ==
    ASSUME Inv, Witness, UNCHANGED <<team, content, lastComment, meant>>,
           guestExists' \in BOOLEAN, NEW c \in Calls, Finish(c)
    PROVE  Inv'
BY TablesKept, FinishKeeps

LEMMA AtStepFacts ==
    ASSUME Inv, NEW c \in Calls, NEW step, AtStep(c, step)
    PROVE  /\ call[c] # Idle /\ call[c] \in Requests /\ CallOK(c)
           /\ call[c].todo[1] = step /\ Ordered(call[c].op, call[c].todo)
           /\ step # "WRITE" => 1 < Len(call[c].todo)
           /\ step = "FLAG" => 2 < Len(call[c].todo) /\ call[c].todo[2] = "MEMBER"
<1>1. /\ call[c] # Idle /\ call[c] \in Requests /\ CallOK(c) /\ call[c].todo[1] = step
      /\ Ordered(call[c].op, call[c].todo)
    BY InFlight DEF AtStep, CallOK
<1>2. step # "WRITE" => 1 < Len(call[c].todo)
    <2>1. SUFFICES ASSUME step # "WRITE" PROVE 1 < Len(call[c].todo)
        OBVIOUS
    <2>2. Len(call[c].todo) \in Nat /\ Len(call[c].todo) > 1
        BY <1>1, <2>1, NotLast
    <2> QED
        BY <2>2
<1>3. step = "FLAG" => 2 < Len(call[c].todo) /\ call[c].todo[2] = "MEMBER"
    <2>1. SUFFICES ASSUME step = "FLAG"
                   PROVE  2 < Len(call[c].todo) /\ call[c].todo[2] = "MEMBER"
        OBVIOUS
    <2>2. Len(call[c].todo) \in Nat /\ Len(call[c].todo) > 2 /\ call[c].todo[2] = "MEMBER"
        BY <1>1, <2>1, NotLast
    <2> QED
        BY <2>2
<1> QED
    BY <1>1, <1>2, <1>3

\* A statement, done without learning what a later one uses.
LEMMA PassKeeps ==
    ASSUME Inv, Witness, UNCHANGED <<team, content, lastComment, meant>>,
           guestExists' \in BOOLEAN, NEW c \in Calls, NEW step, AtStep(c, step),
           step \notin {"WRITE", "READ_COMMENT"}, Proceed(c, 1, call[c]),
           step = "MEMBER" => HasAccess(call[c].actor),
           step = "ROLE" =>
                \/ Manages(call[c].actor)
                \/ call[c].op \in OfComment /\ call[c].creator = call[c].actor
    PROVE  Inv'
<1>1. /\ call[c] # Idle /\ call[c] \in Requests /\ CallOK(c)
      /\ call[c].todo[1] = step /\ 1 < Len(call[c].todo)
    BY AtStepFacts
<1>2. IsInjective(call[c].likes) /\ call[c].shows \subseteq witnessed[c]
    BY <1>1 DEF CallOK, Saw
<1>3. 1 \in 1..2 /\ 1 # 2
    OBVIOUS
<1> QED
    BY <1>1, <1>2, <1>3, ProceedKeeps

LEMMA GuestAndContext ==
    ASSUME Inv, Witness, NEW c \in Calls, CreateGuest(c) \/ Context(c)
    PROVE  Inv'
<1>1. guestExists \in BOOLEAN
    BY DEF Inv, TypeOK
<1>2. CASE CreateGuest(c)
    <2>1. CASE Finish(c)
        BY <1>2, <2>1, RefusalKeeps DEF CreateGuest
    <2>2. CASE Proceed(c, 1, call[c])
        BY <1>2, <2>2, PassKeeps DEF CreateGuest
    <2> QED
        BY <1>2, <2>1, <2>2 DEF CreateGuest
<1>3. CASE Context(c)
    <2>1. CASE Finish(c)
        BY <1>1, <1>3, <2>1, RefusalKeeps DEF Context, tables
    <2>2. CASE Proceed(c, 1, call[c])
        BY <1>1, <1>3, <2>2, PassKeeps DEF Context, tables
    <2> QED
        BY <1>3, <2>1, <2>2 DEF Context
<1> QED
    BY <1>2, <1>3

LEMMA Checks ==
    ASSUME Inv, Witness, NEW c \in Calls, ReadFlag(c) \/ ReadMember(c) \/ ReadRole(c)
    PROVE  Inv'
<1>1. guestExists \in BOOLEAN
    BY DEF Inv, TypeOK
<1>2. CASE ReadFlag(c)
    <2>1. CASE Finish(c)
        BY <1>1, <1>2, <2>1, RefusalKeeps DEF ReadFlag, tables
    <2>2. CASE ~open /\ Proceed(c, 1, call[c])
        BY <1>1, <1>2, <2>2, PassKeeps DEF ReadFlag, tables
    <2>3. CASE open /\ Proceed(c, 2, call[c])
        <3>1. /\ call[c] # Idle /\ call[c] \in Requests /\ CallOK(c)
              /\ call[c].todo[1] = "FLAG" /\ 2 < Len(call[c].todo)
              /\ call[c].todo[2] = "MEMBER"
            BY <1>2, AtStepFacts DEF ReadFlag
        <3>2. IsInjective(call[c].likes) /\ call[c].shows \subseteq witnessed[c]
            BY <3>1 DEF CallOK, Saw
        <3>3. HasAccess(call[c].actor) /\ 2 \in 1..2
            BY <2>3 DEF HasAccess
        <3>4. UNCHANGED <<team, content, lastComment, meant>> /\ guestExists' \in BOOLEAN
            BY <1>1, <1>2 DEF ReadFlag, tables
        <3> QED
            BY <2>3, <3>1, <3>2, <3>3, <3>4, ProceedKeeps
    <2> QED
        BY <1>2, <2>1, <2>2, <2>3 DEF ReadFlag
<1>3. CASE ReadMember(c)
    <2>1. CASE Finish(c)
        BY <1>1, <1>3, <2>1, RefusalKeeps DEF ReadMember, tables
    <2>2. CASE HasAccess(call[c].actor) /\ Proceed(c, 1, call[c])
        BY <1>1, <1>3, <2>2, PassKeeps DEF ReadMember, tables
    <2> QED
        BY <1>3, <2>1, <2>2 DEF ReadMember, HasAccess
<1>4. CASE ReadRole(c)
    <2>1. CASE Finish(c)
        BY <1>1, <1>4, <2>1, RefusalKeeps DEF ReadRole, tables
    <2>2. CASE /\ \/ Manages(call[c].actor)
                  \/ call[c].op \in OfComment /\ call[c].creator = call[c].actor
               /\ Proceed(c, 1, call[c])
        BY <1>1, <1>4, <2>2, PassKeeps DEF ReadRole, tables
    <2> QED
        BY <1>4, <2>1, <2>2 DEF ReadRole
<1> QED
    BY <1>2, <1>3, <1>4

\* What an answer is to show, as the flags are now, the call has witnessed.
LEMMA ShownWasSeen ==
    ASSUME Inv, NEW c \in Calls, call[c] # Idle
    PROVE  Shown \subseteq witnessed[c] /\ Shown \subseteq FactNames
<1>1. call[c].actor \in Actors /\ Facts(call[c].actor) \subseteq witnessed[c]
    BY InFlight DEF CallOK, Saw, Requests
<1> QED
    BY <1>1 DEF Shown, Facts, FactNames

LEMMA Reads ==
    ASSUME Inv, Witness, NEW c \in Calls, ReadItem(c) \/ ReadComment(c) \/ ReadSettings(c)
    PROVE  Inv'
<1>1. /\ guestExists \in BOOLEAN /\ UNCHANGED <<team, content, lastComment, meant, guestExists>>
      /\ guestExists' \in BOOLEAN
    BY DEF Inv, TypeOK, ReadItem, ReadComment, ReadSettings, tables
<1>2. CASE Finish(c)
    BY <1>1, <1>2, RefusalKeeps
<1>3. PICK step \in {"READ_ITEM", "READ_COMMENT", "READ_SETTINGS"} : AtStep(c, step)
    BY DEF ReadItem, ReadComment, ReadSettings
<1>4. /\ call[c] # Idle /\ call[c] \in Requests /\ CallOK(c)
      /\ call[c].todo[1] = step /\ 1 < Len(call[c].todo)
    BY <1>3, AtStepFacts
<1>5. /\ IsInjective(call[c].likes) /\ call[c].shows \subseteq witnessed[c]
      /\ Shown \subseteq witnessed[c] /\ Shown \in SUBSET FactNames /\ 1 \in 1..2 /\ 1 # 2
    BY <1>4, ShownWasSeen DEF CallOK, Saw
<1>6. ASSUME ReadItem(c), ~Finish(c) PROVE Inv'
    <2> DEFINE known == [call[c] EXCEPT !.likes = likes, !.shows = Shown]
    <2>1. likes \in Seq(Actors) /\ IsInjective(likes)
        BY DEF Inv, TypeOK, LikedOnce
    <2>2. known \in Requests
        BY <1>4, <1>5, <2>1 DEF Requests
    <2>3. /\ known.likes = likes /\ known.shows = Shown /\ known.op = call[c].op
          /\ known.actor = call[c].actor /\ known.arg = call[c].arg
          /\ known.todo = call[c].todo /\ known.creator = call[c].creator
        BY <1>4 DEF Requests
    <2>4. Proceed(c, 1, known) /\ call[c].todo[1] = "READ_ITEM"
        BY <1>6, AtStepFacts DEF ReadItem
    <2> HIDE DEF known
    <2> QED
        BY <1>1, <1>4, <1>5, <2>1, <2>2, <2>3, <2>4, ProceedKeeps
<1>7. ASSUME ReadComment(c), ~Finish(c) PROVE Inv'
    <2> DEFINE known == [call[c] EXCEPT !.creator = comments[call[c].arg].creator]
    <2>1. Proceed(c, 1, known) /\ Found(c)
        BY <1>7 DEF ReadComment
    <2>2. call[c].todo[1] = "READ_COMMENT"
        BY <1>7, AtStepFacts DEF ReadComment
    <2>3. call[c].op \in OfComment
        <3>1. /\ Ordered(call[c].op, call[c].todo)
              /\ 1 \in 1..Len(call[c].todo)
            BY <1>4, InFlight DEF CallOK
        <3> QED
            BY <2>2, <3>1 DEF Ordered
    <2>4. comments[call[c].arg].creator \in Actors
        BY <2>1, <2>3 DEF Found, Inv, TypeOK
    <2>5. known \in Requests
        BY <1>4, <2>4 DEF Requests
    <2>6. /\ known.likes = call[c].likes /\ known.shows = call[c].shows /\ known.op = call[c].op
          /\ known.actor = call[c].actor /\ known.arg = call[c].arg
          /\ known.todo = call[c].todo /\ known.creator = comments[call[c].arg].creator
        BY <1>4 DEF Requests
    <2> HIDE DEF known
    <2> QED
        BY <1>1, <1>4, <1>5, <2>1, <2>2, <2>5, <2>6, ProceedKeeps
<1>8. ASSUME ReadSettings(c), ~Finish(c) PROVE Inv'
    <2>1. call[c].todo[1] = "READ_SETTINGS"
        BY <1>8, AtStepFacts DEF ReadSettings
    <2>2. CASE call[c].op = "SETTINGS"
        <3> DEFINE known == [call[c] EXCEPT !.showLikes = showLikes]
        <3>1. showLikes \in BOOLEAN
            BY DEF Inv, TypeOK
        <3>2. known \in Requests
            BY <1>4, <3>1 DEF Requests
        <3>3. /\ known.likes = call[c].likes /\ known.shows = call[c].shows
              /\ known.op = call[c].op /\ known.actor = call[c].actor
              /\ known.arg = call[c].arg /\ known.todo = call[c].todo
              /\ known.creator = call[c].creator
            BY <1>4 DEF Requests
        <3>4. Proceed(c, 1, known)
            BY <1>8, <2>2 DEF ReadSettings
        <3> HIDE DEF known
        <3> QED
            BY <1>1, <1>4, <1>5, <2>1, <3>2, <3>3, <3>4, ProceedKeeps
    <2>3. CASE call[c].op # "SETTINGS"
        <3> DEFINE known == [call[c] EXCEPT !.shows = Shown]
        <3>1. known \in Requests
            BY <1>4, <1>5 DEF Requests
        <3>2. /\ known.likes = call[c].likes /\ known.shows = Shown
              /\ known.op = call[c].op /\ known.actor = call[c].actor
              /\ known.arg = call[c].arg /\ known.todo = call[c].todo
              /\ known.creator = call[c].creator
            BY <1>4 DEF Requests
        <3>3. Proceed(c, 1, known)
            BY <1>8, <2>3 DEF ReadSettings
        <3> HIDE DEF known
        <3> QED
            BY <1>1, <1>4, <1>5, <2>1, <3>1, <3>2, <3>3, ProceedKeeps
    <2> QED
        BY <2>2, <2>3
<1> QED
    BY <1>2, <1>6, <1>7, <1>8

-----------------------------------------------------------------------------
(* The writes.                                                             *)

LEMMA MeaningTyped ==
    ASSUME Inv, NEW new \in [likes : SUBSET Actors, showLikes : BOOLEAN], Meaning(new)
    PROVE  meant' \in [likes : SUBSET Actors, showLikes : BOOLEAN]
BY DEF Inv, CallsTyped, Meaning

LEMMA MeantFields ==
    ASSUME Inv, NEW L \in SUBSET Actors, NEW b \in BOOLEAN
    PROVE  /\ meant.likes \in SUBSET Actors /\ meant.showLikes \in BOOLEAN
           /\ [meant EXCEPT !.likes = L] \in [likes : SUBSET Actors, showLikes : BOOLEAN]
           /\ [meant EXCEPT !.likes = L].likes = L
           /\ [meant EXCEPT !.likes = L].showLikes = meant.showLikes
           /\ [meant EXCEPT !.showLikes = b] \in [likes : SUBSET Actors, showLikes : BOOLEAN]
           /\ [meant EXCEPT !.showLikes = b].likes = meant.likes
           /\ [meant EXCEPT !.showLikes = b].showLikes = b
<1>1. meant \in [likes : SUBSET Actors, showLikes : BOOLEAN]
    BY DEF Inv, CallsTyped
<1>2. meant.likes \in SUBSET Actors /\ meant.showLikes \in BOOLEAN
    BY <1>1
<1>3. /\ [meant EXCEPT !.likes = L] \in [likes : SUBSET Actors, showLikes : BOOLEAN]
      /\ [meant EXCEPT !.likes = L].likes = L
      /\ [meant EXCEPT !.likes = L].showLikes = meant.showLikes
    BY <1>1
<1>4. /\ [meant EXCEPT !.showLikes = b] \in [likes : SUBSET Actors, showLikes : BOOLEAN]
      /\ [meant EXCEPT !.showLikes = b].likes = meant.likes
      /\ [meant EXCEPT !.showLikes = b].showLikes = b
    BY <1>1
<1> QED
    BY <1>2, <1>3, <1>4

\* What a patch means to leave.
LEMMA MergedIs ==
    ASSUME NEW current \in BOOLEAN, NEW patch
    PROVE  /\ Merged(current, patch) \in BOOLEAN
           /\ patch = "TRUE" => Merged(current, patch) = TRUE
           /\ patch = "FALSE" => Merged(current, patch) = FALSE
           /\ patch = "LEFT_OUT" => Merged(current, patch) = current
BY DEF Merged

LEMMA WritesFacts ==
    ASSUME Inv, NEW c \in Calls, NEW op, Writes(c, op)
    PROVE  /\ call[c] # Idle /\ call[c] \in Requests /\ call[c].op \in op /\ Finish(c)
           /\ CallOK(c) /\ call[c].todo[1] = "WRITE"
           /\ \A step \in Statements \ {"WRITE"} : ~Ahead(call[c].todo, step)
<1>1. /\ call[c] # Idle /\ call[c] \in Requests /\ CallOK(c)
      /\ call[c].todo[1] = "WRITE" /\ Ordered(call[c].op, call[c].todo)
    BY AtStepFacts DEF Writes
<1>2. \A k \in 1..Len(call[c].todo) : call[c].todo[k] = "WRITE"
    BY <1>1 DEF Ordered
<1> QED
    BY <1>1, <1>2 DEF Writes, Ahead

LEMMA LikesAndItem ==
    ASSUME Inv, Witness, NEW c \in Calls,
           WriteLikes(c) \/ WriteItem(c) \/ WriteFails(c) \/ WriteDeletion(c)
    PROVE  Inv'
<1>1. /\ role \in [Users -> {"NONE", "MEMBER", "MANAGER"}]
      /\ {open, hidden, showLikes, guestExists, exists} \subseteq BOOLEAN
      /\ likes \in Seq(Actors) /\ IsInjective(likes)
      /\ DOMAIN comments \subseteq 1..lastComment
      /\ comments \in [DOMAIN comments -> [creator : Actors, text : Actors]]
      /\ lastComment \in Nat
    BY DEF Inv, TypeOK, CallsTyped, LikedOnce
<1>2. CASE WriteLikes(c)
    <2>1. Finish(c) /\ call[c].actor \in Actors /\ call[c].likes \in Seq(Actors)
          /\ IsInjective(call[c].likes)
        BY <1>2, WritesFacts DEF WriteLikes, Requests, CallOK
    <2>2. likes' \in Seq(Actors) /\ IsInjective(likes')
        BY <1>2, <2>1, ToggledIs DEF WriteLikes
    <2>3. TypeOK' /\ LikedOnce' /\ CommentsKept
        <3>1. TypeOK'
            BY <1>1, <1>2, <2>2 DEF WriteLikes, TypeOK, team
        <3>2. LikedOnce'
            BY <2>2 DEF LikedOnce
        <3>3. CommentsKept
            BY <1>1, <1>2 DEF WriteLikes, CommentsKept
        <3> QED
            BY <3>1, <3>2, <3>3
    <2>4. meant' \in [likes : SUBSET Actors, showLikes : BOOLEAN]
        <3> DEFINE L == SymDiff(meant.likes, {call[c].actor})
        <3>1. meant.likes \in SUBSET Actors
            BY MeantFields
        <3>2. L \in SUBSET Actors
            BY <2>1, <3>1 DEF SymDiff
        <3>3. Meaning([meant EXCEPT !.likes = L])
            BY <1>2 DEF WriteLikes
        <3> HIDE DEF L
        <3> QED
            BY <3>2, <3>3, MeantFields, MeaningTyped
    <2> QED
        BY <2>1, <2>3, <2>4, FinishKeeps
<1>3. CASE WriteItem(c) \/ WriteFails(c)
    <2>1. Finish(c) /\ UNCHANGED tables
        BY <1>3 DEF WriteItem, WriteFails, Writes
    <2> QED
        BY <1>1, <2>1, RefusalKeeps DEF tables
<1>4. CASE WriteDeletion(c)
    <2>1. Finish(c)
        BY <1>4 DEF WriteDeletion, Writes
    <2>2. likes' = <<>> /\ comments' = <<>> /\ exists' = FALSE
          /\ UNCHANGED <<team, showLikes, guestExists, lastComment>>
        BY <1>4 DEF WriteDeletion
    <2>3. <<>> \in Seq(Actors) /\ IsInjective(<<>>) /\ DOMAIN <<>> = {}
        BY DEF IsInjective
    <2>4. DOMAIN comments' = {}
        BY <2>2, <2>3
    <2>5. comments' \in [DOMAIN comments' -> [creator : Actors, text : Actors]]
        BY <2>2
    <2>6. TypeOK'
        BY <1>1, <2>2, <2>3, <2>4, <2>5 DEF TypeOK, team
    <2>7. LikedOnce' /\ CommentsKept
        BY <1>1, <2>2, <2>3, <2>4 DEF LikedOnce, CommentsKept
    <2>8. meant' \in [likes : SUBSET Actors, showLikes : BOOLEAN]
        BY <1>4, MeantFields, MeaningTyped DEF WriteDeletion
    <2> QED
        BY <2>1, <2>6, <2>7, <2>8, FinishKeeps
<1> QED
    BY <1>2, <1>3, <1>4

LEMMA Comments ==
    ASSUME Inv, Witness, NEW c \in Calls,
           InsertComment(c) \/ WriteComment(c) \/ DeleteComment(c)
    PROVE  Inv'
<1>1. /\ role \in [Users -> {"NONE", "MEMBER", "MANAGER"}]
      /\ {open, hidden, showLikes, guestExists, exists} \subseteq BOOLEAN
      /\ likes \in Seq(Actors)
      /\ DOMAIN comments \subseteq 1..lastComment
      /\ comments \in [DOMAIN comments -> [creator : Actors, text : Actors]]
      /\ lastComment \in Nat
    BY DEF Inv, TypeOK, CallsTyped
<1>2. Finish(c) /\ call[c] \in Requests /\ call[c].actor \in Actors
    BY WritesFacts DEF InsertComment, WriteComment, DeleteComment, Requests
<1>3. /\ UNCHANGED <<team, showLikes, exists, likes, guestExists, meant>>
      /\ meant' \in [likes : SUBSET Actors, showLikes : BOOLEAN]
    BY DEF InsertComment, WriteComment, DeleteComment, Inv, CallsTyped
<1>4. LikedOnce'
    BY <1>3 DEF Inv, LikedOnce
<1>5. SUFFICES /\ CommentsKept
               /\ DOMAIN comments' \subseteq 1..lastComment'
               /\ comments' \in [DOMAIN comments' -> [creator : Actors, text : Actors]]
    <2>1. ASSUME CommentsKept, DOMAIN comments' \subseteq 1..lastComment',
                 comments' \in [DOMAIN comments' -> [creator : Actors, text : Actors]]
          PROVE  Inv'
        <3>1. TypeOK'
            BY <1>1, <1>3, <2>1 DEF TypeOK, team
        <3> QED
            BY <1>2, <1>3, <1>4, <2>1, <3>1, FinishKeeps
    <2> QED
        BY <2>1
<1>6. CASE InsertComment(c)
    <2> DEFINE new == [creator |-> call[c].actor, text |-> call[c].actor]
    <2>1. lastComment' = lastComment + 1 /\ lastComment + 1 \notin DOMAIN comments
        BY <1>1, <1>6 DEF InsertComment
    <2>2. new \in [creator : Actors, text : Actors]
        BY <1>2
    <2>3. comments' = [k \in DOMAIN comments \cup {lastComment + 1} |->
                        IF k \in DOMAIN comments THEN comments[k] ELSE new]
        BY <1>6 DEF InsertComment
    <2> HIDE DEF new
    <2>4. /\ DOMAIN comments' = DOMAIN comments \cup {lastComment + 1}
          /\ \A k \in DOMAIN comments : comments'[k] = comments[k]
          /\ comments'[lastComment + 1] = new
        BY <2>1, <2>3
    <2>5. comments' \in [DOMAIN comments' -> [creator : Actors, text : Actors]]
        BY <1>1, <2>2, <2>3
    <2>6. DOMAIN comments' \subseteq 1..lastComment'
        BY <1>1, <2>1, <2>4
    <2>7. CommentsKept
        BY <1>1, <2>1, <2>4 DEF CommentsKept
    <2> QED
        BY <2>5, <2>6, <2>7
<1>7. CASE WriteComment(c)
    <2>1. lastComment' = lastComment
          /\ comments' = [comments EXCEPT ![call[c].arg].text = call[c].actor]
        BY <1>7 DEF WriteComment
    <2>2. call[c].arg \in DOMAIN comments
        BY <1>7 DEF WriteComment, Writes, Found, OfComment
    <2>3. \A r \in [creator : Actors, text : Actors] :
            /\ [r EXCEPT !.text = call[c].actor] \in [creator : Actors, text : Actors]
            /\ [r EXCEPT !.text = call[c].actor].creator = r.creator
        BY <1>2
    <2>4. /\ DOMAIN comments' = DOMAIN comments
          /\ \A k \in DOMAIN comments :
                comments'[k] = IF k = call[c].arg
                               THEN [comments[k] EXCEPT !.text = call[c].actor]
                               ELSE comments[k]
        BY <1>1, <2>1, <2>2
    <2>5. \A k \in DOMAIN comments : comments'[k] \in [creator : Actors, text : Actors]
                                     /\ comments'[k].creator = comments[k].creator
        BY <1>1, <2>3, <2>4
    <2>6. comments' \in [DOMAIN comments -> [creator : Actors, text : Actors]]
        BY <1>1, <2>1, <2>2, <2>5
    <2> QED
        BY <1>1, <2>1, <2>4, <2>5, <2>6 DEF CommentsKept
<1>8. CASE DeleteComment(c)
    <2>1. lastComment' = lastComment
          /\ comments' = [k \in DOMAIN comments \ {call[c].arg} |-> comments[k]]
        BY <1>8 DEF DeleteComment
    <2>2. /\ DOMAIN comments' \subseteq DOMAIN comments
          /\ \A k \in DOMAIN comments' : comments'[k] = comments[k]
        BY <2>1
    <2>3. comments' \in [DOMAIN comments' -> [creator : Actors, text : Actors]]
        BY <1>1, <2>1
    <2> QED
        BY <1>1, <2>1, <2>2, <2>3 DEF CommentsKept
<1> QED
    BY <1>6, <1>7, <1>8

LEMMA Flags ==
    ASSUME Inv, Witness, NEW c \in Calls, WriteSettings(c) \/ WriteTeamFlag(c)
    PROVE  Inv'
<1>1. /\ role \in [Users -> {"NONE", "MEMBER", "MANAGER"}]
      /\ {open, hidden, showLikes, guestExists, exists} \subseteq BOOLEAN
      /\ likes \in Seq(Actors)
      /\ DOMAIN comments \subseteq 1..lastComment
      /\ comments \in [DOMAIN comments -> [creator : Actors, text : Actors]]
      /\ lastComment \in Nat
    BY DEF Inv, TypeOK, CallsTyped
<1>2. /\ Finish(c) /\ call[c] \in Requests /\ ArgumentFits(c)
      /\ call[c].showLikes \in BOOLEAN
    BY WritesFacts DEF WriteSettings, WriteTeamFlag, Requests, CallOK
<1>3. UNCHANGED <<role, exists, likes, comments, guestExists, lastComment>>
    BY DEF WriteSettings, WriteTeamFlag, team, content
<1>4. LikedOnce' /\ CommentsKept
    BY <1>1, <1>3 DEF Inv, LikedOnce, CommentsKept
<1>5. CASE WriteSettings(c)
    <2>1. call[c].arg \in {"TRUE", "FALSE", "LEFT_OUT"}
        BY <1>2, <1>5 DEF WriteSettings, Writes, ArgumentFits
    <2>2. showLikes' \in BOOLEAN /\ UNCHANGED <<open, hidden>>
        BY <1>2, <1>5, MergedIs DEF WriteSettings, team
    <2>3. TypeOK'
        BY <1>1, <1>3, <2>2 DEF TypeOK
    <2>4. meant' \in [likes : SUBSET Actors, showLikes : BOOLEAN]
        <3> DEFINE b == CASE call[c].arg = "TRUE"     -> TRUE
                          [] call[c].arg = "FALSE"    -> FALSE
                          [] call[c].arg = "LEFT_OUT" -> meant.showLikes
        <3>1. b \in BOOLEAN
            BY <2>1, MeantFields
        <3>2. Meaning([meant EXCEPT !.showLikes = b])
            BY <1>5 DEF WriteSettings
        <3> HIDE DEF b
        <3> QED
            BY <3>1, <3>2, MeantFields, MeaningTyped
    <2> QED
        BY <1>2, <1>4, <2>3, <2>4, FinishKeeps
<1>6. CASE WriteTeamFlag(c)
    <2>1. call[c].arg \in BOOLEAN
        BY <1>2, <1>6 DEF WriteTeamFlag, Writes, ArgumentFits
    <2>2. open' \in BOOLEAN /\ hidden' \in BOOLEAN /\ UNCHANGED <<showLikes, meant>>
        BY <1>1, <1>6, <2>1 DEF WriteTeamFlag, content
    <2>3. TypeOK'
        BY <1>1, <1>3, <2>2 DEF TypeOK
    <2>4. meant' \in [likes : SUBSET Actors, showLikes : BOOLEAN]
        BY <2>2 DEF Inv, CallsTyped
    <2> QED
        BY <1>2, <1>4, <2>3, <2>4, FinishKeeps
<1> QED
    BY <1>5, <1>6

-----------------------------------------------------------------------------
(* The invariant.                                                          *)

\* What a behaviour chooses once.
Chosen == lanes \subseteq Calls /\ repertoire \subseteq Operations

LEMMA Invariance == Inv /\ Chosen /\ [Next]_vars => Inv'
<1> SUFFICES ASSUME Inv, Chosen, [Next]_vars PROVE Inv'
    OBVIOUS
<1>1. CASE UNCHANGED vars
    <2>1. UNCHANGED <<role, open, hidden, showLikes, exists, likes, comments, guestExists,
                      lastComment, call, witnessed, meant>>
        BY <1>1 DEF vars, team, content
    <2>2. TypeOK' /\ CallsTyped' /\ LikedOnce'
        BY <2>1 DEF Inv, TypeOK, CallsTyped, LikedOnce
    <2>3. \A c \in Calls : CallOK(c)'
        BY <2>1 DEF Inv, CallOK, ArgumentFits, Saw, Checked, Facts, HasAccess, Manages
    <2> QED
        BY <2>2, <2>3 DEF Inv
<1>2. ASSUME Witness, NEW u \in Users, NEW r \in {"NONE", "MEMBER", "MANAGER"},
             ChangeRole(u, r)
      PROVE  Inv'
    <2>1. /\ UNCHANGED <<open, hidden, showLikes, exists, likes, comments, guestExists,
                         lastComment, call, meant>>
          /\ role' = [role EXCEPT ![u] = r]
        BY <1>2 DEF ChangeRole, content
    <2>2. TypeOK' /\ LikedOnce' /\ CommentsKept
        BY <2>1 DEF Inv, TypeOK, CallsTyped, LikedOnce, CommentsKept
    <2>3. CallsTyped'
        BY <1>2, <2>1, WitnessTyped DEF Inv, CallsTyped
    <2>4. \A c \in Calls : CallOK(c)'
        BY <1>2, <2>1, <2>2, OthersKept
    <2> QED
        BY <2>2, <2>3, <2>4 DEF Inv
<1>3. ASSUME Witness, NEW c \in Calls, NEW op \in repertoire, NEW a \in Actors,
             NEW arg \in Arguments(op), Begin(c, op, a, arg)
      PROVE  Inv'
    BY <1>3, BeginKeeps DEF Chosen
<1>4. ASSUME Witness, NEW c \in Calls, Read(c) PROVE Inv'
    BY <1>4, FindGuestKeeps, GuestAndContext, Checks, Reads DEF Read
<1>5. ASSUME Witness, NEW c \in Calls, Write(c) \/ WriteFails(c) PROVE Inv'
    BY <1>5, LikesAndItem, Comments, Flags DEF Write
<1> QED
    BY <1>1, <1>2, <1>3, <1>4, <1>5 DEF Next, Chosen

LEMMA Initially == Init => Inv /\ Chosen
<1> SUFFICES ASSUME Init PROVE Inv /\ Chosen
    OBVIOUS
<1>1. <<>> \in Seq(Actors) /\ IsInjective(<<>>) /\ DOMAIN <<>> = {}
    BY DEF IsInjective
<1>2. TypeOK /\ LikedOnce
    <2>1. likes = <<>> /\ comments = <<>>
        BY DEF Init
    <2>2. DOMAIN comments = {} /\ comments \in [DOMAIN comments -> [creator : Actors, text : Actors]]
        BY <1>1, <2>1
    <2>3. likes \in Seq(Actors) /\ IsInjective(likes)
        BY <1>1, <2>1
    <2>4. /\ role \in [Users -> {"NONE", "MEMBER", "MANAGER"}]
          /\ {open, hidden, showLikes, guestExists, exists} \subseteq BOOLEAN
        BY DEF Init
    <2> QED
        BY <2>2, <2>3, <2>4 DEF TypeOK, LikedOnce
<1>3. CallsTyped
    <2>1. call \in [Calls -> Requests \cup {Idle}] /\ witnessed \in [Calls -> SUBSET FactNames]
        BY DEF Init
    <2>2. meant \in [likes : SUBSET Actors, showLikes : BOOLEAN]
        BY DEF Init
    <2> QED
        BY <2>1, <2>2 DEF Init, CallsTyped
<1>4. \A c \in Calls : CallOK(c)
    BY DEF Init, CallOK
<1>5. Chosen
    BY ContentAssumption DEF Init, Chosen
<1> QED
    BY <1>2, <1>3, <1>4, <1>5 DEF Inv

LEMMA InvHolds == Spec => [](Inv /\ Chosen)
<1>1. Chosen /\ [Next]_vars => Chosen'
    BY DEF Chosen, Next, vars
<1> QED
    BY <1>1, Initially, Invariance, PTL DEF Spec

\* The tables hold what their columns may hold, whatever calls overlap; the
\* comments there are were given their ids by the counter.
THEOREM TypeCorrect == Spec => []TypeOK
BY InvHolds, PTL DEF Inv

\* toggleItemLike writes back the list it has read, changed by indexOf, splice
\* and push; whatever toggles overlap, it never holds a user twice.
THEOREM NobodyLikesTwice == Spec => []LikedOnce
BY InvHolds, PTL DEF Inv

\* A call about to write has all its checks behind it, and what they found was
\* so at some moment of the call.
LEMMA WritingIsAllowed ==
    ASSUME Inv, NEW c \in Calls, Write(c)
    PROVE  Needed(c) \subseteq witnessed[c] /\ call[c].shows \subseteq witnessed[c]
<1>1. PICK op : Writes(c, op)
    BY DEF Write, WriteLikes, WriteItem, WriteDeletion, InsertComment, WriteComment,
           DeleteComment, WriteSettings, WriteTeamFlag
<1>2. /\ call[c] \in Requests /\ call[c] # Idle /\ CallOK(c)
      /\ \A step \in Statements \ {"WRITE"} : ~Ahead(call[c].todo, step)
    BY <1>1, WritesFacts
<1>3. /\ ~Ahead(call[c].todo, "MEMBER") /\ ~Ahead(call[c].todo, "ROLE")
      /\ ~Ahead(call[c].todo, "READ_COMMENT")
    BY <1>2 DEF Statements
<1>4. Checked(c) /\ Saw(c)
    BY <1>2 DEF CallOK
<1>5. call[c].op \in OfComment => call[c].arg \in DOMAIN comments
    BY DEF Write, WriteLikes, WriteItem, WriteDeletion, InsertComment, WriteComment,
           DeleteComment, WriteSettings, WriteTeamFlag, Writes, Found, OfComment, OfTeam
<1>6. call[c].op \in Operations
    BY <1>2 DEF Requests
<1>7. Needed(c) \subseteq witnessed[c]
    <2>1. CASE call[c].op \in OfComment
        BY <1>3, <1>4, <1>5, <2>1 DEF Checked, Needed, OfItem, OfComment
    <2>2. CASE call[c].op \in OfTeam \cup {"SETTINGS"}
        BY <1>3, <1>4, <2>2 DEF Checked, Needed, OfItem, OfComment, OfTeam
    <2>3. CASE call[c].op \in OfItem
        BY <1>3, <1>4, <2>3 DEF Checked, Needed, OfItem, OfComment, OfTeam
    <2> QED
        BY <1>6, <2>1, <2>2, <2>3 DEF Operations
<1> QED
    BY <1>4, <1>7 DEF Saw

\* Between the checks of a handler and its write anyone may leave, change role
\* or close the board: still, nothing is written that its actor had no right
\* to at any moment since the call began.
THEOREM ChecksComeFirst == Spec => WritesAreAuthorised
<1>1. Inv /\ Chosen /\ [Next]_vars =>
        [\A c \in Calls : Write(c) => Needed(c) \subseteq witnessed[c]]_vars
    BY WritingIsAllowed
<1> QED
    BY <1>1, InvHolds, PTL DEF Spec, WritesAreAuthorised

\* A text or the likes that were hidden for all of a call are masked in its
\* answer, though the flags are read before the write and answered after it.
THEOREM HiddenStaysHidden == Spec => AnswersHideWhatIsHidden
<1>1. Inv /\ Chosen /\ [Next]_vars =>
        [\A c \in Calls : Write(c) => call[c].shows \subseteq witnessed[c]]_vars
    BY WritingIsAllowed
<1> QED
    BY <1>1, InvHolds, PTL DEF Spec, AnswersHideWhatIsHidden


-----------------------------------------------------------------------------
(* Calls made one at a time.                                               *)

\* While only c makes calls, what it has read is still so.
Alone(c) ==
    /\ \A d \in Calls \ {c} : call[d] = Idle
    /\ call[c] # Idle =>
        /\ call[c].todo[1] = "MEMBER" => ~open
        /\ call[c].todo[1] = "CREATE_GUEST" => ~guestExists
        /\ call[c].op = "LIKE" /\ ~Ahead(call[c].todo, "READ_ITEM")
            => call[c].likes = likes
        /\ call[c].op = "SETTINGS" /\ ~Ahead(call[c].todo, "READ_SETTINGS")
            => call[c].showLikes = showLikes

NothingLost == ToSet(likes) = meant.likes /\ showLikes = meant.showLikes

SerialInv == \A c \in Calls : lanes = {c} => Alone(c) /\ NothingLost

LEMMA ProceedIs ==
    ASSUME Inv, NEW c \in Calls, call[c] # Idle, NEW n \in 1..2, n < Len(call[c].todo),
           NEW known \in Requests, Proceed(c, n, known), known.todo = call[c].todo
    PROVE  /\ Left(call[c].todo, call'[c].todo, n)
           /\ call'[c] \in Requests /\ call'[c].op = known.op
           /\ call'[c].likes = known.likes /\ call'[c].showLikes = known.showLikes
           /\ \A d \in Calls \ {c} : call'[d] = call[d]
<1> DEFINE s == call[c].todo
           t == SubSeq(s, n + 1, Len(s))
           request == [known EXCEPT !.todo = t]
<1>1. Left(s, t, n)
    BY InFlight, SubSeqLeft
<1>2. t \in Seq(Statements)
    BY <1>1 DEF Left
<1>3. call' = [call EXCEPT ![c] = request]
    BY DEF Proceed
<1> HIDE DEF t
<1>4. request \in Requests
    BY <1>2 DEF Requests
<1>5. /\ request.todo = t /\ request.op = known.op /\ request.likes = known.likes
      /\ request.showLikes = known.showLikes
    BY DEF Requests
<1> HIDE DEF request
<1>6. call'[c] = request /\ \A d \in Calls \ {c} : call'[d] = call[d]
    BY <1>3 DEF Inv, CallsTyped
<1> QED
    BY <1>1, <1>4, <1>5, <1>6

\* A statement is done that leaves what was read as it is.
LEMMA AloneGoes ==
    ASSUME Inv, NEW c \in Calls, Alone(c), call[c] # Idle, NEW n \in 1..2,
           n < Len(call[c].todo), n = 2 => call[c].todo[2] = "MEMBER",
           Left(call[c].todo, call'[c].todo, n), call'[c].op = call[c].op,
           \A d \in Calls \ {c} : call'[d] = call[d],
           UNCHANGED <<open, likes, showLikes>>,
           n = 1 /\ call[c].todo[1] = "FLAG" => ~open,
           \/ call'[c].likes = likes
           \/ call'[c].likes = call[c].likes /\ call[c].todo[1] # "READ_ITEM",
           \/ call'[c].showLikes = showLikes
           \/ call'[c].showLikes = call[c].showLikes
                /\ ~(call[c].todo[1] = "READ_SETTINGS" /\ call[c].op = "SETTINGS")
    PROVE  Alone(c)'
<1> DEFINE s == call[c].todo
           t == call'[c].todo
<1>1. Ordered(call[c].op, s) /\ Len(s) \in Nat
    BY InFlight DEF CallOK
<1>2. t[1] = s[n + 1] /\ n + 1 \in 1..Len(s)
    BY <1>1, LeftFirst
<1>3. t[1] = "MEMBER" => ~open'
    <2>1. SUFFICES ASSUME s[n + 1] = "MEMBER" PROVE n = 1 /\ s[1] = "FLAG"
        BY <1>2
    <2>2. \A k \in 1..Len(s) : s[k] = "MEMBER" => k = 1 \/ s[k - 1] = "FLAG"
        BY <1>1 DEF Ordered
    <2>3. n + 1 # 1 /\ (n + 1) - 1 = n
        OBVIOUS
    <2>4. s[n] = "FLAG"
        BY <1>2, <2>1, <2>2, <2>3
    <2> QED
        BY <2>4
<1>4. t[1] # "CREATE_GUEST"
    <2>1. \A k \in 1..Len(s) : s[k] = "CREATE_GUEST" => k = 1
        BY <1>1 DEF Ordered
    <2>2. n + 1 # 1
        OBVIOUS
    <2> QED
        BY <1>2, <2>1, <2>2
<1>5. \A step \in {"READ_ITEM", "READ_SETTINGS"} :
        ~Ahead(t, step) => ~Ahead(s, step) \/ s[1] = step
    BY <1>1, LeftAhead
<1> HIDE DEF t
<1>6. /\ call[c].op = "LIKE" /\ ~Ahead(s, "READ_ITEM") => call[c].likes = likes
      /\ call[c].op = "SETTINGS" /\ ~Ahead(s, "READ_SETTINGS")
            => call[c].showLikes = showLikes
    BY DEF Alone
<1>7. /\ call'[c].op = "LIKE" /\ ~Ahead(t, "READ_ITEM") => call'[c].likes = likes'
      /\ call'[c].op = "SETTINGS" /\ ~Ahead(t, "READ_SETTINGS")
            => call'[c].showLikes = showLikes'
    BY <1>5, <1>6
<1>8. \A d \in Calls \ {c} : call'[d] = Idle
    BY DEF Alone
<1> QED
    BY <1>3, <1>4, <1>7, <1>8 DEF Alone, t

LEMMA AloneEnds ==
    ASSUME Inv, NEW c \in Calls, Alone(c), Finish(c)
    PROVE  Alone(c)'
<1>1. call'[c] = Idle /\ \A d \in Calls \ {c} : call'[d] = call[d]
    BY DEF Inv, CallsTyped, Finish
<1> QED
    BY <1>1 DEF Alone

\* A statement done without learning what is written later.
LEMMA AlonePasses ==
    ASSUME Inv, NEW c \in Calls, Alone(c), NEW step, AtStep(c, step),
           Proceed(c, 1, call[c]), UNCHANGED <<open, likes, showLikes>>,
           step \notin {"WRITE", "READ_ITEM", "READ_SETTINGS"}, step = "FLAG" => ~open
    PROVE  Alone(c)'
<1>1. /\ call[c] # Idle /\ call[c] \in Requests /\ call[c].todo[1] = step
      /\ 1 < Len(call[c].todo)
    BY AtStepFacts
<1>2. 1 \in 1..2 /\ 1 # 2
    OBVIOUS
<1>3. /\ Left(call[c].todo, call'[c].todo, 1)
      /\ call'[c].op = call[c].op /\ call'[c].likes = call[c].likes
      /\ call'[c].showLikes = call[c].showLikes
      /\ \A d \in Calls \ {c} : call'[d] = call[d]
    BY <1>1, <1>2, ProceedIs
<1> QED
    BY <1>1, <1>2, <1>3, AloneGoes

LEMMA AloneFindsGuest ==
    ASSUME Inv, NEW c \in Calls, Alone(c), FindGuest(c)
    PROVE  Alone(c)'
<1> DEFINE s == call[c].todo
<1>1. /\ call[c] # Idle /\ call[c] \in Requests /\ s[1] = "FIND_GUEST"
      /\ Ordered(call[c].op, s) /\ 1 < Len(s)
    BY AtStepFacts DEF FindGuest
<1> DEFINE t == (IF guestExists THEN <<>> ELSE <<"CREATE_GUEST">>) \o Tail(s)
           request == [call[c] EXCEPT !.todo = t]
<1>2. call' = [call EXCEPT ![c] = request]
    BY DEF FindGuest
<1>3. UNCHANGED <<open, likes, showLikes, guestExists>>
    BY DEF FindGuest, tables, team, content
<1>4. CASE guestExists
    <2>1. Left(s, t, 1)
        BY <1>1, <1>4, GuestLists
    <2> HIDE DEF t
    <2>2. /\ request.todo = t /\ request.op = call[c].op /\ request.likes = call[c].likes
          /\ request.showLikes = call[c].showLikes
        BY <1>1 DEF Requests
    <2> HIDE DEF request
    <2>3. call'[c] = request /\ \A d \in Calls \ {c} : call'[d] = call[d]
        BY <1>2 DEF Inv, CallsTyped
    <2>4. 1 \in 1..2 /\ 1 # 2
        OBVIOUS
    <2> QED
        BY <1>1, <1>3, <2>1, <2>2, <2>3, <2>4, AloneGoes
<1>5. CASE ~guestExists
    <2>1. t = <<"CREATE_GUEST">> \o Tail(s)
        BY <1>5
    <2> HIDE DEF t
    <2>2. /\ t \in Seq(Statements) /\ Len(t) = Len(s) /\ t[1] = "CREATE_GUEST"
          /\ \A k \in 2..Len(t) : t[k] = s[k]
        BY <1>1, <2>1, GuestLists
    <2>3. /\ Ahead(s, "READ_ITEM") => Ahead(t, "READ_ITEM")
          /\ Ahead(s, "READ_SETTINGS") => Ahead(t, "READ_SETTINGS")
        <3>1. "READ_ITEM" \in Statements \ {"FIND_GUEST"}
              /\ "READ_SETTINGS" \in Statements \ {"FIND_GUEST"}
            BY DEF Statements
        <3> QED
            BY <1>1, <2>2, <3>1, CreateOrdered
    <2>4. /\ request.todo = t /\ request.op = call[c].op /\ request.likes = call[c].likes
          /\ request.showLikes = call[c].showLikes
        BY <1>1 DEF Requests
    <2> HIDE DEF request
    <2>5. call'[c] = request /\ \A d \in Calls \ {c} : call'[d] = call[d]
        BY <1>2 DEF Inv, CallsTyped
    <2> QED
        BY <1>1, <1>3, <1>5, <2>2, <2>3, <2>4, <2>5 DEF Alone
<1> QED
    BY <1>4, <1>5

LEMMA AloneReads ==
    ASSUME Inv, NEW c \in Calls, Alone(c), Read(c)
    PROVE  Alone(c)'
<1>1. CASE FindGuest(c)
    BY <1>1, AloneFindsGuest
<1>3. CASE Finish(c)
    BY <1>3, AloneEnds
<1>4. ASSUME CreateGuest(c) \/ Context(c) \/ ReadMember(c) \/ ReadRole(c), ~Finish(c)
      PROVE  Alone(c)'
    <2>1. PICK step \in {"CREATE_GUEST", "CONTEXT", "MEMBER", "ROLE"} :
            AtStep(c, step) /\ Proceed(c, 1, call[c])
        BY <1>4 DEF CreateGuest, Context, ReadMember, ReadRole
    <2>2. UNCHANGED <<open, likes, showLikes>>
        BY <1>4 DEF CreateGuest, Context, ReadMember, ReadRole, tables, team, content
    <2> QED
        BY <2>1, <2>2, AlonePasses
<1>5. ASSUME ReadFlag(c), ~Finish(c) PROVE Alone(c)'
    <2>1. /\ AtStep(c, "FLAG") /\ Proceed(c, IF open THEN 2 ELSE 1, call[c])
          /\ UNCHANGED <<open, likes, showLikes>>
        BY <1>5 DEF ReadFlag, tables, team, content
    <2>2. CASE open
        <3>1. /\ call[c] # Idle /\ call[c] \in Requests /\ call[c].todo[1] = "FLAG"
              /\ 2 < Len(call[c].todo) /\ call[c].todo[2] = "MEMBER"
            BY <2>1, AtStepFacts
        <3>2. 2 \in 1..2 /\ 2 # 1 /\ Proceed(c, 2, call[c])
            BY <2>1, <2>2
        <3>3. /\ Left(call[c].todo, call'[c].todo, 2)
              /\ call'[c].op = call[c].op /\ call'[c].likes = call[c].likes
              /\ call'[c].showLikes = call[c].showLikes
              /\ \A d \in Calls \ {c} : call'[d] = call[d]
            BY <3>1, <3>2, ProceedIs
        <3> QED
            BY <2>1, <3>1, <3>2, <3>3, AloneGoes
    <2>3. CASE ~open
        BY <2>1, <2>3, AlonePasses
    <2> QED
        BY <2>2, <2>3
<1>6. ASSUME ReadComment(c), ~Finish(c) PROVE Alone(c)'
    <2> DEFINE known == [call[c] EXCEPT !.creator = comments[call[c].arg].creator]
    <2>1. /\ AtStep(c, "READ_COMMENT") /\ Proceed(c, 1, known) /\ Found(c)
          /\ UNCHANGED <<open, likes, showLikes>>
        BY <1>6 DEF ReadComment, tables, team, content
    <2>2. /\ call[c] # Idle /\ call[c] \in Requests /\ call[c].todo[1] = "READ_COMMENT"
          /\ 1 < Len(call[c].todo) /\ Ordered(call[c].op, call[c].todo)
        BY <2>1, AtStepFacts
    <2>3. call[c].op \in OfComment
        <3>1. 1 \in 1..Len(call[c].todo)
            BY <2>2, InFlight
        <3> QED
            BY <2>2, <3>1 DEF Ordered
    <2>4. comments[call[c].arg].creator \in Actors
        BY <2>1, <2>3 DEF Found, Inv, TypeOK
    <2>5. known \in Requests
        BY <2>2, <2>4 DEF Requests
    <2>6. /\ known.todo = call[c].todo /\ known.op = call[c].op
          /\ known.likes = call[c].likes /\ known.showLikes = call[c].showLikes
        BY <2>2 DEF Requests
    <2> HIDE DEF known
    <2>7. 1 \in 1..2 /\ 1 # 2
        OBVIOUS
    <2>8. /\ Left(call[c].todo, call'[c].todo, 1)
          /\ call'[c].op = call[c].op /\ call'[c].likes = call[c].likes
          /\ call'[c].showLikes = call[c].showLikes
          /\ \A d \in Calls \ {c} : call'[d] = call[d]
        BY <2>1, <2>2, <2>5, <2>6, <2>7, ProceedIs
    <2> QED
        BY <2>1, <2>2, <2>7, <2>8, AloneGoes
<1>7. ASSUME ReadItem(c), ~Finish(c) PROVE Alone(c)'
    <2> DEFINE known == [call[c] EXCEPT !.likes = likes, !.shows = Shown]
    <2>1. /\ AtStep(c, "READ_ITEM") /\ Proceed(c, 1, known)
          /\ UNCHANGED <<open, likes, showLikes>>
        BY <1>7 DEF ReadItem, tables, team, content
    <2>2. /\ call[c] # Idle /\ call[c] \in Requests /\ call[c].todo[1] = "READ_ITEM"
          /\ 1 < Len(call[c].todo)
        BY <2>1, AtStepFacts
    <2>3. likes \in Seq(Actors) /\ Shown \in SUBSET FactNames
        BY <2>2, ShownWasSeen DEF Inv, TypeOK
    <2>4. known \in Requests
        BY <2>2, <2>3 DEF Requests
    <2>5. /\ known.todo = call[c].todo /\ known.op = call[c].op
          /\ known.likes = likes /\ known.showLikes = call[c].showLikes
        BY <2>2 DEF Requests
    <2> HIDE DEF known
    <2>6. 1 \in 1..2 /\ 1 # 2
        OBVIOUS
    <2>7. /\ Left(call[c].todo, call'[c].todo, 1)
          /\ call'[c].op = call[c].op /\ call'[c].likes = likes
          /\ call'[c].showLikes = call[c].showLikes
          /\ \A d \in Calls \ {c} : call'[d] = call[d]
        BY <2>1, <2>2, <2>4, <2>5, <2>6, ProceedIs
    <2> QED
        BY <2>1, <2>2, <2>6, <2>7, AloneGoes
<1>8. ASSUME ReadSettings(c), ~Finish(c) PROVE Alone(c)'
    <2>1. /\ AtStep(c, "READ_SETTINGS") /\ UNCHANGED <<open, likes, showLikes>>
        BY <1>8 DEF ReadSettings, tables, team, content
    <2>2. /\ call[c] # Idle /\ call[c] \in Requests /\ call[c].todo[1] = "READ_SETTINGS"
          /\ 1 < Len(call[c].todo)
        BY <2>1, AtStepFacts
    <2>3. 1 \in 1..2 /\ 1 # 2
        OBVIOUS
    <2>4. CASE call[c].op = "SETTINGS"
        <3> DEFINE known == [call[c] EXCEPT !.showLikes = showLikes]
        <3>1. Proceed(c, 1, known)
            BY <1>8, <2>4 DEF ReadSettings
        <3>2. showLikes \in BOOLEAN
            BY DEF Inv, TypeOK
        <3>3. known \in Requests
            BY <2>2, <3>2 DEF Requests
        <3>4. /\ known.todo = call[c].todo /\ known.op = call[c].op
              /\ known.likes = call[c].likes /\ known.showLikes = showLikes
            BY <2>2 DEF Requests
        <3> HIDE DEF known
        <3>5. /\ Left(call[c].todo, call'[c].todo, 1)
              /\ call'[c].op = call[c].op /\ call'[c].likes = call[c].likes
              /\ call'[c].showLikes = showLikes
              /\ \A d \in Calls \ {c} : call'[d] = call[d]
            BY <2>2, <2>3, <3>1, <3>3, <3>4, ProceedIs
        <3> QED
            BY <2>1, <2>2, <2>3, <3>5, AloneGoes
    <2>5. CASE call[c].op # "SETTINGS"
        <3> DEFINE known == [call[c] EXCEPT !.shows = Shown]
        <3>1. Proceed(c, 1, known)
            BY <1>8, <2>5 DEF ReadSettings
        <3>2. Shown \in SUBSET FactNames
            BY <2>2, ShownWasSeen
        <3>3. known \in Requests
            BY <2>2, <3>2 DEF Requests
        <3>4. /\ known.todo = call[c].todo /\ known.op = call[c].op
              /\ known.likes = call[c].likes /\ known.showLikes = call[c].showLikes
            BY <2>2 DEF Requests
        <3> HIDE DEF known
        <3>5. /\ Left(call[c].todo, call'[c].todo, 1)
              /\ call'[c].op = call[c].op /\ call'[c].likes = call[c].likes
              /\ call'[c].showLikes = call[c].showLikes
              /\ \A d \in Calls \ {c} : call'[d] = call[d]
            BY <2>2, <2>3, <3>1, <3>3, <3>4, ProceedIs
        <3> QED
            BY <2>1, <2>2, <2>3, <2>5, <3>5, AloneGoes
    <2> QED
        BY <2>4, <2>5
<1> QED
    BY <1>1, <1>3, <1>4, <1>5, <1>6, <1>7, <1>8 DEF Read

LEMMA AloneWrites ==
    ASSUME Inv, NEW c \in Calls, lanes = {c}, Alone(c), NothingLost, Write(c) \/ WriteFails(c)
    PROVE  (Alone(c) /\ NothingLost)'
<1>1. PICK op : Writes(c, op)
    BY DEF Write, WriteLikes, WriteItem, WriteDeletion, InsertComment, WriteComment,
           DeleteComment, WriteSettings, WriteTeamFlag, WriteFails
<1>2. /\ call[c] # Idle /\ call[c] \in Requests /\ Finish(c) /\ CallOK(c)
      /\ ~Ahead(call[c].todo, "READ_ITEM") /\ ~Ahead(call[c].todo, "READ_SETTINGS")
    BY <1>1, WritesFacts DEF Statements
<1>3. Alone(c)'
    BY <1>2, AloneEnds
<1>4. Serial
    BY DEF Serial
<1>5. meant.likes \in SUBSET Actors /\ meant.showLikes \in BOOLEAN
    BY MeantFields
<1>6. CASE WriteLikes(c)
    <2>1. call[c].likes = likes /\ call[c].actor \in Actors
        BY <1>2, <1>6 DEF WriteLikes, Writes, Alone, Requests
    <2>2. likes \in Seq(Actors) /\ IsInjective(likes)
        BY DEF Inv, TypeOK, LikedOnce
    <2>3. ToSet(likes') = SymDiff(ToSet(likes), {call[c].actor})
        BY <1>6, <2>1, <2>2, ToggledIs DEF WriteLikes
    <2> DEFINE L == SymDiff(meant.likes, {call[c].actor})
    <2>4. L \in SUBSET Actors
        BY <1>5, <2>1 DEF SymDiff
    <2>5. meant' = [meant EXCEPT !.likes = L] /\ showLikes' = showLikes
        BY <1>4, <1>6 DEF WriteLikes, Meaning
    <2>6. ToSet(likes') = L
        BY <2>3 DEF NothingLost
    <2> HIDE DEF L
    <2>7. meant'.likes = L /\ meant'.showLikes = meant.showLikes
        BY <1>5, <2>4, <2>5, MeantFields
    <2> QED
        BY <1>3, <2>5, <2>6, <2>7 DEF NothingLost
<1>7. CASE WriteDeletion(c)
    <2>1. likes' = <<>> /\ showLikes' = showLikes /\ meant' = [meant EXCEPT !.likes = {}]
        BY <1>4, <1>7 DEF WriteDeletion, Meaning
    <2>2. meant'.likes = {} /\ meant'.showLikes = meant.showLikes
        BY <1>5, <2>1, MeantFields
    <2>3. ToSet(<<>>) = {}
        BY DEF ToSet
    <2> QED
        BY <1>3, <2>1, <2>2, <2>3 DEF NothingLost
<1>8. CASE WriteSettings(c)
    <2>1. /\ call[c].showLikes = showLikes
          /\ call[c].arg \in {"TRUE", "FALSE", "LEFT_OUT"}
        BY <1>2, <1>8 DEF WriteSettings, Writes, Alone, CallOK, ArgumentFits
    <2> DEFINE b == CASE call[c].arg = "TRUE"     -> TRUE
                      [] call[c].arg = "FALSE"    -> FALSE
                      [] call[c].arg = "LEFT_OUT" -> meant.showLikes
    <2>2. meant' = [meant EXCEPT !.showLikes = b] /\ likes' = likes
        BY <1>4, <1>8 DEF WriteSettings, Meaning
    <2>3. b \in BOOLEAN
        BY <1>5, <2>1
    <2>4. showLikes' = b
        <3>1. showLikes' = Merged(call[c].showLikes, call[c].arg) /\ showLikes = meant.showLikes
            BY <1>8 DEF WriteSettings, NothingLost
        <3>2. CASE call[c].arg = "TRUE"
            BY <1>5, <2>1, <3>1, <3>2, MergedIs
        <3>3. CASE call[c].arg = "FALSE"
            BY <1>5, <2>1, <3>1, <3>3, MergedIs
        <3>4. CASE call[c].arg = "LEFT_OUT"
            BY <1>5, <2>1, <3>1, <3>4, MergedIs
        <3> QED
            BY <2>1, <3>2, <3>3, <3>4
    <2> HIDE DEF b
    <2>5. meant'.likes = meant.likes /\ meant'.showLikes = b
        BY <1>5, <2>2, <2>3, MeantFields
    <2> QED
        BY <1>3, <2>2, <2>4, <2>5 DEF NothingLost
<1>9. ASSUME ~WriteLikes(c), ~WriteDeletion(c), ~WriteSettings(c)
      PROVE  (Alone(c) /\ NothingLost)'
    <2>1. UNCHANGED <<likes, showLikes, meant>>
        BY <1>9 DEF Write, WriteItem, InsertComment, WriteComment, DeleteComment,
                    WriteTeamFlag, WriteFails, tables, content
    <2> QED
        BY <1>3, <2>1 DEF NothingLost
<1> QED
    BY <1>6, <1>7, <1>8, <1>9

\* With one call at a time, a step is that call's, or is taken while there is none.
LEMMA WhoseStep ==
    ASSUME Inv, NEW c \in Calls, Alone(c), NEW d \in Calls,
           Read(d) \/ Write(d) \/ WriteFails(d)
    PROVE  d = c /\ call[d] # Idle
BY DEF Alone, Read, FindGuest, CreateGuest, Context, ReadFlag, ReadMember, ReadRole, ReadItem,
       ReadComment, ReadSettings, Write, WriteLikes, WriteItem, WriteDeletion, InsertComment,
       WriteComment, DeleteComment, WriteSettings, WriteTeamFlag, WriteFails, Writes, AtStep

LEMMA SerialInvHolds == Spec => [](Inv /\ Chosen /\ SerialInv)
<1>1. Init => SerialInv
    <2> SUFFICES ASSUME Init PROVE SerialInv
        OBVIOUS
    <2>1. ToSet(likes) = {} /\ likes = <<>> /\ showLikes = TRUE
          /\ meant = [likes |-> {}, showLikes |-> TRUE]
        BY DEF Init, ToSet
    <2>2. NothingLost
        BY <2>1 DEF NothingLost
    <2>3. \A c \in Calls : Alone(c)
        BY DEF Init, Alone
    <2> QED
        BY <2>2, <2>3 DEF SerialInv
<1>2. Inv /\ Chosen /\ SerialInv /\ [Next]_vars => SerialInv'
    <2> SUFFICES ASSUME Inv, Chosen, [Next]_vars, UNCHANGED lanes, NEW c \in Calls,
                        lanes = {c}, Alone(c), NothingLost
                 PROVE  (Alone(c) /\ NothingLost)'
        BY DEF SerialInv, Next, vars
    <2>1. CASE UNCHANGED vars
        BY <2>1 DEF vars, team, content, Alone, NothingLost
    <2>2. ASSUME NEW u \in Users, NEW r \in {"NONE", "MEMBER", "MANAGER"}, ChangeRole(u, r)
          PROVE  (Alone(c) /\ NothingLost)'
        BY <2>2 DEF ChangeRole, content, Alone, NothingLost
    <2>3. ASSUME NEW op \in Operations, NEW a \in Actors, NEW arg \in Arguments(op),
                 Begin(c, op, a, arg)
          PROVE  (Alone(c) /\ NothingLost)'
        <3> DEFINE request == First(op, a, arg)
        <3>1. /\ request.op = op /\ Complete(op, request.todo)
              /\ request.todo[1] \notin {"MEMBER", "CREATE_GUEST"}
            BY FirstType
        <3>2. call' = [call EXCEPT ![c] = request] /\ UNCHANGED <<likes, showLikes, meant>>
            BY <2>3 DEF Begin, First, content
        <3> HIDE DEF request
        <3>3. call'[c] = request /\ \A d \in Calls \ {c} : call'[d] = call[d]
            BY <3>2 DEF Inv, CallsTyped
        <3> QED
            BY <3>1, <3>2, <3>3 DEF Alone, NothingLost, Complete
    <2>4. ASSUME NEW d \in Calls, Read(d) PROVE (Alone(c) /\ NothingLost)'
        <3>1. Read(c)
            BY <2>4, WhoseStep
        <3>2. UNCHANGED <<likes, showLikes, meant>>
            BY <3>1 DEF Read, FindGuest, CreateGuest, Context, ReadFlag, ReadMember, ReadRole,
                        ReadItem, ReadComment, ReadSettings, tables, content
        <3> QED
            BY <3>1, <3>2, AloneReads DEF NothingLost
    <2>5. ASSUME NEW d \in Calls, Write(d) \/ WriteFails(d)
          PROVE  (Alone(c) /\ NothingLost)'
        <3>1. Write(c) \/ WriteFails(c)
            BY <2>5, WhoseStep
        <3> QED
            BY <3>1, AloneWrites
    <2> QED
        BY <2>1, <2>2, <2>3, <2>4, <2>5 DEF Next, Chosen
<1>3. Inv /\ Chosen /\ [Next]_vars => (Inv /\ Chosen)'
    BY Invariance DEF Chosen, Next, vars
<1> QED
    BY <1>1, <1>2, <1>3, Initially, PTL DEF Spec

\* Calls made one at a time leave the likes as the users toggled them, and the
\* settings as they were patched: a toggle writes back the list it has read,
\* which no other call has changed since.
THEOREM OneAtATimeNothingIsLost == Spec => []SerialNothingLost
<1>1. SerialInv => SerialNothingLost
    BY DEF SerialInv, Serial, SerialNothingLost, NothingLost
<1> QED
    BY <1>1, SerialInvHolds, PTL

\* A refusal has its cause.
LEMMA RefusedForCause ==
    ASSUME Inv, NEW c \in Calls, Alone(c), Read(c) \/ WriteFails(c), call'[c] = Idle
    PROVE  ~Found(c) \/ ~(Needed(c) \subseteq Facts(call[c].actor))
<1>1. /\ call[c] # Idle /\ call[c] \in Requests /\ CallOK(c)
      /\ call[c].op \in Operations /\ call[c].actor \in Actors
    BY WhoseStep, InFlight DEF Requests
<1>2. /\ "ACCESS" \in Facts(call[c].actor) <=> HasAccess(call[c].actor)
      /\ "MANAGER" \in Facts(call[c].actor) <=> Manages(call[c].actor)
    BY DEF Facts
<1>3. /\ call[c].op \notin OfTeam \cup {"SETTINGS"} => "ACCESS" \in Needed(c)
      /\ call[c].op \in OfTeam \cup {"SETTINGS"} => "MANAGER" \in Needed(c)
    BY DEF Needed, OfComment, OfTeam
<1>4. Manages(call[c].actor) => HasAccess(call[c].actor)
    BY DEF Manages, HasAccess
<1>5. ASSUME ~HasAccess(call[c].actor)
      PROVE  ~(Needed(c) \subseteq Facts(call[c].actor))
    BY <1>2, <1>3, <1>4, <1>5
<1>6. ASSUME NEW n \in 1..2, NEW known, Proceed(c, n, known), known.op = call[c].op,
             known \in Requests
      PROVE  FALSE
    <2> DEFINE request == [known EXCEPT !.todo = SubSeq(@, n + 1, Len(@))]
    <2>1. request.op = call[c].op
        BY <1>6 DEF Requests
    <2>2. call'[c] = request
        BY <1>6 DEF Proceed, Inv, CallsTyped
    <2> HIDE DEF request
    <2>3. Idle.op = "IDLE" /\ "IDLE" \notin Operations
        BY DEF Idle, Operations, OfItem, OfComment, OfTeam
    <2> QED
        BY <1>1, <2>1, <2>2, <2>3
<1>7. ~Proceed(c, 1, call[c]) /\ ~Proceed(c, 2, call[c])
    <2>1. 1 \in 1..2 /\ 2 \in 1..2
        OBVIOUS
    <2> QED
        BY <1>1, <1>6, <2>1
<1>8. CASE FindGuest(c)
    <2> DEFINE t == (IF guestExists THEN <<>> ELSE <<"CREATE_GUEST">>) \o Tail(call[c].todo)
               request == [call[c] EXCEPT !.todo = t]
    <2>1. call' = [call EXCEPT ![c] = request]
        BY <1>8 DEF FindGuest
    <2> HIDE DEF t
    <2>2. request.op = call[c].op
        BY <1>1 DEF Requests
    <2>3. call'[c] = request
        BY <2>1 DEF Inv, CallsTyped
    <2> HIDE DEF request
    <2>4. Idle.op = "IDLE" /\ "IDLE" \notin Operations
        BY DEF Idle, Operations, OfItem, OfComment, OfTeam
    <2> QED
        BY <1>1, <2>2, <2>3, <2>4
<1>9. CASE CreateGuest(c)
    <2>1. call[c].todo[1] = "CREATE_GUEST"
        BY <1>9, AtStepFacts DEF CreateGuest
    <2>2. ~guestExists
        BY <1>1, <2>1 DEF Alone
    <2> QED
        BY <1>7, <1>9, <2>2 DEF CreateGuest
<1>10. CASE Context(c)
    BY <1>5, <1>7, <1>10 DEF Context
<1>11. CASE ReadFlag(c)
    BY <1>7, <1>11 DEF ReadFlag
<1>12. CASE ReadMember(c)
    <2>1. call[c].todo[1] = "MEMBER"
        BY <1>12, AtStepFacts DEF ReadMember
    <2>2. ~open
        BY <1>1, <2>1 DEF Alone
    <2> QED
        BY <1>5, <1>7, <1>12, <2>2 DEF ReadMember, HasAccess
<1>13. CASE ReadRole(c)
    <2>1. /\ ~Manages(call[c].actor)
          /\ call[c].op \in OfComment => call[c].creator # call[c].actor
        BY <1>7, <1>13 DEF ReadRole
    <2>2. call[c].op \notin OfItem /\ ~Ahead(call[c].todo, "READ_COMMENT")
        <3>1. /\ call[c].todo[1] = "ROLE" /\ Ordered(call[c].op, call[c].todo)
              /\ 1 \in 1..Len(call[c].todo)
            BY <1>1, <1>13, AtStepFacts, InFlight DEF ReadRole
        <3>2. \A j \in 1..Len(call[c].todo) : call[c].todo[j] # "READ_COMMENT"
            BY <3>1 DEF Ordered
        <3> QED
            BY <3>1, <3>2 DEF Ordered, Ahead
    <2>3. CASE call[c].op \in OfComment
        <3>1. call[c].arg \in DOMAIN comments => call[c].creator = comments[call[c].arg].creator
            BY <1>1, <2>2, <2>3 DEF CallOK, Checked
        <3> QED
            BY <1>2, <2>1, <2>3, <3>1 DEF Found, Needed
    <2>4. CASE call[c].op \notin OfComment
        BY <1>1, <1>2, <1>3, <2>1, <2>2, <2>4 DEF Operations
    <2> QED
        BY <2>3, <2>4
<1>14. CASE ReadItem(c)
    <2> DEFINE known == [call[c] EXCEPT !.likes = likes, !.shows = Shown]
    <2>1. likes \in Seq(Actors) /\ Shown \in SUBSET FactNames
        BY <1>1, ShownWasSeen DEF Inv, TypeOK
    <2>2. known \in Requests /\ known.op = call[c].op
        BY <1>1, <2>1 DEF Requests
    <2>3. Ordered(call[c].op, call[c].todo) /\ call[c].todo[1] = "READ_ITEM"
          /\ 1 \in 1..Len(call[c].todo)
        BY <1>1, <1>14, AtStepFacts, InFlight DEF ReadItem
    <2>4. call[c].op = "LIKE"
        BY <2>3 DEF Ordered
    <2>5. 1 \in 1..2
        OBVIOUS
    <2>6. ~Proceed(c, 1, known)
        BY <1>6, <2>2, <2>5
    <2>7. ~exists
        BY <1>14, <2>6 DEF ReadItem
    <2> QED
        BY <2>4, <2>7 DEF Found, OfItem
<1>15. CASE ReadComment(c)
    <2> DEFINE known == [call[c] EXCEPT !.creator = comments[call[c].arg].creator]
    <2>1. SUFFICES ASSUME Found(c) PROVE FALSE
        OBVIOUS
    <2>2. Ordered(call[c].op, call[c].todo) /\ call[c].todo[1] = "READ_COMMENT"
          /\ 1 \in 1..Len(call[c].todo)
        BY <1>1, <1>15, AtStepFacts, InFlight DEF ReadComment
    <2>3. call[c].op \in OfComment
        BY <2>2 DEF Ordered
    <2>4. comments[call[c].arg].creator \in Actors
        BY <2>1, <2>3 DEF Found, Inv, TypeOK
    <2>5. known \in Requests /\ known.op = call[c].op
        BY <1>1, <2>4 DEF Requests
    <2>6. Proceed(c, 1, known) /\ 1 \in 1..2
        BY <1>15, <2>1 DEF ReadComment
    <2> QED
        BY <1>6, <2>5, <2>6
<1>16. CASE ReadSettings(c)
    <2>1. SUFFICES ASSUME Found(c) PROVE FALSE
        OBVIOUS
    <2>2. showLikes \in BOOLEAN /\ Shown \in SUBSET FactNames
        BY <1>1, ShownWasSeen DEF Inv, TypeOK
    <2> DEFINE k1 == [call[c] EXCEPT !.showLikes = showLikes]
               k2 == [call[c] EXCEPT !.shows = Shown]
    <2>3. k1 \in Requests /\ k1.op = call[c].op
        BY <1>1, <2>2 DEF Requests
    <2>4. k2 \in Requests /\ k2.op = call[c].op
        BY <1>1, <2>2 DEF Requests
    <2>5. (Proceed(c, 1, k1) \/ Proceed(c, 1, k2)) /\ 1 \in 1..2
        BY <1>16, <2>1 DEF ReadSettings
    <2> QED
        BY <1>6, <2>3, <2>4, <2>5
<1>17. CASE WriteFails(c)
    BY <1>17 DEF WriteFails
<1> QED
    BY <1>8, <1>9, <1>10, <1>11, <1>12, <1>13, <1>14, <1>15, <1>16, <1>17 DEF Read

\* Made one at a time, a call is refused only for a row that is not there or a
\* right that its actor has not: a visitor without a token is served on an
\* open board, the first of them with the guest created on the way.
THEOREM OneAtATimeRefusedForCause == Spec => SerialRefusedForCause
<1>1. Inv /\ Chosen /\ SerialInv /\ [Next]_vars =>
        [\A c \in Calls :
            /\ Serial
            /\ call[c] # Idle /\ call'[c] = Idle
            /\ ~Write(c)
            => ~Found(c) \/ ~(Needed(c) \subseteq Facts(call[c].actor))]_vars
    <2> SUFFICES ASSUME Inv, Chosen, SerialInv, Next, NEW e \in Calls, lanes = {e},
                        NEW c \in Calls, call[c] # Idle, call'[c] = Idle, ~Write(c)
                 PROVE  ~Found(c) \/ ~(Needed(c) \subseteq Facts(call[c].actor))
        BY DEF Serial
    <2>1. Alone(e)
        BY DEF SerialInv
    <2>2. c = e
        BY <2>1 DEF Alone
    <2>3. ASSUME NEW u \in Users, NEW r \in {"NONE", "MEMBER", "MANAGER"}, ChangeRole(u, r)
          PROVE  FALSE
        BY <2>3 DEF ChangeRole
    <2>4. ASSUME NEW d \in lanes, NEW op \in repertoire, NEW a \in Actors,
                 NEW arg \in Arguments(op), Begin(d, op, a, arg)
          PROVE  FALSE
        BY <2>2, <2>4 DEF Begin
    <2>5. ASSUME NEW d \in Calls, Read(d) \/ Write(d) \/ WriteFails(d)
          PROVE  Read(c) \/ WriteFails(c)
        BY <2>1, <2>2, <2>5, WhoseStep
    <2>6. Read(c) \/ WriteFails(c)
        BY <2>3, <2>4, <2>5 DEF Next
    <2> QED
        BY <2>1, <2>2, <2>6, RefusedForCause
<1> QED
    BY <1>1, SerialInvHolds, PTL DEF Spec, SerialRefusedForCause
=============================================================================
