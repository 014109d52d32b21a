------------------------ MODULE ConnectionPoolProofs ------------------------
(***************************************************************************)
(* Proofs about ConnectionPool, for any number of callers and connections, *)
(* any sizes of the pool and any number of failed replacements.            *)
(***************************************************************************)
EXTENDS ConnectionPool, FiniteSetTheorems, SequenceTheorems, TLAPS

Item == [conn : Connection, old : BOOLEAN]
OwnerPC == {"creating", "using", "replacing"}
Undone == {t \in Caller : pc[t] = "undone"}

\* The connections in a sequence of items, and a connection that is not there
\* twice.
ConnsOf(s) == {s[i].conn : i \in 1..Len(s)}
Single(s, c) == \A i, j \in 1..Len(s) : s[i].conn = c /\ s[j].conn = c => i = j

\* The properties as functions of the items, the contexts and the connections.
Sole(s, h, o) ==
    \A c \in o : /\ Single(s, c)
                 /\ \A t, u \in Caller : h[t] = c /\ h[u] = c => t = u
                 /\ c \in ConnsOf(s) => \A t \in Caller : h[t] # c
Kept(s, h, o, p) ==
    \A c \in o : c \in ConnsOf(s) \/ \E t \in Caller : p[t] = "using" /\ h[t] = c
Usable(s, h, o, p) ==
    /\ \A t \in Caller : p[t] = "using" => h[t] \in o
    /\ ConnsOf(s) \subseteq o

\* Who has a connection, and that a connection which could not be reset is
\* closed for good.
Contexts ==
    /\ \A t \in Caller : pc[t] \in {"idle", "waiting", "creating"} => held[t] = NoConn
    /\ \A t \in Caller : pc[t] \in {"using", "replacing", "undone"} => held[t] \in Connection
    /\ \A t \in Caller : pc[t] \in {"replacing", "undone"} => held[t] \notin open
    /\ surplus + Cardinality(Undone) <= MaxUndone

\* The inductive invariant.
PoolInv ==
    /\ TypeOK
    /\ SlotsCounted
    /\ Contexts
    /\ Sole(items, held, open)
    /\ Kept(items, held, open, pc)
    /\ surplus = 0 /\ Undone = {} => Usable(items, held, open, pc)

-----------------------------------------------------------------------------
(* Items and slots *)

\* What Append does to the items, and to the connections in them.
LEMMA PutItems ==
    ASSUME NEW s \in Seq(Item), NEW c \in Connection, NEW u,
           u = Append(s, [conn |-> c, old |-> FALSE])
    PROVE  /\ u \in Seq(Item) /\ Len(s) \in Nat /\ Len(u) = Len(s) + 1
           /\ \A i \in 1..Len(s) : u[i] = s[i]
           /\ u[Len(s) + 1].conn = c
           /\ 1..Len(u) = 1..Len(s) \cup {Len(s) + 1}
  <1> DEFINE e == [conn |-> c, old |-> FALSE]
  <1>1. e \in Item /\ e.conn = c
    BY DEF Item
  <1>2. /\ u \in Seq(Item) /\ Len(s) \in Nat /\ Len(u) = Len(s) + 1
        /\ \A i \in 1..Len(s) : u[i] = s[i]
        /\ u[Len(s) + 1] = e
    BY <1>1, AppendProperties
  <1> QED
    BY <1>1, <1>2

LEMMA PutConns ==
    ASSUME NEW s \in Seq(Item), NEW c \in Connection, NEW u \in Seq(Item),
           u = Append(s, [conn |-> c, old |-> FALSE])
    PROVE  ConnsOf(u) = ConnsOf(s) \cup {c}
  <1>1. ConnsOf(u) = {u[i].conn : i \in 1..Len(s)} \cup {c}
    BY PutItems DEF ConnsOf
  <1>2. {u[i].conn : i \in 1..Len(s)} = {s[i].conn : i \in 1..Len(s)}
    BY PutItems
  <1> QED
    BY <1>1, <1>2 DEF ConnsOf

LEMMA PutKeepsSingle ==
    ASSUME NEW s \in Seq(Item), NEW c \in Connection, NEW u \in Seq(Item),
           u = Append(s, [conn |-> c, old |-> FALSE]),
           NEW x, x # c, Single(s, x)
    PROVE  Single(u, x)
  BY PutItems DEF Single

LEMMA PutSingle ==
    ASSUME NEW s \in Seq(Item), NEW c \in Connection, NEW u \in Seq(Item),
           u = Append(s, [conn |-> c, old |-> FALSE]), c \notin ConnsOf(s)
    PROVE  Single(u, c)
  <1>1. \A i \in 1..Len(s) : u[i].conn # c
    BY PutItems DEF ConnsOf
  <1> QED
    BY <1>1, PutItems DEF Single

\* When items a+1 to b of s are left, no connection is added, none occurs more
\* often, one that occurred once is gone if its item is, and the others stay.
LEMMA CutAdds ==
    ASSUME NEW s \in Seq(Item), NEW a \in Nat, NEW b \in Nat, NEW u \in Seq(Item),
           a <= b, b <= Len(s), Len(u) = b - a,
           \A i \in 1..(b - a) : u[i] = s[i + a]
    PROVE  ConnsOf(u) \subseteq ConnsOf(s)
  <1>1. \A i \in 1..(b - a) : i + a \in 1..Len(s)
    OBVIOUS
  <1> QED
    BY <1>1 DEF ConnsOf

LEMMA CutSingle ==
    ASSUME NEW s \in Seq(Item), NEW a \in Nat, NEW b \in Nat, NEW u \in Seq(Item),
           a <= b, b <= Len(s), Len(u) = b - a,
           \A i \in 1..(b - a) : u[i] = s[i + a],
           NEW x, Single(s, x)
    PROVE  Single(u, x)
  <1> SUFFICES ASSUME NEW i \in 1..(b - a), NEW j \in 1..(b - a),
                      u[i].conn = x, u[j].conn = x
               PROVE  i = j
    BY DEF Single
  <1>1. i + a \in 1..Len(s) /\ j + a \in 1..Len(s)
    OBVIOUS
  <1>2. i + a = j + a
    BY <1>1 DEF Single
  <1> QED
    BY <1>2

LEMMA CutGone ==
    ASSUME NEW s \in Seq(Item), NEW a \in Nat, NEW b \in Nat, NEW u \in Seq(Item),
           a <= b, b <= Len(s), Len(u) = b - a,
           \A i \in 1..(b - a) : u[i] = s[i + a],
           NEW j \in 1..Len(s), j \notin (a + 1)..b, Single(s, s[j].conn)
    PROVE  s[j].conn \notin ConnsOf(u)
  <1> SUFFICES ASSUME NEW i \in 1..(b - a), u[i].conn = s[j].conn PROVE FALSE
    BY DEF ConnsOf
  <1>1. i + a \in 1..Len(s) /\ i + a \in (a + 1)..b
    OBVIOUS
  <1>2. i + a = j
    BY <1>1 DEF Single
  <1> QED
    BY <1>1, <1>2

LEMMA CutStays ==
    ASSUME NEW s \in Seq(Item), NEW a \in Nat, NEW b \in Nat, NEW u \in Seq(Item),
           a <= b, b <= Len(s), Len(u) = b - a,
           \A i \in 1..(b - a) : u[i] = s[i + a],
           NEW j \in (a + 1)..b
    PROVE  s[j].conn \in ConnsOf(u)
  <1>1. j - a \in 1..(b - a) /\ (j - a) + a = j
    OBVIOUS
  <1>2. u[j - a] = s[j]
    BY <1>1
  <1> QED
    BY <1>1, <1>2 DEF ConnsOf

LEMMA SlotSetsFinite ==
    /\ IsFiniteSet(Owner) /\ Cardinality(Owner) \in Nat
    /\ IsFiniteSet(Undone) /\ Cardinality(Undone) \in Nat
  BY PoolAssumption, FS_Subset, FS_CardinalityType DEF Owner, Undone

LEMMA SlotSetsFiniteNext ==
    (/\ IsFiniteSet(Owner) /\ Cardinality(Owner) \in Nat
     /\ IsFiniteSet(Undone) /\ Cardinality(Undone) \in Nat)'
  BY SlotSetsFinite, PTL

\* How a move of one caller changes the number of owners and of contexts whose
\* replacement failed.
LEMMA MoveCounts ==
    ASSUME TypeOK, NEW t \in Caller, NEW where \in CallerPC, Goto(t, where)
    PROVE  /\ pc' \in [Caller -> CallerPC]
           /\ pc'[t] = where
           /\ \A u \in Caller : u # t => pc'[u] = pc[u]
           /\ Cardinality(Owner') = Cardinality(Owner)
                + (IF where \in OwnerPC THEN 1 ELSE 0) - (IF pc[t] \in OwnerPC THEN 1 ELSE 0)
           /\ Cardinality(Undone') = Cardinality(Undone)
                + (IF where = "undone" THEN 1 ELSE 0) - (IF pc[t] = "undone" THEN 1 ELSE 0)
           /\ pc[t] # "undone" /\ Undone' = {} => Undone = {}
  <1>1. /\ pc' \in [Caller -> CallerPC]
        /\ pc'[t] = where
        /\ \A u \in Caller : u # t => pc'[u] = pc[u]
    BY DEF Goto, TypeOK
  <1>2. /\ where \in OwnerPC => Owner' = Owner \cup {t}
        /\ where \notin OwnerPC => Owner' = Owner \ {t}
        /\ t \in Owner <=> pc[t] \in OwnerPC
    BY <1>1 DEF Owner, OwnerPC
  <1>3. /\ where = "undone" => Undone' = Undone \cup {t}
        /\ where # "undone" => Undone' = Undone \ {t}
        /\ t \in Undone <=> pc[t] = "undone"
    BY <1>1 DEF Undone
  <1>4. /\ t \notin Owner => Cardinality(Owner \cup {t}) = Cardinality(Owner) + 1
        /\ t \in Owner => Cardinality(Owner \ {t}) = Cardinality(Owner) - 1
        /\ t \in Owner => Owner \cup {t} = Owner
        /\ t \notin Owner => Owner \ {t} = Owner
    <2>1. CASE t \in Owner
      <3>1. Cardinality(Owner \ {t}) = Cardinality(Owner) - 1
        BY <2>1, SlotSetsFinite, FS_RemoveElement
      <3>2. Owner \cup {t} = Owner
        BY <2>1
      <3> QED
        BY <2>1, <3>1, <3>2
    <2>2. CASE t \notin Owner
      <3>1. Cardinality(Owner \cup {t}) = Cardinality(Owner) + 1
        BY <2>2, SlotSetsFinite, FS_AddElement
      <3>2. Owner \ {t} = Owner
        BY <2>2
      <3> QED
        BY <2>2, <3>1, <3>2
    <2> QED
      BY <2>1, <2>2
  <1>5. /\ t \notin Undone => Cardinality(Undone \cup {t}) = Cardinality(Undone) + 1
        /\ t \in Undone => Cardinality(Undone \ {t}) = Cardinality(Undone) - 1
        /\ t \in Undone => Undone \cup {t} = Undone
        /\ t \notin Undone => Undone \ {t} = Undone
    <2>1. CASE t \in Undone
      <3>1. Cardinality(Undone \ {t}) = Cardinality(Undone) - 1
        BY <2>1, SlotSetsFinite, FS_RemoveElement
      <3>2. Undone \cup {t} = Undone
        BY <2>1
      <3> QED
        BY <2>1, <3>1, <3>2
    <2>2. CASE t \notin Undone
      <3>1. Cardinality(Undone \cup {t}) = Cardinality(Undone) + 1
        BY <2>2, SlotSetsFinite, FS_AddElement
      <3>2. Undone \ {t} = Undone
        BY <2>2
      <3> QED
        BY <2>2, <3>1, <3>2
    <2> QED
      BY <2>1, <2>2
  <1>6. Cardinality(Owner') = Cardinality(Owner)
            + (IF where \in OwnerPC THEN 1 ELSE 0) - (IF pc[t] \in OwnerPC THEN 1 ELSE 0)
    <2>1. CASE where \in OwnerPC
      BY <1>2, <1>4, <2>1, SlotSetsFinite
    <2>2. CASE where \notin OwnerPC
      BY <1>2, <1>4, <2>2, SlotSetsFinite
    <2> QED
      BY <2>1, <2>2
  <1>7. Cardinality(Undone') = Cardinality(Undone)
            + (IF where = "undone" THEN 1 ELSE 0) - (IF pc[t] = "undone" THEN 1 ELSE 0)
    <2>1. CASE where = "undone"
      <3>1. CASE t \in Undone
        <4>1. Undone' = Undone /\ pc[t] = "undone"
          BY <1>3, <1>5, <2>1, <3>1
        <4> QED
          BY <2>1, <4>1, SlotSetsFinite
      <3>2. CASE t \notin Undone
        <4>1. Cardinality(Undone') = Cardinality(Undone) + 1 /\ pc[t] # "undone"
          BY <1>3, <1>5, <2>1, <3>2
        <4> QED
          BY <2>1, <4>1, SlotSetsFinite
      <3> QED
        BY <3>1, <3>2
    <2>2. CASE where # "undone"
      BY <1>3, <1>5, <2>2, SlotSetsFinite
    <2> QED
      BY <2>1, <2>2
  <1>8. pc[t] # "undone" /\ Undone' = {} => Undone = {}
    BY <1>3
  <1> QED
    BY <1>1, <1>6, <1>7, <1>8

\* Arithmetic of TypeOK: the size stays in its range as long as the slots are
\* counted.
LEMMA SizeInRange ==
    ASSUME SlotsCounted', items' \in Seq(Item), current_size' \in Int, current_size' <= MaxSize,
           surplus' \in 0..MaxUndone, emptied' \in Nat
    PROVE  current_size' \in -MaxUndone..MaxSize
  <1>1. Cardinality(Owner') \in Nat
    BY SlotSetsFiniteNext
  <1>2. Len(items') \in Nat
    OBVIOUS
  <1> QED
    BY <1>1, <1>2, PoolAssumption DEF SlotsCounted

-----------------------------------------------------------------------------
(* The steps *)

LEMMA PoolInitial == Init => PoolInv
  <1> SUFFICES ASSUME Init PROVE PoolInv
    OBVIOUS
  <1> USE PoolAssumption DEF Init
  <1>1. TypeOK
    BY DEF TypeOK, CallerPC
  <1>2. Owner = {} /\ Undone = {} /\ Cardinality({}) = 0
    BY FS_EmptySet DEF Owner, Undone
  <1>3. SlotsCounted
    BY <1>2 DEF SlotsCounted
  <1>4. Contexts
    BY <1>2 DEF Contexts
  <1>5. Sole(items, held, open) /\ Kept(items, held, open, pc)
    BY DEF Sole, Kept
  <1>6. Usable(items, held, open, pc)
    BY DEF Usable, ConnsOf
  <1> QED
    BY <1>1, <1>3, <1>4, <1>5, <1>6 DEF PoolInv

\* Steps of get() that find no item.
LEMMA GetSlotKeeps ==
    ASSUME PoolInv, NEW t \in Caller, GetSlot(t) \/ GetWait(t) \/ CreateFails(t)
    PROVE  PoolInv'
  <1> USE PoolAssumption DEF PoolInv
  <1>1. UNCHANGED <<items, held, open, emptying, surplus, emptied, late>>
    BY DEF GetSlot, GetWait, CreateFails
  <1>2. PICK where \in {"creating", "waiting", "idle"} :
            /\ Goto(t, where)
            /\ pc[t] \in {"idle", "waiting", "creating"}
            /\ current_size' = current_size
                  + (IF where \in OwnerPC THEN 1 ELSE 0) - (IF pc[t] \in OwnerPC THEN 1 ELSE 0)
            /\ current_size' <= MaxSize
    <2>1. CASE GetSlot(t)
      BY <2>1 DEF GetSlot, InGet, OwnerPC, TypeOK
    <2>2. CASE GetWait(t)
      BY <2>2 DEF GetWait, InGet, OwnerPC, TypeOK
    <2>3. CASE CreateFails(t)
      BY <2>3 DEF CreateFails, OwnerPC, TypeOK
    <2> QED
      BY <2>1, <2>2, <2>3
  <1>3. where \in CallerPC
    BY DEF CallerPC
  <1>4. /\ pc' \in [Caller -> CallerPC]
        /\ pc'[t] = where
        /\ \A u \in Caller : u # t => pc'[u] = pc[u]
        /\ Cardinality(Owner') = Cardinality(Owner)
             + (IF where \in OwnerPC THEN 1 ELSE 0) - (IF pc[t] \in OwnerPC THEN 1 ELSE 0)
        /\ Cardinality(Undone') = Cardinality(Undone)
        /\ Undone' = {} => Undone = {}
    BY <1>2, <1>3, MoveCounts, SlotSetsFinite
  <1>5. SlotsCounted'
    BY <1>1, <1>2, <1>4, SlotSetsFinite DEF SlotsCounted, TypeOK
  <1>6. TypeOK'
    <2>1. current_size' \in -MaxUndone..MaxSize
      BY <1>1, <1>2, <1>5, SizeInRange DEF TypeOK, Item
    <2> QED
      BY <1>1, <1>4, <2>1 DEF TypeOK
  <1>7. Contexts'
    BY <1>1, <1>2, <1>4 DEF Contexts
  <1>8. Sole(items', held', open')
    BY <1>1
  <1>9. Kept(items', held', open', pc')
    BY <1>1, <1>2, <1>4 DEF Kept
  <1>10. surplus' = 0 /\ Undone' = {} => Usable(items', held', open', pc')
    BY <1>1, <1>2, <1>4 DEF Usable
  <1> QED
    BY <1>5, <1>6, <1>7, <1>8, <1>9, <1>10

\* A connection that was created is nowhere else.
LEMMA FreshIsNowhere ==
    ASSUME NEW c \in Connection, Fresh(c)
    PROVE  /\ c \notin open
           /\ c \notin ConnsOf(items)
           /\ \A t \in Caller : held[t] # c
  BY DEF Fresh, InPool, ConnsOf

LEMMA CreateKeeps ==
    ASSUME PoolInv, NEW t \in Caller, Create(t)
    PROVE  PoolInv'
  <1> USE PoolAssumption DEF PoolInv
  <1>1. PICK c \in Connection : /\ Fresh(c)
                                /\ open' = open \cup {c}
                                /\ held' = [held EXCEPT ![t] = c]
    BY DEF Create, Hold
  <1>2. /\ pc[t] = "creating"
        /\ Goto(t, "using")
        /\ UNCHANGED <<items, current_size, emptying, surplus, emptied, late>>
    BY DEF Create
  <1>3. /\ pc' \in [Caller -> CallerPC]
        /\ pc'[t] = "using"
        /\ \A u \in Caller : u # t => pc'[u] = pc[u]
        /\ Cardinality(Owner') = Cardinality(Owner)
        /\ Cardinality(Undone') = Cardinality(Undone)
        /\ Undone' = {} => Undone = {}
    BY <1>2, MoveCounts, SlotSetsFinite DEF CallerPC, OwnerPC
  <1>4. /\ held'[t] = c
        /\ \A u \in Caller : u # t => held'[u] = held[u]
    BY <1>1 DEF TypeOK
  <1>5. TypeOK' /\ SlotsCounted'
    BY <1>1, <1>2, <1>3 DEF TypeOK, SlotsCounted
  <1>6. c \notin open /\ c \notin ConnsOf(items) /\ \A u \in Caller : held[u] # c
    BY <1>1, FreshIsNowhere
  <1>7. Contexts'
    BY <1>1, <1>2, <1>3, <1>4, <1>6 DEF Contexts
  <1>8. Sole(items', held', open')
    <2>1. Single(items, c)
      BY <1>6 DEF Single, ConnsOf
    <2> QED
      BY <1>1, <1>2, <1>4, <1>6, <2>1 DEF Sole
  <1>9. Kept(items', held', open', pc')
    BY <1>1, <1>2, <1>3, <1>4 DEF Kept
  <1>10. surplus' = 0 /\ Undone' = {} => Usable(items', held', open', pc')
    BY <1>1, <1>2, <1>3, <1>4 DEF Usable
  <1> QED
    BY <1>5, <1>7, <1>8, <1>9, <1>10

LEMMA ResetFailsKeeps ==
    ASSUME PoolInv, NEW t \in Caller, ResetFails(t)
    PROVE  PoolInv'
  <1> USE PoolAssumption DEF PoolInv
  <1>1. /\ pc[t] = "using"
        /\ open' = open \ {held[t]}
        /\ Goto(t, "replacing")
        /\ UNCHANGED <<items, current_size, held, emptying, surplus, emptied, late>>
    BY DEF ResetFails
  <1>2. /\ pc' \in [Caller -> CallerPC]
        /\ pc'[t] = "replacing"
        /\ \A u \in Caller : u # t => pc'[u] = pc[u]
        /\ Cardinality(Owner') = Cardinality(Owner)
        /\ Cardinality(Undone') = Cardinality(Undone)
        /\ Undone' = {} => Undone = {}
    BY <1>1, MoveCounts, SlotSetsFinite DEF CallerPC, OwnerPC
  <1>3. TypeOK' /\ SlotsCounted'
    BY <1>1, <1>2 DEF TypeOK, SlotsCounted
  <1>4. Contexts'
    BY <1>1, <1>2 DEF Contexts
  <1>5. Sole(items', held', open')
    BY <1>1 DEF Sole
  <1>6. Kept(items', held', open', pc')
    BY <1>1, <1>2 DEF Kept
  <1>7. surplus' = 0 /\ Undone' = {} => Usable(items', held', open', pc')
    BY <1>1, <1>2 DEF Usable, Sole
  <1> QED
    BY <1>3, <1>4, <1>5, <1>6, <1>7

\* get() hands out the newest item and closes the k oldest ones.
LEMMA GetItemKeeps ==
    ASSUME PoolInv, NEW t \in Caller, GetItem(t)
    PROVE  PoolInv' /\ open' \subseteq open /\ ConnsOf(items') \subseteq ConnsOf(items)
  <1> USE PoolAssumption DEF PoolInv
  <1> DEFINE n == Len(items)
             s == SubSeq(items, 1, n - 1)
             g == items[n].conn
  <1>1. /\ pc[t] \in {"idle", "waiting"}
        /\ items # <<>>
        /\ held' = [held EXCEPT ![t] = g]
        /\ Goto(t, "using")
        /\ UNCHANGED <<emptying, surplus, emptied, late>>
    BY DEF GetItem, InGet, Hold
  <1>2. PICK k \in 0..n : Expire(s, k)
    BY DEF GetItem
  <1>3. items \in Seq(Item) /\ n \in Nat /\ n > 0 /\ \A i \in 1..n : items[i] \in Item
    <2>1. items \in Seq(Item)
      BY DEF TypeOK, Item
    <2> QED
      BY <1>1, <2>1
  <1>4. /\ s \in Seq(Item) /\ Len(s) = n - 1
        /\ \A i \in 1..(n - 1) : s[i] = items[i]
    <2> HIDE DEF n
    <2>1. \A i \in 1..(n - 1) : items[i] \in Item
      BY <1>3
    <2>2. /\ SubSeq(items, 1, n - 1) \in Seq(Item)
          /\ Len(SubSeq(items, 1, n - 1)) = IF 1 <= n - 1 THEN (n - 1) - 1 + 1 ELSE 0
          /\ \A i \in 1..((n - 1) - 1 + 1) : SubSeq(items, 1, n - 1)[i] = items[1 + i - 1]
      BY <1>3, <2>1, SubSeqProperties
    <2>3. Len(s) = n - 1
      BY <1>3, <2>2
    <2>4. ASSUME NEW i \in 1..(n - 1) PROVE s[i] = items[i]
      <3>1. i \in 1..((n - 1) - 1 + 1) /\ 1 + i - 1 = i
        BY <1>3
      <3> QED
        BY <2>2, <3>1
    <2> QED
      BY <2>2, <2>3, <2>4
  <1>5. k \in Nat /\ k <= n - 1
    BY <1>2, <1>3, <1>4 DEF Expire
  <1>6. /\ items' = SubSeq(s, k + 1, n - 1)
        /\ current_size' = current_size - k
        /\ open' = open \ {s[i].conn : i \in 1..k}
    BY <1>2, <1>4 DEF Expire
  <1> HIDE DEF n, s, g
  <1>7. /\ items' \in Seq(Item)
        /\ Len(items') = (n - 1) - k
        /\ \A i \in 1..((n - 1) - k) : items'[i] = items[i + k]
    <2>1. \A i \in (k + 1)..(n - 1) : s[i] \in Item
      BY <1>3, <1>4, <1>5
    <2>2. /\ SubSeq(s, k + 1, n - 1) \in Seq(Item)
          /\ Len(SubSeq(s, k + 1, n - 1))
               = IF k + 1 <= n - 1 THEN (n - 1) - (k + 1) + 1 ELSE 0
          /\ \A i \in 1..((n - 1) - (k + 1) + 1) :
                 SubSeq(s, k + 1, n - 1)[i] = s[(k + 1) + i - 1]
      <3>1. k + 1 \in Int /\ n - 1 \in Int
        BY <1>3, <1>5
      <3> HIDE DEF PoolInv
      <3> QED
        BY <2>1, <3>1, SubSeqProperties
    <2>3. Len(items') = (n - 1) - k
      BY <1>3, <1>5, <1>6, <2>2
    <2>4. ASSUME NEW i \in 1..((n - 1) - k) PROVE items'[i] = items[i + k]
      <3>1. /\ i \in 1..((n - 1) - (k + 1) + 1)
            /\ (k + 1) + i - 1 = i + k
            /\ i + k \in 1..(n - 1)
        BY <1>3, <1>5
      <3> QED
        BY <1>4, <1>6, <2>2, <3>1
    <2> QED
      BY <1>6, <2>2, <2>3, <2>4
  <1> DEFINE X == {items[i].conn : i \in 1..k}
  <1>8. open' = open \ X
    <2>1. \A i \in 1..k : s[i] = items[i]
      BY <1>3, <1>4, <1>5
    <2>2. {s[i].conn : i \in 1..k} = X
      BY <2>1
    <2> QED
      BY <1>6, <2>2
  <1>9. /\ ConnsOf(items') \subseteq ConnsOf(items)
        /\ \A x : Single(items, x) => Single(items', x)
        /\ \A j \in 1..n : j \notin (k + 1)..(n - 1) /\ Single(items, items[j].conn)
               => items[j].conn \notin ConnsOf(items')
        /\ \A j \in (k + 1)..(n - 1) : items[j].conn \in ConnsOf(items')
    <2>1. n = Len(items)
      BY DEF n
    <2>2. n - 1 \in Nat /\ k <= n - 1 /\ n - 1 <= Len(items)
      BY <1>3, <1>5, <2>1
    <2>3. /\ ConnsOf(items') \subseteq ConnsOf(items)
          /\ \A x : Single(items, x) => Single(items', x)
          /\ \A j \in 1..Len(items) : j \notin (k + 1)..(n - 1) /\ Single(items, items[j].conn)
                 => items[j].conn \notin ConnsOf(items')
          /\ \A j \in (k + 1)..(n - 1) : items[j].conn \in ConnsOf(items')
      <3>1. PICK u \in Seq(Item) : u = items'
        BY <1>7
      <3>2. Len(u) = (n - 1) - k /\ \A i \in 1..((n - 1) - k) : u[i] = items[i + k]
        BY <1>7, <3>1
      <3>3. ConnsOf(u) \subseteq ConnsOf(items)
        BY <1>3, <1>5, <2>2, <3>2, CutAdds
      <3>4. ASSUME NEW x, Single(items, x) PROVE Single(u, x)
        BY <1>3, <1>5, <2>2, <3>2, <3>4, CutSingle
      <3>5. ASSUME NEW j \in 1..Len(items), j \notin (k + 1)..(n - 1), Single(items, items[j].conn)
            PROVE  items[j].conn \notin ConnsOf(u)
        BY <1>3, <1>5, <2>2, <3>2, <3>5, CutGone
      <3>6. ASSUME NEW j \in (k + 1)..(n - 1) PROVE items[j].conn \in ConnsOf(u)
        BY <1>3, <1>5, <2>2, <3>2, <3>6, CutStays
      <3> QED
        BY <3>1, <3>3, <3>4, <3>5, <3>6, Zenon
    <2> QED
      BY <2>1, <2>3
  <1>10. /\ g \in ConnsOf(items) /\ g \in Connection
         /\ Single(items, g) => g \notin ConnsOf(items') /\ g \notin X
    <2>1. n \in 1..n /\ n \notin (k + 1)..(n - 1) /\ n \notin 1..k
      BY <1>3, <1>5
    <2>2. g \in ConnsOf(items) /\ g \in Connection
      BY <1>3, <2>1 DEF g, n, ConnsOf, Item
    <2>3. Single(items, g) => g \notin ConnsOf(items')
      BY <1>9, <2>1 DEF g
    <2>4. Single(items, g) => g \notin X
      BY <1>3, <1>5, <2>1 DEF g, Single, n
    <2> QED
      BY <2>2, <2>3, <2>4
  <1>11. X \subseteq ConnsOf(items) /\ \A x \in X : Single(items, x) => x \notin ConnsOf(items')
    <2>1. \A i \in 1..k : i \in 1..n /\ i \notin (k + 1)..(n - 1)
      BY <1>3, <1>5
    <2> QED
      BY <1>9, <2>1 DEF ConnsOf, n
  <1>12. \A x \in ConnsOf(items) : x \in ConnsOf(items') \/ x \in X \/ x = g
    <2>1. \A i \in 1..n : i \in 1..k \/ i \in (k + 1)..(n - 1) \/ i = n
      BY <1>3, <1>5
    <2> QED
      BY <1>9, <2>1 DEF ConnsOf, g, n
  <1> HIDE DEF X
  <1>13. /\ pc' \in [Caller -> CallerPC]
         /\ pc'[t] = "using"
         /\ \A u \in Caller : u # t => pc'[u] = pc[u]
         /\ Cardinality(Owner') = Cardinality(Owner) + 1
         /\ Cardinality(Undone') = Cardinality(Undone)
         /\ Undone' = {} => Undone = {}
    BY <1>1, MoveCounts, SlotSetsFinite DEF CallerPC, OwnerPC
  <1>14. /\ held'[t] = g
         /\ \A u \in Caller : u # t => held'[u] = held[u]
    BY <1>1 DEF TypeOK
  <1>15. SlotsCounted'
    <2>1. n + Cardinality(Owner) + emptied = current_size + surplus
      BY DEF SlotsCounted, n
    <2>2. emptied \in Nat /\ surplus \in Int /\ current_size \in Int
      BY DEF TypeOK
    <2>3. Len(items') + Cardinality(Owner') + emptied' = current_size' + surplus'
      <3>1. /\ Len(items') = (n - 1) - k
            /\ Cardinality(Owner') = Cardinality(Owner) + 1
            /\ current_size' = current_size - k
            /\ surplus' = surplus
            /\ emptied' = emptied
        BY <1>1, <1>6, <1>7, <1>13, Zenon
      <3>2. n \in Nat /\ k \in Nat /\ Cardinality(Owner) \in Nat
        BY <1>3, <1>5, SlotSetsFinite
      <3>3. /\ Len(items') + Cardinality(Owner') + emptied'
                = ((n - 1) - k) + (Cardinality(Owner) + 1) + emptied
            /\ current_size' + surplus' = (current_size - k) + surplus
        BY <3>1, Zenon
      <3>4. ((n - 1) - k) + (Cardinality(Owner) + 1) + emptied = (current_size - k) + surplus
        BY <2>1, <2>2, <3>2
      <3> QED
        BY <3>3, <3>4, Zenon
    <2> QED
      BY <2>3 DEF SlotsCounted
  <1>16. TypeOK'
    <2>1. current_size' \in Int /\ current_size' <= MaxSize
      BY <1>5, <1>6 DEF TypeOK
    <2>2. current_size' \in -MaxUndone..MaxSize
      BY <1>1, <1>7, <1>15, <2>1, SizeInRange DEF TypeOK
    <2>3. held' \in [Caller -> Connection \cup {NoConn}]
      BY <1>1, <1>10 DEF TypeOK
    <2> QED
      BY <1>1, <1>7, <1>8, <1>13, <2>2, <2>3 DEF TypeOK, Item
  <1>17. Contexts'
    BY <1>1, <1>8, <1>10, <1>13, <1>14 DEF Contexts
  <1>18. Sole(items', held', open')
    <2> SUFFICES ASSUME NEW c \in open'
                 PROVE  /\ Single(items', c)
                        /\ \A u, v \in Caller : held'[u] = c /\ held'[v] = c => u = v
                        /\ c \in ConnsOf(items') => \A u \in Caller : held'[u] # c
      BY DEF Sole
    <2>1. /\ c \in open
          /\ Single(items, c)
          /\ \A u, v \in Caller : held[u] = c /\ held[v] = c => u = v
          /\ c \in ConnsOf(items) => \A u \in Caller : held[u] # c
      BY <1>8 DEF Sole
    <2>2. CASE c = g
      BY <1>9, <1>10, <1>14, <2>1, <2>2
    <2>3. CASE c # g
      BY <1>9, <1>14, <2>1, <2>3
    <2> QED
      BY <2>2, <2>3
  <1>19. Kept(items', held', open', pc')
    <2> SUFFICES ASSUME NEW c \in open'
                 PROVE  c \in ConnsOf(items') \/ \E u \in Caller : pc'[u] = "using" /\ held'[u] = c
      BY DEF Kept
    <2>1. c \in open /\ c \notin X
      BY <1>8
    <2>2. CASE c \in ConnsOf(items)
      BY <1>12, <1>13, <1>14, <2>1, <2>2
    <2>3. CASE \E u \in Caller : pc[u] = "using" /\ held[u] = c
      BY <1>1, <1>13, <1>14, <2>3
    <2> QED
      BY <2>1, <2>2, <2>3 DEF Kept
  <1>20. ASSUME surplus' = 0, Undone' = {} PROVE Usable(items', held', open', pc')
    <2>1. Usable(items, held, open, pc)
      BY <1>1, <1>13, <1>20
    <2>2. g \in open' 
      BY <1>8, <1>10, <2>1 DEF Usable, Sole
    <2>3. ASSUME NEW u \in Caller, pc'[u] = "using", u # t PROVE held'[u] \in open'
      BY <1>8, <1>11, <1>13, <1>14, <2>1, <2>3 DEF Usable, Sole
    <2>4. ConnsOf(items') \subseteq open'
      BY <1>8, <1>9, <1>11, <2>1 DEF Usable, Sole
    <2> QED
      BY <1>14, <2>2, <2>3, <2>4 DEF Usable
  <1> QED
    BY <1>8, <1>9, <1>15, <1>16, <1>17, <1>18, <1>19, <1>20

\* What the steps that put an item have in common.
LEMMA PutKeepsItems ==
    ASSUME PoolInv, NEW c \in Connection, Put(c)
    PROVE  /\ items' \in Seq(Item)
           /\ Len(items') = Len(items) + 1
           /\ Len(items) \in Nat
           /\ ConnsOf(items') = ConnsOf(items) \cup {c}
           /\ \A x : x # c /\ Single(items, x) => Single(items', x)
           /\ c \notin ConnsOf(items) => Single(items', c)
  <1>1. items \in Seq(Item)
    BY DEF PoolInv, TypeOK, Item
  <1>2. items' = Append(items, [conn |-> c, old |-> FALSE])
    BY DEF Put
  <1>3. /\ items' \in Seq(Item)
        /\ Len(items') = Len(items) + 1
        /\ ConnsOf(items') = ConnsOf(items) \cup {c}
        /\ \A x : x # c /\ Single(items, x) => Single(items', x)
        /\ c \notin ConnsOf(items) => Single(items', c)
    <2>1. [conn |-> c, old |-> FALSE] \in Item
      BY DEF Item
    <2>2. items' \in Seq(Item)
      BY <1>1, <1>2, <2>1, AppendProperties
    <2>3. PICK u \in Seq(Item) : u = items'
      BY <2>2
    <2>4. u = Append(items, [conn |-> c, old |-> FALSE])
      BY <1>2, <2>3
    <2>5. Len(u) = Len(items) + 1 /\ ConnsOf(u) = ConnsOf(items) \cup {c}
      BY <1>1, <2>4, PutItems, PutConns
    <2>6. ASSUME NEW x, x # c, Single(items, x) PROVE Single(u, x)
      BY <1>1, <2>4, <2>6, PutKeepsSingle
    <2>7. c \notin ConnsOf(items) => Single(u, c)
      BY <1>1, <2>4, PutSingle
    <2> QED
      BY <2>2, <2>3, <2>5, <2>6, <2>7, Zenon
  <1>4. Len(items) \in Nat
    BY <1>1
  <1> QED
    BY <1>3, <1>4, Zenon

LEMMA DoneKeeps ==
    ASSUME PoolInv, NEW t \in Caller, Done(t)
    PROVE  PoolInv'
  <1> USE PoolAssumption DEF PoolInv
  <1> DEFINE c == held[t]
  <1>1. /\ pc[t] = "using" /\ c \in open /\ Put(c)
        /\ held' = [held EXCEPT ![t] = NoConn]
        /\ Goto(t, "idle")
        /\ UNCHANGED <<current_size, open, emptying, surplus, emptied, late>>
    BY DEF Done, Hold
  <1>2. c \in Connection /\ c \notin ConnsOf(items) /\ \A u \in Caller : held[u] = c => u = t
    BY <1>1 DEF TypeOK, Sole
  <1> HIDE DEF c
  <1>3. /\ items' \in Seq(Item)
        /\ Len(items') = Len(items) + 1
        /\ Len(items) \in Nat
        /\ ConnsOf(items') = ConnsOf(items) \cup {c}
        /\ \A x : x # c /\ Single(items, x) => Single(items', x)
        /\ Single(items', c)
    BY <1>1, <1>2, PutKeepsItems
  <1>4. /\ pc' \in [Caller -> CallerPC]
        /\ pc'[t] = "idle"
        /\ \A u \in Caller : u # t => pc'[u] = pc[u]
        /\ Cardinality(Owner') = Cardinality(Owner) - 1
        /\ Cardinality(Undone') = Cardinality(Undone)
        /\ Undone' = {} => Undone = {}
    BY <1>1, MoveCounts, SlotSetsFinite DEF CallerPC, OwnerPC
  <1>5. held'[t] = NoConn /\ \A u \in Caller : u # t => held'[u] = held[u]
    BY <1>1 DEF TypeOK
  <1>6. TypeOK' /\ SlotsCounted'
    <2>1. SlotsCounted'
      BY <1>1, <1>3, <1>4, SlotSetsFinite DEF SlotsCounted, TypeOK
    <2> QED
      BY <1>1, <1>3, <1>4, <2>1 DEF TypeOK, Item
  <1>7. Contexts'
    BY <1>1, <1>4, <1>5 DEF Contexts
  <1>8. Sole(items', held', open')
    BY <1>1, <1>2, <1>3, <1>5 DEF Sole, TypeOK
  <1>9. Kept(items', held', open', pc')
    <2>1. c = held[t]
      BY DEF c
    <2> QED
      BY <1>1, <1>3, <1>4, <1>5, <2>1 DEF Kept
  <1>10. surplus' = 0 /\ Undone' = {} => Usable(items', held', open', pc')
    BY <1>1, <1>3, <1>4, <1>5 DEF Usable
  <1> QED
    BY <1>6, <1>7, <1>8, <1>9, <1>10

LEMMA ReplaceKeeps ==
    ASSUME PoolInv, NEW t \in Caller, Replace(t)
    PROVE  PoolInv'
  <1> USE PoolAssumption DEF PoolInv
  <1>1. PICK c \in Connection : Fresh(c) /\ open' = open \cup {c} /\ Put(c)
    BY DEF Replace
  <1>2. /\ pc[t] = "replacing"
        /\ held' = [held EXCEPT ![t] = NoConn]
        /\ Goto(t, "idle")
        /\ UNCHANGED <<current_size, emptying, surplus, emptied, late>>
    BY DEF Replace, Hold
  <1>3. c \notin open /\ c \notin ConnsOf(items) /\ \A u \in Caller : held[u] # c
    BY <1>1, FreshIsNowhere
  <1>4. /\ items' \in Seq(Item)
        /\ Len(items') = Len(items) + 1
        /\ Len(items) \in Nat
        /\ ConnsOf(items') = ConnsOf(items) \cup {c}
        /\ \A x : x # c /\ Single(items, x) => Single(items', x)
        /\ Single(items', c)
    BY <1>1, <1>3, PutKeepsItems
  <1>5. /\ pc' \in [Caller -> CallerPC]
        /\ pc'[t] = "idle"
        /\ \A u \in Caller : u # t => pc'[u] = pc[u]
        /\ Cardinality(Owner') = Cardinality(Owner) - 1
        /\ Cardinality(Undone') = Cardinality(Undone)
        /\ Undone' = {} => Undone = {}
    BY <1>2, MoveCounts, SlotSetsFinite DEF CallerPC, OwnerPC
  <1>6. held'[t] = NoConn /\ \A u \in Caller : u # t => held'[u] = held[u]
    BY <1>2 DEF TypeOK
  <1>7. TypeOK' /\ SlotsCounted'
    <2>1. SlotsCounted'
      BY <1>2, <1>4, <1>5, SlotSetsFinite DEF SlotsCounted, TypeOK
    <2> QED
      BY <1>1, <1>2, <1>4, <1>5, <2>1 DEF TypeOK, Item
  <1>8. Contexts'
    BY <1>1, <1>2, <1>3, <1>5, <1>6 DEF Contexts
  <1>9. Sole(items', held', open')
    BY <1>1, <1>3, <1>4, <1>6 DEF Sole, TypeOK
  <1>10. Kept(items', held', open', pc')
    BY <1>1, <1>2, <1>4, <1>5, <1>6 DEF Kept
  <1>11. surplus' = 0 /\ Undone' = {} => Usable(items', held', open', pc')
    BY <1>1, <1>2, <1>4, <1>5, <1>6 DEF Usable
  <1> QED
    BY <1>7, <1>8, <1>9, <1>10, <1>11

LEMMA ReplaceFailsKeeps ==
    ASSUME PoolInv, NEW t \in Caller, ReplaceFails(t)
    PROVE  PoolInv'
  <1> USE PoolAssumption DEF PoolInv
  <1> DEFINE c == held[t]
  <1>1. /\ pc[t] = "replacing" /\ Put(c)
        /\ surplus + Cardinality(Undone) < MaxUndone
        /\ Goto(t, "undone")
        /\ UNCHANGED <<current_size, held, open, emptying, surplus, emptied, late>>
    BY DEF ReplaceFails, Undone
  <1>2. c \in Connection /\ c \notin open
    BY <1>1 DEF Contexts
  <1> HIDE DEF c
  <1>3. /\ items' \in Seq(Item)
        /\ Len(items') = Len(items) + 1
        /\ Len(items) \in Nat
        /\ ConnsOf(items') = ConnsOf(items) \cup {c}
        /\ \A x : x # c /\ Single(items, x) => Single(items', x)
    BY <1>1, <1>2, PutKeepsItems
  <1>4. /\ pc' \in [Caller -> CallerPC]
        /\ pc'[t] = "undone"
        /\ \A u \in Caller : u # t => pc'[u] = pc[u]
        /\ Cardinality(Owner') = Cardinality(Owner) - 1
        /\ Cardinality(Undone') = Cardinality(Undone) + 1
    BY <1>1, MoveCounts, SlotSetsFinite DEF CallerPC, OwnerPC
  <1>5. TypeOK' /\ SlotsCounted'
    <2>1. SlotsCounted'
      BY <1>1, <1>3, <1>4, SlotSetsFinite DEF SlotsCounted, TypeOK
    <2> QED
      BY <1>1, <1>3, <1>4, <2>1 DEF TypeOK, Item
  <1>6. Contexts'
    <2>1. surplus' + Cardinality(Undone') <= MaxUndone
      BY <1>1, <1>4, SlotSetsFinite DEF TypeOK
    <2> QED
      BY <1>1, <1>4, <2>1 DEF Contexts
  <1>7. Sole(items', held', open')
    BY <1>1, <1>2, <1>3 DEF Sole, Contexts
  <1>8. Kept(items', held', open', pc')
    BY <1>1, <1>3, <1>4 DEF Kept
  <1>9. Undone' # {}
    BY <1>4 DEF Undone
  <1> QED
    BY <1>5, <1>6, <1>7, <1>8, <1>9

\* What a finalised context puts is a new connection, or a closed one.
LEMMA FinaliseKeeps ==
    ASSUME PoolInv, NEW t \in Caller, Finalise(t)
    PROVE  PoolInv'
  <1> USE PoolAssumption DEF PoolInv
  <1>1. /\ pc[t] = "undone"
        /\ surplus' = surplus + 1
        /\ held' = [held EXCEPT ![t] = NoConn]
        /\ Goto(t, "idle")
        /\ UNCHANGED <<current_size, emptying, emptied, late>>
    BY DEF Finalise, Hold
  <1>2. PICK c \in Connection :
            /\ Put(c)
            /\ c \notin open
            /\ \/ open' = open \cup {c} /\ c \notin ConnsOf(items) /\ \A u \in Caller : held[u] # c
               \/ open' = open
    <2>1. held[t] \in Connection /\ held[t] \notin open
      BY <1>1 DEF Contexts
    <2>2. CASE Put(held[t]) /\ UNCHANGED open
      BY <2>1, <2>2
    <2>3. CASE \E c \in Connection : Fresh(c) /\ open' = open \cup {c} /\ Put(c)
      BY <2>3, FreshIsNowhere
    <2> QED
      BY <2>2, <2>3 DEF Finalise
  <1>3. /\ items' \in Seq(Item)
        /\ Len(items') = Len(items) + 1
        /\ Len(items) \in Nat
        /\ ConnsOf(items') = ConnsOf(items) \cup {c}
        /\ \A x : x # c /\ Single(items, x) => Single(items', x)
        /\ c \notin ConnsOf(items) => Single(items', c)
    BY <1>2, PutKeepsItems
  <1>4. /\ pc' \in [Caller -> CallerPC]
        /\ pc'[t] = "idle"
        /\ \A u \in Caller : u # t => pc'[u] = pc[u]
        /\ Cardinality(Owner') = Cardinality(Owner)
        /\ Cardinality(Undone') = Cardinality(Undone) - 1
    BY <1>1, MoveCounts, SlotSetsFinite DEF CallerPC, OwnerPC
  <1>5. held'[t] = NoConn /\ \A u \in Caller : u # t => held'[u] = held[u]
    BY <1>1 DEF TypeOK
  <1>6. surplus \in Nat /\ surplus' + Cardinality(Undone') <= MaxUndone
    BY <1>1, <1>4, SlotSetsFinite DEF Contexts, TypeOK
  <1>7. surplus' \in 0..MaxUndone
    BY <1>1, <1>6, SlotSetsFiniteNext
  <1>8. TypeOK' /\ SlotsCounted'
    <2>1. SlotsCounted'
      BY <1>1, <1>3, <1>4, SlotSetsFinite DEF SlotsCounted, TypeOK
    <2>2. open' \subseteq Connection
      BY <1>2 DEF TypeOK
    <2> QED
      BY <1>1, <1>3, <1>4, <1>7, <2>1, <2>2 DEF TypeOK, Item
  <1>9. Contexts'
    <2>1. \A u \in Caller : u # t /\ pc[u] \in {"replacing", "undone"} => held[u] \notin open'
      BY <1>2 DEF Contexts
    <2> QED
      BY <1>4, <1>5, <1>6, <2>1 DEF Contexts
  <1>10. Sole(items', held', open')
    BY <1>2, <1>3, <1>5 DEF Sole, TypeOK
  <1>11. Kept(items', held', open', pc')
    BY <1>1, <1>2, <1>3, <1>4, <1>5 DEF Kept
  <1>12. surplus' # 0
    BY <1>1, <1>6
  <1> QED
    BY <1>8, <1>9, <1>10, <1>11, <1>12

-----------------------------------------------------------------------------
(* Time and cleanup *)

\* A stop watch that runs out moves no connection.
LEMMA AgeKeeps ==
    ASSUME PoolInv, Age
    PROVE  PoolInv' /\ ConnsOf(items') = ConnsOf(items)
  <1> USE PoolAssumption DEF PoolInv
  <1>1. PICK i \in 1..Len(items) : items' = [items EXCEPT ![i].old = TRUE]
    BY DEF Age
  <1>2. UNCHANGED <<current_size, pc, held, open, emptying, surplus, emptied, late>>
    BY DEF Age
  <1>3. items \in Seq(Item)
    BY DEF TypeOK, Item
  <1>4. /\ items' \in Seq(Item)
        /\ Len(items') = Len(items)
        /\ \A j \in 1..Len(items) : items'[j].conn = items[j].conn
    <2>1. PICK e \in Item : e = [items[i] EXCEPT !.old = TRUE] /\ e.conn = items[i].conn
      <3>1. items[i] \in Item
        BY <1>3
      <3>2. ASSUME NEW r \in Item
            PROVE  [r EXCEPT !.old = TRUE] \in Item /\ [r EXCEPT !.old = TRUE].conn = r.conn
        BY DEF Item
      <3> QED
        BY <3>1, <3>2, Zenon
    <2>2. items' = [items EXCEPT ![i] = e]
      BY <1>1, <2>1
    <2>3. /\ items' \in Seq(Item)
          /\ Len(items') = Len(items)
          /\ \A j \in 1..Len(items) : items'[j] = IF j = i THEN e ELSE items[j]
      BY <1>3, <2>2, ExceptSeq
    <2> QED
      BY <2>1, <2>3
  <1>5. ConnsOf(items') = ConnsOf(items)
    BY <1>4 DEF ConnsOf
  <1>6. \A x : Single(items, x) => Single(items', x)
    BY <1>4 DEF Single
  <1>7. Owner' = Owner /\ Undone' = Undone
    BY <1>2 DEF Owner, Undone
  <1>8. TypeOK' /\ SlotsCounted' /\ Contexts'
    BY <1>2, <1>4, <1>7 DEF TypeOK, Item, SlotsCounted, Contexts
  <1>9. Sole(items', held', open')
    BY <1>2, <1>5, <1>6 DEF Sole
  <1>10. Kept(items', held', open', pc')
    BY <1>2, <1>5 DEF Kept
  <1>11. surplus' = 0 /\ Undone' = {} => Usable(items', held', open', pc')
    BY <1>2, <1>5, <1>7 DEF Usable
  <1> QED
    BY <1>5, <1>8, <1>9, <1>10, <1>11

\* empty() takes the newest item and closes it.
LEMMA EmptyItemKeeps ==
    ASSUME PoolInv, EmptyItem
    PROVE  PoolInv'
  <1> USE PoolAssumption DEF PoolInv
  <1> DEFINE n == Len(items)
             g == items[n].conn
  <1>1. /\ items # <<>>
        /\ items' = SubSeq(items, 1, n - 1)
        /\ open' = open \ {g}
        /\ emptied' = emptied + 1
        /\ UNCHANGED <<current_size, pc, held, emptying, surplus, late>>
    BY DEF EmptyItem
  <1>2. items \in Seq(Item) /\ n \in Nat /\ n > 0 /\ \A i \in 1..n : items[i] \in Item
    <2>1. items \in Seq(Item)
      BY DEF TypeOK, Item
    <2> QED
      BY <1>1, <2>1
  <1>3. n = Len(items)
    OBVIOUS
  <1> HIDE DEF n, g
  <1>4. PICK u \in Seq(Item) : /\ u = items'
                               /\ Len(u) = n - 1
                               /\ \A i \in 1..(n - 1) : u[i] = items[i]
    <2>1. \A i \in 1..(n - 1) : items[i] \in Item
      BY <1>2
    <2>2. /\ SubSeq(items, 1, n - 1) \in Seq(Item)
          /\ Len(SubSeq(items, 1, n - 1)) = IF 1 <= n - 1 THEN (n - 1) - 1 + 1 ELSE 0
          /\ \A i \in 1..((n - 1) - 1 + 1) : SubSeq(items, 1, n - 1)[i] = items[1 + i - 1]
      BY <1>2, <2>1, SubSeqProperties
    <2>3. Len(items') = n - 1
      BY <1>1, <1>2, <2>2
    <2>4. ASSUME NEW i \in 1..(n - 1) PROVE items'[i] = items[i]
      <3>1. i \in 1..((n - 1) - 1 + 1) /\ 1 + i - 1 = i
        BY <1>2
      <3> QED
        BY <1>1, <2>2, <3>1
    <2> QED
      BY <1>1, <2>2, <2>3, <2>4
  <1>5. /\ 0 \in Nat /\ n - 1 \in Nat /\ 0 <= n - 1 /\ n - 1 <= Len(items)
        /\ Len(u) = (n - 1) - 0
        /\ \A i \in 1..((n - 1) - 0) : u[i] = items[i + 0]
    <2>1. (n - 1) - 0 = n - 1 /\ n - 1 \in Nat /\ n - 1 <= n
      BY <1>2
    <2>2. \A i \in 1..(n - 1) : i + 0 = i
      BY <1>2
    <2> QED
      BY <1>3, <1>4, <2>1, <2>2
  <1>6. ConnsOf(u) \subseteq ConnsOf(items)
    BY <1>2, <1>5, CutAdds
  <1>7. ASSUME NEW x, Single(items, x) PROVE Single(u, x)
    BY <1>2, <1>5, <1>7, CutSingle
  <1>8. Single(items, g) => g \notin ConnsOf(u)
    <2>1. n \in 1..Len(items) /\ n \notin (0 + 1)..(n - 1)
      BY <1>2, <1>3
    <2>2. ASSUME Single(items, items[n].conn) PROVE items[n].conn \notin ConnsOf(u)
      BY <1>2, <1>5, <2>1, <2>2, CutGone
    <2> QED
      BY <2>2 DEF g
  <1>9. \A x \in ConnsOf(items) : x = g \/ x \in ConnsOf(u)
    <2>1. \A i \in 1..n : i = n \/ i \in 1..(n - 1)
      BY <1>2
    <2>2. \A i \in 1..(n - 1) : items[i].conn \in ConnsOf(u)
      BY <1>4 DEF ConnsOf
    <2> QED
      BY <1>3, <2>1, <2>2 DEF ConnsOf, g
  <1>10. Owner' = Owner /\ Undone' = Undone
    BY <1>1 DEF Owner, Undone
  <1>11. SlotsCounted'
    <2>1. n + Cardinality(Owner) + emptied = current_size + surplus
      BY <1>3 DEF SlotsCounted
    <2>2. /\ Len(items') = n - 1
          /\ Cardinality(Owner') = Cardinality(Owner)
          /\ emptied' = emptied + 1
          /\ current_size' + surplus' = current_size + surplus
      BY <1>1, <1>4, <1>10, Zenon
    <2>3. Len(items') + Cardinality(Owner') + emptied' = (n - 1) + Cardinality(Owner) + (emptied + 1)
      BY <2>2, Zenon
    <2>4. (n - 1) + Cardinality(Owner) + (emptied + 1) = n + Cardinality(Owner) + emptied
      <3>1. n \in Nat /\ Cardinality(Owner) \in Nat /\ emptied \in Nat
        BY <1>2, SlotSetsFinite DEF TypeOK
      <3> QED
        BY <3>1
    <2>5. Len(items') + Cardinality(Owner') + emptied' = current_size' + surplus'
      BY <2>1, <2>2, <2>3, <2>4, Zenon
    <2> QED
      BY <2>5 DEF SlotsCounted
  <1>12. TypeOK'
    BY <1>1, <1>4 DEF TypeOK, Item
  <1>13. Contexts'
    BY <1>1, <1>10 DEF Contexts
  <1>14. Sole(items', held', open')
    BY <1>1, <1>4, <1>6, <1>7 DEF Sole
  <1>15. Kept(items', held', open', pc')
    BY <1>1, <1>4, <1>9 DEF Kept
  <1>16. ASSUME surplus' = 0, Undone' = {} PROVE Usable(items', held', open', pc')
    <2>1. Usable(items, held, open, pc)
      BY <1>1, <1>10, <1>16
    <2>2. g \in ConnsOf(items) /\ g \in open
      <3>1. n \in 1..Len(items)
        BY <1>2, <1>3
      <3> QED
        BY <2>1, <3>1 DEF Usable, ConnsOf, g
    <2> QED
      BY <1>1, <1>4, <1>6, <1>8, <2>1, <2>2 DEF Usable, Sole
  <1> QED
    BY <1>11, <1>12, <1>13, <1>14, <1>15, <1>16

LEMMA InsideFinite == IsFiniteSet(Inside) /\ Cardinality(Inside) \in Nat
  BY PoolAssumption, FS_Subset, FS_CardinalityType DEF Inside

LEMMA QuietKeeps ==
    ASSUME PoolInv, BeginEmpty \/ EndEmpty \/ UNCHANGED vars
    PROVE  PoolInv'
  <1> USE DEF PoolInv
  <1>1. /\ UNCHANGED <<items, current_size, pc, held, open, surplus, emptied>>
        /\ emptying' \in {"no", "running", "done"}
        /\ late' \in Nat
    BY InsideFinite DEF BeginEmpty, EndEmpty, vars, TypeOK
  <1>2. Owner' = Owner /\ Undone' = Undone
    BY <1>1 DEF Owner, Undone
  <1>3. TypeOK' /\ SlotsCounted' /\ Contexts'
    BY <1>1, <1>2 DEF TypeOK, SlotsCounted, Contexts
  <1>4. Sole(items', held', open') /\ Kept(items', held', open', pc')
    BY <1>1
  <1>5. surplus' = 0 /\ Undone' = {} => Usable(items', held', open', pc')
    BY <1>1, <1>2
  <1> QED
    BY <1>3, <1>4, <1>5

-----------------------------------------------------------------------------
(* Theorems *)

LEMMA PoolStep == PoolInv /\ [Next]_vars => PoolInv'
  <1> SUFFICES ASSUME PoolInv, [Next]_vars PROVE PoolInv'
    OBVIOUS
  <1>1. CASE \E t \in Caller : CallerStep(t)
    <2>1. PICK t \in Caller : CallerStep(t)
      BY <1>1
    <2> QED
      BY <2>1, GetItemKeeps, GetSlotKeeps, CreateKeeps, DoneKeeps, ResetFailsKeeps,
         ReplaceKeeps, ReplaceFailsKeeps, FinaliseKeeps DEF CallerStep
  <1>2. CASE Age \/ BeginEmpty \/ EmptyItem \/ EndEmpty \/ UNCHANGED vars
    BY <1>2, AgeKeeps, EmptyItemKeeps, QuietKeeps
  <1> QED
    BY <1>1, <1>2 DEF Next

\* The invariant of the pool: pool.py and ConnectionContext count every slot
\* and keep every connection in one place.
THEOREM PoolInvariant == Spec => []PoolInv
  BY PoolInitial, PoolStep, PTL DEF Spec

\* The pool's variables keep their types; in particular the size stays at or
\* below rpc_conn_pool_size.
THEOREM PoolTypeCorrect == Spec => []TypeOK
  <1>1. PoolInv => TypeOK
    BY DEF PoolInv
  <1> QED
    BY <1>1, PoolInvariant, PTL

\* get(), put(), expire() and a failed create() lose no slot and make none up.
THEOREM SlotsNeverLost == Spec => []SlotsCounted
  <1>1. PoolInv => SlotsCounted
    BY DEF PoolInv
  <1> QED
    BY <1>1, PoolInvariant, PTL

\* Two contexts never share an established connection, and neither expire()
\* nor empty() closes one in use.
THEOREM ConnectionsNotShared == Spec => []NotShared
  <1>1. PoolInv => NotShared
    BY DEF PoolInv, Sole, Single, ConnsOf, NotShared, InPool
  <1> QED
    BY <1>1, PoolInvariant, PTL

\* As long as no replacement in _done has failed, get() returns established
\* connections only.
THEOREM UsableConnections == Spec => []UsableUnlessUndone
  <1>1. PoolInv => UsableUnlessUndone
    BY DEF PoolInv, Usable, ConnsOf, Undone, UsableUnlessUndone
  <1> QED
    BY <1>1, PoolInvariant, PTL

-----------------------------------------------------------------------------
(* What may be left open *)

\* The free connections that are established.
FreeOpen == open \cap ConnsOf(items)

\* After the driver has dropped the pool, what lies in it and the callers that
\* may still put something into it are no more than the callers at that time.
LeftBounded ==
    emptying = "done" => /\ IsFiniteSet(FreeOpen)
                         /\ Cardinality(FreeOpen) + Cardinality(Inside) <= late

LEMMA InsideFiniteNext == (IsFiniteSet(Inside) /\ Cardinality(Inside) \in Nat)'
  BY InsideFinite, PTL

\* A step that adds nothing to the pool and lets nobody in, and a step by which
\* one caller leaves and one connection comes.
LEMMA LeftShrinks ==
    ASSUME LeftBounded, emptying = "done", TypeOK, late' = late,
           FreeOpen' \subseteq FreeOpen, Inside' \subseteq Inside
    PROVE  LeftBounded'
  <1>1. /\ IsFiniteSet(FreeOpen') /\ Cardinality(FreeOpen') <= Cardinality(FreeOpen)
        /\ Cardinality(FreeOpen') \in Nat /\ Cardinality(FreeOpen) \in Nat
    BY FS_Subset, FS_CardinalityType DEF LeftBounded
  <1>2. Cardinality(Inside') <= Cardinality(Inside)
    BY FS_Subset, InsideFinite
  <1> QED
    BY <1>1, <1>2, InsideFinite, InsideFiniteNext DEF LeftBounded, TypeOK

LEMMA LeftMoves ==
    ASSUME LeftBounded, emptying = "done", TypeOK, late' = late,
           NEW c, NEW t \in Inside,
           FreeOpen' \subseteq FreeOpen \cup {c}, Inside' \subseteq Inside \ {t}
    PROVE  LeftBounded'
  <1>1. /\ IsFiniteSet(FreeOpen) /\ Cardinality(FreeOpen) \in Nat
        /\ IsFiniteSet(FreeOpen \cup {c})
        /\ Cardinality(FreeOpen \cup {c}) <= Cardinality(FreeOpen) + 1
    <2>1. IsFiniteSet(FreeOpen) /\ Cardinality(FreeOpen) \in Nat
      BY FS_CardinalityType DEF LeftBounded
    <2>2. PICK F : F = FreeOpen
      OBVIOUS
    <2>3. /\ IsFiniteSet(F \cup {c})
          /\ Cardinality(F \cup {c}) = IF c \in F THEN Cardinality(F) ELSE Cardinality(F) + 1
      BY <2>1, <2>2, FS_AddElement
    <2> QED
      BY <2>1, <2>2, <2>3
  <1>2. /\ IsFiniteSet(FreeOpen') /\ Cardinality(FreeOpen') \in Nat
        /\ Cardinality(FreeOpen') <= Cardinality(FreeOpen \cup {c})
        /\ Cardinality(FreeOpen \cup {c}) \in Nat
    BY <1>1, FS_Subset, FS_CardinalityType
  <1>3. /\ IsFiniteSet(Inside \ {t})
        /\ Cardinality(Inside \ {t}) = Cardinality(Inside) - 1
    BY InsideFinite, FS_RemoveElement
  <1>4. Cardinality(Inside') <= Cardinality(Inside) - 1
    BY <1>3, FS_Subset
  <1> QED
    BY <1>1, <1>2, <1>4, InsideFinite, InsideFiniteNext DEF LeftBounded, TypeOK

\* A caller that puts its connection or a new one into the pool leaves.
LEMMA PutAndLeave ==
    ASSUME PoolInv, LeftBounded, emptying = "done", late' = late,
           NEW t \in Caller, pc[t] # "idle", Goto(t, "idle"),
           NEW c \in Connection, Put(c), open' \subseteq open \cup {c}
    PROVE  LeftBounded'
  <1>1. ConnsOf(items') = ConnsOf(items) \cup {c}
    BY PutKeepsItems
  <1>2. FreeOpen' \subseteq FreeOpen \cup {c}
    BY <1>1 DEF FreeOpen
  <1>3. t \in Inside /\ Inside' \subseteq Inside \ {t}
    BY DEF PoolInv, TypeOK, Inside, Goto
  <1> QED
    BY <1>2, <1>3, LeftMoves DEF PoolInv

LEMMA LeftCallerStep ==
    ASSUME PoolInv, LeftBounded, emptying = "done", NEW t \in Caller, CallerStep(t)
    PROVE  LeftBounded'
  <1>1. late' = late
    BY DEF CallerStep, GetItem, GetSlot, GetWait, Create, CreateFails, Done, ResetFails,
           Replace, ReplaceFails, Finalise
  <1>2. TypeOK
    BY DEF PoolInv
  <1>3. CASE GetItem(t)
    <2>1. FreeOpen' \subseteq FreeOpen
      BY <1>3, GetItemKeeps DEF FreeOpen
    <2>2. Inside' \subseteq Inside
      BY <1>2, <1>3 DEF GetItem, InGet, Goto, Inside, TypeOK
    <2> QED
      BY <1>1, <1>2, <2>1, <2>2, LeftShrinks
  <1>4. CASE GetSlot(t) \/ GetWait(t) \/ CreateFails(t)
    <2>1. UNCHANGED <<items, open>>
      BY <1>4 DEF GetSlot, GetWait, CreateFails
    <2>2. FreeOpen' \subseteq FreeOpen
      BY <2>1 DEF FreeOpen
    <2>3. Inside' \subseteq Inside
      BY <1>2, <1>4 DEF GetSlot, GetWait, CreateFails, InGet, Goto, Inside, TypeOK
    <2> QED
      BY <1>1, <1>2, <2>2, <2>3, LeftShrinks
  <1>5. CASE Create(t) \/ ResetFails(t)
    <2>1. FreeOpen' \subseteq FreeOpen
      <3>1. CASE Create(t)
        <4>1. PICK c \in Connection : Fresh(c) /\ open' = open \cup {c} /\ items' = items
          BY <3>1 DEF Create
        <4>2. c \notin ConnsOf(items)
          BY <4>1, FreshIsNowhere
        <4> QED
          BY <4>1, <4>2 DEF FreeOpen
      <3>2. CASE ResetFails(t)
        BY <3>2 DEF ResetFails, FreeOpen
      <3> QED
        BY <1>5, <3>1, <3>2
    <2>2. Inside' \subseteq Inside
      BY <1>2, <1>5 DEF Create, ResetFails, Goto, Inside, TypeOK
    <2> QED
      BY <1>1, <1>2, <2>1, <2>2, LeftShrinks
  <1>6. CASE Done(t)
    <2>1. PICK c \in Connection : c = held[t]
      BY <1>2, <1>6 DEF Done, TypeOK
    <2> QED
      BY <1>1, <1>6, <2>1, PutAndLeave DEF Done
  <1>7. CASE Replace(t)
    <2>1. PICK c \in Connection : Put(c) /\ open' = open \cup {c}
      BY <1>7 DEF Replace
    <2> QED
      BY <1>1, <1>7, <2>1, PutAndLeave DEF Replace
  <1>8. CASE Finalise(t)
    <2>1. PICK c \in Connection : Put(c) /\ open' \subseteq open \cup {c}
      <3>1. held[t] \in Connection
        BY <1>8 DEF PoolInv, Contexts, Finalise
      <3> QED
        BY <1>8, <3>1 DEF Finalise
    <2> QED
      BY <1>1, <1>8, <2>1, PutAndLeave DEF Finalise
  <1>9. CASE ReplaceFails(t)
    <2>1. PICK c \in Connection : c = held[t] /\ c \notin open /\ Put(c)
      BY <1>9 DEF PoolInv, Contexts, ReplaceFails
    <2>2. ConnsOf(items') = ConnsOf(items) \cup {c} /\ open' = open
      BY <1>9, <2>1, PutKeepsItems DEF ReplaceFails
    <2>3. FreeOpen' \subseteq FreeOpen
      BY <2>1, <2>2 DEF FreeOpen
    <2>4. Inside' \subseteq Inside
      BY <1>2, <1>9 DEF ReplaceFails, Goto, Inside, TypeOK
    <2> QED
      BY <1>1, <1>2, <2>3, <2>4, LeftShrinks
  <1> QED
    BY <1>3, <1>4, <1>5, <1>6, <1>7, <1>8, <1>9 DEF CallerStep

LEMMA LeftStep == PoolInv /\ LeftBounded /\ [Next]_vars => LeftBounded'
  <1> SUFFICES ASSUME PoolInv, LeftBounded, [Next]_vars PROVE LeftBounded'
    OBVIOUS
  <1>1. CASE EndEmpty
    <2>1. items' = <<>> /\ late' = Cardinality(Inside) /\ pc' = pc
      BY <1>1 DEF EndEmpty
    <2>2. FreeOpen' = {}
      BY <2>1 DEF FreeOpen, ConnsOf
    <2>3. Inside' = Inside
      BY <2>1 DEF Inside
    <2>4. IsFiniteSet(FreeOpen') /\ Cardinality(FreeOpen') = 0
      BY <2>2, FS_EmptySet
    <2> QED
      BY <2>1, <2>3, <2>4, InsideFinite DEF LeftBounded
  <1>2. CASE emptying = "done" /\ (Age \/ UNCHANGED vars)
    <2>1. UNCHANGED <<pc, open, late>> /\ ConnsOf(items') = ConnsOf(items)
      BY <1>2, AgeKeeps DEF Age, vars, ConnsOf
    <2>2. FreeOpen' = FreeOpen /\ Inside' = Inside
      BY <2>1 DEF FreeOpen, Inside
    <2> QED
      BY <1>2, <2>1, <2>2, LeftShrinks DEF PoolInv
  <1>3. CASE emptying = "done" /\ \E t \in Caller : CallerStep(t)
    BY <1>3, LeftCallerStep
  <1>4. CASE emptying # "done" /\ ~EndEmpty
    <2>1. emptying' # "done"
      <3>1. CASE \E t \in Caller : CallerStep(t)
        BY <1>4, <3>1 DEF CallerStep, GetItem, GetSlot, GetWait, Create, CreateFails, Done,
                          ResetFails, Replace, ReplaceFails, Finalise
      <3>2. CASE Age \/ BeginEmpty \/ EmptyItem \/ UNCHANGED vars
        BY <1>4, <3>2 DEF Age, BeginEmpty, EmptyItem, vars
      <3> QED
        BY <1>4, <3>1, <3>2 DEF Next
    <2> QED
      BY <2>1 DEF LeftBounded
  <1>5. emptying = "done" => ~BeginEmpty /\ ~EmptyItem
    BY DEF BeginEmpty, EmptyItem
  <1> QED
    BY <1>1, <1>2, <1>3, <1>4, <1>5 DEF Next

\* What is established lies in the pool or is used, one by each caller.
LEMMA LeftCounts ==
    ASSUME PoolInv, LeftBounded, emptying = "done"
    PROVE  Cardinality(open) <= late
  <1> DEFINE Used == open \ ConnsOf(items)
             User(c) == CHOOSE t \in Caller : pc[t] = "using" /\ held[t] = c
             f == [c \in Used |-> User(c)]
  <1>1. \A c \in Used : User(c) \in Inside /\ held[User(c)] = c
    <2> SUFFICES ASSUME NEW c \in Used PROVE User(c) \in Inside /\ held[User(c)] = c
      OBVIOUS
    <2>1. \E t \in Caller : pc[t] = "using" /\ held[t] = c
      BY DEF PoolInv, Kept
    <2> QED
      BY <2>1 DEF Inside
  <1> HIDE DEF User
  <1>2. f \in Injection(Used, Inside)
    BY <1>1 DEF Injection, IsInjective
  <1>3. /\ IsFiniteSet(Used) /\ Cardinality(Used) <= Cardinality(Inside)
        /\ Cardinality(Used) \in Nat
    BY <1>2, InsideFinite, FS_Injection, FS_CardinalityType
  <1>4. IsFiniteSet(FreeOpen) /\ Cardinality(FreeOpen) \in Nat
    BY FS_CardinalityType DEF LeftBounded
  <1>5. open = FreeOpen \cup Used /\ FreeOpen \cap Used = {}
    BY DEF FreeOpen
  <1>6. Cardinality(open) = Cardinality(FreeOpen) + Cardinality(Used)
    <2> HIDE DEF Used
    <2>1. PICK F, G : F = FreeOpen /\ G = Used
      OBVIOUS
    <2>2. Cardinality(F \cup G) = Cardinality(F) + Cardinality(G) - Cardinality(F \cap G)
      BY <1>3, <1>4, <2>1, FS_Union
    <2>3. Cardinality(F \cap G) = 0
      BY <1>5, <2>1, FS_EmptySet
    <2> QED
      BY <1>3, <1>4, <1>5, <2>1, <2>2, <2>3
  <1> QED
    BY <1>3, <1>4, <1>6, InsideFinite DEF LeftBounded, PoolInv, TypeOK

\* No established connection is forgotten before the driver drops the pool,
\* whatever create() and reset() do; what stays open afterwards is at most one
\* connection for each caller that was inside then.
THEOREM ConnectionsNotLeaked == Spec => []NotLeaked
  <1>1. Init => LeftBounded
    BY DEF Init, LeftBounded
  <1>2. ASSUME PoolInv, LeftBounded PROVE NotLeaked
    BY <1>2, LeftCounts DEF PoolInv, Kept, ConnsOf, NotLeaked, InPool
  <1> QED
    BY <1>1, <1>2, LeftStep, PoolInvariant, PTL DEF Spec

-----------------------------------------------------------------------------
(* Who waits, and how many connections there are *)

\* Only empty() takes items without counting them.
EmptiedLate == emptying = "no" => emptied = 0

LEMMA EmptiedLateStep == EmptiedLate /\ [Next]_vars => EmptiedLate'
  <1> SUFFICES ASSUME EmptiedLate, [Next]_vars PROVE EmptiedLate'
    OBVIOUS
  <1> USE DEF EmptiedLate
  <1>1. CASE \E t \in Caller : CallerStep(t)
    BY <1>1 DEF CallerStep, GetItem, GetSlot, GetWait, Create, CreateFails, Done, ResetFails,
                Replace, ReplaceFails, Finalise
  <1>2. CASE Age \/ BeginEmpty \/ EmptyItem \/ EndEmpty \/ UNCHANGED vars
    BY <1>2 DEF Age, BeginEmpty, EmptyItem, EndEmpty, vars
  <1> QED
    BY <1>1, <1>2 DEF Next

\* A pool that makes a caller wait has all its slots with callers that create,
\* use or replace a connection, none of which waits for the pool.
FullMeansInUse ==
    emptying = "no" /\ items = <<>> /\ current_size >= MaxSize
        => Cardinality(Owner) >= MaxSize

\* The wait in Pool.get is for callers that have a slot and will give it back,
\* never for callers that wait, however often creations and resets fail.
THEOREM WaitersWaitForOwners == Spec => []FullMeansInUse
  <1>1. Init => EmptiedLate
    BY DEF Init, EmptiedLate
  <1>2. ASSUME PoolInv, EmptiedLate PROVE FullMeansInUse
    <2> SUFFICES ASSUME emptying = "no", items = <<>>, current_size >= MaxSize
                 PROVE  Cardinality(Owner) >= MaxSize
      BY DEF FullMeansInUse
    <2>1. Cardinality(Owner) \in Nat /\ current_size \in Int /\ surplus \in Nat
      BY <1>2, SlotSetsFinite, PoolAssumption DEF PoolInv, TypeOK
    <2>2. Len(items) = 0 /\ emptied = 0
      BY <1>2 DEF EmptiedLate
    <2> QED
      BY <1>2, <2>1, <2>2, PoolAssumption DEF PoolInv, SlotsCounted
  <1> QED
    BY <1>1, <1>2, EmptiedLateStep, PoolInvariant, PTL DEF Spec

\* The connections there are: those in the pool, and those of callers that
\* have one or are about to.
ConnectionsBounded ==
    /\ Len(items) + Cardinality(Owner) <= MaxSize + surplus
    /\ surplus <= MaxUndone

\* rpc_conn_pool_size bounds the connections in the pool and in use, except
\* for one more per context that was finalised after a failed replacement.
THEOREM PoolBounded == Spec => []ConnectionsBounded
  <1>1. ASSUME PoolInv PROVE ConnectionsBounded
    <2>1. /\ Cardinality(Owner) \in Nat /\ current_size \in Int /\ current_size <= MaxSize
          /\ surplus \in Nat /\ surplus <= MaxUndone /\ emptied \in Nat /\ Len(items) \in Nat
      BY <1>1, SlotSetsFinite, PoolAssumption DEF PoolInv, TypeOK
    <2> QED
      BY <1>1, <2>1, PoolAssumption DEF PoolInv, SlotsCounted, ConnectionsBounded
  <1> QED
    BY <1>1, PoolInvariant, PTL
=============================================================================
