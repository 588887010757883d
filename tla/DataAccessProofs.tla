-------------------------- MODULE DataAccessProofs --------------------------
(***************************************************************************)
(* Proofs about DataAccess for any number of workers, users and messages:  *)
(* types, and that the internal ids of every sender who waits for answers  *)
(* are 1, 2, 3, ... although createMsgByRawMsg reads and inserts in        *)
(* separate statements.                                                    *)
(***************************************************************************)
EXTENDS DataAccess, SequenceTheorems, FiniteSetTheorems, TLAPS

Count(f, t) == Cardinality(getAllMessages(f, t))
UpTo(f, t, i) == {j \in getAllMessages(f, t) : j <= i}

(* A worker inside createMsgByRawMsg holds a message.                      *)
HoldsMsg == \A w \in InCreateMsg : msg[w] \in MsgType

(* A sender who waits for answers occupies at most one worker.             *)
Solo == \A v, w \in InCreateMsg :
          msg[v].from = msg[w].from /\ msg[w].from \notin Overlapping => v = w

(* The id found by the SELECT is still the next one when the row goes in.  *)
NextId == \A w \in Workers :
            step[w] = "insert" /\ msg[w].from \notin Overlapping =>
              msg[w].internal = Count(msg[w].from, msg[w].to) + 1

(* The latest row of a conversation carries the number of its rows.        *)
LastId == \A f, t \in Nat :
            f \notin Overlapping /\ getAllMessages(f, t) # {} =>
              \E i \in getAllMessages(f, t) : messages[i].internal = Count(f, t)

IInv == TypeOK /\ HoldsMsg /\ Solo /\ NextId /\ LastId /\ InternalIdIsOrdinal
-----------------------------------------------------------------------------
(* The rows of a conversation are finitely many.                           *)
LEMMA RowsFinite ==
  ASSUME messages \in Seq(RowType), NEW f, NEW t
  PROVE  /\ IsFiniteSet(getAllMessages(f, t))
         /\ Count(f, t) \in Nat
         /\ getAllMessages(f, t) \subseteq 1..Len(messages)
         /\ getAllMessages(f, t) # {} => Count(f, t) >= 1
<1>1. getAllMessages(f, t) \subseteq 1..Len(messages) /\ Len(messages) \in Nat
  BY LenProperties DEF getAllMessages
<1>2. IsFiniteSet(1..Len(messages))
  BY <1>1, FS_Interval
<1>3. IsFiniteSet(getAllMessages(f, t))
  BY <1>1, <1>2, FS_Subset
<1>4. Count(f, t) \in Nat /\ (Count(f, t) = 0 <=> getAllMessages(f, t) = {})
  BY <1>3, FS_CardinalityType, FS_EmptySet DEF Count
<1> QED
  BY <1>1, <1>3, <1>4

(* Appending a row adds its place to its own conversation and to no other. *)
LEMMA RowAppended ==
  ASSUME messages \in Seq(RowType), NEW r \in RowType,
         messages' = Append(messages, r)
  PROVE  LET n == Len(messages) + 1 IN
         /\ messages' \in Seq(RowType) /\ DOMAIN messages' = DOMAIN messages \cup {n}
         /\ n \notin DOMAIN messages /\ messages'[n] = r
         /\ \A i \in DOMAIN messages : messages'[i] = messages[i]
         /\ getAllMessages(r.from, r.to)' = getAllMessages(r.from, r.to) \cup {n}
         /\ Count(r.from, r.to)' = Count(r.from, r.to) + 1
         /\ \A f, t : f # r.from \/ t # r.to =>
              /\ getAllMessages(f, t)' = getAllMessages(f, t)
              /\ Count(f, t)' = Count(f, t)
<1> DEFINE n == Len(messages) + 1
<1>1. /\ messages' \in Seq(RowType)
      /\ DOMAIN messages' = 1..n
      /\ DOMAIN messages = 1..Len(messages)
      /\ Len(messages) \in Nat
      /\ messages'[n] = r
      /\ \A i \in 1..Len(messages) : messages'[i] = messages[i]
  BY AppendProperties, LenProperties
<1>2. /\ DOMAIN messages' = DOMAIN messages \cup {n}
      /\ n \notin DOMAIN messages
      /\ \A i \in DOMAIN messages : messages'[i] = messages[i]
  BY <1>1
<1>3. getAllMessages(r.from, r.to)' = getAllMessages(r.from, r.to) \cup {n}
  BY <1>1, <1>2 DEF getAllMessages
<1>4. n \notin getAllMessages(r.from, r.to)
  BY <1>2 DEF getAllMessages
<1>5. Count(r.from, r.to)' = Count(r.from, r.to) + 1
  BY <1>3, <1>4, RowsFinite, FS_AddElement DEF Count
<1>6. ASSUME NEW f, NEW t, f # r.from \/ t # r.to
      PROVE  /\ getAllMessages(f, t)' = getAllMessages(f, t)
             /\ Count(f, t)' = Count(f, t)
  <2>1. getAllMessages(f, t)' = getAllMessages(f, t)
    BY <1>1, <1>2, <1>6 DEF getAllMessages
  <2> QED
    BY <2>1 DEF Count
<1> QED
  BY <1>1, <1>2, <1>3, <1>5, <1>6

(* With the internal ids in order, the largest one is the number of rows.  *)
LEMMA MaxIsCount ==
  ASSUME messages \in Seq(RowType), LastId, InternalIdIsOrdinal,
         NEW f \in Nat, NEW t \in Nat, f \notin Overlapping,
         NEW max \in InternalIds(f, t) \cup {0},
         \A n \in InternalIds(f, t) : n <= max
  PROVE  max = Count(f, t)
<1> USE RowsFinite
<1>1. ASSUME NEW i \in getAllMessages(f, t)
      PROVE  /\ messages[i].internal = Cardinality(UpTo(f, t, i))
             /\ Cardinality(UpTo(f, t, i)) \in Nat
             /\ Cardinality(UpTo(f, t, i)) <= Count(f, t)
  <2>1. UpTo(f, t, i) \subseteq getAllMessages(f, t)
    BY DEF UpTo
  <2>2. messages[i].internal = Cardinality(UpTo(f, t, i))
    BY <1>1 DEF InternalIdIsOrdinal, UpTo, getAllMessages
  <2> QED
    BY <2>1, <2>2, FS_Subset, FS_CardinalityType DEF Count
<1>2. CASE getAllMessages(f, t) = {}
  <2>1. max = 0
    BY <1>2 DEF InternalIds
  <2> QED
    BY <1>2, <2>1, FS_EmptySet DEF Count
<1>3. CASE getAllMessages(f, t) # {}
  <2>1. Count(f, t) \in InternalIds(f, t) /\ Count(f, t) >= 1
    BY <1>3 DEF LastId, InternalIds
  <2>2. \A n \in InternalIds(f, t) : n \in Nat /\ n <= Count(f, t)
    BY <1>1 DEF InternalIds
  <2> QED
    BY <2>1, <2>2
<1> QED
  BY <1>2, <1>3
-----------------------------------------------------------------------------
(* The inductive invariant holds of an empty messages table.               *)
LEMMA IInvInit == Init => IInv
<1> SUFFICES ASSUME Init PROVE IInv
  OBVIOUS
<1>1. TypeOK
  BY EmptySeq, DataAssumption DEF Init, TypeOK
<1>2. \A f, t : getAllMessages(f, t) = {}
  BY DEF Init, getAllMessages
<1> QED
  BY <1>1, <1>2 DEF Init, IInv, HoldsMsg, Solo, NextId, LastId,
                    InternalIdIsOrdinal, InCreateMsg

(* createUser leaves the messages table and every createMsg call alone.    *)
LEMMA IInvCreateUser ==
  ASSUME IInv, NEW w \in Workers,
         \/ \E n \in Names : CreateUserInsert(w, n) \/ CreateUserTaken(w, n)
         \/ CreateUserCount(w)
  PROVE  IInv'
<1> USE DEF IInv, TypeOK, Goto
<1>1. UNCHANGED <<messages, msg>> /\ InCreateMsg' = InCreateMsg
  BY DEF CreateUserInsert, CreateUserTaken, CreateUserCount, InCreateMsg
<1>2. \A v \in Workers : step'[v] = "insert" <=> step[v] = "insert"
  BY DEF CreateUserInsert, CreateUserTaken, CreateUserCount
<1>3. TypeOK'
  <2>1. ASSUME NEW n \in Names, CreateUserInsert(w, n) PROVE TypeOK'
    <3>1. users' \in Seq(Names) /\ lastRowid' \in Nat
      BY <2>1, AppendProperties, LenProperties DEF CreateUserInsert
    <3> QED
      BY <2>1, <3>1 DEF CreateUserInsert
  <2>2. ASSUME NEW n \in Names, CreateUserTaken(w, n) PROVE TypeOK'
    BY <2>2 DEF CreateUserTaken
  <2>3. CASE CreateUserCount(w)
    BY <2>3 DEF CreateUserCount
  <2> QED
    BY <2>1, <2>2, <2>3
<1>4. \A f, t : getAllMessages(f, t)' = getAllMessages(f, t) /\ Count(f, t)' = Count(f, t)
  BY <1>1 DEF getAllMessages, Count
<1>5. HoldsMsg' /\ Solo' /\ NextId'
  BY <1>1, <1>2, <1>4 DEF HoldsMsg, Solo, NextId
<1>6. LastId' /\ InternalIdIsOrdinal'
  BY <1>1, <1>4 DEF LastId, InternalIdIsOrdinal
<1> QED
  BY <1>3, <1>5, <1>6

(* The SELECT picks the next ordinal.                                      *)
LEMMA IInvFindMax ==
  ASSUME IInv, NEW w \in Workers, NEW f \in DOMAIN users, NEW t \in DOMAIN users,
         OneAtATime(f), FindMaxInternalId(w, f, t)
  PROVE  IInv'
<1> USE DEF IInv, TypeOK, Goto
<1>1. f \in Nat /\ t \in Nat
  BY LenProperties
<1>2. PICK max \in InternalIds(f, t) \cup {0} :
        /\ \A n \in InternalIds(f, t) : n <= max
        /\ msg' = [msg EXCEPT ![w] =
                     [from |-> f, to |-> t, internal |-> max + 1, id |-> 0]]
  BY DEF FindMaxInternalId
<1>3. max \in Nat
  <2>1. ASSUME NEW i \in DOMAIN messages PROVE messages[i].internal \in Nat
    <3>1. messages[i] \in RowType
      BY LenProperties, ElementOfSeq
    <3> QED
      BY <3>1 DEF RowType
  <2> QED
    BY <2>1 DEF InternalIds, getAllMessages
<1>4. msg'[w] = [from |-> f, to |-> t, internal |-> max + 1, id |-> 0]
      /\ msg'[w] \in MsgType /\ \A v \in Workers \ {w} : msg'[v] = msg[v]
  BY <1>1, <1>2, <1>3 DEF MsgType
<1>5. TypeOK'
  BY <1>2, <1>4 DEF FindMaxInternalId
<1>6. /\ InCreateMsg' = InCreateMsg \cup {w} /\ w \notin InCreateMsg
      /\ InCreateMsg \subseteq Workers
  BY DEF FindMaxInternalId, InCreateMsg
<1>7. HoldsMsg'
  BY <1>4, <1>6 DEF HoldsMsg
<1>8. Solo'
  <2>1. f \notin Overlapping => \A v \in InCreateMsg : msg[v].from # f
    BY DEF OneAtATime
  <2> QED
    BY <1>4, <1>6, <2>1 DEF Solo
<1>9. /\ messages' = messages
      /\ \A g, u : getAllMessages(g, u)' = getAllMessages(g, u) /\ Count(g, u)' = Count(g, u)
  BY DEF FindMaxInternalId, getAllMessages, Count
<1>10. NextId'
  <2>1. f \notin Overlapping => max = Count(f, t)
    BY <1>1, <1>2, MaxIsCount
  <2>2. \A v \in Workers \ {w} : step'[v] = step[v]
    BY DEF FindMaxInternalId
  <2> QED
    BY <1>4, <1>9, <2>1, <2>2 DEF NextId
<1>11. LastId' /\ InternalIdIsOrdinal'
  BY <1>9 DEF LastId, InternalIdIsOrdinal
<1> QED
  BY <1>5, <1>7, <1>8, <1>10, <1>11

(* The INSERT extends its conversation by one row with the next ordinal.   *)
LEMMA IInvInsert ==
  ASSUME IInv, NEW w \in Workers, CreateMsgInsert(w)
  PROVE  IInv'
<1> USE DEF IInv, TypeOK, Goto
<1> DEFINE n == Len(messages) + 1
<1>1. msg[w] \in MsgType /\ w \in InCreateMsg /\ step[w] = "insert"
  BY DEF CreateMsgInsert, HoldsMsg, InCreateMsg
<1>2. PICK f \in Nat, t \in Nat, k \in Nat :
        msg[w].from = f /\ msg[w].to = t /\ msg[w].internal = k
  BY <1>1 DEF MsgType
<1> DEFINE r == [from |-> f, to |-> t, internal |-> k]
<1>3. /\ r \in RowType /\ r.from = f /\ r.to = t /\ r.internal = k
      /\ messages' = Append(messages, r) /\ msg' = msg
  BY <1>2 DEF RowType, CreateMsgInsert
<1> HIDE DEF r
<1>4. /\ messages' \in Seq(RowType) /\ DOMAIN messages' = DOMAIN messages \cup {n}
      /\ n \notin DOMAIN messages /\ messages'[n] = r
      /\ \A i \in DOMAIN messages : messages'[i] = messages[i]
      /\ getAllMessages(f, t)' = getAllMessages(f, t) \cup {n}
      /\ Count(f, t)' = Count(f, t) + 1
      /\ \A g, u : g # f \/ u # t =>
           /\ getAllMessages(g, u)' = getAllMessages(g, u)
           /\ Count(g, u)' = Count(g, u)
  <2>1. /\ DOMAIN messages' = DOMAIN messages \cup {n}
        /\ n \notin DOMAIN messages /\ messages'[n] = r
        /\ getAllMessages(r.from, r.to)' = getAllMessages(r.from, r.to) \cup {n}
        /\ Count(r.from, r.to)' = Count(r.from, r.to) + 1
    BY <1>3, RowAppended
  <2>2. \A g, u : g # r.from \/ u # r.to =>
           /\ getAllMessages(g, u)' = getAllMessages(g, u)
           /\ Count(g, u)' = Count(g, u)
    BY <1>3, RowAppended
  <2>3. messages' \in Seq(RowType) /\ \A i \in DOMAIN messages : messages'[i] = messages[i]
    BY <1>3, RowAppended
  <2> QED
    BY <1>3, <2>1, <2>2, <2>3
<1>5. Len(messages) \in Nat /\ DOMAIN messages = 1..Len(messages)
  BY LenProperties
<1>6. TypeOK'
  BY <1>4, <1>5 DEF CreateMsgInsert
<1>7. InCreateMsg' = InCreateMsg /\ \A v \in Workers \ {w} : step'[v] = step[v]
  BY <1>1 DEF CreateMsgInsert, InCreateMsg
<1>8. HoldsMsg' /\ Solo'
  BY <1>3, <1>7 DEF HoldsMsg, Solo
<1>9. NextId'
  <2> SUFFICES ASSUME NEW v \in Workers, step'[v] = "insert",
                      msg[v].from \notin Overlapping
               PROVE  msg[v].internal = Count(msg[v].from, msg[v].to)' + 1
    BY <1>3 DEF NextId
  <2>1. v # w /\ step[v] = "insert" /\ v \in InCreateMsg
    BY <1>7 DEF CreateMsgInsert, InCreateMsg
  <2>2. msg[v].from # f
    BY <1>1, <1>2, <2>1 DEF Solo
  <2>3. PICK g, u : g = msg[v].from /\ u = msg[v].to
    OBVIOUS
  <2>4. Count(g, u)' = Count(g, u)
    BY <1>4, <2>2, <2>3
  <2>5. Count(msg[v].from, msg[v].to)' = Count(g, u)'
    BY <1>3, <2>3
  <2> QED
    BY <2>1, <2>3, <2>4, <2>5 DEF NextId
<1>10. f \notin Overlapping => messages'[n].internal = Count(f, t)'
  <2>1. f \notin Overlapping => k = Count(f, t) + 1
    BY <1>1, <1>2 DEF NextId
  <2> QED
    BY <1>3, <1>4, <2>1
<1>11. LastId'
  <2> SUFFICES ASSUME NEW g \in Nat, NEW u \in Nat, g \notin Overlapping,
                      getAllMessages(g, u)' # {}
               PROVE  \E i \in getAllMessages(g, u)' :
                        messages'[i].internal = Count(g, u)'
    BY DEF LastId
  <2>1. CASE g = f /\ u = t
    BY <1>4, <1>10, <2>1
  <2>2. CASE g # f \/ u # t
    <3>1. PICK i \in getAllMessages(g, u) : messages[i].internal = Count(g, u)
      BY <1>4, <2>2 DEF LastId
    <3>2. messages'[i] = messages[i]
      BY <1>4 DEF getAllMessages
    <3> QED
      BY <1>4, <2>2, <3>1, <3>2
  <2> QED
    BY <2>1, <2>2
<1>12. InternalIdIsOrdinal'
  <2> SUFFICES ASSUME NEW i \in DOMAIN messages', NEW g, NEW u,
                      messages'[i].from = g, messages'[i].to = u, g \notin Overlapping
               PROVE  messages'[i].internal = Cardinality(UpTo(g, u, i)')
    BY DEF InternalIdIsOrdinal, UpTo
  <2>1. CASE i = n
    <3>1. g = f /\ u = t
      BY <1>3, <1>4, <2>1
    <3>2. UpTo(f, t, i)' = getAllMessages(f, t)'
      <4>1. \A j \in getAllMessages(f, t)' : j <= i
        BY <1>4, <1>5, <2>1, RowsFinite
      <4> QED
        BY <4>1 DEF UpTo
    <3> QED
      BY <1>10, <2>1, <3>1, <3>2 DEF Count
  <2>2. CASE i \in DOMAIN messages
    <3>1. messages'[i] = messages[i] /\ i < n
      BY <1>4, <1>5, <2>2
    <3>2. UpTo(g, u, i)' = UpTo(g, u, i)
      <4>1. CASE g = f /\ u = t
        <5>1. ~(n <= i)
          BY <1>5, <2>2
        <5> QED
          BY <1>4, <4>1, <5>1 DEF UpTo
      <4>2. CASE g # f \/ u # t
        BY <1>4, <4>2 DEF UpTo
      <4> QED
        BY <4>1, <4>2
    <3> QED
      BY <2>2, <3>1, <3>2 DEF InternalIdIsOrdinal, UpTo
  <2> QED
    BY <1>4, <2>1, <2>2
<1> QED
  BY <1>6, <1>8, <1>9, <1>11, <1>12

(* What createMsg does after the INSERT changes no row.                    *)
LEMMA IInvReturn ==
  ASSUME IInv, NEW w \in Workers, CreateMsgCount(w) \/ GetLastInsertRowid(w)
  PROVE  IInv'
<1> USE DEF IInv, TypeOK, Goto
<1>1. messages' = messages
      /\ \A f, t : getAllMessages(f, t)' = getAllMessages(f, t) /\ Count(f, t)' = Count(f, t)
  BY DEF CreateMsgCount, GetLastInsertRowid, getAllMessages, Count
<1>2. /\ InCreateMsg' \subseteq InCreateMsg /\ w \in InCreateMsg
      /\ \A v \in InCreateMsg' : msg'[v] = msg[v]
      /\ step[w] # "insert" /\ step'[w] # "insert"
      /\ \A v \in Workers \ {w} : step'[v] = step[v] /\ msg'[v] = msg[v]
  BY DEF CreateMsgCount, GetLastInsertRowid, InCreateMsg
<1>3. TypeOK'
  <2>1. CASE CreateMsgCount(w)
    BY <2>1 DEF CreateMsgCount
  <2>2. CASE GetLastInsertRowid(w)
    <3>1. [msg[w] EXCEPT !.id = lastRowid] \in MsgType
      BY <1>2 DEF HoldsMsg, MsgType
    <3> QED
      BY <2>2, <3>1 DEF GetLastInsertRowid
  <2> QED
    BY <2>1, <2>2
<1>4. HoldsMsg' /\ Solo' /\ NextId'
  BY <1>1, <1>2 DEF HoldsMsg, Solo, NextId
<1>5. LastId' /\ InternalIdIsOrdinal'
  BY <1>1 DEF LastId, InternalIdIsOrdinal
<1> QED
  BY <1>3, <1>4, <1>5

(* Every step keeps the inductive invariant.                               *)
LEMMA IInvNext == IInv /\ [Next]_dbVars => IInv'
<1> SUFFICES ASSUME IInv, [Next]_dbVars PROVE IInv'
  OBVIOUS
<1>1. CASE UNCHANGED dbVars
  <2>1. \A f, t : getAllMessages(f, t)' = getAllMessages(f, t) /\ Count(f, t)' = Count(f, t)
    BY <1>1 DEF dbVars, getAllMessages, Count
  <2> QED
    BY <1>1, <2>1 DEF dbVars, IInv, TypeOK, HoldsMsg, Solo, NextId, LastId,
                      InternalIdIsOrdinal, InCreateMsg
<1> QED
  BY <1>1, IInvCreateUser, IInvFindMax, IInvInsert, IInvReturn DEF Next
-----------------------------------------------------------------------------
(* The types are right in every reachable state.                           *)
THEOREM DataTypes == Spec => []TypeOK
<1>1. IInv => TypeOK
  BY DEF IInv
<1> QED
  BY <1>1, IInvInit, IInvNext, PTL DEF Spec

(* Whatever the other clients do at the same time, the messages of a       *)
(* sender who waits for each answer are numbered 1, 2, 3, ... in each of   *)
(* his conversations: createMsgByRawMsg (db_access.cpp:201-233).           *)
THEOREM InternalIdsAreOrdinals == Spec => []InternalIdIsOrdinal
<1>1. IInv => InternalIdIsOrdinal
  BY DEF IInv
<1> QED
  BY <1>1, IInvInit, IInvNext, PTL DEF Spec
-----------------------------------------------------------------------------
(* Two rows of a conversation that are numbered in order have two numbers. *)
LEMMA OrdinalsDiffer ==
  ASSUME messages \in Seq(RowType), InternalIdIsOrdinal, NEW f, NEW t,
         f \notin Overlapping,
         NEW i \in getAllMessages(f, t), NEW j \in getAllMessages(f, t), i < j
  PROVE  messages[i].internal # messages[j].internal
<1>1. i \in Nat /\ j \in Nat /\ IsFiniteSet(getAllMessages(f, t))
  BY RowsFinite, LenProperties
<1>2. UpTo(f, t, j) \subseteq getAllMessages(f, t) /\ IsFiniteSet(UpTo(f, t, j))
  BY <1>1, FS_Subset DEF UpTo
<1>3. UpTo(f, t, i) \subseteq UpTo(f, t, j)
  <2>1. ASSUME NEW k \in getAllMessages(f, t), k <= i PROVE k <= j
    <3>1. k \in Nat
      BY RowsFinite, LenProperties
    <3> QED
      BY <1>1, <2>1, <3>1
  <2> QED
    BY <2>1 DEF UpTo
<1>4. j \in UpTo(f, t, j) /\ j \notin UpTo(f, t, i)
  BY <1>1 DEF UpTo
<1>5. Cardinality(UpTo(f, t, i)) # Cardinality(UpTo(f, t, j))
  BY <1>2, <1>3, <1>4, FS_Subset
<1> QED
  BY <1>5 DEF InternalIdIsOrdinal, UpTo, getAllMessages

(* If every client waits for its answers, the internal id does identify a  *)
(* message within its conversation, as db_access.h:132 says: the two       *)
(* statements of createMsgByRawMsg do no harm between different senders.   *)
THEOREM InternalIdsIdentify == Overlapping = {} => (Spec => []InternalIdIdentifies)
<1> SUFFICES ASSUME Overlapping = {} PROVE Spec => []InternalIdIdentifies
  OBVIOUS
<1>1. IInv => InternalIdIdentifies
  <2> SUFFICES ASSUME IInv, NEW i \in DOMAIN messages, NEW j \in DOMAIN messages,
                      messages[i].from = messages[j].from,
                      messages[i].to = messages[j].to,
                      messages[i].internal = messages[j].internal
               PROVE  i = j
    BY DEF InternalIdIdentifies
  <2>1. messages \in Seq(RowType) /\ InternalIdIsOrdinal
    BY DEF IInv, TypeOK
  <2>2. i \in Nat /\ j \in Nat
    BY <2>1, LenProperties
  <2>3. PICK f, t : i \in getAllMessages(f, t) /\ j \in getAllMessages(f, t)
    BY DEF getAllMessages
  <2>4. ~(i < j) /\ ~(j < i)
    BY <2>1, <2>3, OrdinalsDiffer
  <2> QED
    BY <2>2, <2>4
<1> QED
  BY <1>1, IInvInit, IInvNext, PTL DEF Spec
-----------------------------------------------------------------------------
(* Until another statement writes, the last row id is that of the row a    *)
(* call has inserted; what it returns with that id stays in the table.     *)
RowOf(m) == [from |-> m.from, to |-> m.to, internal |-> m.internal]
ReturnInv ==
  \A w \in Workers :
    /\ step[w] \in {"inserted", "rowid"} =>
         lastRowid \in DOMAIN messages /\ messages[lastRowid] = RowOf(msg[w])
    /\ step[w] \in {"idle", "created"} /\ msg[w] # NoMsg =>
         msg[w].id \in DOMAIN messages /\ messages[msg[w].id] = RowOf(msg[w])

(* A worker alone on the connection keeps ReturnInv.                       *)
LEMMA ReturnInvNext ==
  ASSUME \A v, w \in Workers : v = w, IInv, ReturnInv, [Next]_dbVars
  PROVE  ReturnInv'
<1> USE DEF ReturnInv, RowOf, Goto
<1>0. step \in [Workers -> {"idle", "created", "insert", "inserted", "rowid"}]
      /\ msg \in [Workers -> MsgType \cup {NoMsg}]
  BY DEF IInv, TypeOK
<1>1. CASE UNCHANGED dbVars
  BY <1>1 DEF dbVars
<1>2. ASSUME NEW w \in Workers, NEW n \in Names,
             CreateUserInsert(w, n) \/ CreateUserTaken(w, n)
      PROVE  ReturnInv'
  BY <1>0, <1>2 DEF CreateUserInsert, CreateUserTaken
<1>3. ASSUME NEW w \in Workers, CreateUserCount(w) PROVE ReturnInv'
  BY <1>0, <1>3 DEF CreateUserCount
<1>4. ASSUME NEW w \in Workers, NEW f, NEW t, FindMaxInternalId(w, f, t)
      PROVE  ReturnInv'
  BY <1>0, <1>4 DEF FindMaxInternalId
<1>5. ASSUME NEW w \in Workers, CreateMsgInsert(w) PROVE ReturnInv'
  <2>1. messages \in Seq(RowType) /\ RowOf(msg[w]) \in RowType
    BY <1>5 DEF IInv, TypeOK, HoldsMsg, InCreateMsg, CreateMsgInsert, MsgType, RowType
  <2>2. messages' = Append(messages, RowOf(msg[w]))
    BY <1>5 DEF CreateMsgInsert
  <2>3. Len(messages) + 1 \in DOMAIN messages'
        /\ messages'[Len(messages) + 1] = RowOf(msg[w])
    BY <2>1, <2>2, AppendProperties, LenProperties
  <2>4. lastRowid' = Len(messages) + 1 /\ msg' = msg /\ step'[w] = "inserted"
    BY <1>0, <1>5 DEF CreateMsgInsert
  <2> QED
    BY <2>3, <2>4
<1>6. ASSUME NEW w \in Workers, CreateMsgCount(w) PROVE ReturnInv'
  BY <1>0, <1>6 DEF CreateMsgCount
<1>7. ASSUME NEW w \in Workers, GetLastInsertRowid(w) PROVE ReturnInv'
  <2>1. msg[w] \in MsgType
    BY <1>7 DEF IInv, HoldsMsg, InCreateMsg, GetLastInsertRowid
  <2>2. msg'[w] = [msg[w] EXCEPT !.id = lastRowid]
    BY <1>0, <1>7 DEF GetLastInsertRowid
  <2>3. msg'[w].id = lastRowid /\ RowOf(msg'[w]) = RowOf(msg[w])
    BY <2>1, <2>2 DEF MsgType
  <2>4. UNCHANGED messages /\ step[w] = "rowid" /\ step'[w] = "idle"
    BY <1>0, <1>7 DEF GetLastInsertRowid
  <2> QED
    BY <2>3, <2>4
<1> QED
  BY <1>1, <1>2, <1>3, <1>4, <1>5, <1>6, <1>7 DEF Next

(* With one worker on the database createMsg returns the id of the message *)
(* it created, as db_access.h:64 says: it takes a second one to come       *)
(* between exec() and getLastInsertRowid().                                *)
THEOREM ReturnedIdsAreOwn ==
  (\A v, w \in Workers : v = w) => (Spec => []ReturnedIdIsOwn)
<1> SUFFICES ASSUME \A v, w \in Workers : v = w PROVE Spec => []ReturnedIdIsOwn
  OBVIOUS
<1>1. Init => ReturnInv
  BY DEF Init, ReturnInv
<1>2. ReturnInv => ReturnedIdIsOwn
  BY DEF ReturnInv, RowOf, ReturnedIdIsOwn
<1>3. IInv /\ ReturnInv /\ [Next]_dbVars => ReturnInv'
  BY ReturnInvNext
<1> QED
  BY <1>1, <1>2, <1>3, IInvInit, IInvNext, PTL DEF Spec
=============================================================================
