------------------------- MODULE TableSessionProofs -------------------------
(***************************************************************************)
(* Theorems about TableSession, for every set of tables, accounts and      *)
(* requests, every finite set of dishes and every bound.                   *)
(***************************************************************************)
EXTENDS TableSession, FiniteSetTheorems, TLAPS

-----------------------------------------------------------------------------
(* Types.  A request past its first read knows its account, and one that   *)
(* writes an order knows its number.                                       *)

Wired(q) ==
  /\ q.op \notin {"idle", "open", "list"} => q.s \in Sessions
  /\ q.step \notin {"idle", "write"} => q.op \notin {"idle", "open", "list"}
  /\ q.op \in {"send", "pay"} /\ q.step = "write" => q.n \in Numbers
  /\ q.op = "merge" => q.s \notin q.sessions
TypeInv == TypeOK /\ \A r \in Requests : Wired(req[r])

LEMMA SubsetsFinite ==
  ASSUME TableAssumption
  PROVE  /\ \A I \in SUBSET Items : IsFiniteSet(I) /\ Cardinality(I) \in Nat
         /\ \A I, J \in SUBSET Items : I \subseteq J => Cardinality(I) <= Cardinality(J)
BY FS_Subset, FS_CardinalityType DEF TableAssumption

LEMMA UsedFinite ==
  ASSUME TableAssumption  PROVE  Cardinality(Used) \in Nat
<1>1. IsFiniteSet(Numbers)
  BY FS_Interval DEF Numbers, TableAssumption
<1>2. Used \subseteq Numbers
  BY DEF Used
<1> QED BY <1>1, <1>2, FS_Subset, FS_CardinalityType

LEMMA IdleType == Idle \in Request /\ Wired(Idle)
BY DEF Idle, Request, Wired, Ops, Steps

\* A request starts, or goes on, with its new state.
LEMMA StartType ==
  ASSUME TableAssumption, TypeInv, NEW r \in Requests, NEW q \in Request, Wired(q), Reading(r, q)
  PROVE  TypeInv'
BY DEF TableAssumption, TypeInv, TypeOK, Reading, Start, rows, history

LEMMA BecomeType ==
  ASSUME TypeInv, NEW r \in Requests, NEW q \in Request, Wired(q), Become(r, q)
  PROVE  /\ req' \in [Requests -> Request] /\ \A v \in Requests : Wired(req'[v])
         /\ started' \in 0..MaxRequests
BY DEF TypeInv, TypeOK, Become

LEMMA SetsType ==
  ASSUME TypeInv
  PROVE  /\ \A s : ItemsOf(s) \subseteq Items /\ Unpaid(s) \subseteq Items /\ Pending(s) \subseteq Items
         /\ \A s : Comandas(s) \subseteq Numbers
         /\ \A T \in SUBSET Tables : Absorbed(T) \subseteq Sessions
<1>1. \A i \in Items : item[i].comanda \in Numbers \cup {0}
  BY DEF TypeInv, TypeOK
<1>2. \A s : Comandas(s) \subseteq Numbers
  BY <1>1 DEF Comandas, ItemsOf
<1>3. \A t \in Tables : holder[t] \in Sessions \cup {None}
  BY DEF TypeInv, TypeOK
<1> QED BY <1>2, <1>3 DEF ItemsOf, Unpaid, Pending, Absorbed

LEMMA ReadTypes ==
  ASSUME TableAssumption, TypeInv, NEW r \in Requests,
         \/ ReadTable(r) \/ ReadForItems(r) \/ ReadForKitchen(r) \/ ReadForPayment(r)
         \/ ReadForCancel(r) \/ ReadForMerge(r) \/ ReadForUnmerge(r) \/ ReadForVoid(r)
         \/ ListTables(r)
  PROVE  TypeInv'
<1>1. CASE ReadTable(r)
  <2>1. PICK t \in Tables :
          Reading(r, [Idle EXCEPT !.op = "open", !.step = "write", !.tables = {t}])
    BY <1>1 DEF ReadTable
  <2> DEFINE q == [Idle EXCEPT !.op = "open", !.step = "write", !.tables = {t}]
  <2>2. q \in Request /\ Wired(q)
    BY DEF Idle, Request, Wired, Ops, Steps
  <2> QED BY <2>1, <2>2, StartType
<1>2. CASE ReadForItems(r)
  <2>1. PICK s \in Sessions, op \in {"add", "addAndSend"} :
          Reading(r, [Idle EXCEPT !.op = op, !.step = "write", !.s = s])
    BY <1>2 DEF ReadForItems
  <2> DEFINE q == [Idle EXCEPT !.op = op, !.step = "write", !.s = s]
  <2>2. q \in Request /\ Wired(q)
    BY DEF Idle, Request, Wired, Ops, Steps
  <2> QED BY <2>1, <2>2, StartType
<1>3. CASE ReadForKitchen(r)
  <2>1. PICK s \in Sessions, I \in SUBSET Items :
          Reading(r, [Idle EXCEPT !.op = "send", !.step = "count", !.s = s, !.items = I])
    BY <1>3 DEF ReadForKitchen
  <2> DEFINE q == [Idle EXCEPT !.op = "send", !.step = "count", !.s = s, !.items = I]
  <2>2. q \in Request /\ Wired(q)
    BY DEF Idle, Request, Wired, Ops, Steps
  <2> QED BY <2>1, <2>2, StartType
<1>4. CASE ReadForPayment(r)
  <2>1. PICK s \in Sessions, I \in SUBSET Items :
          Reading(r, [Idle EXCEPT !.op = "pay", !.step = "count", !.s = s, !.items = I,
                                  !.rest = Unpaid(s) \ I])
    BY <1>4 DEF ReadForPayment
  <2> DEFINE q == [Idle EXCEPT !.op = "pay", !.step = "count", !.s = s, !.items = I,
                               !.rest = Unpaid(s) \ I]
  <2>2. Unpaid(s) \ I \in SUBSET Items
    BY SetsType
  <2>3. q \in Request /\ Wired(q)
    BY <2>2 DEF Idle, Request, Wired, Ops, Steps
  <2> QED BY <2>1, <2>3, StartType
<1>5. CASE ReadForCancel(r)
  <2>1. PICK s \in Sessions : Reading(r, [Idle EXCEPT !.op = "cancel", !.step = "write", !.s = s])
    BY <1>5 DEF ReadForCancel
  <2> DEFINE q == [Idle EXCEPT !.op = "cancel", !.step = "write", !.s = s]
  <2>2. q \in Request /\ Wired(q)
    BY DEF Idle, Request, Wired, Ops, Steps
  <2> QED BY <2>1, <2>2, StartType
<1>6. CASE ReadForMerge(r)
  <2>1. PICK s \in Sessions, T \in SUBSET Tables :
          /\ CanMerge(s, T)
          /\ Reading(r, [Idle EXCEPT !.op = "merge", !.step = "write", !.s = s,
                         !.tables = {t \in T : holder[t] = None}, !.sessions = Absorbed(T)])
    BY <1>6 DEF ReadForMerge
  <2> DEFINE q == [Idle EXCEPT !.op = "merge", !.step = "write", !.s = s,
                     !.tables = {t \in T : holder[t] = None}, !.sessions = Absorbed(T)]
  <2>2. s \notin Absorbed(T) /\ Absorbed(T) \in SUBSET Sessions
    BY <2>1, SetsType DEF CanMerge, Absorbed
  <2>3. {t \in T : holder[t] = None} \in SUBSET Tables
    OBVIOUS
  <2>4. q \in Request /\ Wired(q)
    BY <2>2, <2>3 DEF Idle, Request, Wired, Ops, Steps
  <2> QED BY <2>1, <2>4, StartType
<1>7. CASE ReadForUnmerge(r)
  <2>1. PICK s \in Sessions, t \in Tables :
          Reading(r, [Idle EXCEPT !.op = "unmerge", !.step = "write", !.s = s, !.tables = {t}])
    BY <1>7 DEF ReadForUnmerge
  <2> DEFINE q == [Idle EXCEPT !.op = "unmerge", !.step = "write", !.s = s, !.tables = {t}]
  <2>2. q \in Request /\ Wired(q)
    BY DEF Idle, Request, Wired, Ops, Steps
  <2> QED BY <2>1, <2>2, StartType
<1>8. CASE ReadForVoid(r)
  <2>1. PICK s \in Sessions :
          Reading(r, [Idle EXCEPT !.op = "void", !.step = "write", !.s = s,
                                  !.orders = Comandas(s)])
    BY <1>8 DEF ReadForVoid
  <2> DEFINE q == [Idle EXCEPT !.op = "void", !.step = "write", !.s = s, !.orders = Comandas(s)]
  <2>2. Comandas(s) \in SUBSET Numbers
    BY SetsType
  <2>3. q \in Request /\ Wired(q)
    BY <2>2 DEF Idle, Request, Wired, Ops, Steps
  <2> QED BY <2>1, <2>3, StartType
<1>9. CASE ListTables(r)
  <2> DEFINE S == {s \in Sessions : Open(s)}
             q == [Idle EXCEPT !.op = "list", !.step = "write", !.sessions = S]
  <2>1. Reading(r, q)
    BY <1>9 DEF ListTables
  <2>2. q \in Request /\ Wired(q)
    BY DEF Idle, Request, Wired, Ops, Steps
  <2> QED BY <2>1, <2>2, StartType
<1> QED BY <1>1, <1>2, <1>3, <1>4, <1>5, <1>6, <1>7, <1>8, <1>9

\* The steps that write no row.
LEMMA RequestTypes ==
  ASSUME TableAssumption, TypeInv, NEW r \in Requests,
         SumItems(r) \/ SendAdded(r) \/ CountOrders(r) \/ Fail(r)
  PROVE  TypeInv'
<1> DEFINE q == req[r]
<1>0. q \in Request /\ Wired(q)
  BY DEF TypeInv, TypeOK
<1>1. PICK next \in Request : Wired(next) /\ Become(r, next)
  <2>1. CASE SumItems(r)
    <3> DEFINE next == [q EXCEPT !.step = "save", !.n = Cardinality(Unpaid(q.s))]
    <3>1. Cardinality(Unpaid(q.s)) \in Nat
      BY SetsType, SubsetsFinite
    <3>2. next \in Request /\ Wired(next)
      BY <1>0, <2>1, <3>1 DEF SumItems, Request, Wired, Steps
    <3> QED BY <2>1, <3>2 DEF SumItems
  <2>2. CASE SendAdded(r)
    <3> DEFINE next == [Idle EXCEPT !.op = "send", !.step = "count",
                                    !.s = q.s, !.items = Pending(q.s)]
    <3>1. q.s \in Sessions /\ Pending(q.s) \in SUBSET Items
      BY <1>0, <2>2, SetsType DEF SendAdded, Wired
    <3>2. next \in Request /\ Wired(next)
      BY <3>1 DEF Idle, Request, Wired, Ops, Steps
    <3>3. Become(r, next) \/ Become(r, Idle)
      BY <2>2 DEF SendAdded, Finish
    <3> QED BY <3>2, <3>3, IdleType
  <2>3. CASE CountOrders(r)
    <3> DEFINE next == [q EXCEPT !.step = "write", !.n = Cardinality(Used) + 1]
    <3>1. Cardinality(Used) + 1 \in Numbers /\ Cardinality(Used) + 1 \in Nat
      BY <2>3, UsedFinite DEF CountOrders, Numbers, TableAssumption
    <3>2. next \in Request /\ Wired(next)
      BY <1>0, <2>3, <3>1 DEF Request, Wired, Steps, CountOrders
    <3> QED BY <2>3, <3>2 DEF CountOrders
  <2>4. CASE Fail(r)
    BY <2>4, IdleType DEF Fail, Finish
  <2> QED BY <2>1, <2>2, <2>3, <2>4
<1>2. UNCHANGED <<rows, cook>> /\ stale' \in SUBSET Sessions /\ outrun' \in SUBSET Requests
  <2>1. CASE SumItems(r) \/ SendAdded(r) \/ CountOrders(r)
    BY <2>1 DEF SumItems, SendAdded, CountOrders, TypeInv, TypeOK, history
  <2>2. CASE Fail(r)
    <3>1. q.step \in {"sum", "save"} => q.s \in Sessions
      BY <1>0 DEF Wired
    <3> QED BY <2>2, <3>1 DEF Fail, TypeInv, TypeOK
  <2> QED BY <2>1, <2>2
<1> QED BY <1>1, <1>2, BecomeType DEF TypeInv, TypeOK, rows

SessionRows == [Sessions -> [status : {"NEW", "OPEN", "CLOSED", "CANCELLED"},
                             table : Tables, total : Nat]]
ItemRow == [session : Sessions \cup {None}, kitchen : {"NEW", "PENDING", "SENT", "CANCELLED"},
            comanda : Numbers \cup {0}, paidIn : Numbers \cup {0}]
ItemRows == [Items -> ItemRow]
OrderRow == [kind : {"FREE", "COMANDA", "FINAL", "OTHER"},
             status : {"LIVE", "DELIVERED", "CANCELLED"},
             session : Sessions \cup {None}, items : SUBSET Items]
OrderRows == [Numbers -> OrderRow]

LEMMA RowTypes ==
  ASSUME TypeInv
  PROVE  /\ session \in SessionRows /\ item \in ItemRows /\ order \in OrderRows
         /\ holder \in [Tables -> Sessions \cup {None}] /\ stale \subseteq Sessions
BY DEF TypeInv, TypeOK, SessionRows, ItemRows, ItemRow, OrderRows, OrderRow

\* What the writes of a request leave alone: the kitchen, and the sums but for a save.
LEMMA WriteTypes ==
  ASSUME TypeInv, NEW r \in Requests,
         \/ OpenSession(r) \/ AddItems(r) \/ SaveTotal(r) \/ SendComanda(r) \/ PaySession(r)
         \/ CancelSession(r) \/ VoidSession(r) \/ MergeTables(r) \/ UnmergeTable(r)
         \/ RelinkTable(r)
  PROVE  cook' = cook /\ outrun' \in SUBSET Requests
<1>0. outrun \in SUBSET Requests
  BY DEF TypeInv, TypeOK
<1>1. CASE OpenSession(r) \/ AddItems(r)
  BY <1>0, <1>1 DEF OpenSession, AddItems, Wrote
<1>2. CASE SaveTotal(r)
  BY <1>0, <1>2 DEF SaveTotal, Slower
<1>3. CASE SendComanda(r) \/ PaySession(r)
  BY <1>0, <1>3 DEF SendComanda, PaySession, Pay, Wrote
<1>4. CASE CancelSession(r) \/ VoidSession(r)
  BY <1>0, <1>4 DEF CancelSession, VoidSession, Void, Wrote
<1>5. CASE MergeTables(r) \/ UnmergeTable(r) \/ RelinkTable(r)
  BY <1>0, <1>5 DEF MergeTables, Merge, UnmergeTable, RelinkTable, Wrote
<1> QED BY <1>1, <1>2, <1>3, <1>4, <1>5

LEMMA OpenTypes ==
  ASSUME TableAssumption, TypeInv, NEW r \in Requests, OpenSession(r)
  PROVE  TypeInv'
<1>1. PICK s \in Sessions, t \in req[r].tables :
        /\ session' = [session EXCEPT ![s].status = "OPEN"]
        /\ holder' = [holder EXCEPT ![t] = s]
        /\ Wrote({s, holder[t]}, StillHolds(r))
        /\ Finish(r) /\ UNCHANGED <<item, order, cook>>
  BY DEF OpenSession
<1>2. t \in Tables
  BY <1>1 DEF TypeInv, TypeOK, Request
<1>3. stale' \in SUBSET Sessions
  BY <1>1, <1>2, RowTypes DEF Wrote
<1>4. session' \in SessionRows /\ holder' \in [Tables -> Sessions \cup {None}]
  BY <1>1, <1>2, RowTypes DEF SessionRows
<1> QED BY <1>1, <1>3, <1>4, IdleType, BecomeType, WriteTypes
        DEF Finish, TypeInv, TypeOK, SessionRows

LEMMA AddTypes ==
  ASSUME TableAssumption, TypeInv, NEW r \in Requests, AddItems(r)
  PROVE  TypeInv'
<1> DEFINE q == req[r]
<1>0. q \in Request /\ Wired(q)
  BY DEF TypeInv, TypeOK
<1>1. q.s \in Sessions /\ q.op \in {"add", "addAndSend"}
  BY <1>0 DEF AddItems, Wired
<1>2. item' \in ItemRows
  <2>1. PICK I \in SUBSET Items :
          item' = [i \in Items |->
            IF i \in I THEN [item[i] EXCEPT !.session = q.s, !.kitchen = "PENDING"] ELSE item[i]]
    BY DEF AddItems
  <2>2. \A x \in ItemRow : [x EXCEPT !.session = q.s, !.kitchen = "PENDING"] \in ItemRow
    BY <1>1 DEF ItemRow
  <2> QED BY <2>1, <2>2, RowTypes DEF ItemRows
<1>3. stale' \in SUBSET Sessions
  BY <1>1, RowTypes DEF AddItems, Wrote
<1>4. [q EXCEPT !.step = "sum"] \in Request /\ Wired([q EXCEPT !.step = "sum"])
  BY <1>0, <1>1 DEF Request, Wired, Steps
<1>5. Become(r, [q EXCEPT !.step = "sum"]) /\ UNCHANGED <<session, holder, order>>
  BY DEF AddItems, GoTo
<1> QED BY <1>2, <1>3, <1>4, <1>5, BecomeType, WriteTypes DEF TypeInv, TypeOK, ItemRows, ItemRow

LEMMA SaveTypes ==
  ASSUME TableAssumption, TypeInv, NEW r \in Requests, SaveTotal(r)
  PROVE  TypeInv'
<1> DEFINE q == req[r]
<1>0. q \in Request /\ Wired(q)
  BY DEF TypeInv, TypeOK
<1>1. q.s \in Sessions /\ q.n \in Nat /\ q.op \notin {"idle", "open", "list"}
  BY <1>0 DEF SaveTotal, Wired, Request
<1>2. session' \in SessionRows
  BY <1>1, RowTypes DEF SaveTotal, SessionRows
<1>3. stale' \in SUBSET Sessions
  BY <1>1, RowTypes DEF SaveTotal, Wrote
<1>4. [q EXCEPT !.step = "resend"] \in Request /\ Wired([q EXCEPT !.step = "resend"])
  BY <1>0, <1>1 DEF Request, Wired, Steps
<1>5. /\ Become(r, [q EXCEPT !.step = "resend"]) \/ Become(r, Idle)
      /\ UNCHANGED <<holder, item, order>>
  BY DEF SaveTotal, GoTo, Finish
<1> QED BY <1>2, <1>3, <1>4, <1>5, IdleType, BecomeType, WriteTypes DEF TypeInv, TypeOK, SessionRows

LEMMA SendTypes ==
  ASSUME TableAssumption, TypeInv, NEW r \in Requests, SendComanda(r)
  PROVE  TypeInv'
<1> DEFINE q == req[r]
<1>0. q \in Request /\ Wired(q)
  BY DEF TypeInv, TypeOK
<1>1. q.s \in Sessions /\ q.n \in Numbers /\ q.items \in SUBSET Items
  BY <1>0 DEF SendComanda, At, Wired, Request
<1>2. order' \in OrderRows
  BY <1>1, RowTypes DEF SendComanda, OrderRows, OrderRow
<1>3. item' \in ItemRows
  <2>1. item' = [i \in Items |->
          IF i \in q.items THEN [item[i] EXCEPT !.kitchen = "SENT", !.comanda = q.n] ELSE item[i]]
    BY DEF SendComanda
  <2>2. \A x \in ItemRow : [x EXCEPT !.kitchen = "SENT", !.comanda = q.n] \in ItemRow
    BY <1>1 DEF ItemRow
  <2> QED BY <2>1, <2>2, RowTypes DEF ItemRows
<1>4. stale' \in SUBSET Sessions
  <2>1. Wrote({q.s} \cup {item[i].session : i \in q.items}, StillHolds(r))
    BY DEF SendComanda
  <2>2. \A i \in q.items : item[i].session \in Sessions \cup {None}
    BY <1>1, RowTypes DEF ItemRows, ItemRow
  <2> QED BY <1>1, <2>1, <2>2 DEF Wrote, TypeInv, TypeOK
<1> QED BY <1>2, <1>3, <1>4, IdleType, BecomeType, WriteTypes
        DEF SendComanda, Finish, TypeInv, TypeOK, ItemRows, ItemRow, OrderRows, OrderRow

LEMMA ReleaseType ==
  ASSUME TypeInv, NEW s  PROVE Release(s) \in [Tables -> Sessions \cup {None}]
BY DEF Release, TypeInv, TypeOK

LEMMA PayTypes ==
  ASSUME TableAssumption, TypeInv, NEW r \in Requests, PaySession(r)
  PROVE  TypeInv'
<1> DEFINE q == req[r]
           total == Cardinality(IF q.rest = {} THEN q.items ELSE q.rest)
<1>0. q \in Request /\ Wired(q)
  BY DEF TypeInv, TypeOK
<1>1. q.s \in Sessions /\ q.n \in Numbers /\ q.items \in SUBSET Items /\ q.rest \in SUBSET Items
  BY <1>0 DEF PaySession, Pay, At, Wired, Request
<1>2. total \in Nat
  BY <1>1, SubsetsFinite
<1> HIDE DEF total
<1>3. Pay(r, total, q.rest = {})
  BY DEF PaySession, total
<1>4. order' \in OrderRows
  BY <1>1, <1>3, RowTypes DEF Pay, OrderRows, OrderRow
<1>5. item' \in ItemRows
  <2>1. item' = [i \in Items |->
          IF i \in q.items THEN [item[i] EXCEPT !.kitchen = "SENT", !.paidIn = q.n] ELSE item[i]]
    BY <1>3 DEF Pay
  <2>2. \A x \in ItemRow : [x EXCEPT !.kitchen = "SENT", !.paidIn = q.n] \in ItemRow
    BY <1>1 DEF ItemRow
  <2> QED BY <2>1, <2>2, RowTypes DEF ItemRows
<1>6. session' \in SessionRows
  <2>1. session' = [session EXCEPT ![q.s].total = total,
                                   ![q.s].status = IF q.rest = {} THEN "CLOSED" ELSE @]
    BY <1>3 DEF Pay
  <2> QED BY <1>1, <1>2, <2>1, RowTypes DEF SessionRows
<1>7. stale' \in SUBSET Sessions
  <2>1. Wrote({q.s} \cup {item[i].session : i \in q.items}, StillHolds(r))
    BY <1>3 DEF Pay
  <2>2. \A i \in q.items : item[i].session \in Sessions \cup {None}
    BY <1>1, RowTypes DEF ItemRows, ItemRow
  <2> QED BY <1>1, <2>1, <2>2 DEF Wrote, TypeInv, TypeOK
<1>8. holder' \in [Tables -> Sessions \cup {None}]
  BY <1>3, RowTypes, ReleaseType DEF Pay
<1> QED BY <1>3, <1>4, <1>5, <1>6, <1>7, <1>8, IdleType, BecomeType, WriteTypes
        DEF Pay, Finish, TypeInv, TypeOK, ItemRows, ItemRow, OrderRows, OrderRow, SessionRows

LEMMA EndTypes ==
  ASSUME TableAssumption, TypeInv, NEW r \in Requests, CancelSession(r) \/ VoidSession(r)
  PROVE  TypeInv'
<1> DEFINE q == req[r]
<1>1. q.s \in Sessions /\ q.orders \in SUBSET Numbers
  BY DEF CancelSession, VoidSession, Void, At, TypeInv, TypeOK, Wired, Request
<1>2. session' = [session EXCEPT ![q.s].status = "CANCELLED"] /\ holder' = Release(q.s)
      /\ Wrote({q.s}, StillHolds(r)) /\ Finish(r)
  BY DEF CancelSession, VoidSession, Void
<1>3. session' \in SessionRows
  BY <1>1, <1>2, RowTypes DEF SessionRows
<1>4. stale' \in SUBSET Sessions
  BY <1>1, <1>2, RowTypes DEF Wrote
<1>5. holder' \in [Tables -> Sessions \cup {None}]
  BY <1>2, ReleaseType
<1>6. item' \in ItemRows /\ order' \in OrderRows
  <2>1. CASE CancelSession(r)
    BY <2>1, RowTypes DEF CancelSession
  <2>2. CASE VoidSession(r)
    <3> DEFINE dropped == {i \in ItemsOf(q.s) : item[i].paidIn = 0}
    <3>1. Void(r, dropped)
      BY <2>2 DEF VoidSession
    <3> HIDE DEF dropped
    <3>2. item' \in ItemRows
      <4>1. \A x \in ItemRow : [x EXCEPT !.kitchen = "CANCELLED", !.paidIn = 0] \in ItemRow
        BY DEF ItemRow
      <4> QED BY <3>1, <4>1, RowTypes DEF Void, ItemRows
    <3>3. order' \in OrderRows
      <4>1. \A x \in OrderRow : [x EXCEPT !.status = "CANCELLED"] \in OrderRow
        BY DEF OrderRow
      <4> QED BY <3>1, <4>1, RowTypes DEF Void, OrderRows
    <3> QED BY <3>2, <3>3
  <2> QED BY <2>1, <2>2
<1> QED BY <1>2, <1>3, <1>4, <1>5, <1>6, IdleType, BecomeType, WriteTypes
        DEF Finish, TypeInv, TypeOK, ItemRows, ItemRow, OrderRows, OrderRow, SessionRows

LEMMA MergeTypes ==
  ASSUME TableAssumption, TypeInv, NEW r \in Requests, MergeTables(r)
  PROVE  TypeInv'
<1> DEFINE q == req[r]
<1>0. q \in Request /\ Wired(q)
  BY DEF TypeInv, TypeOK
<1>1. /\ q.s \in Sessions /\ q.sessions \in SUBSET Sessions /\ q.tables \in SUBSET Tables
      /\ q.op = "merge"
  BY <1>0 DEF MergeTables, Merge, At, Wired, Request
<1>2. item' \in ItemRows
  <2>1. \A x \in ItemRow : [x EXCEPT !.session = q.s] \in ItemRow
    BY <1>1 DEF ItemRow
  <2> QED BY <2>1, RowTypes DEF MergeTables, Merge, ItemRows
<1>3. order' \in OrderRows
  <2>1. \A x \in OrderRow : [x EXCEPT !.session = q.s] \in OrderRow
    BY <1>1 DEF OrderRow
  <2> QED BY <2>1, RowTypes DEF MergeTables, Merge, OrderRows
<1>4. session' \in SessionRows
  <2>1. session' = [s \in Sessions |-> IF s \in q.sessions
                      THEN [session[s] EXCEPT !.status = "CANCELLED", !.total = 0] ELSE session[s]]
    BY DEF MergeTables, Merge
  <2> QED BY <2>1, RowTypes DEF SessionRows
<1>5. holder' \in [Tables -> Sessions \cup {None}]
  BY <1>1, RowTypes DEF MergeTables, Merge
<1>6. stale' \in SUBSET Sessions
  BY <1>1, RowTypes DEF MergeTables, Merge, Wrote
<1>7. [q EXCEPT !.step = "sum"] \in Request /\ Wired([q EXCEPT !.step = "sum"])
  BY <1>0, <1>1 DEF Request, Wired, Steps
<1>8. Become(r, [q EXCEPT !.step = "sum"])
  BY DEF MergeTables, Merge
<1> QED BY <1>2, <1>3, <1>4, <1>5, <1>6, <1>7, <1>8, BecomeType, WriteTypes
        DEF TypeInv, TypeOK, ItemRows, ItemRow, OrderRows, OrderRow, SessionRows

LEMMA LinkTypes ==
  ASSUME TableAssumption, TypeInv, NEW r \in Requests, UnmergeTable(r) \/ RelinkTable(r)
  PROVE  TypeInv'
<1> DEFINE q == req[r]
<1>0. q \in Request /\ Wired(q)
  BY DEF TypeInv, TypeOK
<1>1. CASE UnmergeTable(r)
  <2>1. PICK t \in q.tables : /\ holder' = [holder EXCEPT ![t] = None]
                              /\ Wrote({q.s, holder[t]}, StillHolds(r))
    BY <1>1 DEF UnmergeTable
  <2>2. t \in Tables /\ q.s \in Sessions
    BY <1>0, <1>1 DEF UnmergeTable, At, Request, Wired
  <2>3. holder' \in [Tables -> Sessions \cup {None}] /\ stale' \in SUBSET Sessions
    BY <2>1, <2>2, RowTypes DEF Wrote
  <2> QED BY <1>1, <2>3, IdleType, BecomeType, WriteTypes DEF UnmergeTable, Finish, TypeInv, TypeOK
<1>2. CASE RelinkTable(r)
  <2>1. PICK s \in q.sessions :
          /\ At(r, "list", "write")
          /\ holder' = [holder EXCEPT ![session[s].table] = s]
          /\ Wrote({s, holder[session[s].table]}, Open(s))
          /\ Become(r, Idle) \/ Become(r, [q EXCEPT !.sessions = @ \ {s}])
    BY <1>2 DEF RelinkTable, Finish
  <2>2. s \in Sessions /\ session[s].table \in Tables
    BY <1>0, RowTypes DEF Request, SessionRows
  <2>3. holder' \in [Tables -> Sessions \cup {None}] /\ stale' \in SUBSET Sessions
    BY <2>1, <2>2, RowTypes DEF Wrote
  <2>4. [q EXCEPT !.sessions = @ \ {s}] \in Request /\ Wired([q EXCEPT !.sessions = @ \ {s}])
    BY <1>0, <2>1 DEF Request, Wired, At
  <2> QED BY <1>2, <2>1, <2>3, <2>4, IdleType, BecomeType, WriteTypes DEF RelinkTable, TypeInv, TypeOK
<1> QED BY <1>1, <1>2

LEMMA KitchenTypes ==
  ASSUME TableAssumption, TypeInv, NEW c \in Cooks, ReadComanda(c) \/ UpdateComanda(c)
  PROVE  TypeInv'
<1>1. CASE ReadComanda(c)
  <2>1. PICK n \in Numbers, to \in Statuses :
          cook' = [cook EXCEPT ![c] = [n |-> n, to |-> to]] /\ started < MaxRequests
    BY <1>1 DEF ReadComanda
  <2>2. cook' \in [Cooks -> Change]
    BY <2>1 DEF TypeInv, TypeOK, Change
  <2>3. started' \in 0..MaxRequests
    BY <1>1, <2>1, TableAssumption DEF ReadComanda, TypeInv, TypeOK, TableAssumption
  <2>4. UNCHANGED <<session, holder, item, order, req, stale, outrun>>
    BY <1>1 DEF ReadComanda, rows, history
  <2> QED BY <2>2, <2>3, <2>4 DEF TypeInv, TypeOK
<1>2. CASE UpdateComanda(c)
  <2>1. PICK n \in Numbers, to \in Statuses :
          n = cook[c].n /\ to = cook[c].to
    BY <1>2 DEF UpdateComanda, TypeInv, TypeOK, Change
  <2>2. order' \in OrderRows
    <3>1. order' = [order EXCEPT ![n].status = IF to \in {"CONFIRMED", "READY"} THEN "LIVE" ELSE to]
      BY <1>2, <2>1 DEF UpdateComanda
    <3>2. PICK status \in {"LIVE", "DELIVERED", "CANCELLED"} :
            status = IF to \in {"CONFIRMED", "READY"} THEN "LIVE" ELSE to
      BY <2>1 DEF Statuses
    <3>3. order' = [order EXCEPT ![n].status = status]
      BY <3>1, <3>2
    <3> QED BY <3>3, RowTypes DEF OrderRows, OrderRow
  <2>3. item' \in ItemRows
    <3>1. PICK kitchen \in {"SENT", "CANCELLED"} :
            item' = [i \in Items |-> IF item[i].comanda = n /\ to # "CONFIRMED"
                                       THEN [item[i] EXCEPT !.kitchen = kitchen] ELSE item[i]]
      BY <1>2, <2>1 DEF UpdateComanda
    <3>2. \A x \in ItemRow : [x EXCEPT !.kitchen = kitchen] \in ItemRow
      BY DEF ItemRow
    <3> QED BY <3>1, <3>2, RowTypes DEF ItemRows
  <2>4. stale' \in SUBSET Sessions
    <3>1. \A i \in Items : item[i].session \in Sessions \cup {None}
      BY RowTypes DEF ItemRows, ItemRow
    <3> QED BY <1>2, <3>1, RowTypes DEF UpdateComanda, Wrote
  <2>5. cook' \in [Cooks -> Change]
    BY <1>2 DEF UpdateComanda, TypeInv, TypeOK, Change, NoChange, Statuses
  <2>6. UNCHANGED <<session, holder, req, started, outrun>>
    BY <1>2 DEF UpdateComanda, Wrote
  <2> QED BY <2>2, <2>3, <2>4, <2>5, <2>6
          DEF TypeInv, TypeOK, ItemRows, ItemRow, OrderRows, OrderRow
<1> QED BY <1>1, <1>2

LEMMA OtherTypes ==
  ASSUME TableAssumption, TypeInv, NEW n \in Numbers, OtherOrder(n)
  PROVE  TypeInv'
<1>1. order' \in OrderRows
  <2>1. \A x \in OrderRow : [x EXCEPT !.kind = "OTHER"] \in OrderRow
    BY DEF OrderRow
  <2> QED BY <2>1, RowTypes DEF OtherOrder, OrderRows
<1>2. UNCHANGED <<session, holder, item, req, cook, started, stale, outrun>>
  BY DEF OtherOrder, history
<1> QED BY <1>1, <1>2 DEF TypeInv, TypeOK, OrderRows, OrderRow

LEMMA TypeInvariant == TableAssumption => (Spec => []TypeInv)
<1> SUFFICES ASSUME TableAssumption  PROVE Spec => []TypeInv
  OBVIOUS
<1>1. Init => TypeInv
  BY IdleType DEF Init, TypeInv, TypeOK, TableAssumption, Change, NoChange, Statuses
<1>2. TypeInv /\ [Next]_vars => TypeInv'
  <2> SUFFICES ASSUME TypeInv, [Next]_vars  PROVE TypeInv'
    OBVIOUS
  <2>1. ASSUME NEW r \in Requests, Serve(r)  PROVE TypeInv'
    BY <2>1, ReadTypes, RequestTypes, OpenTypes, AddTypes, SaveTypes, SendTypes, PayTypes,
       EndTypes, MergeTypes, LinkTypes DEF Serve
  <2>2. ASSUME NEW c \in Cooks, ReadComanda(c) \/ UpdateComanda(c)  PROVE TypeInv'
    BY <2>2, KitchenTypes
  <2>3. ASSUME NEW n \in Numbers, OtherOrder(n)  PROVE TypeInv'
    BY <2>3, OtherTypes
  <2>4. CASE UNCHANGED vars
    BY <2>4 DEF vars, TypeInv, TypeOK
  <2> QED BY <2>1, <2>2, <2>3, <2>4 DEF Next
<1> QED BY <1>1, <1>2, PTL DEF Spec

\* Every account, table, dish, order and running request keeps its shape.
THEOREM TypeCorrect == Spec => []TypeOK
<1>1. TypeInv => TypeOK
  BY DEF TypeInv
<1> QED BY <1>1, TypeInvariant, TableAssumption, PTL

-----------------------------------------------------------------------------
(* The inductive invariant.                                                *)

\* A request works on an account that was opened, and the dishes it sends or charges
\* belong to one; so does every dish that has an account.
Known ==
  /\ \A r \in Requests :
       /\ req[r].op \notin {"idle", "open", "list"} => session[req[r].s].status # "NEW"
       /\ req[r].op \in {"send", "pay"} => \A i \in req[r].items : item[i].session # None
  /\ \A i \in Items : item[i].session # None => session[item[i].session].status # "NEW"

\* A dish of no account is in no order, one that waits for the kitchen has neither
\* comanda nor payment, and a dish names orders of the right kind.
DishesAgree == \A i \in Items :
  /\ item[i].session = None =>
       /\ item[i].paidIn = 0 /\ item[i].comanda = 0
       /\ \A n \in Numbers : i \in order[n].items => order[n].kind \notin {"FINAL", "COMANDA"}
  /\ item[i].kitchen = "PENDING" => item[i].paidIn = 0 /\ item[i].comanda = 0
  /\ item[i].paidIn # 0 =>
       order[item[i].paidIn].kind = "FINAL" /\ i \in order[item[i].paidIn].items
  /\ item[i].comanda # 0 => order[item[i].comanda].kind = "COMANDA"

\* The kitchen has done with the comanda of a dish that was voided.
VoidedIsDone == \A i \in Items :
  item[i].session \in Sound /\ item[i].kitchen = "CANCELLED" /\ item[i].comanda # 0
    => order[item[i].comanda].status # "LIVE"

\* A request that has still to add up the dishes of an account, or to save their sum.
Adding(v, s) == req[v].s = s /\ req[v].step = "sum"
Saving(v, s) == req[v].s = s /\ req[v].step = "save"

\* Once all have added up, the highest sum still to be saved covers the account, or the
\* total does and every lower sum comes too late.
Covered(s) ==
  \/ \E v \in Requests \ outrun : Saving(v, s) /\ req[v].n >= Cardinality(Unpaid(s))
  \/ /\ session[s].total >= Cardinality(Unpaid(s))
     /\ \A v \in Requests \ outrun : Saving(v, s) => req[v].n >= Cardinality(Unpaid(s))
TotalOnItsWay ==
  /\ \A v \in outrun : req[v].step = "save"
  /\ \A s \in Sound :
       session[s].status = "OPEN" /\ (\A v \in Requests : ~Adding(v, s)) => Covered(s)

TableInv ==
  /\ Known /\ DishesAgree /\ VoidedIsDone
  /\ ChargedOnce /\ ClosedOwesNothing /\ CookedOnce /\ TablesFollowAccounts /\ TotalOnItsWay

\* A step that neither saves a total nor is about to keeps each account covered, if it
\* takes dishes away, or pays for them and writes what is left, or starts the account
\* without any, or has still to add up.
LEMMA TotalKept ==
  ASSUME TableAssumption, TypeInv, TypeInv', TotalOnItsWay, Sound' \subseteq Sound, outrun' = outrun,
         \A v \in Requests :
           req'[v] = req[v] \/ (req[v].step \notin {"sum", "save"} /\ req'[v].step # "save"),
         \A s \in Sound' :
           session'[s].status = "OPEN" /\ (\A v \in Requests : ~Adding(v, s)') =>
             \/ Unpaid(s)' = {}
             \/ /\ session[s].status = "OPEN" /\ Unpaid(s)' \subseteq Unpaid(s)
                /\ session'[s].total \in {session[s].total, Cardinality(Unpaid(s)')}
  PROVE  TotalOnItsWay'
<1>1. ASSUME NEW v \in outrun'  PROVE req'[v].step = "save"
  <2>1. v \in Requests /\ req[v].step = "save"
    BY <1>1 DEF TotalOnItsWay, TypeInv, TypeOK
  <2> QED BY <2>1
<1>2. ASSUME NEW s \in Sound', session'[s].status = "OPEN", \A v \in Requests : ~Adding(v, s)'
      PROVE  Covered(s)'
  <2>1. /\ s \in Sessions /\ s \in Sound /\ session[s].total \in Nat /\ session'[s].total \in Nat
        /\ \A v \in Requests : req[v].n \in Nat /\ req'[v].n \in Nat
    BY <1>2 DEF Sound, TypeInv, TypeOK, Request
  <2>2. \A v \in Requests : /\ Adding(v, s) => Adding(v, s)'
                            /\ Saving(v, s)' => Saving(v, s)
                            /\ Saving(v, s) => Saving(v, s)' /\ req'[v].n = req[v].n
    BY DEF Adding, Saving
  <2>3. PICK before, after \in SUBSET Items : before = Unpaid(s) /\ after = Unpaid(s)'
    BY DEF Unpaid, ItemsOf
  <2>4. PICK c, d \in Nat : /\ c = Cardinality(before) /\ d = Cardinality(after)
                            /\ after \subseteq before => d <= c
    BY SubsetsFinite
  <2>5. CASE after = {}
    <3>1. d = 0
      BY <2>4, <2>5, FS_EmptySet
    <3> QED BY <2>1, <2>3, <2>4, <3>1 DEF Covered
  <2>6. CASE after # {}
    <3>1. /\ session[s].status = "OPEN" /\ d <= c
          /\ session'[s].total \in {session[s].total, d}
      BY <1>2, <2>3, <2>4, <2>6
    <3>2. \A v \in Requests : ~Adding(v, s)
      BY <1>2, <2>2
    <3>3. Covered(s)
      BY <2>1, <3>1, <3>2 DEF TotalOnItsWay
    <3>4. CASE \E v \in Requests \ outrun : Saving(v, s) /\ req[v].n >= c
      BY <2>1, <2>2, <2>3, <2>4, <3>1, <3>4 DEF Covered
    <3>5. CASE /\ session[s].total >= c
               /\ \A v \in Requests \ outrun : Saving(v, s) => req[v].n >= c
      <4>1. session'[s].total >= d
        BY <2>1, <2>4, <3>1, <3>5
      <4>2. \A v \in Requests \ outrun : Saving(v, s)' => req'[v].n >= d
        BY <2>1, <2>2, <2>4, <3>1, <3>5
      <4> QED BY <2>3, <2>4, <4>1, <4>2 DEF Covered
    <3> QED BY <2>3, <2>4, <3>3, <3>4, <3>5 DEF Covered
  <2> QED BY <2>5, <2>6
<1> QED BY <1>1, <1>2 DEF TotalOnItsWay

\* Nothing to save means that the total covers what is owed.
LEMMA CoveredTotal == TotalOnItsWay => TotalCoversUnpaid
BY DEF TotalOnItsWay, Covered, TotalCoversUnpaid, Adding, Saving, Sound

\* What the steps that write no row do: an account stays covered, or is no longer sound.
LEMMA RequestEffect ==
  ASSUME TableAssumption, TypeInv, TableInv, NEW r \in Requests,
         \/ ReadTable(r) \/ ReadForItems(r) \/ ReadForKitchen(r) \/ ReadForPayment(r)
         \/ ReadForCancel(r) \/ ReadForMerge(r) \/ ReadForUnmerge(r) \/ ReadForVoid(r)
         \/ ListTables(r)
         \/ SumItems(r) \/ SendAdded(r) \/ CountOrders(r) \/ Fail(r)
  PROVE  /\ UNCHANGED rows /\ Sound' \subseteq Sound
         /\ \A v \in Requests : v # r => req'[v] = req[v]
         /\ req'[r].op \notin {"idle", "open", "list"} => session[req'[r].s].status # "NEW"
         /\ req'[r].op \in {"send", "pay"} => \A i \in req'[r].items : item[i].session # None
         /\ TotalOnItsWay'
<1>t. TypeInv'
  BY ReadTypes, RequestTypes
<1>0. /\ req \in [Requests -> Request] /\ Wired(req[r])
      /\ req[r].op \notin {"idle", "open", "list"} => session[req[r].s].status # "NEW"
      /\ req[r].op \in {"send", "pay"} => \A i \in req[r].items : item[i].session # None
  BY DEF TypeInv, TypeOK, TableInv, Known
<1>a. \A s : /\ Open(s) => s # None /\ session[s].status # "NEW"
             /\ s # None => \A i \in ItemsOf(s) : item[i].session # None
             /\ Pending(s) \subseteq ItemsOf(s) /\ Unpaid(s) \subseteq ItemsOf(s)
  BY DEF Open, ItemsOf, Pending, Unpaid
<1>b. Sound' = Sessions \ stale'
  BY DEF Sound
<1>c. ASSUME NEW q \in Request, Reading(r, q),
             q.op \notin {"idle", "open", "list"} => session[q.s].status # "NEW",
             q.op \in {"send", "pay"} => \A i \in q.items : item[i].session # None,
             q.step # "save"
      PROVE  /\ UNCHANGED rows /\ Sound' \subseteq Sound
             /\ \A v \in Requests : v # r => req'[v] = req[v]
             /\ req'[r].op \notin {"idle", "open", "list"} => session[req'[r].s].status # "NEW"
             /\ req'[r].op \in {"send", "pay"} => \A i \in req'[r].items : item[i].session # None
             /\ TotalOnItsWay'
  <2>1. /\ UNCHANGED rows /\ Sound' = Sound /\ outrun' = outrun
        /\ req[r].step = "idle" /\ req'[r] = q /\ \A v \in Requests : v # r => req'[v] = req[v]
    BY <1>0, <1>c DEF Reading, Start, At, Sound, history
  <2>2. session' = session /\ \A s : Unpaid(s)' = Unpaid(s)
    BY <2>1 DEF rows, Unpaid, ItemsOf
  <2>3. TotalOnItsWay'
    BY <1>c, <1>t, <2>1, <2>2, TotalKept DEF TableInv
  <2> QED BY <1>c, <2>1, <2>3
<1>d. ASSUME NEW q \in Request, Become(r, q), UNCHANGED rows, Sound' \subseteq Sound,
             q.op \notin {"idle", "open", "list"} => session[q.s].status # "NEW",
             q.op \in {"send", "pay"} => \A i \in q.items : item[i].session # None,
             \/ TotalOnItsWay'
             \/ req[r].step \notin {"sum", "save"} /\ q.step # "save" /\ outrun' = outrun
      PROVE  /\ UNCHANGED rows /\ Sound' \subseteq Sound
             /\ \A v \in Requests : v # r => req'[v] = req[v]
             /\ req'[r].op \notin {"idle", "open", "list"} => session[req'[r].s].status # "NEW"
             /\ req'[r].op \in {"send", "pay"} => \A i \in req'[r].items : item[i].session # None
             /\ TotalOnItsWay'
  <2>1. req'[r] = q /\ \A v \in Requests : v # r => req'[v] = req[v]
    BY <1>0, <1>d DEF Become
  <2>2. session' = session /\ \A s : Unpaid(s)' = Unpaid(s)
    BY <1>d DEF rows, Unpaid, ItemsOf
  <2>3. TotalOnItsWay'
    BY <1>d, <1>t, <2>1, <2>2, TotalKept DEF TableInv
  <2> QED BY <1>d, <2>1, <2>3
<1>1. CASE ReadTable(r)
  <2>1. PICK t \in Tables :
          Reading(r, [Idle EXCEPT !.op = "open", !.step = "write", !.tables = {t}])
    BY <1>1 DEF ReadTable
  <2> DEFINE q == [Idle EXCEPT !.op = "open", !.step = "write", !.tables = {t}]
  <2>2. q \in Request /\ q.op = "open" /\ q.step = "write"
    BY DEF Idle, Request, Ops, Steps
  <2> HIDE DEF q
  <2>3. Reading(r, q)
    BY <2>1 DEF q
  <2> QED BY <1>c, <2>2, <2>3
<1>2. CASE ReadForItems(r)
  <2>1. PICK s \in Sessions, op \in {"add", "addAndSend"} :
          Open(s) /\ Reading(r, [Idle EXCEPT !.op = op, !.step = "write", !.s = s])
    BY <1>2 DEF ReadForItems
  <2> DEFINE q == [Idle EXCEPT !.op = op, !.step = "write", !.s = s]
  <2>2. q \in Request /\ q.op \notin {"send", "pay"} /\ q.s = s /\ q.step = "write"
    BY DEF Idle, Request, Ops, Steps
  <2> HIDE DEF q
  <2>3. Reading(r, q)
    BY <2>1 DEF q
  <2> QED BY <1>a, <1>c, <2>1, <2>2, <2>3
<1>3. CASE ReadForKitchen(r)
  <2>1. PICK s \in Sessions, I \in SUBSET Items :
          /\ CanSend(s, I)
          /\ Reading(r, [Idle EXCEPT !.op = "send", !.step = "count", !.s = s, !.items = I])
    BY <1>3 DEF ReadForKitchen
  <2> DEFINE q == [Idle EXCEPT !.op = "send", !.step = "count", !.s = s, !.items = I]
  <2>2. q \in Request /\ q.s = s /\ q.items = I /\ q.step = "count"
    BY DEF Idle, Request, Ops, Steps
  <2> HIDE DEF q
  <2>3. Reading(r, q)
    BY <2>1 DEF q
  <2> QED BY <1>a, <1>c, <2>1, <2>2, <2>3 DEF CanSend
<1>4. CASE ReadForPayment(r)
  <2>1. PICK s \in Sessions, I \in SUBSET Items :
          /\ CanPay(s, I)
          /\ Reading(r, [Idle EXCEPT !.op = "pay", !.step = "count", !.s = s, !.items = I,
                                     !.rest = Unpaid(s) \ I])
    BY <1>4 DEF ReadForPayment
  <2> DEFINE q == [Idle EXCEPT !.op = "pay", !.step = "count", !.s = s, !.items = I,
                               !.rest = Unpaid(s) \ I]
  <2>2. Unpaid(s) \ I \in SUBSET Items
    BY SetsType
  <2>3. q \in Request /\ q.s = s /\ q.items = I /\ q.step = "count"
    BY <2>2 DEF Idle, Request, Ops, Steps
  <2> HIDE DEF q
  <2>4. Reading(r, q)
    BY <2>1 DEF q
  <2> QED BY <1>a, <1>c, <2>1, <2>3, <2>4 DEF CanPay
<1>5. CASE ReadForCancel(r)
  <2>1. PICK s \in Sessions :
          CanCancel(s) /\ Reading(r, [Idle EXCEPT !.op = "cancel", !.step = "write", !.s = s])
    BY <1>5 DEF ReadForCancel
  <2> DEFINE q == [Idle EXCEPT !.op = "cancel", !.step = "write", !.s = s]
  <2>2. q \in Request /\ q.op = "cancel" /\ q.s = s /\ q.step = "write"
    BY DEF Idle, Request, Ops, Steps
  <2> HIDE DEF q
  <2>3. Reading(r, q)
    BY <2>1 DEF q
  <2> QED BY <1>a, <1>c, <2>1, <2>2, <2>3 DEF CanCancel
<1>6. CASE ReadForMerge(r)
  <2>1. PICK s \in Sessions, T \in SUBSET Tables :
          /\ CanMerge(s, T)
          /\ Reading(r, [Idle EXCEPT !.op = "merge", !.step = "write", !.s = s,
                         !.tables = {t \in T : holder[t] = None}, !.sessions = Absorbed(T)])
    BY <1>6 DEF ReadForMerge
  <2> DEFINE q == [Idle EXCEPT !.op = "merge", !.step = "write", !.s = s,
                     !.tables = {t \in T : holder[t] = None}, !.sessions = Absorbed(T)]
  <2>2. Absorbed(T) \in SUBSET Sessions /\ {t \in T : holder[t] = None} \in SUBSET Tables
    BY SetsType
  <2>3. q \in Request /\ q.op = "merge" /\ q.s = s /\ q.step = "write"
    BY <2>2 DEF Idle, Request, Ops, Steps
  <2> HIDE DEF q
  <2>4. Reading(r, q)
    BY <2>1 DEF q
  <2> QED BY <1>a, <1>c, <2>1, <2>3, <2>4 DEF CanMerge
<1>7. CASE ReadForUnmerge(r)
  <2>1. PICK s \in Sessions, t \in Tables :
          /\ CanUnmerge(s, t)
          /\ Reading(r, [Idle EXCEPT !.op = "unmerge", !.step = "write", !.s = s, !.tables = {t}])
    BY <1>7 DEF ReadForUnmerge
  <2> DEFINE q == [Idle EXCEPT !.op = "unmerge", !.step = "write", !.s = s, !.tables = {t}]
  <2>2. q \in Request /\ q.op = "unmerge" /\ q.s = s /\ q.step = "write"
    BY DEF Idle, Request, Ops, Steps
  <2> HIDE DEF q
  <2>3. Reading(r, q)
    BY <2>1 DEF q
  <2> QED BY <1>a, <1>c, <2>1, <2>2, <2>3 DEF CanUnmerge
<1>8. CASE ReadForVoid(r)
  <2>1. PICK s \in Sessions :
          /\ Open(s)
          /\ Reading(r, [Idle EXCEPT !.op = "void", !.step = "write", !.s = s,
                                     !.orders = Comandas(s)])
    BY <1>8 DEF ReadForVoid
  <2> DEFINE q == [Idle EXCEPT !.op = "void", !.step = "write", !.s = s, !.orders = Comandas(s)]
  <2>2. Comandas(s) \in SUBSET Numbers
    BY SetsType
  <2>3. q \in Request /\ q.op = "void" /\ q.s = s /\ q.step = "write"
    BY <2>2 DEF Idle, Request, Ops, Steps
  <2> HIDE DEF q
  <2>4. Reading(r, q)
    BY <2>1 DEF q
  <2> QED BY <1>a, <1>c, <2>1, <2>3, <2>4
<1>9. CASE ListTables(r)
  <2> DEFINE q == [Idle EXCEPT !.op = "list", !.step = "write",
                               !.sessions = {s \in Sessions : Open(s)}]
  <2>1. q \in Request /\ q.op = "list" /\ q.step = "write"
    BY DEF Idle, Request, Ops, Steps
  <2>2. Reading(r, q)
    BY <1>9 DEF ListTables
  <2> HIDE DEF q
  <2> QED BY <1>c, <2>1, <2>2
<1>10. CASE SumItems(r)
  <2> DEFINE q == [req[r] EXCEPT !.step = "save", !.n = Cardinality(Unpaid(req[r].s))]
  <2>1. Cardinality(Unpaid(req[r].s)) \in Nat
    BY SetsType, SubsetsFinite
  <2>2. /\ q \in Request /\ q.op = req[r].op /\ q.s = req[r].s /\ q.items = req[r].items
        /\ q.step = "save"
    BY <1>0, <2>1 DEF Request, Steps
  <2>3. /\ Become(r, q) /\ UNCHANGED rows /\ Sound' = Sound /\ outrun' = outrun
        /\ req[r].step = "sum" /\ q.n = Cardinality(Unpaid(req[r].s))
    BY <1>0, <1>10, <2>1 DEF SumItems, Sound, history, Request
  <2> HIDE DEF q
  <2>4. req'[r] = q /\ \A v \in Requests : v # r => req'[v] = req[v]
    BY <1>0, <2>3 DEF Become
  <2>5. session' = session /\ \A s : Unpaid(s)' = Unpaid(s)
    BY <2>3 DEF rows, Unpaid, ItemsOf
  <2>6. r \notin outrun /\ \A v \in outrun : req[v].step = "save" /\ v \in Requests
    BY <2>3 DEF TableInv, TotalOnItsWay, TypeInv, TypeOK
  <2>7. ASSUME NEW s \in Sound', session'[s].status = "OPEN", \A v \in Requests : ~Adding(v, s)'
        PROVE  Covered(s)'
    <3>1. CASE s = req[r].s
      <4>1. Saving(r, s)' /\ req'[r].n >= Cardinality(Unpaid(s)')
        BY <2>1, <2>2, <2>3, <2>4, <2>5, <3>1 DEF Saving
      <4> QED BY <2>3, <2>6, <4>1 DEF Covered
    <3>2. CASE s # req[r].s
      <4>1. \A v \in Requests : /\ Adding(v, s)' <=> Adding(v, s)
                                /\ Saving(v, s)' <=> Saving(v, s)
                                /\ Saving(v, s) => req'[v].n = req[v].n
        BY <2>2, <2>4, <3>2 DEF Adding, Saving
      <4>2. Covered(s)
        BY <2>3, <2>5, <2>7, <4>1 DEF TableInv, TotalOnItsWay
      <4> QED BY <2>3, <2>5, <4>1, <4>2 DEF Covered
    <3> QED BY <3>1, <3>2
  <2>8. TotalOnItsWay'
    BY <2>3, <2>4, <2>6, <2>7 DEF TotalOnItsWay
  <2> QED BY <1>0, <1>d, <2>2, <2>3, <2>8
<1>11. CASE SendAdded(r)
  <2> DEFINE q == [Idle EXCEPT !.op = "send", !.step = "count",
                               !.s = req[r].s, !.items = Pending(req[r].s)]
  <2>1. /\ req[r].s \in Sessions /\ req[r].step = "resend" /\ session[req[r].s].status # "NEW"
        /\ Pending(req[r].s) \in SUBSET Items
    BY <1>0, <1>11, SetsType DEF SendAdded, Wired
  <2>2. /\ q \in Request /\ q.op = "send" /\ q.step = "count"
        /\ q.s = req[r].s /\ q.items = Pending(req[r].s)
    BY <2>1 DEF Idle, Request, Ops, Steps
  <2>3. Idle \in Request /\ Idle.op = "idle" /\ Idle.step = "idle"
    BY DEF Idle, Request, Ops, Steps
  <2>4. /\ Become(r, q) \/ Become(r, Idle)
        /\ UNCHANGED rows /\ Sound' = Sound /\ outrun' = outrun
    BY <1>11 DEF SendAdded, Finish, Sound, history
  <2>5. \A i \in q.items : item[i].session # None
    BY <1>a, <2>1, <2>2, TableAssumption DEF TableAssumption
  <2> HIDE DEF q
  <2> QED BY <1>d, <2>1, <2>2, <2>3, <2>4, <2>5
<1>12. CASE CountOrders(r)
  <2> DEFINE q == [req[r] EXCEPT !.step = "write", !.n = Cardinality(Used) + 1]
  <2>1. /\ q \in Request /\ q.op = req[r].op /\ q.s = req[r].s /\ q.items = req[r].items
        /\ q.step = "write"
    <3>1. Cardinality(Used) + 1 \in Nat
      BY UsedFinite
    <3> QED BY <1>0, <3>1 DEF Request, Steps
  <2>2. /\ Become(r, q) /\ UNCHANGED rows /\ Sound' = Sound /\ outrun' = outrun
        /\ req[r].step = "count"
    BY <1>12 DEF CountOrders, Sound, history
  <2> HIDE DEF q
  <2> QED BY <1>0, <1>d, <2>1, <2>2
<1>13. CASE Fail(r)
  <2>1. Idle \in Request /\ Idle.op = "idle" /\ Idle.step = "idle"
    BY DEF Idle, Request, Ops, Steps
  <2>2. /\ Become(r, Idle) /\ UNCHANGED rows /\ Sound' \subseteq Sound /\ outrun' = outrun \ {r}
        /\ \A s \in Sound' : ~Adding(r, s) /\ ~Saving(r, s)
    BY <1>13 DEF Fail, Finish, Sound, Adding, Saving
  <2>3. req'[r] = Idle /\ \A v \in Requests : v # r => req'[v] = req[v]
    BY <1>0, <2>2 DEF Become
  <2>4. session' = session /\ \A s : Unpaid(s)' = Unpaid(s)
    BY <2>2 DEF rows, Unpaid, ItemsOf
  <2>5. \A v \in outrun : req[v].step = "save" /\ v \in Requests
    BY DEF TableInv, TotalOnItsWay, TypeInv, TypeOK
  <2>6. ASSUME NEW s \in Sound', session'[s].status = "OPEN", \A v \in Requests : ~Adding(v, s)'
        PROVE  Covered(s)'
    <3>1. \A v \in Requests : /\ Adding(v, s)' <=> Adding(v, s)
                              /\ Saving(v, s)' <=> Saving(v, s)
                              /\ Saving(v, s) => req'[v].n = req[v].n /\ v # r
      BY <2>1, <2>2, <2>3 DEF Adding, Saving
    <3>2. Covered(s)
      BY <2>2, <2>4, <2>6, <3>1 DEF TableInv, TotalOnItsWay
    <3> QED BY <2>2, <2>4, <3>1, <3>2 DEF Covered
  <2>7. TotalOnItsWay'
    BY <2>2, <2>3, <2>5, <2>6 DEF TotalOnItsWay
  <2> QED BY <1>d, <2>1, <2>2, <2>7
<1> QED BY <1>1, <1>2, <1>3, <1>4, <1>5, <1>6, <1>7, <1>8, <1>9, <1>10, <1>11, <1>12, <1>13

LEMMA RequestKeeps ==
  ASSUME TableAssumption, TypeInv, TableInv, NEW r \in Requests,
         \/ ReadTable(r) \/ ReadForItems(r) \/ ReadForKitchen(r) \/ ReadForPayment(r)
         \/ ReadForCancel(r) \/ ReadForMerge(r) \/ ReadForUnmerge(r) \/ ReadForVoid(r)
         \/ ListTables(r)
         \/ SumItems(r) \/ SendAdded(r) \/ CountOrders(r) \/ Fail(r)
  PROVE  TableInv'
<1>1. /\ UNCHANGED rows /\ Sound' \subseteq Sound
      /\ \A v \in Requests : v # r => req'[v] = req[v]
      /\ req'[r].op \notin {"idle", "open", "list"} => session[req'[r].s].status # "NEW"
      /\ req'[r].op \in {"send", "pay"} => \A i \in req'[r].items : item[i].session # None
      /\ TotalOnItsWay'
  BY RequestEffect
<1>2. session' = session /\ holder' = holder /\ item' = item /\ order' = order
  BY <1>1 DEF rows
<1>3. Known'
  BY <1>1, <1>2 DEF TableInv, Known
<1>4. DishesAgree' /\ VoidedIsDone' /\ ChargedOnce' /\ CookedOnce' /\ TablesFollowAccounts'
  BY <1>1, <1>2 DEF TableInv, DishesAgree, VoidedIsDone, ChargedOnce, Payments, CookedOnce,
                    TablesFollowAccounts
<1>5. \A s : Unpaid(s)' = Unpaid(s) /\ Pending(s)' = Pending(s)
  BY <1>2 DEF Unpaid, Pending, ItemsOf
<1>6. ClosedOwesNothing'
  BY <1>1, <1>2, <1>5 DEF TableInv, ClosedOwesNothing
<1> QED BY <1>1, <1>3, <1>4, <1>6 DEF TableInv

LEMMA OpenKeeps ==
  ASSUME TableAssumption, TypeInv, TableInv, NEW r \in Requests, OpenSession(r)
  PROVE  TableInv'
<1>1. PICK s \in Sessions, t \in req[r].tables :
        /\ At(r, "open", "write") /\ session[s].status = "NEW" /\ session[s].table = t
        /\ session' = [session EXCEPT ![s].status = "OPEN"]
        /\ holder' = [holder EXCEPT ![t] = s]
        /\ Wrote({s, holder[t]}, StillHolds(r))
        /\ Finish(r) /\ UNCHANGED <<item, order, cook>>
  BY DEF OpenSession
<1>2. t \in Tables
  BY <1>1 DEF TypeInv, TypeOK, Request
<1>3. /\ session'[s].status = "OPEN"
      /\ \A u \in Sessions : /\ u # s => session'[u] = session[u]
                             /\ session'[u].table = session[u].table
                             /\ session'[u].total = session[u].total
      /\ holder'[t] = s /\ \A x \in Tables : x # t => holder'[x] = holder[x]
      /\ item' = item /\ order' = order
  BY <1>1, <1>2, RowTypes DEF SessionRows
<1>4. /\ req'[r] = Idle
      /\ \A v \in Requests : v # r => req'[v] = req[v]
  BY <1>1 DEF Finish, Become, TypeInv, TypeOK
<1>5. StillHolds(r) => holder[t] = None
  BY <1>1 DEF StillHolds, At, CanOpen
<1>6. /\ Sound' \subseteq Sound
      /\ s \in Sound' \/ holder[t] \in Sound' => holder[t] = None
  BY <1>1, <1>5 DEF Wrote, Sound, TableAssumption
<1>7. Known'
  BY <1>3, <1>4, RowTypes DEF TableInv, Known, Idle, ItemRows, ItemRow, TypeInv, Wired
<1>8. DishesAgree' /\ VoidedIsDone' /\ ChargedOnce' /\ CookedOnce'
  BY <1>3, <1>6 DEF TableInv, DishesAgree, VoidedIsDone, ChargedOnce, Payments, CookedOnce
<1>9. \A u : Unpaid(u)' = Unpaid(u) /\ Pending(u)' = Pending(u)
  BY <1>3 DEF Unpaid, Pending, ItemsOf
<1>10. ClosedOwesNothing'
  BY <1>3, <1>6, <1>9 DEF TableInv, ClosedOwesNothing, Sound
<1>11. TablesFollowAccounts'
  <2>1. SUFFICES ASSUME NEW u \in Sound'
                 PROVE  /\ session'[u].status = "OPEN" => holder'[session'[u].table] = u
                        /\ \A x \in Tables : holder'[x] = u => session'[u].status = "OPEN"
    BY DEF TablesFollowAccounts
  <2>2. /\ session[u].status = "OPEN" => holder[session[u].table] = u
        /\ \A x \in Tables : holder[x] = u => session[u].status = "OPEN"
    BY <1>6, <2>1 DEF TableInv, TablesFollowAccounts
  <2>3. u \in Sessions /\ u # None /\ session[u].table \in Tables
    BY <2>1, RowTypes, TableAssumption DEF Sound, TableAssumption, SessionRows
  <2> QED BY <1>1, <1>2, <1>3, <1>6, <2>1, <2>2, <2>3
<1>12. TotalOnItsWay'
  <2>1. \A i \in Items : item[i].session # s
    BY <1>1, TableAssumption DEF TableInv, Known, TableAssumption
  <2>2. Unpaid(s)' = {}
    BY <1>9, <2>1 DEF Unpaid, ItemsOf
  <2>3. outrun' = outrun /\ req[r].step = "write" /\ req'[r].step = "idle"
    BY <1>1, <1>4 DEF Wrote, At, Idle
  <2>4. \A u \in Sound' : u \in Sessions
    BY DEF Sound
  <2> QED BY <1>3, <1>4, <1>6, <1>9, <2>2, <2>3, <2>4, OpenTypes, TotalKept DEF TableInv
<1> QED BY <1>7, <1>8, <1>10, <1>11, <1>12 DEF TableInv

LEMMA AddKeeps ==
  ASSUME TableAssumption, TypeInv, TableInv, NEW r \in Requests, AddItems(r)
  PROVE  TableInv'
<1>0. PICK q \in Request : q = req[r] /\ Wired(q)
  BY DEF TypeInv, TypeOK
<1>1. /\ q.s \in Sessions /\ q.op \in {"add", "addAndSend"} /\ q.step = "write"
      /\ session[q.s].status # "NEW" /\ q.s # None
  BY <1>0, TableAssumption DEF AddItems, Wired, TableInv, Known, TableAssumption
<1>2. PICK I \in SUBSET {i \in Items : item[i].session = None} :
        item' = [i \in Items |->
          IF i \in I THEN [item[i] EXCEPT !.session = q.s, !.kitchen = "PENDING"] ELSE item[i]]
  BY <1>0 DEF AddItems
<1>3. /\ \A i \in I : /\ item[i].session = None
                      /\ item'[i].session = q.s /\ item'[i].kitchen = "PENDING"
                      /\ item'[i].comanda = item[i].comanda /\ item'[i].paidIn = item[i].paidIn
      /\ \A i \in Items \ I : item'[i] = item[i]
  <2>1. \A i \in Items : item[i] \in ItemRow
    BY RowTypes DEF ItemRows
  <2>2. \A i \in I : /\ i \in Items /\ item[i].session = None
                     /\ item'[i] = [item[i] EXCEPT !.session = q.s, !.kitchen = "PENDING"]
    BY <1>2
  <2>3. \A i \in Items \ I : item'[i] = item[i]
    BY <1>2
  <2> QED BY <2>1, <2>2, <2>3 DEF ItemRow
<1>4. /\ session' = session /\ holder' = holder /\ order' = order
      /\ req'[r] = [q EXCEPT !.step = "sum"]
      /\ \A v \in Requests : v # r => req'[v] = req[v]
  BY <1>0 DEF AddItems, GoTo, Become, TypeInv, TypeOK
<1>5. req'[r].op = q.op /\ req'[r].s = q.s /\ req'[r].step = "sum"
  BY <1>4 DEF Request
<1>6. Sound' \subseteq Sound /\ (q.s \in Sound' => session[q.s].status = "OPEN")
  BY <1>0, <1>1 DEF AddItems, Wrote, Sound, StillHolds, Open
<1>7. Known'
  <2>1. \A v \in Requests : req[v] \in Request
    BY DEF TypeInv, TypeOK
  <2>2. ASSUME NEW v \in Requests, req'[v].op \notin {"idle", "open", "list"}
        PROVE  session'[req'[v].s].status # "NEW"
    BY <1>1, <1>4, <1>5, <2>2 DEF TableInv, Known
  <2>3. ASSUME NEW v \in Requests, req'[v].op \in {"send", "pay"}
        PROVE  \A i \in req'[v].items : item'[i].session # None
    <3>1. v # r /\ req'[v] = req[v]
      BY <1>1, <1>4, <1>5, <2>3
    <3>2. \A i \in req[v].items : i \in Items /\ item[i].session # None
      BY <2>1, <2>3, <3>1 DEF TableInv, Known, Request
    <3> QED BY <1>1, <1>3, <3>1, <3>2
  <2>4. ASSUME NEW i \in Items, item'[i].session # None
        PROVE  session'[item'[i].session].status # "NEW"
    BY <1>1, <1>3, <1>4, <2>4 DEF TableInv, Known
  <2> QED BY <2>2, <2>3, <2>4 DEF Known
<1>8. DishesAgree'
  BY <1>1, <1>3, <1>4 DEF TableInv, DishesAgree
<1>9. VoidedIsDone'
  BY <1>3, <1>4, <1>6 DEF TableInv, VoidedIsDone
<1>10. ChargedOnce'
  <2>1. \A i \in Items : Payments(i)' = Payments(i)
    BY <1>4 DEF Payments
  <2>2. \A i \in I : Payments(i) = {} /\ item[i].paidIn = 0
    BY <1>3 DEF TableInv, DishesAgree, Payments
  <2> QED BY <1>3, <1>6, <2>1, <2>2 DEF TableInv, ChargedOnce
<1>11. CookedOnce'
  <2>1. \A i \in I, n \in Numbers : ~(order[n].kind = "COMANDA" /\ i \in order[n].items)
    BY <1>3 DEF TableInv, DishesAgree
  <2> QED BY <1>3, <1>4, <1>6, <2>1 DEF TableInv, CookedOnce
<1>12. \A s \in Sessions : s # q.s => Unpaid(s)' = Unpaid(s) /\ Pending(s)' = Pending(s)
  BY <1>3, TableAssumption DEF Unpaid, Pending, ItemsOf, TableAssumption
<1>13. ClosedOwesNothing'
  BY <1>4, <1>6, <1>12 DEF TableInv, ClosedOwesNothing, Sound
<1>14. TablesFollowAccounts'
  BY <1>4, <1>6 DEF TableInv, TablesFollowAccounts
<1>15. TotalOnItsWay'
  <2>1. outrun' = outrun
    BY DEF AddItems, Wrote
  <2>2. Adding(r, q.s)' /\ \A s \in Sound' : s \in Sessions
    BY <1>5 DEF Adding, Sound
  <2> QED BY <1>0, <1>1, <1>4, <1>5, <1>6, <1>12, <2>1, <2>2, AddTypes, TotalKept DEF TableInv
<1> QED BY <1>7, <1>8, <1>9, <1>10, <1>11, <1>13, <1>14, <1>15 DEF TableInv

LEMMA SaveKeeps ==
  ASSUME TableAssumption, TypeInv, TableInv, NEW r \in Requests, SaveTotal(r)
  PROVE  TableInv'
<1>0. PICK q \in Request : q = req[r] /\ Wired(q)
  BY DEF TypeInv, TypeOK
<1>1. q.s \in Sessions /\ q.s # None /\ q.op \notin {"idle", "open", "list"} /\ q.step = "save"
  BY <1>0, TableAssumption DEF SaveTotal, Wired, TableAssumption
<1>2. /\ session'[q.s].total = q.n
      /\ \A s \in Sessions : /\ s # q.s => session'[s] = session[s]
                             /\ session'[s].status = session[s].status
                             /\ session'[s].table = session[s].table
      /\ holder' = holder /\ item' = item /\ order' = order
  BY <1>0, <1>1, RowTypes DEF SaveTotal, SessionRows
<1>3. /\ req'[r] \in {Idle, [q EXCEPT !.step = "resend"]}
      /\ \A v \in Requests : v # r => req'[v] = req[v]
  BY <1>0 DEF SaveTotal, GoTo, Finish, Become, TypeInv, TypeOK
<1>4. \/ req'[r].op = "idle"
      \/ req'[r].op = q.op /\ req'[r].s = q.s /\ req'[r].items = q.items
  BY <1>3 DEF Idle, Request
<1>5. Sound' \subseteq Sound /\ (q.s \in Sound' => r \notin outrun)
  BY <1>0, <1>1 DEF SaveTotal, Sound
<1>6. Known'
  BY <1>0, <1>2, <1>3, <1>4, RowTypes DEF TableInv, Known, ItemRows, ItemRow, TypeInv, Wired
<1>7. DishesAgree' /\ VoidedIsDone' /\ ChargedOnce' /\ CookedOnce'
  BY <1>2, <1>5 DEF TableInv, DishesAgree, VoidedIsDone, ChargedOnce, Payments, CookedOnce
<1>8. \A s : Unpaid(s)' = Unpaid(s) /\ Pending(s)' = Pending(s)
  BY <1>2 DEF Unpaid, Pending, ItemsOf
<1>9. ClosedOwesNothing'
  BY <1>2, <1>5, <1>8 DEF TableInv, ClosedOwesNothing, Sound
<1>10. TablesFollowAccounts'
  BY <1>2, <1>5 DEF TableInv, TablesFollowAccounts, Sound
<1>11. TotalOnItsWay'
  <2>1. outrun' = (outrun \ {r}) \cup Slower(r) /\ req'[r].step \in {"idle", "resend"}
    BY <1>0, <1>3 DEF SaveTotal, Idle, Request
  <2>2. \A v \in outrun : req[v].step = "save" /\ v \in Requests
    BY DEF TableInv, TotalOnItsWay, TypeInv, TypeOK
  <2>3. /\ \A v \in Slower(r) : v \in Requests /\ v # r /\ req[v].step = "save"
        /\ \A v \in Requests : v \in Slower(r) <=> Saving(v, q.s) /\ req[v].n < q.n
        /\ \A v \in Requests : req[v].n \in Nat
    BY <1>0 DEF Slower, Saving, TypeInv, TypeOK, Request
  <2>4. \A v \in outrun' : req'[v].step = "save"
    BY <1>3, <2>1, <2>2, <2>3
  <2>5. \A v \in Requests : \A s : /\ Adding(v, s)' <=> Adding(v, s)
                                   /\ Saving(v, s)' <=> Saving(v, s) /\ v # r
                                   /\ Saving(v, s)' => req'[v].n = req[v].n
    BY <1>0, <1>1, <1>3, <2>1 DEF Adding, Saving
  <2>6. Saving(r, q.s) /\ q.n = req[r].n /\ \A s : Saving(r, s) => s = q.s
    BY <1>0, <1>1 DEF Saving
  <2>7. ASSUME NEW s \in Sound', session'[s].status = "OPEN", \A v \in Requests : ~Adding(v, s)'
        PROVE  Covered(s)'
    <3>1. s \in Sessions /\ session[s].total \in Nat
      BY RowTypes DEF Sound, SessionRows
    <3>2. Covered(s)
      BY <1>2, <1>5, <2>5, <2>7, <3>1 DEF TableInv, TotalOnItsWay
    <3>3. PICK c \in Nat : c = Cardinality(Unpaid(s)) /\ c = Cardinality(Unpaid(s))'
      BY <1>8, SetsType, SubsetsFinite
    <3>4. CASE s # q.s
      <4>1. \A v \in Requests : Saving(v, s) => v # r /\ (v \in outrun' <=> v \in outrun)
        BY <1>1, <2>1, <2>3, <2>6, <3>4 DEF Saving
      <4> QED BY <1>2, <1>8, <2>5, <3>1, <3>2, <3>4, <4>1 DEF Covered
    <3>5. CASE s = q.s /\ q.n >= c
      <4>1. \A v \in Requests \ outrun' : Saving(v, s)' => req'[v].n >= c
        BY <2>1, <2>3, <2>5, <2>6, <3>3, <3>5
      <4> QED BY <1>2, <3>3, <3>5, <4>1 DEF Covered
    <3>6. CASE s = q.s /\ q.n < c
      <4>1. r \notin outrun
        BY <1>5, <2>7, <3>6
      <4>2. PICK v \in Requests \ outrun : Saving(v, s) /\ req[v].n >= c
        BY <2>3, <2>6, <3>2, <3>3, <3>6, <4>1 DEF Covered
      <4>3. v # r /\ v \notin outrun'
        BY <2>1, <2>3, <2>6, <3>3, <3>6, <4>2
      <4> QED BY <2>5, <3>3, <4>2, <4>3 DEF Covered
    <3> QED BY <2>3, <2>6, <3>3, <3>4, <3>5, <3>6
  <2> QED BY <2>4, <2>7 DEF TotalOnItsWay
<1> QED BY <1>6, <1>7, <1>9, <1>10, <1>11 DEF TableInv

LEMMA SendKeeps ==
  ASSUME TableAssumption, TypeInv, TableInv, NEW r \in Requests, SendComanda(r)
  PROVE  TableInv'
<1>0. PICK q \in Request : q = req[r] /\ Wired(q)
  BY DEF TypeInv, TypeOK
<1>1. /\ q.s \in Sessions /\ q.s # None /\ q.op = "send" /\ q.step = "write" /\ q.n \in Numbers
      /\ q.items \in SUBSET Items /\ \A i \in q.items : item[i].session # None
      /\ session[q.s].status # "NEW"
  BY <1>0, TableAssumption DEF SendComanda, At, Wired, Request, TableInv, Known, TableAssumption
<1>2. /\ order[q.n].kind = "FREE"
      /\ order'[q.n] = [kind |-> "COMANDA", status |-> "LIVE", session |-> q.s, items |-> q.items]
      /\ \A n \in Numbers : n # q.n => order'[n] = order[n]
      /\ session' = session /\ holder' = holder
  BY <1>0, <1>1, RowTypes DEF SendComanda, OrderRows
<1>3. /\ \A i \in q.items : /\ item'[i].session = item[i].session /\ item'[i].kitchen = "SENT"
                            /\ item'[i].comanda = q.n /\ item'[i].paidIn = item[i].paidIn
      /\ \A i \in Items \ q.items : item'[i] = item[i]
  <2>1. item' = [i \in Items |->
          IF i \in q.items THEN [item[i] EXCEPT !.kitchen = "SENT", !.comanda = q.n] ELSE item[i]]
    BY <1>0 DEF SendComanda
  <2> QED BY <1>1, <2>1, RowTypes DEF ItemRows, ItemRow
<1>4. /\ req'[r] = Idle
      /\ \A v \in Requests : v # r => req'[v] = req[v]
  BY DEF SendComanda, Finish, Become, TypeInv, TypeOK
<1>5. StillHolds(r) => CanSend(q.s, q.items)
  BY <1>0, <1>1 DEF StillHolds
<1>6. /\ Sound' \subseteq Sound
      /\ q.s \in Sound' => CanSend(q.s, q.items)
      /\ \A i \in q.items : item[i].session \in Sound' => CanSend(q.s, q.items)
  BY <1>0, <1>1, <1>5, RowTypes DEF SendComanda, Wrote, Sound, TableAssumption
<1>7. \A i \in q.items : item[i].session \in Sound' =>
        /\ item[i].session = q.s /\ item[i].kitchen = "PENDING"
        /\ Open(q.s) /\ item[i].paidIn = 0 /\ item[i].comanda = 0
  BY <1>1, <1>6 DEF CanSend, Pending, ItemsOf, TableInv, DishesAgree
<1>8. Known'
  <2>1. \A i \in Items : item'[i].session = item[i].session
    BY <1>3
  <2>2. \A i \in Items : item[i].session # None => item[i].session \in Sessions
    BY RowTypes DEF ItemRows, ItemRow
  <2>3. \A s \in Sessions : session[s].status # "NEW" => session'[s].status # "NEW"
    BY <1>2
  <2>4. \A v \in Requests : /\ Wired(req[v])
                            /\ v # r => req'[v] = req[v]
                            /\ req[v].items \in SUBSET Items
    BY <1>4 DEF TypeInv, TypeOK, Request
  <2>5. req'[r].op = "idle"
    BY <1>4 DEF Idle
  <2>6. \A i \in Items : item'[i].session # None => session'[item'[i].session].status # "NEW"
    BY <2>1, <2>2, <2>3 DEF TableInv, Known
  <2>7. ASSUME NEW v \in Requests, v # r
        PROVE  /\ req'[v].op \notin {"idle", "open", "list"} => session'[req'[v].s].status # "NEW"
               /\ req'[v].op \in {"send", "pay"} => \A i \in req'[v].items : item'[i].session # None
    <3>1. req'[v] = req[v] /\ Wired(req[v]) /\ req[v].items \in SUBSET Items
      BY <2>4, <2>7
    <3>2. /\ req[v].op \notin {"idle", "open", "list"} => session[req[v].s].status # "NEW"
          /\ req[v].op \in {"send", "pay"} => \A i \in req[v].items : item[i].session # None
      BY DEF TableInv, Known
    <3>3. req[v].op \notin {"idle", "open", "list"} => session'[req[v].s].status # "NEW"
      BY <2>3, <3>1, <3>2 DEF Wired
    <3>4. req[v].op \in {"send", "pay"} => \A i \in req[v].items : item'[i].session # None
      BY <2>1, <3>1, <3>2
    <3> QED BY <3>1, <3>3, <3>4
  <2> QED BY <2>5, <2>6, <2>7 DEF Known
<1>9. DishesAgree'
  <2>1. SUFFICES ASSUME NEW i \in Items
                 PROVE  /\ item'[i].session = None =>
                             /\ item'[i].paidIn = 0 /\ item'[i].comanda = 0
                             /\ \A n \in Numbers : i \in order'[n].items =>
                                  order'[n].kind \notin {"FINAL", "COMANDA"}
                        /\ item'[i].kitchen = "PENDING" =>
                             item'[i].paidIn = 0 /\ item'[i].comanda = 0
                        /\ item'[i].paidIn # 0 => /\ order'[item'[i].paidIn].kind = "FINAL"
                                                  /\ i \in order'[item'[i].paidIn].items
                        /\ item'[i].comanda # 0 => order'[item'[i].comanda].kind = "COMANDA"
    BY DEF DishesAgree
  <2>2. item[i].paidIn \in Numbers \cup {0} /\ item[i].comanda \in Numbers \cup {0}
    BY RowTypes DEF ItemRows, ItemRow
  <2> QED BY <1>1, <1>2, <1>3, <2>2 DEF TableInv, DishesAgree
<1>10. VoidedIsDone'
  <2>1. \A i \in Items : item[i].comanda \in Numbers \cup {0}
    BY RowTypes DEF ItemRows, ItemRow
  <2>2. \A i \in Items : item[i].comanda # 0 => item[i].comanda # q.n
    BY <1>2 DEF TableInv, DishesAgree
  <2> QED BY <1>2, <1>3, <1>6, <2>1, <2>2 DEF TableInv, VoidedIsDone
<1>11. ChargedOnce'
  <2>1. \A i : Payments(i)' = Payments(i)
    BY <1>1, <1>2 DEF Payments
  <2> QED BY <1>3, <1>6, <2>1 DEF TableInv, ChargedOnce
<1>12. CookedOnce'
  <2>1. SUFFICES ASSUME NEW n \in Numbers, NEW i \in Items, order'[n].kind = "COMANDA",
                        i \in order'[n].items, item'[i].session \in Sound'
                 PROVE  item'[i].comanda = n /\ order'[n].session = item'[i].session
    BY DEF CookedOnce
  <2>2. item'[i].session = item[i].session
    BY <1>3
  <2>3. CASE n = q.n
    BY <1>2, <1>3, <1>7, <2>1, <2>2, <2>3
  <2>4. CASE n # q.n
    <3>1. item[i].comanda = n /\ order[n].session = item[i].session
      BY <1>2, <1>6, <2>1, <2>2, <2>4 DEF TableInv, CookedOnce
    <3>2. i \notin q.items
      BY <1>7, <2>1, <2>2, <3>1 DEF Numbers
    <3> QED BY <1>2, <1>3, <2>4, <3>1, <3>2
  <2> QED BY <2>3, <2>4
<1>13. \A s \in Sound' : /\ Unpaid(s)' = Unpaid(s)
                         /\ session[s].status # "OPEN" => Pending(s)' = Pending(s)
  BY <1>3, <1>7 DEF Unpaid, Pending, ItemsOf, Open
<1>14. ClosedOwesNothing'
  BY <1>2, <1>6, <1>13 DEF TableInv, ClosedOwesNothing
<1>15. TablesFollowAccounts'
  BY <1>2, <1>6 DEF TableInv, TablesFollowAccounts
<1>16. TotalOnItsWay'
  <2>1. outrun' = outrun /\ req'[r].step = "idle"
    <3>1. req'[r].step = "idle"
      BY <1>4 DEF Idle
    <3>2. outrun' = outrun
      BY DEF SendComanda, Wrote
    <3> QED BY <3>1, <3>2
  <2> QED BY <1>0, <1>1, <1>2, <1>4, <1>6, <1>13, <2>1, SendTypes, TotalKept DEF TableInv
<1> QED BY <1>8, <1>9, <1>10, <1>11, <1>12, <1>14, <1>15, <1>16 DEF TableInv

LEMMA PayKeeps ==
  ASSUME TableAssumption, TypeInv, TableInv, NEW r \in Requests, PaySession(r)
  PROVE  TableInv'
<1>0. PICK q \in Request : q = req[r] /\ Wired(q)
  BY DEF TypeInv, TypeOK
<1> DEFINE total == Cardinality(IF q.rest = {} THEN q.items ELSE q.rest)
           last == q.rest = {}
<1>1. /\ q.s \in Sessions /\ q.s # None /\ q.op = "pay" /\ q.step = "write" /\ q.n \in Numbers
      /\ q.items \in SUBSET Items /\ \A i \in q.items : item[i].session # None
      /\ session[q.s].status # "NEW"
  BY <1>0, TableAssumption
     DEF PaySession, Pay, At, Wired, Request, TableInv, Known, TableAssumption
<1>2. /\ order[q.n].kind = "FREE"
      /\ order'[q.n] = [kind |-> "FINAL", status |-> "LIVE", session |-> q.s, items |-> q.items]
      /\ \A n \in Numbers : n # q.n => order'[n] = order[n]
  BY <1>0, <1>1, RowTypes DEF PaySession, Pay, OrderRows
<1>3. /\ \A i \in q.items : /\ item'[i].session = item[i].session /\ item'[i].kitchen = "SENT"
                            /\ item'[i].comanda = item[i].comanda /\ item'[i].paidIn = q.n
      /\ \A i \in Items \ q.items : item'[i] = item[i]
  <2>1. item' = [i \in Items |->
          IF i \in q.items THEN [item[i] EXCEPT !.kitchen = "SENT", !.paidIn = q.n] ELSE item[i]]
    BY <1>0 DEF PaySession, Pay
  <2>2. \A i \in Items : item[i] \in ItemRow
    BY RowTypes DEF ItemRows
  <2>3. \A i \in q.items : item'[i] = [item[i] EXCEPT !.kitchen = "SENT", !.paidIn = q.n]
    BY <1>1, <2>1
  <2>4. \A i \in Items \ q.items : item'[i] = item[i]
    BY <1>1, <2>1
  <2> QED BY <1>1, <2>2, <2>3, <2>4 DEF ItemRow
<1>4. /\ req'[r] = Idle
      /\ \A v \in Requests : v # r => req'[v] = req[v]
  BY DEF PaySession, Pay, Finish, Become, TypeInv, TypeOK
<1>5. /\ session'[q.s].total = total
      /\ session'[q.s].status = IF last THEN "CLOSED" ELSE session[q.s].status
      /\ \A s \in Sessions : /\ s # q.s => session'[s] = session[s]
                             /\ session'[s].table = session[s].table
      /\ \A t \in Tables : holder'[t] = IF last /\ holder[t] = q.s THEN None ELSE holder[t]
  BY <1>0, <1>1, RowTypes, ZenonT(60) DEF PaySession, Pay, Release, SessionRows
<1>6. StillHolds(r) => CanPay(q.s, q.items) /\ q.rest = Unpaid(q.s) \ q.items
  BY <1>0, <1>1 DEF StillHolds
<1>7. /\ Sound' \subseteq Sound
      /\ q.s \in Sound' => CanPay(q.s, q.items) /\ q.rest = Unpaid(q.s) \ q.items
      /\ \A i \in q.items : item[i].session \in Sound' => CanPay(q.s, q.items)
  BY <1>0, <1>1, <1>6, RowTypes DEF PaySession, Pay, Wrote, Sound, TableAssumption
<1>8. \A i \in q.items : item[i].session \in Sound' =>
        /\ item[i].session = q.s /\ item[i].paidIn = 0
        /\ item[i].kitchen \notin {"PENDING", "CANCELLED"}
  BY <1>1, <1>7 DEF CanPay, Pending, Unpaid, ItemsOf
<1> HIDE DEF total
<1>9. Known'
  <2>1. \A i \in Items : item'[i].session = item[i].session
    BY <1>3
  <2>2. \A i \in Items : item[i].session # None => item[i].session \in Sessions
    BY RowTypes DEF ItemRows, ItemRow
  <2>3. \A s \in Sessions : session[s].status # "NEW" => session'[s].status # "NEW"
    BY <1>1, <1>5
  <2>4. \A v \in Requests : /\ Wired(req[v])
                            /\ v # r => req'[v] = req[v]
                            /\ req[v].items \in SUBSET Items
    BY <1>4 DEF TypeInv, TypeOK, Request
  <2>5. req'[r].op = "idle"
    BY <1>4 DEF Idle
  <2>6. \A i \in Items : item'[i].session # None => session'[item'[i].session].status # "NEW"
    BY <2>1, <2>2, <2>3 DEF TableInv, Known
  <2>7. ASSUME NEW v \in Requests, v # r
        PROVE  /\ req'[v].op \notin {"idle", "open", "list"} => session'[req'[v].s].status # "NEW"
               /\ req'[v].op \in {"send", "pay"} => \A i \in req'[v].items : item'[i].session # None
    <3>1. req'[v] = req[v] /\ Wired(req[v]) /\ req[v].items \in SUBSET Items
      BY <2>4, <2>7
    <3>2. /\ req[v].op \notin {"idle", "open", "list"} => session[req[v].s].status # "NEW"
          /\ req[v].op \in {"send", "pay"} => \A i \in req[v].items : item[i].session # None
      BY DEF TableInv, Known
    <3>3. req[v].op \notin {"idle", "open", "list"} => session'[req[v].s].status # "NEW"
      BY <2>3, <3>1, <3>2 DEF Wired
    <3>4. req[v].op \in {"send", "pay"} => \A i \in req[v].items : item'[i].session # None
      BY <2>1, <3>1, <3>2
    <3> QED BY <3>1, <3>3, <3>4
  <2> QED BY <2>5, <2>6, <2>7 DEF Known
<1>10. DishesAgree'
  <2>1. SUFFICES ASSUME NEW i \in Items
                 PROVE  /\ item'[i].session = None =>
                             /\ item'[i].paidIn = 0 /\ item'[i].comanda = 0
                             /\ \A n \in Numbers : i \in order'[n].items =>
                                  order'[n].kind \notin {"FINAL", "COMANDA"}
                        /\ item'[i].kitchen = "PENDING" =>
                             item'[i].paidIn = 0 /\ item'[i].comanda = 0
                        /\ item'[i].paidIn # 0 => /\ order'[item'[i].paidIn].kind = "FINAL"
                                                  /\ i \in order'[item'[i].paidIn].items
                        /\ item'[i].comanda # 0 => order'[item'[i].comanda].kind = "COMANDA"
    BY DEF DishesAgree
  <2>2. item[i].paidIn \in Numbers \cup {0} /\ item[i].comanda \in Numbers \cup {0}
    BY RowTypes DEF ItemRows, ItemRow
  <2> QED BY <1>1, <1>2, <1>3, <2>2 DEF TableInv, DishesAgree
<1>11. VoidedIsDone'
  <2>1. \A i \in Items : item[i].comanda \in Numbers \cup {0}
    BY RowTypes DEF ItemRows, ItemRow
  <2>2. \A i \in Items : item[i].comanda # 0 => item[i].comanda # q.n
    BY <1>2 DEF TableInv, DishesAgree
  <2> QED BY <1>2, <1>3, <1>7, <2>1, <2>2 DEF TableInv, VoidedIsDone
<1>12. ChargedOnce'
  <2>1. \A i \in q.items : Payments(i)' = Payments(i) \cup {q.n}
    BY <1>1, <1>2 DEF Payments
  <2>2. \A i \in Items \ q.items : Payments(i)' = Payments(i)
    BY <1>1, <1>2 DEF Payments
  <2>3. SUFFICES ASSUME NEW i \in Items, item'[i].session \in Sound'
                 PROVE  Payments(i)' = IF item'[i].paidIn = 0 THEN {} ELSE {item'[i].paidIn}
    BY DEF ChargedOnce
  <2>4. item'[i].session = item[i].session
    BY <1>3
  <2>5. Payments(i) = IF item[i].paidIn = 0 THEN {} ELSE {item[i].paidIn}
    BY <1>7, <2>3, <2>4 DEF TableInv, ChargedOnce
  <2>6. CASE i \in q.items
    <3>1. Payments(i) = {}
      BY <1>8, <2>3, <2>4, <2>5, <2>6
    <3>2. q.n # 0
      BY <1>1 DEF Numbers
    <3> QED BY <1>3, <2>1, <2>6, <3>1, <3>2
  <2>7. CASE i \notin q.items
    BY <1>3, <2>2, <2>5, <2>7
  <2> QED BY <2>6, <2>7
<1>13. CookedOnce'
  BY <1>2, <1>3, <1>7 DEF TableInv, CookedOnce
<1>14. \A s \in Sound' : /\ s # q.s => Unpaid(s)' = Unpaid(s) /\ Pending(s)' = Pending(s)
                         /\ s = q.s => Unpaid(s)' = q.rest /\ Pending(s)' = Pending(s)
  <2>1. q.n # 0
    BY <1>1 DEF Numbers
  <2>2. ASSUME NEW s \in Sound', s # q.s
        PROVE  Unpaid(s)' = Unpaid(s) /\ Pending(s)' = Pending(s)
    BY <1>3, <1>8, <2>2 DEF Unpaid, Pending, ItemsOf
  <2>3. ASSUME NEW s \in Sound', s = q.s
        PROVE  Unpaid(s)' = q.rest /\ Pending(s)' = Pending(s)
    <3>1. Unpaid(s)' = Unpaid(s) \ q.items
      BY <1>1, <1>3, <2>1 DEF Unpaid, ItemsOf
    <3>2. Pending(s)' = Pending(s)
      BY <1>3, <1>8, <2>3 DEF Pending, ItemsOf
    <3> QED BY <1>7, <2>3, <3>1, <3>2
  <2> QED BY <2>2, <2>3
<1>15. ClosedOwesNothing'
  <2>1. q.s \in Sound' => session[q.s].status = "OPEN"
    BY <1>7 DEF CanPay, Open
  <2> QED BY <1>5, <1>7, <1>14, <2>1 DEF TableInv, ClosedOwesNothing, Sound
<1>16. TablesFollowAccounts'
  <2>1. q.s \in Sound' => session[q.s].status = "OPEN"
    BY <1>7 DEF CanPay, Open
  <2>2. \A s \in Sessions : s # None /\ session[s].table \in Tables
    BY RowTypes, TableAssumption DEF SessionRows, TableAssumption
  <2> QED BY <1>5, <1>7, <2>1, <2>2 DEF TableInv, TablesFollowAccounts, Sound
<1>17. TotalOnItsWay'
  <2>1. outrun' = outrun /\ req'[r].step = "idle"
    <3>1. req'[r].step = "idle"
      BY <1>4 DEF Idle
    <3>2. outrun' = outrun
      BY DEF PaySession, Pay, Wrote
    <3> QED BY <3>1, <3>2
  <2>2. ASSUME NEW s \in Sound', session'[s].status = "OPEN"
        PROVE  /\ session[s].status = "OPEN" /\ Unpaid(s)' \subseteq Unpaid(s)
               /\ session'[s].total \in {session[s].total, Cardinality(Unpaid(s)')}
    <3>1. CASE s = q.s
      <4>1. ~last /\ session[s].status = "OPEN"
        BY <1>5, <2>2, <3>1
      <4>2. Unpaid(s)' = q.rest /\ q.rest \subseteq Unpaid(s)
        BY <1>7, <1>14, <2>2, <3>1
      <4> QED BY <1>5, <3>1, <4>1, <4>2 DEF total
    <3>2. CASE s # q.s
      BY <1>5, <1>14, <2>2, <3>2 DEF Sound
    <3> QED BY <3>1, <3>2
  <2> QED BY <1>0, <1>1, <1>4, <1>7, <2>1, <2>2, PayTypes, TotalKept DEF TableInv
<1> QED BY <1>9, <1>10, <1>11, <1>12, <1>13, <1>15, <1>16, <1>17 DEF TableInv

LEMMA CancelKeeps ==
  ASSUME TableAssumption, TypeInv, TableInv, NEW r \in Requests, CancelSession(r)
  PROVE  TableInv'
<1>0. PICK q \in Request : q = req[r] /\ Wired(q)
  BY DEF TypeInv, TypeOK
<1>1. q.s \in Sessions /\ q.s # None /\ q.op = "cancel" /\ q.step = "write"
  BY <1>0, TableAssumption DEF CancelSession, At, Wired, TableAssumption
<1>2. /\ session'[q.s].status = "CANCELLED"
      /\ \A s \in Sessions : /\ s # q.s => session'[s] = session[s]
                             /\ session'[s].table = session[s].table
      /\ \A t \in Tables : holder'[t] = IF holder[t] = q.s THEN None ELSE holder[t]
      /\ item' = item /\ order' = order
  BY <1>0, <1>1, RowTypes DEF CancelSession, Release, SessionRows
<1>3. /\ req'[r] = Idle
      /\ \A v \in Requests : v # r => req'[v] = req[v]
  BY DEF CancelSession, Finish, Become, TypeInv, TypeOK
<1>4. StillHolds(r) => CanCancel(q.s)
  BY <1>0, <1>1 DEF StillHolds
<1>5. Sound' \subseteq Sound /\ (q.s \in Sound' => CanCancel(q.s))
  BY <1>0, <1>1, <1>4 DEF CancelSession, Wrote, Sound
<1>6. Known'
  <2>1. \A i \in Items : item[i].session # None => item[i].session \in Sessions
    BY RowTypes DEF ItemRows, ItemRow
  <2>2. \A s \in Sessions : session[s].status # "NEW" => session'[s].status # "NEW"
    BY <1>2
  <2>3. \A v \in Requests : Wired(req[v]) /\ (v # r => req'[v] = req[v])
    BY <1>3 DEF TypeInv
  <2>4. req'[r].op = "idle"
    BY <1>3 DEF Idle
  <2> QED BY <1>2, <2>1, <2>2, <2>3, <2>4 DEF TableInv, Known, Wired
<1>7. DishesAgree' /\ VoidedIsDone' /\ ChargedOnce' /\ CookedOnce'
  BY <1>2, <1>5 DEF TableInv, DishesAgree, VoidedIsDone, ChargedOnce, Payments, CookedOnce
<1>8. \A s : Unpaid(s)' = Unpaid(s) /\ Pending(s)' = Pending(s)
  BY <1>2 DEF Unpaid, Pending, ItemsOf
<1>9. ClosedOwesNothing'
  <2>1. q.s \in Sound' => Unpaid(q.s) = Pending(q.s)
    BY <1>5 DEF CanCancel, Unpaid, Pending, ItemsOf, TableInv, DishesAgree
  <2> QED BY <1>2, <1>5, <1>8, <2>1 DEF TableInv, ClosedOwesNothing, Sound
<1>10. TablesFollowAccounts'
  <2>1. q.s \in Sound' => session[q.s].status = "OPEN"
    BY <1>5 DEF CanCancel, Open
  <2>2. \A s \in Sessions : s # None /\ session[s].table \in Tables
    BY RowTypes, TableAssumption DEF SessionRows, TableAssumption
  <2> QED BY <1>2, <1>5, <2>1, <2>2 DEF TableInv, TablesFollowAccounts, Sound
<1>11. TotalOnItsWay'
  <2>1. outrun' = outrun /\ req'[r].step = "idle"
    BY <1>3 DEF CancelSession, Wrote, Idle
  <2>2. \A s \in Sound' : s \in Sessions
    BY DEF Sound
  <2> QED BY <1>0, <1>1, <1>2, <1>3, <1>5, <1>8, <2>1, <2>2, EndTypes, TotalKept DEF TableInv
<1> QED BY <1>6, <1>7, <1>9, <1>10, <1>11 DEF TableInv

LEMMA VoidKeeps ==
  ASSUME TableAssumption, TypeInv, TableInv, NEW r \in Requests, VoidSession(r)
  PROVE  TableInv'
<1>0. PICK q \in Request : q = req[r] /\ Wired(q)
  BY DEF TypeInv, TypeOK
<1>1. /\ q.s \in Sessions /\ q.s # None /\ q.op = "void" /\ q.step = "write"
      /\ q.orders \in SUBSET Numbers
  BY <1>0, TableAssumption DEF VoidSession, Void, At, Wired, Request, TableAssumption
<1>2. /\ session'[q.s].status = "CANCELLED"
      /\ \A s \in Sessions : /\ s # q.s => session'[s] = session[s]
                             /\ session'[s].table = session[s].table
      /\ \A t \in Tables : holder'[t] = IF holder[t] = q.s THEN None ELSE holder[t]
  BY <1>0, <1>1, RowTypes DEF VoidSession, Void, Release, SessionRows
<1>3. \A n \in Numbers :
        /\ order'[n].kind = order[n].kind /\ order'[n].items = order[n].items
        /\ order'[n].session = order[n].session
        /\ order'[n].status = IF n \in q.orders /\ order[n].status = "LIVE"
                                THEN "CANCELLED" ELSE order[n].status
  <2>1. order' = [n \in Numbers |-> IF n \in q.orders /\ order[n].status = "LIVE"
                                      THEN [order[n] EXCEPT !.status = "CANCELLED"] ELSE order[n]]
    BY <1>0 DEF VoidSession, Void
  <2> QED BY <2>1, RowTypes DEF OrderRows, OrderRow
<1>4. \A i \in Items :
        /\ item'[i].session = item[i].session /\ item'[i].comanda = item[i].comanda
        /\ item'[i].paidIn = item[i].paidIn
        /\ item'[i].kitchen = IF item[i].session = q.s /\ item[i].paidIn = 0
                                THEN "CANCELLED" ELSE item[i].kitchen
  <2>1. item' = [i \in Items |->
          IF i \in {j \in ItemsOf(q.s) : item[j].paidIn = 0}
            THEN [item[i] EXCEPT !.kitchen = "CANCELLED", !.paidIn = 0] ELSE item[i]]
    BY <1>0 DEF VoidSession, Void
  <2> QED BY <2>1, RowTypes DEF ItemRows, ItemRow, ItemsOf
<1>5. /\ req'[r] = Idle
      /\ \A v \in Requests : v # r => req'[v] = req[v]
  BY DEF VoidSession, Void, Finish, Become, TypeInv, TypeOK
<1>6. StillHolds(r) => Open(q.s) /\ q.orders = Comandas(q.s)
  BY <1>0, <1>1 DEF StillHolds
<1>7. Sound' \subseteq Sound /\ (q.s \in Sound' => Open(q.s) /\ q.orders = Comandas(q.s))
  BY <1>0, <1>1, <1>6 DEF VoidSession, Void, Wrote, Sound
<1>8. Known'
  <2>1. \A i \in Items : item[i].session # None => item[i].session \in Sessions
    BY RowTypes DEF ItemRows, ItemRow
  <2>2. \A s \in Sessions : session[s].status # "NEW" => session'[s].status # "NEW"
    BY <1>2
  <2>3. \A v \in Requests : /\ Wired(req[v]) /\ (v # r => req'[v] = req[v])
                            /\ req[v].items \in SUBSET Items
    BY <1>5 DEF TypeInv, TypeOK, Request
  <2>4. req'[r].op = "idle"
    BY <1>5 DEF Idle
  <2> QED BY <1>4, <2>1, <2>2, <2>3, <2>4 DEF TableInv, Known, Wired
<1>9. DishesAgree'
  <2>1. \A i \in Items : item[i].paidIn \in Numbers \cup {0} /\ item[i].comanda \in Numbers \cup {0}
    BY RowTypes DEF ItemRows, ItemRow
  <2> QED BY <1>3, <1>4, <2>1 DEF TableInv, DishesAgree
<1>10. VoidedIsDone'
  <2>1. SUFFICES ASSUME NEW i \in Items, item'[i].session \in Sound',
                        item'[i].kitchen = "CANCELLED", item'[i].comanda # 0
                 PROVE  order'[item'[i].comanda].status # "LIVE"
    BY DEF VoidedIsDone
  <2>2. item[i].comanda \in Numbers /\ item'[i].comanda = item[i].comanda
    BY <1>4, <2>1, RowTypes DEF ItemRows, ItemRow
  <2>3. CASE item[i].session = q.s
    <3>1. item[i].comanda \in q.orders
      BY <1>4, <1>7, <2>1, <2>2, <2>3 DEF Comandas, ItemsOf
    <3> QED BY <1>3, <2>2, <3>1
  <2>4. CASE item[i].session # q.s
    BY <1>3, <1>4, <1>7, <2>1, <2>2, <2>4 DEF TableInv, VoidedIsDone
  <2> QED BY <2>3, <2>4
<1>11. ChargedOnce'
  <2>1. \A i : Payments(i)' = Payments(i)
    BY <1>3 DEF Payments
  <2> QED BY <1>4, <1>7, <2>1 DEF TableInv, ChargedOnce
<1>12. CookedOnce'
  BY <1>3, <1>4, <1>7 DEF TableInv, CookedOnce
<1>13. \A s : s # q.s => Unpaid(s)' = Unpaid(s) /\ Pending(s)' = Pending(s)
  BY <1>4 DEF Unpaid, Pending, ItemsOf
<1>14. Unpaid(q.s)' = {} /\ Pending(q.s)' = {}
  BY <1>4 DEF Unpaid, Pending, ItemsOf, TableInv, DishesAgree
<1>15. ClosedOwesNothing'
  <2>1. ASSUME NEW s \in Sound', s # q.s
        PROVE  /\ session'[s].status = "CLOSED" => Unpaid(s)' = {}
               /\ session'[s].status = "CANCELLED" => Unpaid(s)' = Pending(s)'
    <3>1. s \in Sessions /\ s \in Sound /\ session'[s] = session[s]
      BY <1>2, <1>7, <2>1 DEF Sound
    <3> QED BY <1>13, <2>1, <3>1 DEF TableInv, ClosedOwesNothing
  <2> QED BY <1>14, <2>1 DEF ClosedOwesNothing
<1>16. TablesFollowAccounts'
  <2>1. q.s \in Sound' => session[q.s].status = "OPEN"
    BY <1>7 DEF Open
  <2>2. \A s \in Sessions : s # None /\ session[s].table \in Tables
    BY RowTypes, TableAssumption DEF SessionRows, TableAssumption
  <2> QED BY <1>2, <1>7, <2>1, <2>2 DEF TableInv, TablesFollowAccounts, Sound
<1>17. TotalOnItsWay'
  <2>1. outrun' = outrun /\ req'[r].step = "idle"
    <3>1. req'[r].step = "idle"
      BY <1>5 DEF Idle
    <3>2. outrun' = outrun
      BY DEF VoidSession, Void, Wrote
    <3> QED BY <3>1, <3>2
  <2>2. \A s \in Sound' : s \in Sessions
    BY DEF Sound
  <2> QED BY <1>0, <1>1, <1>2, <1>5, <1>7, <1>13, <2>1, <2>2, EndTypes, TotalKept DEF TableInv
<1> QED BY <1>8, <1>9, <1>10, <1>11, <1>12, <1>15, <1>16, <1>17 DEF TableInv

LEMMA MergeKeeps ==
  ASSUME TableAssumption, TypeInv, TableInv, NEW r \in Requests, MergeTables(r)
  PROVE  TableInv'
<1>0. PICK q \in Request : q = req[r] /\ Wired(q)
  BY DEF TypeInv, TypeOK
<1> DEFINE F == q.sessions
<1>1. /\ q.s \in Sessions /\ q.s # None /\ q.op = "merge" /\ q.step = "write"
      /\ q.s \notin F /\ F \in SUBSET Sessions /\ None \notin F
      /\ session[q.s].status # "NEW"
  BY <1>0, TableAssumption
     DEF MergeTables, Merge, At, Wired, Request, TableInv, Known, TableAssumption
<1>2. \A i \in Items :
        /\ item'[i].session = IF item[i].session \in F THEN q.s ELSE item[i].session
        /\ item'[i].comanda = item[i].comanda /\ item'[i].paidIn = item[i].paidIn
        /\ item'[i].kitchen = item[i].kitchen
  <2>1. item' = [i \in Items |-> IF item[i].session \in F
                                   THEN [item[i] EXCEPT !.session = q.s] ELSE item[i]]
    BY <1>0 DEF MergeTables, Merge
  <2> QED BY <2>1, RowTypes DEF ItemRows, ItemRow
<1>3. \A n \in Numbers :
        /\ order'[n].session = IF order[n].session \in F THEN q.s ELSE order[n].session
        /\ order'[n].kind = order[n].kind /\ order'[n].items = order[n].items
        /\ order'[n].status = order[n].status
  <2>1. order' = [n \in Numbers |-> IF order[n].session \in F
                                      THEN [order[n] EXCEPT !.session = q.s] ELSE order[n]]
    BY <1>0 DEF MergeTables, Merge
  <2> QED BY <2>1, RowTypes DEF OrderRows, OrderRow
<1>4. \A s \in Sessions :
        /\ s \notin F => session'[s] = session[s]
        /\ s \in F => session'[s].status = "CANCELLED"
        /\ session'[s].table = session[s].table
  <2>1. session' = [s \in Sessions |-> IF s \in F
                      THEN [session[s] EXCEPT !.status = "CANCELLED", !.total = 0] ELSE session[s]]
    BY <1>0 DEF MergeTables, Merge
  <2> QED BY <2>1, RowTypes DEF SessionRows
<1>5. \A t \in Tables :
        holder'[t] = IF holder[t] \in F \/ t \in q.tables THEN q.s ELSE holder[t]
  BY <1>0 DEF MergeTables, Merge
<1>6. /\ req'[r].op = "merge" /\ req'[r].s = q.s /\ req'[r].step = "sum"
      /\ \A v \in Requests : v # r => req'[v] = req[v]
  <2>1. Become(r, [q EXCEPT !.step = "sum"])
    BY <1>0 DEF MergeTables, Merge
  <2> QED BY <1>1, <2>1 DEF Become, TypeInv, TypeOK, Request
<1>7. StillHolds(r) => /\ \A f \in F \cup {q.s} : session[f].status = "OPEN"
                       /\ \A t \in q.tables : holder[t] = None
  BY <1>0, <1>1 DEF StillHolds, Open, CanOpen
<1>8. /\ Sound' \subseteq Sound
      /\ \A s \in Sound' : s \in F \cup {q.s} \cup {holder[t] : t \in q.tables} =>
           /\ F \subseteq Sound
           /\ \A f \in F \cup {q.s} : session[f].status = "OPEN"
           /\ \A t \in q.tables : holder[t] = None
  <2>1. Wrote({q.s} \cup F \cup {holder[t] : t \in q.tables}, StillHolds(r))
    BY <1>0 DEF MergeTables, Merge
  <2> QED BY <1>1, <1>7, <2>1, TableAssumption DEF Wrote, Sound, TableAssumption
<1> HIDE DEF F
<1>9. Known'
  <2>1. \A i \in Items : item[i].session # None => item[i].session \in Sessions
    BY RowTypes DEF ItemRows, ItemRow
  <2>2. \A s \in Sessions : session[s].status # "NEW" => session'[s].status # "NEW"
    BY <1>4
  <2>3. \A v \in Requests : /\ Wired(req[v]) /\ (v # r => req'[v] = req[v])
                            /\ req[v].items \in SUBSET Items
    BY <1>6 DEF TypeInv, TypeOK, Request
  <2>4. ASSUME NEW v \in Requests, v # r
        PROVE  /\ req'[v].op \notin {"idle", "open", "list"} => session'[req'[v].s].status # "NEW"
               /\ req'[v].op \in {"send", "pay"} => \A i \in req'[v].items : item'[i].session # None
    BY <1>1, <1>2, <2>2, <2>3, <2>4 DEF TableInv, Known, Wired
  <2>5. \A i \in Items : item'[i].session # None => session'[item'[i].session].status # "NEW"
    BY <1>1, <1>2, <2>1, <2>2 DEF TableInv, Known
  <2> QED BY <1>1, <1>6, <2>2, <2>4, <2>5 DEF Known
<1>10. DishesAgree'
  <2>1. \A i \in Items : item[i].paidIn \in Numbers \cup {0} /\ item[i].comanda \in Numbers \cup {0}
    BY RowTypes DEF ItemRows, ItemRow
  <2> QED BY <1>1, <1>2, <1>3, <2>1 DEF TableInv, DishesAgree
<1>11. \A i \in Items : item'[i].session \in Sound' => item[i].session \in Sound
  BY <1>2, <1>8
<1>12. VoidedIsDone'
  <2>1. \A i \in Items : item[i].comanda \in Numbers \cup {0}
    BY RowTypes DEF ItemRows, ItemRow
  <2> QED BY <1>2, <1>3, <1>11, <2>1 DEF TableInv, VoidedIsDone
<1>13. ChargedOnce'
  <2>1. \A i : Payments(i)' = Payments(i)
    BY <1>3 DEF Payments
  <2> QED BY <1>2, <1>11, <2>1 DEF TableInv, ChargedOnce
<1>14. CookedOnce'
  BY <1>2, <1>3, <1>11 DEF TableInv, CookedOnce
<1>15. \A s \in Sessions : s # q.s /\ s \notin F => Unpaid(s)' = Unpaid(s) /\ Pending(s)' = Pending(s)
  BY <1>2 DEF Unpaid, Pending, ItemsOf
<1>16. \A s \in F : Unpaid(s)' = {} /\ Pending(s)' = {}
  BY <1>1, <1>2 DEF Unpaid, Pending, ItemsOf
<1>17. ClosedOwesNothing'
  <2>1. q.s \in Sound' => session'[q.s].status = "OPEN"
    BY <1>1, <1>4, <1>8
  <2>2. ASSUME NEW s \in Sound'
        PROVE  /\ session'[s].status = "CLOSED" => Unpaid(s)' = {}
               /\ session'[s].status = "CANCELLED" => Unpaid(s)' = Pending(s)'
    <3>1. s \in Sound /\ s \in Sessions
      BY <1>8, <2>2 DEF Sound
    <3>2. CASE s = q.s
      BY <2>1, <2>2, <3>2
    <3>3. CASE s # q.s /\ s \in F
      BY <1>4, <1>16, <3>1, <3>3
    <3>4. CASE s # q.s /\ s \notin F
      <4>1. Unpaid(s)' = Unpaid(s) /\ Pending(s)' = Pending(s) /\ session'[s] = session[s]
        BY <1>4, <1>15, <3>1, <3>4
      <4> QED BY <3>1, <4>1 DEF TableInv, ClosedOwesNothing
    <3> QED BY <3>2, <3>3, <3>4
  <2> QED BY <2>2 DEF ClosedOwesNothing
<1>18. TablesFollowAccounts'
  <2>1. SUFFICES ASSUME NEW s \in Sound'
                 PROVE  /\ session'[s].status = "OPEN" => holder'[session'[s].table] = s
                        /\ \A t \in Tables : holder'[t] = s => session'[s].status = "OPEN"
    BY DEF TablesFollowAccounts
  <2>2. /\ session[s].status = "OPEN" => holder[session[s].table] = s
        /\ \A t \in Tables : holder[t] = s => session[s].status = "OPEN"
        /\ s \in Sessions /\ s # None /\ session[s].table \in Tables
    BY <1>8, <2>1, RowTypes, TableAssumption
       DEF TableInv, TablesFollowAccounts, Sound, SessionRows, TableAssumption
  <2>3. CASE s \in F
    BY <1>1, <1>4, <1>5, <2>2, <2>3
  <2>4. CASE s = q.s
    <3>1. session[s].status = "OPEN" /\ \A t \in q.tables : holder[t] = None
      BY <1>8, <2>4
    <3> QED BY <1>1, <1>4, <1>5, <2>2, <2>4, <3>1
  <2>5. CASE s \notin F /\ s # q.s
    <3>1. \A t \in q.tables : holder[t] # s
      BY <1>8, <2>2, <2>5
    <3> QED BY <1>4, <1>5, <2>2, <2>5, <3>1
  <2> QED BY <2>3, <2>4, <2>5
<1>19. TotalOnItsWay'
  <2>1. outrun' = outrun
    BY DEF MergeTables, Merge, Wrote
  <2>2. Adding(r, q.s)' /\ req'[r].step = "sum"
    BY <1>6 DEF Adding
  <2>3. ASSUME NEW s \in Sound', session'[s].status = "OPEN", s # q.s
        PROVE  /\ session[s].status = "OPEN" /\ Unpaid(s)' = Unpaid(s)
               /\ session'[s].total = session[s].total
    BY <1>4, <1>15, <2>3 DEF Sound
  <2> QED BY <1>0, <1>1, <1>6, <1>8, <2>1, <2>2, <2>3, MergeTypes, TotalKept DEF TableInv
<1> QED BY <1>9, <1>10, <1>12, <1>13, <1>14, <1>17, <1>18, <1>19 DEF TableInv

\* Unlinking a table, and linking again the table of an account that was open.
LEMMA LinkKeeps ==
  ASSUME TableAssumption, TypeInv, TableInv, NEW r \in Requests,
         UnmergeTable(r) \/ RelinkTable(r)
  PROVE  TableInv'
<1>0. PICK q \in Request : q = req[r] /\ Wired(q)
  BY DEF TypeInv, TypeOK
<1>1. /\ session' = session /\ item' = item /\ order' = order
      /\ q.step = "write"
      /\ \A v \in Requests : v # r => req'[v] = req[v]
  BY <1>0 DEF UnmergeTable, RelinkTable, Finish, Become, At, TypeInv, TypeOK
<1>2. req'[r].op \in {"idle", "list"}
  <2>1. CASE UnmergeTable(r)
    BY <2>1 DEF UnmergeTable, Finish, Become, Idle, TypeInv, TypeOK
  <2>2. CASE RelinkTable(r)
    <3>1. PICK s \in q.sessions :
            /\ q.op = "list"
            /\ Become(r, Idle) \/ Become(r, [q EXCEPT !.sessions = @ \ {s}])
      BY <1>0, <2>2 DEF RelinkTable, Finish, At
    <3> QED BY <3>1 DEF Become, Idle, TypeInv, TypeOK, Request
  <2> QED BY <2>1, <2>2
<1>3. /\ Sound' \subseteq Sound
      /\ TablesFollowAccounts'
  <2>1. \A s \in Sessions : s # None /\ session[s].table \in Tables
    BY RowTypes, TableAssumption DEF SessionRows, TableAssumption
  <2>2. \A s \in Sound : /\ session[s].status = "OPEN" => holder[session[s].table] = s
                         /\ \A t \in Tables : holder[t] = s => session[s].status = "OPEN"
    BY DEF TableInv, TablesFollowAccounts
  <2>3. CASE UnmergeTable(r)
    <3>1. PICK t \in q.tables : /\ holder' = [holder EXCEPT ![t] = None]
                                /\ Wrote({q.s, holder[t]}, StillHolds(r))
      BY <1>0, <2>3 DEF UnmergeTable
    <3>2. t \in Tables /\ q.s \in Sessions /\ q.op = "unmerge"
      BY <1>0, <2>3 DEF UnmergeTable, At, Request, Wired
    <3>3. /\ Sound' \subseteq Sound
          /\ q.s \in Sound' \/ holder[t] \in Sound' => t # session[q.s].table /\ holder[t] = q.s
      BY <1>0, <2>1, <3>1, <3>2, RowTypes DEF Wrote, Sound, StillHolds, CanUnmerge
    <3>4. \A s \in Sound' : s \in Sessions
      BY DEF Sound
    <3> QED BY <1>1, <2>1, <2>2, <3>1, <3>2, <3>3, <3>4, RowTypes DEF TablesFollowAccounts
  <2>4. CASE RelinkTable(r)
    <3>1. PICK s \in q.sessions : /\ holder' = [holder EXCEPT ![session[s].table] = s]
                                  /\ Wrote({s, holder[session[s].table]}, Open(s))
      BY <1>0, <2>4 DEF RelinkTable
    <3>2. PICK t \in Tables : t = session[s].table /\ s \in Sessions
      BY <2>1, <3>1 DEF Request
    <3>3. /\ Sound' \subseteq Sound
          /\ s \in Sound' \/ holder[t] \in Sound' => session[s].status = "OPEN" /\ s \in Sound
      BY <2>1, <3>1, <3>2, RowTypes DEF Wrote, Sound, Open
    <3>4. s \in Sound' \/ holder[t] \in Sound' => holder[t] = s
      BY <2>2, <3>2, <3>3
    <3>5. \A u \in Sound' : u \in Sessions
      BY DEF Sound
    <3>6. /\ holder'[t] = s /\ \A x \in Tables : x # t => holder'[x] = holder[x]
      BY <3>1, <3>2, RowTypes
    <3> QED BY <1>1, <2>1, <2>2, <3>2, <3>3, <3>4, <3>5, <3>6 DEF TablesFollowAccounts
  <2> QED BY <2>3, <2>4
<1>4. Known'
  BY <1>1, <1>2 DEF TableInv, Known
<1>5. DishesAgree' /\ VoidedIsDone' /\ ChargedOnce' /\ CookedOnce'
  BY <1>1, <1>3 DEF TableInv, DishesAgree, VoidedIsDone, ChargedOnce, Payments, CookedOnce
<1>6. \A s : Unpaid(s)' = Unpaid(s) /\ Pending(s)' = Pending(s)
  BY <1>1 DEF Unpaid, Pending, ItemsOf
<1>7. ClosedOwesNothing'
  BY <1>1, <1>3, <1>6 DEF TableInv, ClosedOwesNothing
<1>8. TotalOnItsWay'
  <2>1. outrun' = outrun
    BY DEF UnmergeTable, RelinkTable, Wrote
  <2>2. req'[r].step # "save"
    BY <1>0, <1>1, <1>2, LinkTypes DEF TypeInv, TypeOK, Wired
  <2> QED BY <1>0, <1>1, <1>3, <1>6, <2>1, <2>2, LinkTypes, TotalKept DEF TableInv
<1> QED BY <1>3, <1>4, <1>5, <1>7, <1>8 DEF TableInv

\* Steps that leave every row, request and account as they are.
LEMMA SameKeeps ==
  ASSUME TableInv, UNCHANGED <<session, holder, item, order, req, stale, outrun>>
  PROVE  TableInv'
BY DEF TableInv, Known, DishesAgree, VoidedIsDone, ChargedOnce, Payments, Sound, ClosedOwesNothing,
       Unpaid, Pending, ItemsOf, CookedOnce, TablesFollowAccounts, TotalOnItsWay, Covered,
       Adding, Saving

\* The kitchen's answer: its dishes are those of a comanda that was still on its way, or
\* their accounts are no longer sound.
LEMMA KitchenKeeps ==
  ASSUME TableAssumption, TypeInv, TableInv, NEW c \in Cooks, ReadComanda(c) \/ UpdateComanda(c)
  PROVE  TableInv'
<1>a. CASE ReadComanda(c)
  BY <1>a, SameKeeps DEF ReadComanda, rows, history
<1>b. CASE UpdateComanda(c)
  <2>1. PICK n \in Numbers, to \in Statuses :
          n = cook[c].n /\ to = cook[c].to
    BY <1>b DEF UpdateComanda, TypeInv, TypeOK, Change
  <2>2. /\ session' = session /\ holder' = holder /\ req' = req /\ outrun' = outrun
        /\ n # 0
    BY <1>b, <2>1 DEF UpdateComanda, Wrote, Numbers
  <2>3. /\ \A m \in Numbers : m # n => order'[m] = order[m]
        /\ order'[n].items = order[n].items /\ order'[n].session = order[n].session
        /\ order'[n].kind = order[n].kind
        /\ order'[n].status = IF to \in {"CONFIRMED", "READY"} THEN "LIVE" ELSE to
    BY <1>b, <2>1, RowTypes DEF UpdateComanda, OrderRows, OrderRow
  <2>4. \A i \in Items :
          /\ item'[i].session = item[i].session /\ item'[i].comanda = item[i].comanda
          /\ item'[i].paidIn = item[i].paidIn
          /\ item[i].comanda # n \/ to = "CONFIRMED" => item'[i].kitchen = item[i].kitchen
          /\ item[i].comanda = n /\ to # "CONFIRMED" =>
               item'[i].kitchen = IF to = "CANCELLED" THEN "CANCELLED" ELSE "SENT"
    BY <1>b, <2>1, RowTypes DEF UpdateComanda, ItemRows, ItemRow
  <2>5. /\ Sound' \subseteq Sound
        /\ \A i \in Items : item[i].comanda = n /\ item[i].session \in Sound'
                            => order[n].status = "LIVE"
    BY <1>b, <2>1, TableAssumption DEF UpdateComanda, Wrote, Sound, TableAssumption
  <2>6. \A i \in Items : item[i].paidIn \in Numbers \cup {0} /\ item[i].comanda \in Numbers \cup {0}
    BY RowTypes DEF ItemRows, ItemRow
  <2>7. Known'
    <3>1. \A v \in Requests : req[v].items \in SUBSET Items
      BY DEF TypeInv, TypeOK, Request
    <3> QED BY <2>2, <2>4, <3>1 DEF TableInv, Known
  <2>8. DishesAgree'
    <3>1. ASSUME NEW i \in Items
          PROVE  /\ item'[i].session = None =>
                      /\ item'[i].paidIn = 0 /\ item'[i].comanda = 0
                      /\ \A m \in Numbers : i \in order'[m].items =>
                           order'[m].kind \notin {"FINAL", "COMANDA"}
                 /\ item'[i].kitchen = "PENDING" => item'[i].paidIn = 0 /\ item'[i].comanda = 0
      BY <2>3, <2>4 DEF TableInv, DishesAgree
    <3>2. ASSUME NEW i \in Items
          PROVE  /\ item'[i].paidIn # 0 => /\ order'[item'[i].paidIn].kind = "FINAL"
                                           /\ i \in order'[item'[i].paidIn].items
                 /\ item'[i].comanda # 0 => order'[item'[i].comanda].kind = "COMANDA"
      BY <2>3, <2>4, <2>6 DEF TableInv, DishesAgree
    <3> QED BY <3>1, <3>2 DEF DishesAgree
  <2>9. VoidedIsDone'
    <3>1. SUFFICES ASSUME NEW i \in Items, item[i].session \in Sound',
                          item'[i].kitchen = "CANCELLED", item[i].comanda # 0
                   PROVE  order'[item[i].comanda].status # "LIVE"
      BY <2>4 DEF VoidedIsDone
    <3>2. CASE item[i].comanda = n
      <4>1. order[n].status = "LIVE"
        BY <2>5, <3>1, <3>2
      <4>2. item[i].kitchen # "CANCELLED"
        BY <2>5, <3>1, <3>2, <4>1 DEF TableInv, VoidedIsDone
      <4>3. to = "CANCELLED"
        BY <2>4, <3>1, <3>2, <4>2
      <4> QED BY <2>3, <2>6, <3>1, <3>2, <4>3
    <3>3. CASE item[i].comanda # n
      BY <2>3, <2>4, <2>5, <2>6, <3>1, <3>3 DEF TableInv, VoidedIsDone
    <3> QED BY <3>2, <3>3
  <2>10. ChargedOnce'
    <3>1. \A i : Payments(i)' = Payments(i)
      BY <2>3 DEF Payments
    <3> QED BY <2>4, <2>5, <3>1 DEF TableInv, ChargedOnce
  <2>11. CookedOnce'
    <3>1. SUFFICES ASSUME NEW m \in Numbers, NEW i \in Items, order'[m].kind = "COMANDA",
                          i \in order'[m].items, item[i].session \in Sound'
                   PROVE  item[i].comanda = m /\ order'[m].session = item[i].session
      BY <2>4 DEF CookedOnce
    <3>2. /\ order[m].kind = "COMANDA" /\ i \in order[m].items
          /\ order'[m].session = order[m].session
      BY <2>3, <3>1
    <3> QED BY <2>5, <3>1, <3>2 DEF TableInv, CookedOnce
  <2>12. \A s \in Sound' : Unpaid(s)' \subseteq Unpaid(s) /\ Pending(s)' = Pending(s)
    <3>1. \A i \in Items : item[i].comanda = n => item[i].kitchen # "PENDING"
      BY <2>2 DEF TableInv, DishesAgree
    <3>2. \A i \in Items : item[i].session \in Sound' /\ item[i].comanda = n
                            => item[i].kitchen # "CANCELLED"
      BY <2>2, <2>5 DEF TableInv, VoidedIsDone
    <3>3. \A s \in Sound' : Pending(s)' = Pending(s)
      BY <2>4, <3>1 DEF Pending, ItemsOf
    <3>4. \A s \in Sound' : Unpaid(s)' \subseteq Unpaid(s)
      BY <2>4, <3>2 DEF Unpaid, ItemsOf
    <3> QED BY <3>3, <3>4
  <2>13. ClosedOwesNothing'
    <3>1. \A s \in Sound' : Pending(s)' \subseteq Unpaid(s)'
      <4>1. \A i \in Items : item'[i].kitchen = "PENDING" => item'[i].paidIn = 0
        BY <2>8 DEF DishesAgree
      <4> QED BY <4>1 DEF Pending, Unpaid, ItemsOf
    <3> QED BY <2>2, <2>5, <2>12, <3>1 DEF TableInv, ClosedOwesNothing
  <2>14. TablesFollowAccounts'
    BY <2>2, <2>5 DEF TableInv, TablesFollowAccounts
  <2>15. TotalOnItsWay'
    BY <1>b, <2>2, <2>5, <2>12, KitchenTypes, TotalKept DEF TableInv
  <2> QED BY <2>7, <2>8, <2>9, <2>10, <2>11, <2>13, <2>14, <2>15 DEF TableInv
<1> QED BY <1>a, <1>b

\* Another channel takes a number that is free.
LEMMA OtherKeeps ==
  ASSUME TableAssumption, TypeInv, TableInv, NEW n \in Numbers, OtherOrder(n)
  PROVE  TableInv'
<1>1. UNCHANGED <<session, holder, item, req, stale, outrun>> /\ Sound' = Sound
  BY DEF OtherOrder, history, Sound
<1>2. /\ order[n].kind = "FREE" /\ order'[n].kind = "OTHER"
      /\ order'[n].items = order[n].items /\ order'[n].session = order[n].session
      /\ \A m \in Numbers : order'[m].status = order[m].status
      /\ \A m \in Numbers : m # n => order'[m] = order[m]
  BY RowTypes DEF OtherOrder, OrderRows, OrderRow
<1>3. \A i \in Items : item[i].paidIn \in Numbers \cup {0} /\ item[i].comanda \in Numbers \cup {0}
  BY RowTypes DEF ItemRows, ItemRow
<1>4. Known' /\ TablesFollowAccounts'
  BY <1>1 DEF TableInv, Known, TablesFollowAccounts
<1>5. DishesAgree'
  <2>1. \A m \in Numbers : order'[m].kind \in {"FINAL", "COMANDA"} =>
          m # n /\ order'[m] = order[m]
    BY <1>2
  <2>2. ASSUME NEW i \in Items
        PROVE  /\ item[i].session = None =>
                    /\ item[i].paidIn = 0 /\ item[i].comanda = 0
                    /\ \A m \in Numbers : i \in order'[m].items =>
                         order'[m].kind \notin {"FINAL", "COMANDA"}
               /\ item[i].kitchen = "PENDING" => item[i].paidIn = 0 /\ item[i].comanda = 0
    BY <2>1 DEF TableInv, DishesAgree
  <2>3. ASSUME NEW i \in Items
        PROVE  /\ item[i].paidIn # 0 =>
                    order'[item[i].paidIn].kind = "FINAL" /\ i \in order'[item[i].paidIn].items
               /\ item[i].comanda # 0 => order'[item[i].comanda].kind = "COMANDA"
    <3>1. \A m \in Numbers : order[m].kind \in {"FINAL", "COMANDA"} => order'[m] = order[m]
      BY <1>2
    <3> QED BY <1>3, <3>1 DEF TableInv, DishesAgree
  <2> QED BY <1>1, <2>2, <2>3 DEF DishesAgree
<1>6. VoidedIsDone'
  BY <1>1, <1>2, <1>3 DEF TableInv, VoidedIsDone
<1>7. ChargedOnce'
  <2>1. \A i : Payments(i)' = Payments(i)
    BY <1>2 DEF Payments
  <2> QED BY <1>1, <2>1 DEF TableInv, ChargedOnce
<1>8. CookedOnce'
  <2>1. \A m \in Numbers : order'[m].kind = "COMANDA" => order'[m] = order[m]
    BY <1>2
  <2> QED BY <1>1, <2>1 DEF TableInv, CookedOnce
<1>9. \A s : Unpaid(s)' = Unpaid(s) /\ Pending(s)' = Pending(s)
  BY <1>1 DEF Unpaid, Pending, ItemsOf
<1>10. ClosedOwesNothing' /\ TotalOnItsWay'
  BY <1>1, <1>9 DEF TableInv, ClosedOwesNothing, TotalOnItsWay, Covered, Adding, Saving
<1> QED BY <1>4, <1>5, <1>6, <1>7, <1>8, <1>10 DEF TableInv

LEMMA TableInvariant == TableAssumption => (Spec => [](TypeInv /\ TableInv))
<1> SUFFICES ASSUME TableAssumption  PROVE Spec => [](TypeInv /\ TableInv)
  OBVIOUS
<1>1. Init => TableInv
  <2> SUFFICES ASSUME Init  PROVE TableInv
    OBVIOUS
  <2>1. /\ \A s \in Sessions : session[s].status = "NEW"
        /\ \A t \in Tables : holder[t] = None
        /\ \A i \in Items : /\ item[i].session = None /\ item[i].kitchen = "NEW"
                            /\ item[i].comanda = 0 /\ item[i].paidIn = 0
        /\ \A n \in Numbers : order[n].kind = "FREE" /\ order[n].items = {}
        /\ \A r \in Requests : req[r].op = "idle"
        /\ outrun = {}
    BY DEF Init, Idle
  <2>2. Sound \subseteq Sessions /\ None \notin Sessions
    BY TableAssumption DEF Sound, TableAssumption
  <2> QED BY <2>1, <2>2 DEF TableInv, Known, DishesAgree, VoidedIsDone, ChargedOnce, Payments,
                            ClosedOwesNothing, CookedOnce, TablesFollowAccounts, TotalOnItsWay
<1>2. TypeInv /\ TableInv /\ [Next]_vars => TableInv'
  <2> SUFFICES ASSUME TypeInv, TableInv, [Next]_vars  PROVE TableInv'
    OBVIOUS
  <2>1. ASSUME NEW r \in Requests, Serve(r)  PROVE TableInv'
    BY <2>1, RequestKeeps, OpenKeeps, AddKeeps, SaveKeeps, SendKeeps, PayKeeps, CancelKeeps,
       VoidKeeps, MergeKeeps, LinkKeeps DEF Serve
  <2>2. ASSUME NEW c \in Cooks, ReadComanda(c) \/ UpdateComanda(c)  PROVE TableInv'
    BY <2>2, KitchenKeeps
  <2>3. ASSUME NEW n \in Numbers, OtherOrder(n)  PROVE TableInv'
    BY <2>3, OtherKeeps
  <2>4. CASE UNCHANGED vars
    BY <2>4, SameKeeps DEF vars
  <2> QED BY <2>1, <2>2, <2>3, <2>4 DEF Next
<1> QED BY <1>1, <1>2, TypeInvariant, PTL DEF Spec

\* No dish of a sound account is charged twice, and a charged dish is marked so.
THEOREM DishesChargedOnce == Spec => []ChargedOnce
<1>1. TableInv => ChargedOnce
  BY DEF TableInv
<1> QED BY <1>1, TableInvariant, TableAssumption, PTL

\* A sound account ends only when nothing is owed.
THEOREM NothingOwedAtTheEnd == Spec => []ClosedOwesNothing
<1>1. TableInv => ClosedOwesNothing
  BY DEF TableInv
<1> QED BY <1>1, TableInvariant, TableAssumption, PTL

\* A dish of a sound account is in one comanda at most, whatever tables are merged.
THEOREM DishesCookedOnce == Spec => []CookedOnce
<1>1. TableInv => CookedOnce
  BY DEF TableInv
<1> QED BY <1>1, TableInvariant, TableAssumption, PTL

\* The table of a sound open account is its own, and no ended account holds a table.
THEOREM TablesAlwaysFollow == Spec => []TablesFollowAccounts
<1>1. TableInv => TablesFollowAccounts
  BY DEF TableInv
<1> QED BY <1>1, TableInvariant, TableAssumption, PTL

\* The total of a sound open account, once recalculated, covers what is owed.
THEOREM TotalAlwaysCovers == Spec => []TotalCoversUnpaid
<1>1. TableInv => TotalCoversUnpaid
  BY CoveredTotal DEF TableInv
<1> QED BY <1>1, TableInvariant, TableAssumption, PTL

\* What a step does to a charge: it stays in its order, or moves to a new one.
ChargesKept ==
  \A i \in Items : item[i].paidIn # 0 =>
    item'[i].paidIn # 0 /\ i \in order'[item'[i].paidIn].items

LEMMA StepKeepsCharges ==
  ASSUME TableAssumption, TypeInv, TableInv, Next  PROVE ChargesKept
<1>0. \A i \in Items : /\ item[i].paidIn \in Numbers \cup {0}
                       /\ item[i].paidIn # 0 => /\ order[item[i].paidIn].kind = "FINAL"
                                                /\ i \in order[item[i].paidIn].items
  BY RowTypes DEF ItemRows, ItemRow, TableInv, DishesAgree
<1>1. ASSUME \A i \in Items : item'[i].paidIn = item[i].paidIn,
             \A n \in Numbers : order[n].kind = "FINAL" => order'[n].items = order[n].items
      PROVE  ChargesKept
  BY <1>0, <1>1 DEF ChargesKept
<1>2. ASSUME NEW r \in Requests,
             \/ ReadTable(r) \/ ReadForItems(r) \/ ReadForKitchen(r) \/ ReadForPayment(r)
             \/ ReadForCancel(r) \/ ReadForMerge(r) \/ ReadForUnmerge(r) \/ ReadForVoid(r)
             \/ ListTables(r)
             \/ SumItems(r) \/ SendAdded(r) \/ CountOrders(r) \/ Fail(r)
      PROVE  ChargesKept
  BY <1>1, <1>2, RequestEffect DEF rows
<1>3. ASSUME NEW r \in Requests,
             \/ OpenSession(r) \/ SaveTotal(r) \/ CancelSession(r)
             \/ UnmergeTable(r) \/ RelinkTable(r)
      PROVE  ChargesKept
  BY <1>1, <1>3 DEF OpenSession, SaveTotal, CancelSession, UnmergeTable, RelinkTable
<1>4. ASSUME NEW r \in Requests, AddItems(r)  PROVE ChargesKept
  <2>1. PICK I \in SUBSET Items :
          item' = [i \in Items |->
            IF i \in I THEN [item[i] EXCEPT !.session = req[r].s, !.kitchen = "PENDING"]
                       ELSE item[i]]
    BY <1>4 DEF AddItems
  <2>2. \A i \in Items : item'[i].paidIn = item[i].paidIn
    BY <2>1, RowTypes DEF ItemRows, ItemRow
  <2>3. order' = order
    BY <1>4 DEF AddItems
  <2> QED BY <1>1, <2>2, <2>3
<1>5. ASSUME NEW r \in Requests, SendComanda(r)  PROVE ChargesKept
  <2>1. item' = [i \in Items |->
          IF i \in req[r].items THEN [item[i] EXCEPT !.kitchen = "SENT", !.comanda = req[r].n]
                                ELSE item[i]]
    BY <1>5 DEF SendComanda
  <2>2. \A i \in Items : item'[i].paidIn = item[i].paidIn
    BY <2>1, RowTypes DEF ItemRows, ItemRow
  <2>3. \A n \in Numbers : order[n].kind = "FINAL" => order'[n].items = order[n].items
    BY <1>5, RowTypes DEF SendComanda, OrderRows
  <2> QED BY <1>1, <2>2, <2>3
<1>6. ASSUME NEW r \in Requests, PaySession(r)  PROVE ChargesKept
  <2>0. PICK q \in Request : q = req[r] /\ Wired(q)
    BY DEF TypeInv, TypeOK
  <2>1. q.n \in Numbers /\ q.n # 0 /\ q.items \in SUBSET Items /\ order[q.n].kind = "FREE"
    <3>1. q.op = "pay" /\ q.step = "write" /\ order[q.n].kind = "FREE"
      BY <1>6, <2>0 DEF PaySession, Pay, At
    <3>2. q.n \in Numbers /\ q.items \in SUBSET Items
      BY <2>0, <3>1 DEF Wired, Request
    <3> QED BY <3>1, <3>2 DEF Numbers
  <2>2. /\ order'[q.n].items = q.items
        /\ \A n \in Numbers : n # q.n => order'[n] = order[n]
    BY <1>6, <2>0, <2>1, RowTypes DEF PaySession, Pay, OrderRows
  <2>3. /\ \A i \in q.items : item'[i].paidIn = q.n
        /\ \A i \in Items \ q.items : item'[i] = item[i]
    BY <1>6, <2>0, <2>1, RowTypes DEF PaySession, Pay, ItemRows, ItemRow
  <2> QED BY <1>0, <2>1, <2>2, <2>3 DEF ChargesKept
<1>7. ASSUME NEW r \in Requests, MergeTables(r)  PROVE ChargesKept
  <2>1. item' = [i \in Items |-> IF item[i].session \in req[r].sessions
                                   THEN [item[i] EXCEPT !.session = req[r].s] ELSE item[i]]
    BY <1>7 DEF MergeTables, Merge
  <2>2. \A i \in Items : item'[i].paidIn = item[i].paidIn
    BY <2>1, RowTypes DEF ItemRows, ItemRow
  <2>3. order' = [n \in Numbers |-> IF order[n].session \in req[r].sessions
                                      THEN [order[n] EXCEPT !.session = req[r].s] ELSE order[n]]
    BY <1>7 DEF MergeTables, Merge
  <2>4. \A n \in Numbers : order'[n].items = order[n].items
    BY <2>3, RowTypes DEF OrderRows, OrderRow
  <2> QED BY <1>1, <2>2, <2>4
<1>8. ASSUME NEW r \in Requests, VoidSession(r)  PROVE ChargesKept
  <2>1. item' = [i \in Items |->
          IF i \in {j \in ItemsOf(req[r].s) : item[j].paidIn = 0}
            THEN [item[i] EXCEPT !.kitchen = "CANCELLED", !.paidIn = 0] ELSE item[i]]
    BY <1>8 DEF VoidSession, Void
  <2>2. \A i \in Items : item'[i].paidIn = item[i].paidIn
    BY <2>1, RowTypes DEF ItemRows, ItemRow, ItemsOf
  <2>3. order' = [n \in Numbers |-> IF n \in req[r].orders /\ order[n].status = "LIVE"
                                      THEN [order[n] EXCEPT !.status = "CANCELLED"] ELSE order[n]]
    BY <1>8 DEF VoidSession, Void
  <2>4. \A n \in Numbers : order'[n].items = order[n].items
    BY <2>3, RowTypes DEF OrderRows, OrderRow
  <2> QED BY <1>1, <2>2, <2>4
<1>9. ASSUME NEW c \in Cooks, ReadComanda(c) \/ UpdateComanda(c)  PROVE ChargesKept
  <2>1. CASE ReadComanda(c)
    BY <1>1, <2>1 DEF ReadComanda, rows
  <2>2. CASE UpdateComanda(c)
    <3>1. PICK kitchen :
            item' = [i \in Items |-> IF item[i].comanda = cook[c].n /\ cook[c].to # "CONFIRMED"
                                       THEN [item[i] EXCEPT !.kitchen = kitchen] ELSE item[i]]
      BY <2>2 DEF UpdateComanda
    <3>2. \A i \in Items : item'[i].paidIn = item[i].paidIn
      BY <3>1, RowTypes DEF ItemRows, ItemRow
    <3>3. PICK status : order' = [order EXCEPT ![cook[c].n].status = status]
      BY <2>2 DEF UpdateComanda
    <3>4. \A n \in Numbers : order'[n].items = order[n].items
      BY <3>3, RowTypes DEF OrderRows, OrderRow
    <3> QED BY <1>1, <3>2, <3>4
  <2> QED BY <1>9, <2>1, <2>2
<1>10. ASSUME NEW n \in Numbers, OtherOrder(n)  PROVE ChargesKept
  <2>1. \A m \in Numbers : order'[m].items = order[m].items
    BY <1>10, RowTypes DEF OtherOrder, OrderRows, OrderRow
  <2>2. item' = item
    BY <1>10 DEF OtherOrder
  <2> QED BY <1>1, <2>1, <2>2
<1> QED BY <1>2, <1>3, <1>4, <1>5, <1>6, <1>7, <1>8, <1>9, <1>10 DEF Next, Serve

\* Whatever overlaps, and whatever the checks of close no longer see: what was charged
\* stays charged, in an order that lists it.
THEOREM ChargesStay == Spec => ChargeStays
<1>1. TypeInv /\ TableInv /\ [Next]_vars =>
        [\A i \in Items : item[i].paidIn # 0 =>
           item'[i].paidIn # 0 /\ i \in order'[item'[i].paidIn].items]_vars
  BY StepKeepsCharges, TableAssumption DEF ChargesKept
<1> QED BY <1>1, TableInvariant, TableAssumption, PTL DEF Spec, ChargeStays
=============================================================================
