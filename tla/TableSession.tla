---------------------------- MODULE TableSession ----------------------------
(***************************************************************************)
(* The accounts of the salon: a table is opened, dishes are added and sent *)
(* to the kitchen in comandas, tables are merged and split, and the        *)
(* account is paid (whole or in part), cancelled or voided.                *)
(*                                                                         *)
(* Every operation reads the session, checks it, and writes rows by their  *)
(* id in a transaction that repeats none of the checks.  An action is the  *)
(* code between two awaits that matter: the reads of an operation are one  *)
(* step, except the count of the orders a number comes from, which stands  *)
(* between the session's read and the write and is what the unique index   *)
(* on the number catches.                                                  *)
(*                                                                         *)
(* Left out: a reserved table only refuses an account; the statuses of a   *)
(* table follow its account and no guard here reads them; every dish costs *)
(* one, so that a total counts dishes; an item that is SENT, READY or      *)
(* SERVED is "SENT", no guard tells them apart.                            *)
(***************************************************************************)
EXTENDS Integers, FiniteSets

CONSTANTS
  Tables, Sessions, Items,
  Requests,        \* slots for requests served at the same time
  Cooks,           \* slots for status changes of comandas served at the same time
  None,            \* no session
  MaxNumber,       \* bound: orders of the day
  MaxOthers,       \* bound: orders of the day that other channels create
  MaxRequests      \* bound: requests of a behaviour, the kitchen's among them

ASSUME TableAssumption ==
  /\ None \notin Sessions /\ IsFiniteSet(Items)
  /\ MaxNumber \in Nat /\ MaxOthers \in Nat /\ MaxRequests \in Nat

Numbers == 1..MaxNumber

VARIABLES
  session,         \* TableSession: status, primary table and total
  holder,          \* Table.currentSessionId
  item,            \* TableSessionItem: account, kitchen status, comanda, payment
  order,           \* Order rows by their number
  req,             \* the running requests
  cook,            \* the running status changes: of which comanda, to which status
  started,         \* how many requests there have been, the kitchen's among them
  stale,           \* history: accounts a write has reached whose checks no longer held
  outrun           \* history: running requests with a lower sum than one saved since

vars == <<session, holder, item, order, req, cook, started, stale, outrun>>
history == <<stale, outrun>>

Ops == {"idle", "open", "add", "addAndSend", "send", "pay", "cancel", "merge",
        "unmerge", "void", "list"}
Steps == {"idle", "count", "write", "sum", "save", "resend"}

Request == [op : Ops, step : Steps, s : Sessions \cup {None},
            tables : SUBSET Tables, items : SUBSET Items, rest : SUBSET Items,
            sessions : SUBSET Sessions, orders : SUBSET Numbers, n : Nat]
Idle == [op |-> "idle", step |-> "idle", s |-> None, tables |-> {}, items |-> {},
         rest |-> {}, sessions |-> {}, orders |-> {}, n |-> 0]

\* The statuses a comanda can be given: PREPARING writes what READY does here
Statuses == {"CONFIRMED", "READY", "DELIVERED", "CANCELLED"}
Change == [n : Numbers \cup {0}, to : Statuses]
NoChange == [n |-> 0, to |-> "READY"]

TypeOK ==
  /\ session \in [Sessions -> [status : {"NEW", "OPEN", "CLOSED", "CANCELLED"},
                               table : Tables, total : Nat]]
  /\ holder \in [Tables -> Sessions \cup {None}]
  /\ item \in [Items -> [session : Sessions \cup {None},
                         kitchen : {"NEW", "PENDING", "SENT", "CANCELLED"},
                         comanda : Numbers \cup {0}, paidIn : Numbers \cup {0}]]
  /\ order \in [Numbers -> [kind : {"FREE", "COMANDA", "FINAL", "OTHER"},
                            status : {"LIVE", "DELIVERED", "CANCELLED"},
                            session : Sessions \cup {None}, items : SUBSET Items]]
  /\ req \in [Requests -> Request]
  /\ cook \in [Cooks -> Change]
  /\ started \in 0..MaxRequests
  /\ stale \subseteq Sessions
  /\ outrun \subseteq Requests

Init ==
  /\ session \in [Sessions -> [status : {"NEW"}, table : Tables, total : {0}]]
  /\ holder = [t \in Tables |-> None]
  /\ item = [i \in Items |-> [session |-> None, kitchen |-> "NEW", comanda |-> 0, paidIn |-> 0]]
  /\ order = [n \in Numbers |-> [kind |-> "FREE", status |-> "LIVE", session |-> None, items |-> {}]]
  /\ req = [r \in Requests |-> Idle]
  /\ cook = [c \in Cooks |-> NoChange]
  /\ started = 0
  /\ stale = {}
  /\ outrun = {}

-----------------------------------------------------------------------------
(* What the handlers compute from the session they read *)

Open(s) == s # None /\ session[s].status = "OPEN"
ItemsOf(s) == {i \in Items : item[i].session = s}
\* (mutant) a charged dish stays payable
Chargeable(s) == {i \in ItemsOf(s) : item[i].kitchen # "CANCELLED"}
\* getUnpaidItems
Unpaid(s) == {i \in ItemsOf(s) : item[i].kitchen # "CANCELLED" /\ item[i].paidIn = 0}

Pending(s) == {i \in ItemsOf(s) : item[i].kitchen = "PENDING"}
Comandas(s) == {item[i].comanda : i \in ItemsOf(s)} \ {0}
Used == {n \in Numbers : order[n].kind # "FREE"}
Payments(i) == {n \in Numbers : order[n].kind = "FINAL" /\ i \in order[n].items}

\* The checks of each operation
CanOpen(t) == holder[t] = None
CanSend(s, I) == Open(s) /\ I # {} /\ I \subseteq Pending(s)
CanPay(s, I) == Open(s) /\ I # {} /\ I \subseteq Unpaid(s) /\ I \cap Pending(s) = {}
CanCancel(s) == Open(s) /\ ItemsOf(s) = Pending(s)
Absorbed(T) == {holder[t] : t \in T} \ {None}
CanMerge(s, T) ==
  /\ Open(s) /\ T # {} /\ session[s].table \notin T
  /\ \A t \in T : holder[t] # s /\ (holder[t] # None => Open(holder[t]))
CanUnmerge(s, t) == Open(s) /\ t # session[s].table /\ holder[t] = s

\* What the write of r relied on, at the moment it writes
StillHolds(r) ==
  LET q == req[r] IN
  CASE q.op = "open"     -> \A t \in q.tables : CanOpen(t)
    [] q.op = "send"     -> CanSend(q.s, q.items)
    [] q.op = "pay"      -> CanPay(q.s, q.items) /\ q.rest = Unpaid(q.s) \ q.items
    [] q.op = "cancel"   -> CanCancel(q.s)
    [] q.op = "merge"    -> /\ \A f \in q.sessions \cup {q.s} : Open(f)
                            /\ \A t \in q.tables : CanOpen(t)
    [] q.op = "unmerge"  -> \A t \in q.tables : CanUnmerge(q.s, t)
    [] q.op = "void"     -> Open(q.s) /\ q.orders = Comandas(q.s)
    [] OTHER             -> Open(q.s)

-----------------------------------------------------------------------------
(* Requests in flight *)

At(r, op, step) == req[r].op = op /\ req[r].step = step
Start(r, q) ==
  /\ At(r, "idle", "idle") /\ started < MaxRequests
  /\ started' = started + 1
  /\ req' = [req EXCEPT ![r] = q]
Become(r, q) == req' = [req EXCEPT ![r] = q] /\ UNCHANGED started
GoTo(r, step) == Become(r, [req[r] EXCEPT !.step = step])
Finish(r) == Become(r, Idle)

\* History: the accounts S were written by a request whose checks were right or not
Wrote(S, right) ==
  LET T == S \ {None} IN
  /\ stale' = IF right /\ T \cap stale = {} THEN stale ELSE stale \cup T
  /\ UNCHANGED outrun

rows == <<session, holder, item, order>>
Reading(r, q) == Start(r, q) /\ UNCHANGED <<rows, cook, history>>

\* open: the table has no account; the count of the session number is not unique
ReadTable(r) == \E t \in Tables :
  /\ CanOpen(t)
  /\ Reading(r, [Idle EXCEPT !.op = "open", !.step = "write", !.tables = {t}])

OpenSession(r) == \E s \in Sessions, t \in req[r].tables :
  /\ At(r, "open", "write") /\ session[s].status = "NEW" /\ session[s].table = t
  /\ session' = [session EXCEPT ![s].status = "OPEN"]
  /\ holder' = [holder EXCEPT ![t] = s]
  /\ Wrote({s, holder[t]}, StillHolds(r))
  /\ Finish(r) /\ UNCHANGED <<item, order, cook>>

\* addItems
ReadForItems(r) == \E s \in Sessions, op \in {"add", "addAndSend"} :
  /\ Open(s)
  /\ Reading(r, [Idle EXCEPT !.op = op, !.step = "write", !.s = s])

AddItems(r) == \E I \in SUBSET {i \in Items : item[i].session = None} :
  /\ req[r].op \in {"add", "addAndSend"} /\ req[r].step = "write" /\ I # {}
  /\ item' = [i \in Items |->
       IF i \in I THEN [item[i] EXCEPT !.session = req[r].s, !.kitchen = "PENDING"]
                  ELSE item[i]]
  /\ Wrote({req[r].s}, StillHolds(r))
  /\ GoTo(r, "sum") /\ UNCHANGED <<session, holder, order, cook>>

\* recalculateTotals, of addItems and mergeTables
SumItems(r) ==
  /\ req[r].step = "sum"
  /\ Become(r, [req[r] EXCEPT !.step = "save", !.n = Cardinality(Unpaid(req[r].s))])
  /\ UNCHANGED <<rows, cook, history>>

\* The requests that have still to save a lower sum of the account than r
Slower(r) == {v \in Requests : /\ req[v].step = "save" /\ req[v].s = req[r].s
                               /\ req[v].n < req[r].n}

\* The account is no longer sound when a higher sum was saved before this one.
SaveTotal(r) ==
  LET s == req[r].s IN
  /\ req[r].step = "save"
  /\ session' = [session EXCEPT ![s].total = req[r].n]
  /\ stale' = IF r \in outrun THEN stale \cup {s} ELSE stale
  /\ outrun' = (outrun \ {r}) \cup Slower(r)
  /\ IF req[r].op = "addAndSend" THEN GoTo(r, "resend") ELSE Finish(r)
  /\ UNCHANGED <<holder, item, order, cook>>

\* sendToKitchen
ReadForKitchen(r) == \E s \in Sessions, I \in SUBSET Items :
  /\ CanSend(s, I)
  /\ Reading(r, [Idle EXCEPT !.op = "send", !.step = "count", !.s = s, !.items = I])

\* sendToKitchen at the end of addItems, of all the pending dishes: it may throw
SendAdded(r) ==
  LET s == req[r].s IN
  /\ req[r].step = "resend"
  /\ IF CanSend(s, Pending(s))
       THEN Become(r, [Idle EXCEPT !.op = "send", !.step = "count",
                                   !.s = s, !.items = Pending(s)])
       ELSE Finish(r)
  /\ UNCHANGED <<rows, cook, history>>

\* generateOrderNumber, of sendToKitchen and close
CountOrders(r) ==
  /\ req[r].step = "count" /\ Cardinality(Used) < MaxNumber
  /\ Become(r, [req[r] EXCEPT !.step = "write", !.n = Cardinality(Used) + 1])
  /\ UNCHANGED <<rows, cook, history>>

SendComanda(r) ==
  LET q == req[r] IN
  /\ At(r, "send", "write") /\ order[q.n].kind = "FREE"
  /\ order' = [order EXCEPT ![q.n] = [kind |-> "COMANDA", status |-> "LIVE",
                                      session |-> q.s, items |-> q.items]]
  /\ item' = [i \in Items |->
       IF i \in q.items THEN [item[i] EXCEPT !.kitchen = "SENT", !.comanda = q.n]
                        ELSE item[i]]
  /\ Wrote({q.s} \cup {item[i].session : i \in q.items}, StillHolds(r))
  /\ Finish(r) /\ UNCHANGED <<session, holder, cook>>

\* close, of the chosen dishes or of all: partial when some stay unpaid
ReadForPayment(r) == \E s \in Sessions, I \in SUBSET Items :
  /\ CanPay(s, I)
  /\ Reading(r, [Idle EXCEPT !.op = "pay", !.step = "count", !.s = s, !.items = I,
                             !.rest = Unpaid(s) \ I])

\* (mutant) only the primary table is released
ReleasePrimary(s) == [holder EXCEPT ![session[s].table] = None]
Release(s) == [t \in Tables |-> IF holder[t] = s THEN None ELSE holder[t]]

\* The body of close: what the account's total becomes, and whether it ends
Pay(r, total, last) ==
  LET q == req[r] IN
  /\ At(r, "pay", "write") /\ order[q.n].kind = "FREE"
  /\ order' = [order EXCEPT ![q.n] = [kind |-> "FINAL", status |-> "LIVE",
                                      session |-> q.s, items |-> q.items]]
  /\ item' = [i \in Items |->
       IF i \in q.items THEN [item[i] EXCEPT !.kitchen = "SENT", !.paidIn = q.n]
                        ELSE item[i]]
  /\ session' = [session EXCEPT ![q.s].total = total,
                                ![q.s].status = IF last THEN "CLOSED" ELSE @]
  /\ holder' = IF last THEN Release(q.s) ELSE holder
  /\ Wrote({q.s} \cup {item[i].session : i \in q.items}, StillHolds(r))
  /\ Finish(r) /\ UNCHANGED cook

\* (mutant) any payment closes the account
PaySessionWhole(r) == Pay(r, Cardinality(req[r].items), TRUE)
\* (mutant) a partial payment is subtracted from the total
PaySessionSubtracting(r) ==
  Pay(r, session[req[r].s].total - Cardinality(req[r].items), req[r].rest = {})

PaySession(r) ==
  Pay(r, Cardinality(IF req[r].rest = {} THEN req[r].items ELSE req[r].rest),
      req[r].rest = {})

\* cancel, of an account that sent nothing
ReadForCancel(r) == \E s \in Sessions :
  /\ CanCancel(s)
  /\ Reading(r, [Idle EXCEPT !.op = "cancel", !.step = "write", !.s = s])

CancelSession(r) ==
  LET s == req[r].s IN
  /\ At(r, "cancel", "write")
  /\ session' = [session EXCEPT ![s].status = "CANCELLED"]
  /\ holder' = Release(s)
  /\ Wrote({s}, StillHolds(r))
  /\ Finish(r) /\ UNCHANGED <<item, order, cook>>

\* mergeTables: free tables join the account, accounts on the others are absorbed
ReadForMerge(r) == \E s \in Sessions, T \in SUBSET Tables :
  /\ CanMerge(s, T)
  /\ Reading(r, [Idle EXCEPT !.op = "merge", !.step = "write", !.s = s,
                 !.tables = {t \in T : holder[t] = None}, !.sessions = Absorbed(T)])

Merge(r, ordersToo, step) ==
  LET q == req[r]
      F == q.sessions
  IN
  /\ At(r, "merge", "write")
  /\ item' = [i \in Items |-> IF item[i].session \in F
                               THEN [item[i] EXCEPT !.session = q.s] ELSE item[i]]
  /\ order' = [n \in Numbers |-> IF ordersToo /\ order[n].session \in F
                                  THEN [order[n] EXCEPT !.session = q.s] ELSE order[n]]
  /\ holder' = [t \in Tables |-> IF holder[t] \in F \/ t \in q.tables THEN q.s ELSE holder[t]]
  /\ session' = [s \in Sessions |-> IF s \in F
                   THEN [session[s] EXCEPT !.status = "CANCELLED", !.total = 0] ELSE session[s]]
  /\ Wrote({q.s} \cup F \cup {holder[t] : t \in q.tables}, StillHolds(r))
  /\ Become(r, IF step = "idle" THEN Idle ELSE [q EXCEPT !.step = step])
  /\ UNCHANGED cook

\* (mutant) the orders of an absorbed account keep its id
MergeWithoutOrders(r) == Merge(r, FALSE, "sum")
\* (mutant) the totals are not recalculated
MergeWithoutTotals(r) == Merge(r, TRUE, "idle")

MergeTables(r) == Merge(r, TRUE, "sum")

\* unmergeTable: the primary table stays
ReadForUnmerge(r) == \E s \in Sessions, t \in Tables :
  /\ CanUnmerge(s, t)
  /\ Reading(r, [Idle EXCEPT !.op = "unmerge", !.step = "write", !.s = s, !.tables = {t}])

UnmergeTable(r) == \E t \in req[r].tables :
  /\ At(r, "unmerge", "write")
  /\ holder' = [holder EXCEPT ![t] = None]
  /\ Wrote({req[r].s, holder[t]}, StillHolds(r))
  /\ Finish(r) /\ UNCHANGED <<session, item, order, cook>>

\* voidSession: the comandas it read are cancelled if the kitchen has not finished
ReadForVoid(r) == \E s \in Sessions :
  /\ Open(s)
  /\ Reading(r, [Idle EXCEPT !.op = "void", !.step = "write", !.s = s,
                             !.orders = Comandas(s)])

Void(r, dropped) ==
  LET s == req[r].s IN
  /\ At(r, "void", "write")
  /\ order' = [n \in Numbers |-> IF n \in req[r].orders /\ order[n].status = "LIVE"
                                  THEN [order[n] EXCEPT !.status = "CANCELLED"] ELSE order[n]]
  /\ item' = [i \in Items |-> IF i \in dropped
                               THEN [item[i] EXCEPT !.kitchen = "CANCELLED", !.paidIn = 0]
                               ELSE item[i]]
  /\ session' = [session EXCEPT ![s].status = "CANCELLED"]
  /\ holder' = Release(s)
  /\ Wrote({s}, StillHolds(r))
  /\ Finish(r) /\ UNCHANGED cook

\* (mutant) the dishes a partial payment covered are voided with the others
VoidSessionWithPaid(r) == Void(r, ItemsOf(req[r].s))

VoidSession(r) == Void(r, {i \in ItemsOf(req[r].s) : item[i].paidIn = 0})

\* repairOpenSessionTableLinks, at the start of every listing of the tables: the
\* primary table of each account read as open is linked to it, one after another
ListTables(r) ==
  LET S == {s \in Sessions : Open(s)} IN
  /\ S # {}
  /\ Reading(r, [Idle EXCEPT !.op = "list", !.step = "write", !.sessions = S])

RelinkTable(r) == \E s \in req[r].sessions :
  LET t == session[s].table IN
  /\ At(r, "list", "write")
  /\ holder' = [holder EXCEPT ![t] = s]
  /\ Wrote({s, holder[t]}, Open(s))
  /\ IF req[r].sessions = {s}
       THEN Finish(r)
       ELSE Become(r, [req[r] EXCEPT !.sessions = @ \ {s}])
  /\ UNCHANGED <<session, item, order, cook>>

-----------------------------------------------------------------------------
(* The kitchen, the other channels, and failures *)

\* updateStatus of the orders service on a comanda: it reads the order and checks the
\* transition, and then writes the order by its id, and every dish that names the
\* order, in a transaction that looks at neither again
ReadComanda(c) == \E n \in Numbers, to \in Statuses :
  /\ cook[c] = NoChange /\ order[n].kind = "COMANDA" /\ order[n].status = "LIVE"
  /\ started < MaxRequests /\ started' = started + 1
  /\ cook' = [cook EXCEPT ![c] = [n |-> n, to |-> to]]
  /\ UNCHANGED <<rows, req, history>>

UpdateComanda(c) ==
  LET n == cook[c].n
      to == cook[c].to
      kitchen == IF to = "CANCELLED" THEN "CANCELLED" ELSE "SENT"
  IN
  /\ n # 0
  /\ order' = [order EXCEPT ![n].status = IF to \in {"CONFIRMED", "READY"} THEN "LIVE" ELSE to]
  /\ item' = [i \in Items |-> IF item[i].comanda = n /\ to # "CONFIRMED"
                               THEN [item[i] EXCEPT !.kitchen = kitchen] ELSE item[i]]
  /\ Wrote({item[i].session : i \in {j \in Items : item[j].comanda = n}},
           order[n].status = "LIVE")
  /\ cook' = [cook EXCEPT ![c] = NoChange]
  /\ UNCHANGED <<session, holder, req, started>>

\* any other order of the day, which may hold a number given out before; it matters
\* only to the requests that counted the orders and have still to write theirs
OtherOrder(n) ==
  /\ order[n].kind = "FREE"
  /\ \E r \in Requests : req[r].step = "write" /\ req[r].n # 0
  /\ Cardinality({m \in Numbers : order[m].kind = "OTHER"}) < MaxOthers
  /\ order' = [order EXCEPT ![n].kind = "OTHER"]
  /\ UNCHANGED <<session, holder, item, req, cook, started, history>>

\* the number is taken, a query rejects, or the process stops: what the request has
\* committed stays, and totals it had still to write are missing.  A request that
\* fails before it writes leaves no trace and is one that was never made.
Fail(r) ==
  /\ \/ req[r].step \in {"sum", "save", "resend"}
     \/ req[r].op = "list"
     \/ req[r].step = "write" /\ req[r].n # 0 /\ order[req[r].n].kind # "FREE"
  /\ stale' = IF req[r].step \in {"sum", "save"} THEN stale \cup {req[r].s} ELSE stale
  /\ outrun' = outrun \ {r}
  /\ Finish(r) /\ UNCHANGED <<rows, cook>>

Serve(r) ==
  \/ ReadTable(r) \/ OpenSession(r)
  \/ ReadForItems(r) \/ AddItems(r) \/ SumItems(r) \/ SaveTotal(r)
  \/ ReadForKitchen(r) \/ SendAdded(r) \/ CountOrders(r) \/ SendComanda(r)
  \/ ReadForPayment(r) \/ PaySession(r)
  \/ ReadForCancel(r) \/ CancelSession(r)
  \/ ReadForMerge(r) \/ MergeTables(r)
  \/ ReadForUnmerge(r) \/ UnmergeTable(r)
  \/ ReadForVoid(r) \/ VoidSession(r)
  \/ ListTables(r) \/ RelinkTable(r)
  \/ Fail(r)

Next ==
  \/ \E r \in Requests : Serve(r)
  \/ \E c \in Cooks : ReadComanda(c) \/ UpdateComanda(c)
  \/ \E n \in Numbers : OtherOrder(n)

Spec == Init /\ [][Next]_vars

-----------------------------------------------------------------------------
(* Properties.  An account is sound while every write that reached it found  *)
(* what its request had checked: the property a conditional write would give. *)
(* A total is written unconditionally: it is out of order when a higher sum   *)
(* was saved since the request added its own up.                              *)

Sound == Sessions \ stale

\* No dish of a sound account is charged twice, and a charged dish is marked so:
\* the checks of close are enough as long as nothing comes between them and the write.
ChargedOnce ==
  \A i \in Items : item[i].session \in Sound =>
    Payments(i) = IF item[i].paidIn = 0 THEN {} ELSE {item[i].paidIn}

\* A sound account is only closed when nothing is owed, and one that was cancelled
\* or absorbed keeps no dish in the kitchen's hands that nobody pays, whatever the
\* kitchen answers in the meantime.
ClosedOwesNothing ==
  \A s \in Sound :
    /\ session[s].status = "CLOSED" => Unpaid(s) = {}
    /\ session[s].status = "CANCELLED" => Unpaid(s) = Pending(s)

\* A dish of a sound account is cooked once: it is in one comanda at most, the one
\* it names, and the orders of the account move with its dishes when it is absorbed.
CookedOnce ==
  \A n \in Numbers, i \in Items :
    (order[n].kind = "COMANDA" /\ i \in order[n].items /\ item[i].session \in Sound) =>
      /\ item[i].comanda = n
      /\ order[n].session = item[i].session

\* A table is held by an open account, and an open account holds its own table.
TablesFollowAccounts ==
  \A s \in Sound :
    /\ session[s].status = "OPEN" => holder[session[s].table] = s
    /\ \A t \in Tables : holder[t] = s => session[s].status = "OPEN"

\* The total of an open account, once no request is on its way to save one, covers all
\* that is owed, through the saves of several requests, payments in part, merges and
\* the kitchen's refusals: only a lower sum saved after a higher one, or a request that
\* failed before it saved, can leave it short.
TotalCoversUnpaid ==
  \A s \in Sound :
    (session[s].status = "OPEN"
       /\ \A r \in Requests : ~(req[r].s = s /\ req[r].step \in {"sum", "save"}))
      => session[s].total >= Cardinality(Unpaid(s))

\* Whatever overlaps, what was charged stays charged, in an order that lists it.
ChargeStays ==
  [][\A i \in Items : item[i].paidIn # 0 =>
       item'[i].paidIn # 0 /\ i \in order'[item'[i].paidIn].items]_vars
=============================================================================
