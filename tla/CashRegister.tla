---------------------------- MODULE CashRegister ----------------------------
(***************************************************************************)
(* The cash registers of a restaurant: the partial register of the salon   *)
(* and the main one, which takes the cash that closing a partial deposits. *)
(*                                                                         *)
(* Every request reads the open register and then writes by its id, asking *)
(* nothing more: by then it may be closed, or another one opened.  A sale  *)
(* is recorded after the payment has been committed.  Amounts are small    *)
(* integers; reports, notes, terminals and events are left out.            *)
(***************************************************************************)
EXTENDS Integers, FiniteSets

CONSTANTS
  Workers,        \* slots for requests that run at the same time
  Floats,         \* opening floats
  SaleAmount,     \* what a sale brings
  Counts,         \* what a closing may count
  MaxRegisters,   \* bound: registers ever opened
  MaxRequests,    \* bound: requests
  MaxFaults       \* bound: requests that fail or are cut off

ASSUME CashAssumption ==
  /\ Floats \subseteq Nat /\ Counts \subseteq Nat /\ SaleAmount \in Nat
  /\ MaxRegisters \in Nat /\ MaxRequests \in Nat /\ MaxFaults \in Nat

VARIABLES
  reg,            \* the CashRegisterSession rows, by order of opening
  rows,           \* for each register, the sum of its CashMovement rows but adjustments
  deposits,       \* for each register, how many DEPOSIT rows come from it
  worker,         \* the requests that run
  requests, faults,
  disturbed       \* history: registers written after what their writer had read changed

vars == <<reg, rows, deposits, worker, requests, faults, disturbed>>

Levels == {"PARTIAL", "MAIN"}
Registers == 1..MaxRegisters
Unopened == [level |-> "PARTIAL", status |-> "NONE", expected |-> 0, counted |-> 0,
             difference |-> 0, deposit |-> 0]
Idle == [op |-> "none", level |-> "PARTIAL", reg |-> 0, amount |-> 0, deposit |-> 0,
         expected |-> 0, from |-> 0, fresh |-> TRUE]
Ops == {"none", "open", "close", "move", "main", "deposit"}

TypeOK ==
  /\ reg \in [Registers -> [level : Levels, status : {"NONE", "OPEN", "CLOSED"},
                            expected : Int, counted : Nat, difference : Int, deposit : Nat]]
  /\ rows \in [Registers -> Int] /\ deposits \in [Registers -> Nat]
  /\ worker \in [Workers -> [op : Ops, level : Levels, reg : 0..MaxRegisters, amount : Int,
                             deposit : Nat, expected : Int, from : 0..MaxRegisters,
                             fresh : BOOLEAN]]
  /\ requests \in 0..MaxRequests /\ faults \in 0..MaxFaults
  /\ disturbed \subseteq Registers

Init ==
  /\ reg = [r \in Registers |-> Unopened]
  /\ rows = [r \in Registers |-> 0] /\ deposits = [r \in Registers |-> 0]
  /\ worker = [w \in Workers |-> Idle]
  /\ requests = 0 /\ faults = 0 /\ disturbed = {}

-----------------------------------------------------------------------------
(* Reading the open register *)

OpenOf(level) == {r \in Registers : reg[r].status = "OPEN" /\ reg[r].level = level}
Opened == {r \in Registers : reg[r].status # "NONE"}

\* (mutant) the query forgets the status
LastOpened(level) ==
  LET of == {r \in Opened : reg[r].level = level} IN
  IF of = {} THEN 0 ELSE CHOOSE r \in of : \A q \in of : q <= r

\* getOpenSessionRecord, getOpenMainRecord: the one opened last, or none
Current(level) ==
  LET of == OpenOf(level) IN
  IF of = {} THEN 0 ELSE CHOOSE r \in of : \A q \in of : q <= r

Is(w, op) == worker[w].op = op

\* The worker goes on; what stale(v) tells of another's reading no longer holds
Goes(w, next, stale(_)) ==
  worker' = [v \in Workers |->
    IF v = w THEN next
    ELSE IF stale(worker[v]) THEN [worker[v] EXCEPT !.fresh = FALSE] ELSE worker[v]]
InTime(w, r) == disturbed' = IF worker[w].fresh THEN disturbed ELSE disturbed \cup {r}

Start(w, q) ==
  /\ Is(w, "none")
  /\ requests < MaxRequests /\ requests' = requests + 1
  /\ worker' = [worker EXCEPT ![w] = q]
  /\ UNCHANGED <<reg, rows, deposits, faults, disturbed>>

\* (mutant) a second register of the level may be opened
ReadForAnother(w) == \E level \in Levels, float \in Floats :
  Start(w, [Idle EXCEPT !.op = "open", !.level = level, !.amount = float])

ReadForOpen(w) == \E level \in Levels, float \in Floats :
  /\ Current(level) = 0
  /\ Start(w, [Idle EXCEPT !.op = "open", !.level = level, !.amount = float])

\* The difference is taken from what the register expects now; only a partial deposits
ReadForClose(w) == \E level \in Levels, counted \in Counts : \E deposit \in 0..counted :
  LET r == Current(level) IN
  /\ r # 0 /\ (level = "MAIN" => deposit = 0)
  /\ Start(w, [Idle EXCEPT !.op = "close", !.level = level, !.reg = r, !.amount = counted,
                 !.deposit = deposit, !.expected = reg[r].expected])

\* addMovement: a deposit or a withdrawal
ReadForMovement(w) == \E level \in Levels, amount \in {1, -1} :
  LET r == Current(level) IN
  /\ r # 0
  /\ Start(w, [Idle EXCEPT !.op = "move", !.level = level, !.reg = r, !.amount = amount,
                 !.expected = reg[r].expected])

\* recordSale: a payment was committed; without a register it is not recorded
ReadForSale(w) ==
  LET r == Current("PARTIAL") IN
  /\ r # 0
  /\ Start(w, [Idle EXCEPT !.op = "move", !.reg = r, !.amount = SaleAmount,
                 !.expected = reg[r].expected])

-----------------------------------------------------------------------------
(* Writing by its id *)

OpenRegister(w) ==
  LET q == worker[w]
      r == Cardinality(Opened) + 1
      other(v) == v.op = "open" /\ v.level = q.level
  IN
  /\ Is(w, "open") /\ r \in Registers
  /\ reg' = [reg EXCEPT ![r] = [Unopened EXCEPT !.level = q.level, !.status = "OPEN",
                                               !.expected = q.amount]]
  /\ rows' = [rows EXCEPT ![r] = q.amount]
  /\ InTime(w, r)
  /\ Goes(w, Idle, other)
  /\ UNCHANGED <<deposits, requests, faults>>

\* (mutant) the new sum is computed from the register that was read
SetExpected(w, amount) ==
  LET r == worker[w].reg IN
  /\ reg' = [reg EXCEPT ![r].expected = worker[w].expected + amount]
  /\ rows' = [rows EXCEPT ![r] = @ + amount]

\* A movement and the increment of expectedCash, in one transaction
AddMovement(w, amount) ==
  LET r == worker[w].reg IN
  /\ reg' = [reg EXCEPT ![r].expected = @ + amount]
  /\ rows' = [rows EXCEPT ![r] = @ + amount]

RecordMovement(w) ==
  LET q == worker[w]
      closing(v) == v.op = "close" /\ v.reg = q.reg
  IN
  /\ Is(w, "move")
  /\ AddMovement(w, q.amount)
  /\ InTime(w, q.reg)
  /\ Goes(w, Idle, closing)
  /\ UNCHANGED <<deposits, requests, faults>>

\* (mutant) what was counted and the difference are swapped
CloseSwapped(w) ==
  LET q == worker[w]
      holding(v) == v.reg = q.reg
  IN
  /\ Is(w, "close")
  /\ reg' = [reg EXCEPT ![q.reg].status = "CLOSED", ![q.reg].difference = q.amount,
                        ![q.reg].counted = q.amount - q.expected,
                        ![q.reg].deposit = q.deposit]
  /\ InTime(w, q.reg)
  /\ Goes(w, Idle, holding)
  /\ UNCHANGED <<rows, deposits, requests, faults>>

CloseRegister(w) ==
  LET q == worker[w]
      holding(v) == v.reg = q.reg
  IN
  /\ Is(w, "close")
  /\ reg' = [reg EXCEPT ![q.reg].status = "CLOSED", ![q.reg].counted = q.amount,
                        ![q.reg].difference = q.amount - q.expected,
                        ![q.reg].deposit = q.deposit]
  /\ InTime(w, q.reg)
  /\ Goes(w, IF q.deposit = 0 THEN Idle
             ELSE [Idle EXCEPT !.op = "main", !.deposit = q.deposit, !.from = q.reg],
          holding)
  /\ UNCHANGED <<rows, deposits, requests, faults>>

\* depositFromPartial asks for the main register when the partial is already closed
FindMain(w) ==
  LET main == Current("MAIN") IN
  /\ Is(w, "main")
  /\ worker' = [worker EXCEPT ![w] =
       IF main = 0 THEN Idle
       ELSE [@ EXCEPT !.op = "deposit", !.reg = main, !.expected = reg[main].expected]]
  /\ UNCHANGED <<reg, rows, deposits, requests, faults, disturbed>>

DepositFromPartial(w) ==
  LET q == worker[w]
      closing(v) == v.op = "close" /\ v.reg = q.reg
  IN
  /\ Is(w, "deposit")
  /\ AddMovement(w, q.deposit)
  /\ deposits' = [deposits EXCEPT ![q.from] = @ + 1]
  /\ InTime(w, q.reg)
  /\ Goes(w, Idle, closing)
  /\ UNCHANGED <<requests, faults>>

\* A query rejects, or the process stops
Fail(w) ==
  /\ ~Is(w, "none") /\ faults < MaxFaults
  /\ faults' = faults + 1
  /\ worker' = [worker EXCEPT ![w] = Idle]
  /\ UNCHANGED <<reg, rows, deposits, requests, disturbed>>

Next == \E w \in Workers :
  \/ ReadForOpen(w) \/ ReadForClose(w) \/ ReadForMovement(w) \/ ReadForSale(w)
  \/ OpenRegister(w) \/ RecordMovement(w) \/ CloseRegister(w)
  \/ FindMain(w) \/ DepositFromPartial(w) \/ Fail(w)

Spec == Init /\ [][Next]_vars

-----------------------------------------------------------------------------
(* Properties.  A register is sound unless it was written after what its      *)
(* writer had read of it changed.                                             *)

Sound == Registers \ disturbed

\* Whatever requests overlap, what a register expects is the sum of its movements.
LedgerAgrees == \A r \in Registers : reg[r].expected = rows[r]

\* The difference a closing reports stays the difference between what was counted
\* and what the movements of the register add up to.
DifferenceStands ==
  \A r \in Sound : reg[r].status = "CLOSED" => reg[r].difference = reg[r].counted - rows[r]

\* `Ya hay una caja abierta': one open register of each level.
OneOpenRegister == \A level \in Levels : Cardinality(OpenOf(level) \ disturbed) <= 1

\* The deposit of a closing reaches the main register once at most, and no register
\* has a deposit that its closing did not make.
DepositedOnce ==
  \A r \in Sound :
    /\ deposits[r] <= 1
    /\ deposits[r] = 1 => reg[r].status = "CLOSED" /\ reg[r].deposit > 0
=============================================================================
