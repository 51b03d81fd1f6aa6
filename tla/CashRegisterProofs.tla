------------------------- MODULE CashRegisterProofs -------------------------
(***************************************************************************)
(* Theorems about CashRegister, for every set of workers, floats and       *)
(* counts and every bound.                                                 *)
(***************************************************************************)
EXTENDS CashRegister, FiniteSetTheorems, WellFoundedInduction, TLAPS

-----------------------------------------------------------------------------
(* The open register of a level.                                           *)

\* Among some registers there is one that was opened last.
LEMMA LastExists ==
  ASSUME CashAssumption, NEW S \in SUBSET Registers, S # {}
  PROVE  \E r \in S : \A q \in S : q <= r
<1> DEFINE R == OpToRel(<, Nat)
           T == {MaxRegisters - r : r \in S}
<1>1. S \subseteq 1..MaxRegisters /\ MaxRegisters \in Nat
  BY DEF CashAssumption, Registers
<1>2. T \subseteq Nat /\ T # {}
  <2>1. \A r \in S : MaxRegisters - r \in Nat
    BY <1>1
  <2>2. PICK r \in S : TRUE
    OBVIOUS
  <2>3. MaxRegisters - r \in T
    OBVIOUS
  <2> QED BY <2>1, <2>3
<1>3. PICK x \in T : \A y \in T : <<y, x>> \notin R
  <2> HIDE DEF R, T
  <2>1. IsWellFoundedOn(R, Nat)
    BY NatLessThanWellFounded DEF R
  <2> QED BY <2>1, <1>2, WFMin
<1>4. PICK r \in S : x = MaxRegisters - r
  BY <1>3
<1>5. \A q \in S : q <= r
  <2> SUFFICES ASSUME NEW q \in S, ~(q <= r)  PROVE FALSE
    OBVIOUS
  <2>1. MaxRegisters - q \in T /\ MaxRegisters - q \in Nat /\ x \in Nat /\ MaxRegisters - q < x
    BY <1>1, <1>4
  <2>2. <<MaxRegisters - q, x>> \in R
    BY <2>1 DEF OpToRel
  <2> QED BY <1>3, <2>1, <2>2
<1> QED BY <1>5

\* Reading the open register gives 0 when there is none, and else an open one.
LEMMA CurrentIsOpen ==
  ASSUME CashAssumption, NEW level
  PROVE  /\ Current(level) = 0 <=> OpenOf(level) = {}
         /\ OpenOf(level) # {} => Current(level) \in OpenOf(level)
<1>1. CASE OpenOf(level) = {}
  BY <1>1 DEF Current
<1>2. CASE OpenOf(level) # {}
  <2>1. OpenOf(level) \in SUBSET Registers
    BY DEF OpenOf
  <2>2. \E r \in OpenOf(level) : \A q \in OpenOf(level) : q <= r
    BY <1>2, <2>1, LastExists
  <2>3. Current(level) \in OpenOf(level)
    BY <1>2, <2>2 DEF Current
  <2>4. 0 \notin Registers
    BY DEF Registers, CashAssumption
  <2> QED BY <1>2, <2>1, <2>3, <2>4
<1> QED BY <1>1, <1>2

-----------------------------------------------------------------------------
(* Types.  A request that writes knows its register, one that deposits the *)
(* partial it comes from.                                                  *)

Wired(q) ==
  /\ q.op \in {"close", "move", "deposit"} => q.reg \in Registers
  /\ q.op \in {"main", "deposit"} => q.from \in Registers
  /\ q.op \in {"open", "close"} => q.amount \in Nat
Request == [op : Ops, level : Levels, reg : 0..MaxRegisters, amount : Int, deposit : Nat,
            expected : Int, from : 0..MaxRegisters, fresh : BOOLEAN]
TypeInv == TypeOK /\ \A w \in Workers : Wired(worker[w])

LEMMA RegisterFacts ==
  ASSUME CashAssumption
  PROVE  0 \in 0..MaxRegisters /\ 0 \notin Registers /\ Registers \subseteq 0..MaxRegisters
BY DEF CashAssumption, Registers

\* What is read of the open register has the right type.
LEMMA CurrentType ==
  ASSUME CashAssumption, TypeInv, NEW level, Current(level) # 0
  PROVE  /\ Current(level) \in Registers
         /\ Current(level) \in 0..MaxRegisters
         /\ reg[Current(level)].expected \in Int
<1>1. Current(level) \in Registers
  BY CurrentIsOpen DEF OpenOf
<1>2. Current(level) \in 0..MaxRegisters
  BY <1>1, RegisterFacts
<1>3. reg \in [Registers -> [level : Levels, status : {"NONE", "OPEN", "CLOSED"},
                            expected : Int, counted : Nat, difference : Int, deposit : Nat]]
  BY DEF TypeInv, TypeOK
<1> QED BY <1>1, <1>2, <1>3

LEMMA IdleType ==
  ASSUME CashAssumption  PROVE  Idle \in Request /\ Wired(Idle)
BY DEF CashAssumption, Idle, Request, Wired, Ops, Levels

\* One request goes on; the others stay, but for what they read being out of date.
Moved(w, next) ==
  /\ worker' = [v \in Workers |-> worker'[v]]
  /\ worker'[w] = next
  /\ \A v \in Workers \ {w} : worker'[v] \in {worker[v], [worker[v] EXCEPT !.fresh = FALSE]}

LEMMA MovedType ==
  ASSUME TypeInv, NEW w \in Workers, NEW next \in Request, Wired(next), Moved(w, next)
  PROVE  worker' \in [Workers -> Request] /\ \A v \in Workers : Wired(worker'[v])
<1>1. worker \in [Workers -> Request] /\ \A v \in Workers : Wired(worker[v])
  BY DEF TypeInv, TypeOK, Request
<1>2. \A q \in Request : Wired(q) =>
        [q EXCEPT !.fresh = FALSE] \in Request /\ Wired([q EXCEPT !.fresh = FALSE])
  BY DEF Request, Wired
<1>3. \A v \in Workers : worker'[v] \in Request /\ Wired(worker'[v])
  BY <1>1, <1>2 DEF Moved
<1> QED BY <1>3 DEF Moved

LEMMA StartType ==
  ASSUME CashAssumption, TypeInv, NEW w \in Workers, NEW q \in Request, Wired(q), Start(w, q)
  PROVE  TypeInv'
BY DEF CashAssumption, TypeInv, TypeOK, Start, Request

LEMMA ReadTypes ==
  ASSUME CashAssumption, TypeInv, NEW w \in Workers,
         ReadForOpen(w) \/ ReadForClose(w) \/ ReadForMovement(w) \/ ReadForSale(w)
  PROVE  TypeInv'
<1> USE CashAssumption
<1>1. CASE ReadForOpen(w)
  <2>1. PICK level \in Levels, float \in Floats :
          Start(w, [Idle EXCEPT !.op = "open", !.level = level, !.amount = float])
    BY <1>1 DEF ReadForOpen
  <2>0. float \in Nat /\ float \in Int
    BY DEF CashAssumption
  <2>2. [Idle EXCEPT !.op = "open", !.level = level, !.amount = float] \in Request
    BY <2>0, IdleType DEF Request, Ops
  <2>3. Wired([Idle EXCEPT !.op = "open", !.level = level, !.amount = float])
    BY <2>0, IdleType DEF Wired, Request
  <2> QED BY <2>1, <2>2, <2>3, StartType
<1>2. CASE ReadForClose(w)
  <2>0. PICK level \in Levels, counted \in Counts : \E deposit \in 0..counted :
          /\ Current(level) # 0
          /\ Start(w, [Idle EXCEPT !.op = "close", !.level = level, !.reg = Current(level),
                         !.amount = counted, !.deposit = deposit,
                         !.expected = reg[Current(level)].expected])
    BY <1>2 DEF ReadForClose
  <2>1. PICK deposit \in 0..counted :
          /\ Current(level) # 0
          /\ Start(w, [Idle EXCEPT !.op = "close", !.level = level, !.reg = Current(level),
                         !.amount = counted, !.deposit = deposit,
                         !.expected = reg[Current(level)].expected])
    BY <2>0
  <2> DEFINE q == [Idle EXCEPT !.op = "close", !.level = level, !.reg = Current(level),
                     !.amount = counted, !.deposit = deposit,
                     !.expected = reg[Current(level)].expected]
  <2>2. counted \in Nat /\ counted \in Int /\ deposit \in Nat
    BY DEF CashAssumption
  <2>3. q \in Request /\ Wired(q)
    BY <2>1, <2>2, CurrentType, IdleType DEF Request, Ops, Wired
  <2> QED BY <2>1, <2>3, StartType
<1>3. CASE ReadForMovement(w)
  <2>1. PICK level \in Levels, amount \in {1, -1} :
          /\ Current(level) # 0
          /\ Start(w, [Idle EXCEPT !.op = "move", !.level = level, !.reg = Current(level),
                         !.amount = amount, !.expected = reg[Current(level)].expected])
    BY <1>3 DEF ReadForMovement
  <2> DEFINE q == [Idle EXCEPT !.op = "move", !.level = level, !.reg = Current(level),
                     !.amount = amount, !.expected = reg[Current(level)].expected]
  <2>2. amount \in Int
    OBVIOUS
  <2>3. q \in Request /\ Wired(q)
    BY <2>1, <2>2, CurrentType, IdleType DEF Request, Ops, Wired
  <2> QED BY <2>1, <2>3, StartType
<1>4. CASE ReadForSale(w)
  <2> DEFINE q == [Idle EXCEPT !.op = "move", !.reg = Current("PARTIAL"),
                     !.amount = SaleAmount, !.expected = reg[Current("PARTIAL")].expected]
  <2>1. Current("PARTIAL") # 0 /\ Start(w, q)
    BY <1>4 DEF ReadForSale
  <2>0. SaleAmount \in Int
    BY DEF CashAssumption
  <2>2. q \in Request /\ Wired(q)
    BY <2>0, <2>1, CurrentType, IdleType DEF Request, Ops, Wired
  <2> QED BY <2>1, <2>2, StartType
<1> QED BY <1>1, <1>2, <1>3, <1>4

LEMMA WriteTypes ==
  ASSUME CashAssumption, TypeInv, NEW w \in Workers,
         \/ OpenRegister(w) \/ RecordMovement(w) \/ CloseRegister(w)
         \/ FindMain(w) \/ DepositFromPartial(w) \/ Fail(w)
  PROVE  TypeInv'
<1> USE CashAssumption
<1> DEFINE q == worker[w]
<1>0. q \in Request /\ Wired(q)
  BY DEF TypeInv, TypeOK, Request
<1>1. CASE OpenRegister(w)
  <2>1. Moved(w, Idle)
    BY <1>1 DEF OpenRegister, Goes, Moved
  <2>2. q.amount \in Nat /\ q.level \in Levels
    BY <1>0, <1>1 DEF OpenRegister, Is, Wired, Request
  <2>3. worker' \in [Workers -> Request] /\ \A v \in Workers : Wired(worker'[v])
    BY <2>1, IdleType, MovedType
  <2>4. reg' \in [Registers -> [level : Levels, status : {"NONE", "OPEN", "CLOSED"},
                            expected : Int, counted : Nat, difference : Int, deposit : Nat]]
    <3> DEFINE row == [Unopened EXCEPT !.level = q.level, !.status = "OPEN",
                         !.expected = q.amount]
    <3>1. row \in [level : Levels, status : {"NONE", "OPEN", "CLOSED"},
                   expected : Int, counted : Nat, difference : Int, deposit : Nat]
      <4>1. Unopened \in [level : Levels, status : {"NONE", "OPEN", "CLOSED"}, expected : Int,
                          counted : Nat, difference : Int, deposit : Nat]
        BY DEF Unopened, Levels
      <4>2. q.amount \in Int
        BY <2>2
      <4> QED BY <2>2, <4>1, <4>2
    <3>2. reg' = [reg EXCEPT ![Cardinality(Opened) + 1] = row]
      BY <1>1 DEF OpenRegister
    <3> HIDE DEF row
    <3> QED BY <3>1, <3>2 DEF TypeInv, TypeOK
  <2>5. rows' \in [Registers -> Int] /\ deposits' \in [Registers -> Nat]
    BY <1>1, <2>2 DEF OpenRegister, TypeInv, TypeOK
  <2>6. disturbed' \subseteq Registers /\ requests' = requests /\ faults' = faults
    BY <1>1 DEF OpenRegister, InTime, TypeInv, TypeOK
  <2> QED BY <2>3, <2>4, <2>5, <2>6 DEF TypeInv, TypeOK, Request
<1>2. CASE RecordMovement(w)
  <2>1. Moved(w, Idle)
    BY <1>2 DEF RecordMovement, Goes, Moved
  <2>2. q.reg \in Registers /\ q.amount \in Int
    BY <1>0, <1>2 DEF RecordMovement, Is, Wired, Request
  <2> QED BY <1>2, <2>1, <2>2, IdleType, MovedType, SMTT(30)
          DEF RecordMovement, AddMovement, InTime, TypeInv, TypeOK, Request
<1>3. CASE CloseRegister(w)
  <2> DEFINE next == IF q.deposit = 0 THEN Idle
                     ELSE [Idle EXCEPT !.op = "main", !.deposit = q.deposit, !.from = q.reg]
  <2>1. q.reg \in Registers /\ q.amount \in Nat /\ q.expected \in Int /\ q.deposit \in Nat
    BY <1>0, <1>3 DEF CloseRegister, Is, Wired, Request
  <2>2. next \in Request /\ Wired(next)
    BY <2>1, IdleType, RegisterFacts DEF Idle, Request, Wired, Ops, Levels
  <2>3. Moved(w, next)
    BY <1>3 DEF CloseRegister, Goes, Moved
  <2>4. worker' \in [Workers -> Request] /\ \A v \in Workers : Wired(worker'[v])
    <3> HIDE DEF next
    <3> QED BY <2>2, <2>3, MovedType
  <2>5. /\ reg' = [reg EXCEPT ![q.reg].status = "CLOSED", ![q.reg].counted = q.amount,
                               ![q.reg].difference = q.amount - q.expected,
                               ![q.reg].deposit = q.deposit]
        /\ InTime(w, q.reg) /\ UNCHANGED <<rows, deposits, requests, faults>>
    BY <1>3 DEF CloseRegister
  <2>6. reg' \in [Registers -> [level : Levels, status : {"NONE", "OPEN", "CLOSED"},
                               expected : Int, counted : Nat, difference : Int, deposit : Nat]]
    BY <2>1, <2>5 DEF TypeInv, TypeOK
  <2>7. disturbed' \subseteq Registers
    BY <2>1, <2>5 DEF InTime, TypeInv, TypeOK
  <2> HIDE DEF next
  <2> QED BY <2>4, <2>5, <2>6, <2>7 DEF TypeInv, TypeOK, Request
<1>4. CASE FindMain(w)
  <2>1. q.from \in Registers
    BY <1>0, <1>4 DEF FindMain, Is, Wired
  <2>2. Current("MAIN") # 0 => /\ Current("MAIN") \in Registers
                               /\ Current("MAIN") \in 0..MaxRegisters
                               /\ reg[Current("MAIN")].expected \in Int
    BY CurrentType
  <2> DEFINE next == IF Current("MAIN") = 0 THEN Idle
                     ELSE [q EXCEPT !.op = "deposit", !.reg = Current("MAIN"),
                             !.expected = reg[Current("MAIN")].expected]
  <2>3. next \in Request /\ Wired(next)
    BY <1>0, <2>1, <2>2, IdleType DEF Request, Wired, Ops
  <2>4. worker' = [worker EXCEPT ![w] = next]
    BY <1>4 DEF FindMain
  <2> QED BY <1>4, <2>3, <2>4 DEF FindMain, TypeInv, TypeOK, Request
<1>5. CASE DepositFromPartial(w)
  <2>1. Moved(w, Idle)
    BY <1>5 DEF DepositFromPartial, Goes, Moved
  <2>2. q.reg \in Registers /\ q.from \in Registers /\ q.deposit \in Nat
    BY <1>0, <1>5 DEF DepositFromPartial, Is, Wired, Request
  <2>3. worker' \in [Workers -> Request] /\ \A v \in Workers : Wired(worker'[v])
    BY <2>1, IdleType, MovedType
  <2>4. reg' \in [Registers -> [level : Levels, status : {"NONE", "OPEN", "CLOSED"},
                            expected : Int, counted : Nat, difference : Int, deposit : Nat]]
    BY <1>5, <2>2, SMTT(30) DEF DepositFromPartial, AddMovement, TypeInv, TypeOK
  <2>5. rows' \in [Registers -> Int] /\ deposits' \in [Registers -> Nat]
    BY <1>5, <2>2 DEF DepositFromPartial, AddMovement, TypeInv, TypeOK
  <2>6. disturbed' \subseteq Registers /\ requests' = requests /\ faults' = faults
    BY <1>5, <2>2 DEF DepositFromPartial, InTime, TypeInv, TypeOK
  <2> QED BY <2>3, <2>4, <2>5, <2>6 DEF TypeInv, TypeOK, Request
<1>6. CASE Fail(w)
  BY <1>6, IdleType DEF Fail, TypeInv, TypeOK, Request
<1> QED BY <1>1, <1>2, <1>3, <1>4, <1>5, <1>6

LEMMA TypeInvariant == CashAssumption => (Spec => []TypeInv)
<1> SUFFICES ASSUME CashAssumption  PROVE Spec => []TypeInv
  OBVIOUS
<1>1. Init => TypeInv
  BY IdleType DEF Init, TypeInv, TypeOK, Unopened, Levels, CashAssumption, Request
<1>2. TypeInv /\ [Next]_vars => TypeInv'
  <2>1. CASE Next
    BY <2>1, ReadTypes, WriteTypes DEF Next
  <2>2. CASE UNCHANGED vars
    BY <2>2 DEF vars, TypeInv, TypeOK
  <2> QED BY <2>1, <2>2
<1> QED BY <1>1, <1>2, PTL DEF Spec

\* Every register, ledger and running request keeps its shape, for any number of
\* workers, registers and requests.
THEOREM TypeCorrect == Spec => []TypeOK
<1>1. TypeInv => TypeOK
  BY DEF TypeInv
<1> QED BY <1>1, TypeInvariant, CashAssumption, PTL

-----------------------------------------------------------------------------
(* The inductive invariant.                                                *)

\* Registers are numbered by order of opening, so an opening takes a new one.
Contiguous == \E n \in 0..MaxRegisters : Opened = 1..n

\* A request writes to a register that was opened.
Refers == \A w \in Workers :
  worker[w].op \in {"move", "deposit", "close"} => reg[worker[w].reg].status # "NONE"

\* What a request read still holds, unless it is known not to.
StillHolds(q) == q.fresh =>
  /\ q.op \in {"move", "deposit", "close"} => reg[q.reg].status = "OPEN"
  /\ q.op = "close" => q.expected = rows[q.reg]
  /\ q.op = "open" => OpenOf(q.level) = {}
ReadsHold == \A w \in Workers : StillHolds(worker[w])

OnePerLevel == \A r, s \in Sound :
  reg[r].status = "OPEN" /\ reg[s].status = "OPEN" /\ reg[r].level = reg[s].level => r = s

\* The deposit of a closing is made or under way, by one request.
Claims(w, r) == worker[w].op \in {"main", "deposit"} /\ worker[w].from = r
DepositsHold == \A r \in Sound :
  /\ deposits[r] # 0 => deposits[r] = 1 /\ reg[r].status = "CLOSED" /\ reg[r].deposit > 0
  /\ \A w \in Workers : Claims(w, r) =>
       /\ deposits[r] = 0 /\ reg[r].status = "CLOSED" /\ reg[r].deposit > 0
       /\ \A v \in Workers : Claims(v, r) => v = w

CashInv ==
  /\ LedgerAgrees /\ Contiguous /\ Refers /\ ReadsHold
  /\ OnePerLevel /\ DifferenceStands /\ DepositsHold

\* The register that is opened next has not been opened.
LEMMA NextIsNew ==
  ASSUME CashAssumption, Contiguous, Cardinality(Opened) + 1 \in Registers
  PROVE  /\ reg[Cardinality(Opened) + 1].status = "NONE"
         /\ Opened \cup {Cardinality(Opened) + 1} = 1..(Cardinality(Opened) + 1)
<1>1. PICK n \in 0..MaxRegisters : Opened = 1..n
  BY DEF Contiguous
<1>2. n \in Nat /\ n \in Int
  BY <1>1 DEF CashAssumption
<1>3. Cardinality(Opened) = n
  BY <1>1, <1>2, FS_Interval
<1>4. n + 1 \notin Opened
  BY <1>1, <1>2
<1>5. (1..n) \cup {n + 1} = 1..(n + 1)
  BY <1>2
<1> QED BY <1>1, <1>3, <1>4, <1>5 DEF Opened

\* A request that starts has read an open register, or that none is open.
LEMMA ReadEffect ==
  ASSUME CashAssumption, TypeInv, NEW w \in Workers,
         ReadForOpen(w) \/ ReadForClose(w) \/ ReadForMovement(w) \/ ReadForSale(w)
  PROVE  /\ worker' = [v \in Workers |-> IF v = w THEN worker'[w] ELSE worker[v]]
         /\ worker'[w].op \in {"open", "close", "move"}
         /\ worker'[w].op = "open" => OpenOf(worker'[w].level) = {}
         /\ worker'[w].op \in {"close", "move"} =>
              /\ worker'[w].reg \in Registers
              /\ reg[worker'[w].reg].status = "OPEN"
              /\ worker'[w].expected = reg[worker'[w].reg].expected
         /\ UNCHANGED <<reg, rows, deposits, disturbed>>
<1>0. worker \in [Workers -> Request]
  BY DEF TypeInv, TypeOK, Request
<1>a. \A level : Current(level) # 0 =>
        Current(level) \in Registers /\ reg[Current(level)].status = "OPEN"
  BY CurrentIsOpen DEF OpenOf
<1>b. \A level : Current(level) = 0 => OpenOf(level) = {}
  BY CurrentIsOpen
<1>1. CASE ReadForOpen(w)
  <2>1. PICK level \in Levels, float \in Floats :
          /\ Current(level) = 0
          /\ worker' = [worker EXCEPT ![w] =
                          [Idle EXCEPT !.op = "open", !.level = level, !.amount = float]]
          /\ UNCHANGED <<reg, rows, deposits, faults, disturbed>>
    BY <1>1 DEF ReadForOpen, Start
  <2>2. worker'[w].op = "open" /\ worker'[w].level = level
    BY <1>0, <2>1 DEF Idle
  <2>3. worker' = [v \in Workers |-> IF v = w THEN worker'[w] ELSE worker[v]]
    BY <1>0, <2>1
  <2>4. OpenOf(level) = {}
    BY <1>b, <2>1
  <2> QED BY <2>1, <2>2, <2>3, <2>4
<1>2. CASE ReadForClose(w)
  <2>1. PICK level \in Levels, counted \in Counts : \E deposit \in 0..counted :
          /\ Current(level) # 0
          /\ Start(w, [Idle EXCEPT !.op = "close", !.level = level, !.reg = Current(level),
                         !.amount = counted, !.deposit = deposit,
                         !.expected = reg[Current(level)].expected])
    BY <1>2 DEF ReadForClose
  <2>2. PICK deposit \in 0..counted :
          /\ Current(level) # 0
          /\ Start(w, [Idle EXCEPT !.op = "close", !.level = level, !.reg = Current(level),
                         !.amount = counted, !.deposit = deposit,
                         !.expected = reg[Current(level)].expected])
    BY <2>1
  <2> DEFINE q == [Idle EXCEPT !.op = "close", !.level = level, !.reg = Current(level),
                     !.amount = counted, !.deposit = deposit,
                     !.expected = reg[Current(level)].expected]
  <2>3. q.op = "close" /\ q.reg = Current(level) /\ q.expected = reg[Current(level)].expected
    BY DEF Idle
  <2>4. worker' = [worker EXCEPT ![w] = q] /\ UNCHANGED <<reg, rows, deposits, disturbed>>
    BY <2>2 DEF Start
  <2> HIDE DEF q
  <2> QED BY <1>0, <1>a, <2>2, <2>3, <2>4
<1>3. CASE ReadForMovement(w)
  <2>1. PICK level \in Levels, amount \in {1, -1} :
          /\ Current(level) # 0
          /\ Start(w, [Idle EXCEPT !.op = "move", !.level = level, !.reg = Current(level),
                         !.amount = amount, !.expected = reg[Current(level)].expected])
    BY <1>3 DEF ReadForMovement
  <2> DEFINE q == [Idle EXCEPT !.op = "move", !.level = level, !.reg = Current(level),
                     !.amount = amount, !.expected = reg[Current(level)].expected]
  <2>2. q.op = "move" /\ q.reg = Current(level) /\ q.expected = reg[Current(level)].expected
    BY DEF Idle
  <2>3. worker' = [worker EXCEPT ![w] = q] /\ UNCHANGED <<reg, rows, deposits, disturbed>>
    BY <2>1 DEF Start
  <2> HIDE DEF q
  <2> QED BY <1>0, <1>a, <2>1, <2>2, <2>3
<1>4. CASE ReadForSale(w)
  BY <1>0, <1>4, <1>a DEF ReadForSale, Start, Idle
<1> QED BY <1>1, <1>2, <1>3, <1>4

LEMMA ReadsKeep ==
  ASSUME CashAssumption, TypeInv, CashInv, NEW w \in Workers,
         ReadForOpen(w) \/ ReadForClose(w) \/ ReadForMovement(w) \/ ReadForSale(w)
  PROVE  CashInv'
<1> DEFINE q == worker'[w]
<1>0. /\ \A v \in Workers : worker'[v] = IF v = w THEN q ELSE worker[v]
      /\ q.op \in {"open", "close", "move"}
      /\ q.op = "open" => OpenOf(q.level) = {}
      /\ q.op \in {"close", "move"} => /\ q.reg \in Registers
                                       /\ reg[q.reg].status = "OPEN"
                                       /\ q.expected = reg[q.reg].expected
      /\ UNCHANGED <<reg, rows, deposits, disturbed>>
  BY ReadEffect
<1> HIDE DEF q
<1>1. LedgerAgrees' /\ Contiguous' /\ OnePerLevel' /\ DifferenceStands'
  BY <1>0 DEF CashInv, LedgerAgrees, Contiguous, Opened, OnePerLevel, Sound, DifferenceStands
<1>2. Refers'
  BY <1>0 DEF CashInv, Refers
<1>3. ReadsHold'
  BY <1>0 DEF CashInv, ReadsHold, StillHolds, OpenOf, LedgerAgrees
<1>4. DepositsHold'
  <2>1. \A v \in Workers, r \in Registers : Claims(v, r)' => Claims(v, r)
    BY <1>0 DEF Claims
  <2> QED BY <1>0, <2>1 DEF CashInv, DepositsHold, Sound
<1> QED BY <1>1, <1>2, <1>3, <1>4 DEF CashInv

\* Another's request stays the same, but for what it read being out of date.
Same(v) ==
  /\ worker'[v].op = worker[v].op /\ worker'[v].level = worker[v].level
  /\ worker'[v].reg = worker[v].reg /\ worker'[v].from = worker[v].from
  /\ worker'[v].expected = worker[v].expected
  /\ worker'[v].fresh => worker[v].fresh

LEMMA OpenKeeps ==
  ASSUME CashAssumption, TypeInv, CashInv, NEW w \in Workers, OpenRegister(w)
  PROVE  CashInv'
<1> DEFINE q == worker[w]
           r == Cardinality(Opened) + 1
<1>1. /\ q.op = "open" /\ r \in Registers /\ q.amount \in Nat /\ q.level \in Levels
      /\ reg[r].status = "NONE" /\ Opened \cup {r} = 1..r
  <2>1. q \in Request /\ Wired(q)
    BY DEF TypeInv, TypeOK, Request
  <2> QED BY <2>1, NextIsNew DEF OpenRegister, Is, Wired, Request, CashInv
<1>2. /\ reg'[r].level = q.level /\ reg'[r].status = "OPEN" /\ reg'[r].expected = q.amount
      /\ \A s \in Registers : s # r => reg'[s] = reg[s]
      /\ rows'[r] = q.amount /\ \A s \in Registers : s # r => rows'[s] = rows[s]
      /\ deposits' = deposits
      /\ disturbed' = IF q.fresh THEN disturbed ELSE disturbed \cup {r}
  BY <1>1 DEF OpenRegister, InTime, Unopened, TypeInv, TypeOK
<1>3. /\ worker'[w] = Idle
      /\ \A v \in Workers : v # w =>
           /\ Same(v)
           /\ worker'[v].fresh /\ worker'[v].op = "open" => worker'[v].level # q.level
  BY DEF OpenRegister, Goes, Same, TypeInv, TypeOK
<1> HIDE DEF r
<1>4. LedgerAgrees'
  BY <1>1, <1>2 DEF CashInv, LedgerAgrees
<1>5. Contiguous'
  <2>1. Opened' = Opened \cup {r}
    BY <1>1, <1>2 DEF Opened
  <2> QED BY <1>1, <2>1, RegisterFacts DEF Contiguous
<1>6. Refers'
  BY <1>1, <1>2, <1>3 DEF CashInv, Refers, Same, Idle, TypeInv, Wired
<1>7. ReadsHold'
  <2>0. SUFFICES ASSUME NEW v \in Workers, worker'[v].fresh  PROVE StillHolds(worker[v])'
    BY DEF ReadsHold, StillHolds
  <2>1. CASE v = w
    BY <1>3, <2>1 DEF StillHolds, Idle
  <2>2. CASE v # w
    <3>1. StillHolds(worker[v]) /\ worker[v].fresh /\ Wired(worker[v])
      BY <1>3, <2>0, <2>2 DEF CashInv, ReadsHold, Same, TypeInv
    <3>2. worker[v].op = "open" /\ worker[v].level # q.level => OpenOf(worker[v].level)' = {}
      <4>1. worker'[v].level = worker[v].level
        BY <1>3, <2>2 DEF Same
      <4>2. SUFFICES ASSUME worker[v].op = "open", worker[v].level # q.level,
                            NEW s \in Registers, reg'[s].status = "OPEN",
                            reg'[s].level = worker[v].level
                     PROVE  FALSE
        BY <4>1 DEF OpenOf
      <4>3. OpenOf(worker[v].level) = {}
        BY <3>1, <4>2 DEF StillHolds
      <4> QED BY <1>2, <4>2, <4>3 DEF OpenOf
    <3>3. worker'[v].op = "open" => OpenOf(worker[v].level)' = {}
      BY <1>3, <2>0, <2>2, <3>2 DEF Same
    <3>4. worker[v].op = "close" => worker[v].expected = rows'[worker[v].reg]
      BY <1>1, <1>2, <3>1 DEF StillHolds, Wired
    <3>5. worker[v].op \in {"move", "deposit", "close"} => reg'[worker[v].reg].status = "OPEN"
      BY <1>1, <1>2, <3>1 DEF StillHolds, Wired
    <3> QED BY <1>3, <2>2, <3>3, <3>4, <3>5 DEF StillHolds, Same
  <2> QED BY <2>1, <2>2
<1>8. OnePerLevel'
  <2>1. q.fresh => OpenOf(q.level) = {}
    BY <1>1 DEF CashInv, ReadsHold, StillHolds
  <2> QED BY <1>1, <1>2, <2>1 DEF CashInv, OnePerLevel, Sound, OpenOf
<1>9. DifferenceStands'
  BY <1>1, <1>2 DEF CashInv, DifferenceStands, Sound
<1>10. DepositsHold'
  <2>1. \A v \in Workers, s \in Registers : Claims(v, s)' => Claims(v, s)
    BY <1>3 DEF Claims, Same, Idle
  <2> QED BY <1>1, <1>2, <2>1 DEF CashInv, DepositsHold, Sound
<1> QED BY <1>4, <1>5, <1>6, <1>7, <1>8, <1>9, <1>10 DEF CashInv

\* A movement, or a deposit of a partial: the register that was read is written.
LEMMA MovementKeeps ==
  ASSUME CashAssumption, TypeInv, CashInv, NEW w \in Workers,
         RecordMovement(w) \/ DepositFromPartial(w)
  PROVE  /\ LedgerAgrees' /\ Contiguous' /\ Refers' /\ ReadsHold'
         /\ OnePerLevel' /\ DifferenceStands'
<1> DEFINE q == worker[w]
           r == q.reg
<1>1. q.op \in {"move", "deposit"} /\ r \in Registers /\ q.amount \in Int /\ q.deposit \in Nat
  BY DEF RecordMovement, DepositFromPartial, Is, TypeInv, TypeOK, Wired
<1>2. PICK a \in Int :
        /\ reg' = [reg EXCEPT ![r].expected = @ + a]
        /\ rows' = [rows EXCEPT ![r] = @ + a]
  BY <1>1 DEF RecordMovement, DepositFromPartial, AddMovement
<1>3. disturbed' = IF q.fresh THEN disturbed ELSE disturbed \cup {r}
  BY DEF RecordMovement, DepositFromPartial, InTime
<1>4. /\ worker'[w] = Idle
      /\ \A v \in Workers : v # w =>
           /\ Same(v)
           /\ worker'[v].fresh /\ worker'[v].op = "close" => worker'[v].reg # r
  BY DEF RecordMovement, DepositFromPartial, Goes, Same, TypeInv, TypeOK
<1>5. /\ reg'[r].expected = reg[r].expected + a /\ rows'[r] = rows[r] + a
      /\ \A s \in Registers : s # r => rows'[s] = rows[s] /\ reg'[s] = reg[s]
      /\ \A s \in Registers : /\ reg'[s].status = reg[s].status
                              /\ reg'[s].level = reg[s].level
                              /\ reg'[s].counted = reg[s].counted
                              /\ reg'[s].difference = reg[s].difference
  BY <1>1, <1>2 DEF TypeInv, TypeOK
<1>6. q.fresh => reg[r].status = "OPEN"
  BY <1>1 DEF CashInv, ReadsHold, StillHolds
<1> HIDE DEF r, q
<1>7. LedgerAgrees'
  BY <1>1, <1>5 DEF CashInv, LedgerAgrees
<1>8. Contiguous'
  BY <1>5 DEF CashInv, Contiguous, Opened
<1>9. Refers'
  BY <1>4, <1>5 DEF CashInv, Refers, Same, Idle, TypeInv, Wired
<1>10. ReadsHold'
  <2> SUFFICES ASSUME NEW v \in Workers, worker'[v].fresh  PROVE StillHolds(worker[v])'
    BY DEF ReadsHold, StillHolds
  <2>1. CASE v = w
    BY <1>4, <2>1 DEF StillHolds, Idle
  <2>2. CASE v # w
    <3>1. StillHolds(worker[v]) /\ worker[v].fresh /\ Wired(worker[v])
      BY <1>4, <2>2 DEF CashInv, ReadsHold, Same, TypeInv
    <3>2. \A level : OpenOf(level)' = OpenOf(level)
      BY <1>5 DEF OpenOf
    <3> QED BY <1>1, <1>4, <1>5, <2>2, <3>1, <3>2 DEF StillHolds, Same, Wired
  <2> QED BY <2>1, <2>2
<1>11. OnePerLevel'
  BY <1>1, <1>3, <1>5 DEF CashInv, OnePerLevel, Sound
<1>12. DifferenceStands'
  BY <1>1, <1>3, <1>5, <1>6 DEF CashInv, DifferenceStands, Sound
<1> QED BY <1>7, <1>8, <1>9, <1>10, <1>11, <1>12

LEMMA MovementDeposits ==
  ASSUME CashAssumption, TypeInv, CashInv, NEW w \in Workers,
         RecordMovement(w) \/ DepositFromPartial(w)
  PROVE  DepositsHold'
<1> DEFINE q == worker[w]
<1>1. /\ worker'[w] = Idle
      /\ \A v \in Workers : v # w => Same(v)
  BY DEF RecordMovement, DepositFromPartial, Goes, Same, TypeInv, TypeOK
<1>2. \A v \in Workers, s \in Registers : Claims(v, s)' => v # w /\ Claims(v, s)
  BY <1>1 DEF Claims, Same, Idle
<1>3. \A s \in Registers : reg'[s].status = reg[s].status /\ reg'[s].deposit = reg[s].deposit
  BY DEF RecordMovement, DepositFromPartial, AddMovement, TypeInv, TypeOK
<1>4. Sound' \subseteq Sound
  BY DEF RecordMovement, DepositFromPartial, InTime, Sound
<1>5. CASE RecordMovement(w)
  <2>1. deposits' = deposits
    BY <1>5 DEF RecordMovement
  <2> QED BY <1>2, <1>3, <1>4, <2>1 DEF CashInv, DepositsHold, Sound
<1>6. CASE DepositFromPartial(w)
  <2>1. q.from \in Registers /\ q.op = "deposit"
    BY <1>6 DEF DepositFromPartial, Is, TypeInv, Wired
  <2>2. /\ deposits'[q.from] = deposits[q.from] + 1
        /\ \A s \in Registers : s # q.from => deposits'[s] = deposits[s]
    BY <1>6, <2>1 DEF DepositFromPartial, TypeInv, TypeOK
  <2>3. Claims(w, q.from)
    BY <2>1 DEF Claims
  <2> HIDE DEF q
  <2> QED BY <1>2, <1>3, <1>4, <2>1, <2>2, <2>3 DEF CashInv, DepositsHold, Sound
<1> QED BY <1>5, <1>6

LEMMA CloseKeeps ==
  ASSUME CashAssumption, TypeInv, CashInv, NEW w \in Workers, CloseRegister(w)
  PROVE  CashInv'
<1> DEFINE q == worker[w]
           r == q.reg
<1>1. /\ q.op = "close" /\ r \in Registers /\ q.amount \in Nat /\ q.deposit \in Nat
      /\ q.expected \in Int /\ reg[r].status # "NONE"
  BY DEF CloseRegister, Is, TypeInv, TypeOK, Wired, CashInv, Refers
<1>2. /\ reg'[r].level = reg[r].level /\ reg'[r].status = "CLOSED"
      /\ reg'[r].expected = reg[r].expected /\ reg'[r].counted = q.amount
      /\ reg'[r].difference = q.amount - q.expected /\ reg'[r].deposit = q.deposit
      /\ \A s \in Registers : s # r => reg'[s] = reg[s]
      /\ rows' = rows /\ deposits' = deposits
      /\ disturbed' = IF q.fresh THEN disturbed ELSE disturbed \cup {r}
  BY <1>1 DEF CloseRegister, InTime, TypeInv, TypeOK
<1>3. /\ worker'[w] = IF q.deposit = 0 THEN Idle
                      ELSE [Idle EXCEPT !.op = "main", !.deposit = q.deposit, !.from = r]
      /\ \A v \in Workers : v # w =>
           /\ Same(v)
           /\ worker'[v].fresh => worker'[v].reg # r
  BY DEF CloseRegister, Goes, Same, TypeInv, TypeOK
<1>4. /\ worker'[w].op = IF q.deposit = 0 THEN "none" ELSE "main"
      /\ q.deposit # 0 => worker'[w].from = r
  BY <1>3 DEF Idle
<1>5. q.fresh => reg[r].status = "OPEN" /\ q.expected = rows[r]
  BY <1>1 DEF CashInv, ReadsHold, StillHolds
<1> HIDE DEF r, q
<1>6. LedgerAgrees'
  BY <1>1, <1>2 DEF CashInv, LedgerAgrees
<1>7. Contiguous'
  <2>1. Opened' = Opened
    BY <1>1, <1>2 DEF Opened
  <2> QED BY <2>1 DEF CashInv, Contiguous
<1>8. Refers'
  <2> SUFFICES ASSUME NEW v \in Workers, worker'[v].op \in {"move", "deposit", "close"}
               PROVE  reg'[worker'[v].reg].status # "NONE"
    BY DEF Refers
  <2>1. v # w
    BY <1>4
  <2>2. worker'[v].op = worker[v].op /\ worker'[v].reg = worker[v].reg
    BY <1>3, <2>1 DEF Same
  <2>3. worker[v].reg \in Registers /\ reg[worker[v].reg].status # "NONE"
    BY <2>2 DEF TypeInv, Wired, CashInv, Refers
  <2> QED BY <1>1, <1>2, <2>2, <2>3
<1>9. ReadsHold'
  <2>0. SUFFICES ASSUME NEW v \in Workers, worker'[v].fresh  PROVE StillHolds(worker[v])'
    BY DEF ReadsHold, StillHolds
  <2>1. CASE v = w
    BY <1>4, <2>1 DEF StillHolds
  <2>2. CASE v # w
    <3>1. StillHolds(worker[v]) /\ worker[v].fresh /\ Wired(worker[v])
      BY <1>3, <2>0, <2>2 DEF CashInv, ReadsHold, Same, TypeInv
    <3>2. \A level : OpenOf(level)' \subseteq OpenOf(level)
      BY <1>1, <1>2 DEF OpenOf
    <3>3. worker[v].op = "open" => OpenOf(worker[v].level)' = {}
      <4>1. worker'[v].level = worker[v].level
        BY <1>3, <2>2 DEF Same
      <4> QED BY <3>1, <3>2, <4>1 DEF StillHolds
    <3>4. worker[v].reg # r
      BY <1>3, <2>0, <2>2 DEF Same
    <3>5. worker[v].op \in {"move", "deposit", "close"} => reg'[worker[v].reg].status = "OPEN"
      BY <1>1, <1>2, <3>1, <3>4 DEF StillHolds, Wired
    <3> QED BY <1>2, <1>3, <2>2, <3>1, <3>3, <3>5 DEF StillHolds, Same
  <2> QED BY <2>1, <2>2
<1>10. OnePerLevel'
  BY <1>1, <1>2 DEF CashInv, OnePerLevel, Sound
<1>11. DifferenceStands'
  <2>1. \A s \in Registers : rows[s] \in Int
    BY DEF TypeInv, TypeOK
  <2> QED BY <1>1, <1>2, <1>5, <2>1 DEF CashInv, DifferenceStands, Sound
<1>12. DepositsHold'
  <2>1. \A v \in Workers, s \in Registers :
          Claims(v, s)' => (v # w /\ Claims(v, s)) \/ (v = w /\ s = r /\ q.deposit # 0)
    BY <1>3, <1>4 DEF Claims, Same
  <2>2. r \in Sound' => /\ deposits[r] = 0
                        /\ \A v \in Workers : ~Claims(v, r)
    BY <1>1, <1>2, <1>5 DEF CashInv, DepositsHold, Sound
  <2> QED BY <1>1, <1>2, <2>1, <2>2 DEF CashInv, DepositsHold, Sound
<1> QED BY <1>6, <1>7, <1>8, <1>9, <1>10, <1>11, <1>12 DEF CashInv

\* Asking for the main register, and failing, change only the request.
LEMMA RequestKeeps ==
  ASSUME CashAssumption, TypeInv, CashInv, NEW w \in Workers, FindMain(w) \/ Fail(w)
  PROVE  CashInv'
<1> DEFINE next == worker'[w]
<1>1. /\ UNCHANGED <<reg, rows, deposits, disturbed>>
      /\ \A v \in Workers : v # w => worker'[v] = worker[v]
  BY DEF FindMain, Fail, TypeInv, TypeOK
<1>2. \/ next.op = "none"
      \/ /\ next.op = "deposit" /\ worker[w].op = "main" /\ next.from = worker[w].from
         /\ reg[next.reg].status = "OPEN"
  <2>1. CASE Fail(w)
    BY <2>1 DEF Fail, Idle, TypeInv, TypeOK
  <2>2. CASE FindMain(w) /\ Current("MAIN") = 0
    BY <2>2 DEF FindMain, Idle, TypeInv, TypeOK
  <2>3. CASE FindMain(w) /\ Current("MAIN") # 0
    <3>1. reg[Current("MAIN")].status = "OPEN"
      BY <2>3, CurrentIsOpen DEF OpenOf
    <3>2. worker[w] \in Request /\ worker[w].op = "main"
      BY <2>3 DEF FindMain, Is, TypeInv, TypeOK, Request
    <3>3. next = [worker[w] EXCEPT !.op = "deposit", !.reg = Current("MAIN"),
                    !.expected = reg[Current("MAIN")].expected]
      BY <2>3 DEF FindMain, TypeInv, TypeOK
    <3> QED BY <3>1, <3>2, <3>3 DEF Request
  <2> QED BY <2>1, <2>2, <2>3
<1> HIDE DEF next
<1>3. worker'[w] = next
  BY DEF next
<1>4. LedgerAgrees' /\ Contiguous' /\ OnePerLevel' /\ DifferenceStands'
  BY <1>1 DEF CashInv, LedgerAgrees, Contiguous, Opened, OnePerLevel, Sound, DifferenceStands
<1>5. Refers'
  BY <1>1, <1>2, <1>3 DEF CashInv, Refers
<1>6. ReadsHold'
  BY <1>1, <1>2, <1>3 DEF CashInv, ReadsHold, StillHolds, OpenOf
<1>7. DepositsHold'
  <2>1. \A v \in Workers, r \in Registers : Claims(v, r)' => Claims(v, r)
    BY <1>1, <1>2, <1>3 DEF Claims
  <2> QED BY <1>1, <2>1 DEF CashInv, DepositsHold, Sound
<1> QED BY <1>4, <1>5, <1>6, <1>7 DEF CashInv

LEMMA CashInvariant == CashAssumption => (Spec => [](TypeInv /\ CashInv))
<1> SUFFICES ASSUME CashAssumption  PROVE Spec => [](TypeInv /\ CashInv)
  OBVIOUS
<1>1. Init => CashInv
  <2> SUFFICES ASSUME Init  PROVE CashInv
    OBVIOUS
  <2>1. /\ \A r \in Registers : /\ reg[r].status = "NONE" /\ reg[r].expected = 0
                                /\ rows[r] = 0 /\ deposits[r] = 0
        /\ \A w \in Workers : worker[w].op = "none"
    BY DEF Init, Unopened, Idle
  <2>2. Contiguous
    <3>1. Opened = 1..0
      BY <2>1 DEF Opened
    <3> QED BY <3>1, RegisterFacts DEF Contiguous
  <2> QED BY <2>1, <2>2 DEF CashInv, LedgerAgrees, Refers, ReadsHold, StillHolds, OnePerLevel,
                            DifferenceStands, DepositsHold, Claims, Sound
<1>2. TypeInv /\ CashInv /\ [Next]_vars => CashInv'
  <2> SUFFICES ASSUME TypeInv, CashInv, [Next]_vars  PROVE CashInv'
    OBVIOUS
  <2>1. CASE Next
    <3>1. PICK w \in Workers :
            \/ ReadForOpen(w) \/ ReadForClose(w) \/ ReadForMovement(w) \/ ReadForSale(w)
            \/ OpenRegister(w) \/ RecordMovement(w) \/ CloseRegister(w)
            \/ FindMain(w) \/ DepositFromPartial(w) \/ Fail(w)
      BY <2>1 DEF Next
    <3>2. RecordMovement(w) \/ DepositFromPartial(w) => CashInv'
      BY MovementKeeps, MovementDeposits DEF CashInv
    <3> QED BY <3>1, <3>2, ReadsKeep, OpenKeeps, CloseKeeps, RequestKeeps
  <2>2. CASE UNCHANGED vars
    BY <2>2 DEF vars, CashInv, LedgerAgrees, Contiguous, Opened, Refers, ReadsHold, StillHolds,
                OpenOf, OnePerLevel, DifferenceStands, DepositsHold, Claims, Sound
  <2> QED BY <2>1, <2>2
<1> QED BY <1>1, <1>2, TypeInvariant, PTL DEF Spec

\* Whatever movements, sales, deposits and closings overlap, what a register expects
\* is the sum of its movements.
THEOREM LedgerAlwaysAgrees == Spec => []LedgerAgrees
<1>1. CashInv => LedgerAgrees
  BY DEF CashInv
<1> QED BY <1>1, CashInvariant, CashAssumption, PTL

\* The difference a closing reports stays the difference to the movements, for every
\* register that was written only from what still held.
THEOREM DifferenceAlwaysStands == Spec => []DifferenceStands
<1>1. CashInv => DifferenceStands
  BY DEF CashInv
<1> QED BY <1>1, CashInvariant, CashAssumption, PTL

\* The deposit of a closing is made once at most, and only after the closing.
THEOREM DepositedAtMostOnce == Spec => []DepositedOnce
<1>1. TypeInv /\ CashInv => DepositedOnce
  <2> SUFFICES ASSUME TypeInv, CashInv, NEW r \in Sound
               PROVE  deposits[r] <= 1 /\ (deposits[r] = 1 => reg[r].status = "CLOSED" /\ reg[r].deposit > 0)
    BY DEF DepositedOnce
  <2>1. deposits[r] # 0 => deposits[r] = 1 /\ reg[r].status = "CLOSED" /\ reg[r].deposit > 0
    BY DEF CashInv, DepositsHold
  <2> QED BY <2>1
<1> QED BY <1>1, CashInvariant, CashAssumption, PTL

\* One register of a level is open, among those that were opened when none was.
THEOREM OneRegisterOpen == Spec => []OneOpenRegister
<1>1. CashInv => OneOpenRegister
  <2> SUFFICES ASSUME CashInv, NEW level \in Levels
               PROVE  Cardinality(OpenOf(level) \ disturbed) <= 1
    BY DEF OneOpenRegister
  <2> DEFINE S == OpenOf(level) \ disturbed
  <2>1. \A r, s \in S : r = s
    BY DEF OpenOf, Sound, CashInv, OnePerLevel
  <2> HIDE DEF S
  <2>2. CASE S = {}
    BY <2>2, FS_EmptySet DEF S
  <2>3. CASE S # {}
    <3>1. PICK r \in S : S = {r}
      BY <2>1, <2>3
    <3>2. Cardinality(S) = 1
      BY <3>1, FS_Singleton
    <3> QED BY <3>2 DEF S
  <2> QED BY <2>2, <2>3
<1> QED BY <1>1, CashInvariant, CashAssumption, PTL
=============================================================================
