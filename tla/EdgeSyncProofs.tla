--------------------------- MODULE EdgeSyncProofs ---------------------------
(***************************************************************************)
(* Theorems about EdgeSync, for any number of tables, tills, overlapping   *)
(* pushes, changes and faults.                                             *)
(***************************************************************************)
EXTENDS EdgeSync, FiniteSetTheorems, TLAPS

-----------------------------------------------------------------------------
(* The shape of the state.  Which account a table has is left open here    *)
(* (no safety property needs it); HolderShape, under Bounds, types it.     *)

SyncSteps == {"idle", "protect", "list", "reconcile", "insert", "push", "wait"}
Pulled == [id : CloudIds, table : Tables \cup {NoTable}, items : SUBSET (0..MaxMutations)]

MutShape ==
  /\ mut \in [Muts -> [kind : {"none", "open", "add", "close"}, id : Ids \cup {NoId},
                       table : Tables \cup {NoTable}]]
  /\ \A m \in Muts : mut[m].kind = "open" => mut[m].id = NoId
  /\ \A m \in Muts : mut[m].kind \in {"add", "close"} => mut[m].id \in Ids

\* The changes are numbered in the order in which they were asked for.
Numbered == \E k \in 0..MaxMutations : \A m \in Muts : m \in Asked <=> m <= k

TillShape ==
  /\ till \in [Tills -> [at : {"idle", "run", "queue", "key"}, m : 0..MaxMutations]]
  /\ \A w \in Tills : till[w].at # "idle" => till[w].m \in Asked

SideOf(side, ids) ==
  side = [acc |-> side.acc, holder |-> side.holder] /\ side.acc \in [ids -> Account]

LocalShape == SideOf(local, Ids)

\* The id of an account of the cloud is used up: its users opened it, or its change has run
\* more often than the id says.
Counted(s) == s[2] = 0 \/ s[3] < applied[s[2]]
CloudShape ==
  /\ SideOf(cloud, CloudIds)
  /\ \A s \in CloudIds : cloud.acc[s].status # "NONE" => Counted(s)

\* The rows of the outbox are numbered in the order in which they were recorded.
OutboxShape ==
  /\ outbox \in [Muts -> [status : {"NONE", "PENDING", "SYNCING", "COMPLETED", "FAILED"},
                          retries : Nat, created : Nat]]
  /\ Recorded \subseteq Asked
  /\ \A m \in Recorded : outbox[m].created <= Cardinality(Recorded)

SyncShape ==
  /\ sync \in [at : SyncSteps, pulled : SUBSET Pulled, protected : SUBSET Ids,
               todo : SUBSET Ids, sent : SUBSET Recorded, slot : SUBSET Pushes, late : SUBSET Muts]
  /\ sync.at = "insert" => sync.todo \subseteq PulledIds

\* A push carries rows; the one it is at is the oldest of those it has left.
PushOk(q) ==
  /\ q \in [at : {"idle", "find", "run", "key", "done"}, batch : SUBSET Muts,
            now : 0..MaxMutations, accepted : SUBSET Muts]
  /\ q.batch \subseteq Recorded /\ q.accepted \subseteq Recorded
  /\ q.at \in {"run", "key"} => /\ q.now \in q.batch
                                /\ \A n \in q.batch : outbox[q.now].created <= outbox[n].created
  /\ q.at = "done" => q.batch = {}

PushShape == push = [p \in Pushes |-> push[p]] /\ \A p \in Pushes : PushOk(push[p])

Counts == ran \in [Muts -> Nat] /\ applied \in [Muts -> Nat] /\ keys \subseteq Asked

Shape ==
  /\ MutShape /\ Numbered /\ TillShape /\ LocalShape /\ CloudShape
  /\ OutboxShape /\ SyncShape /\ PushShape /\ Counts

LEMMA IdFacts ==
  ASSUME EdgeAssumption
  PROVE  /\ NoId \notin Ids /\ CloudIds \subseteq Ids
         /\ \A s \in CloudIds : /\ s = <<"cloud", s[2], s[3]>>
                                /\ s[2] \in 0..MaxMutations /\ s[3] \in 0..MaxFaults
         /\ MaxMutations \in Nat /\ Muts \subseteq 0..MaxMutations
         /\ NoAccount \in Account
BY DEF EdgeAssumption, Ids, CloudIds, NoId, Muts, NoAccount, Account

\* A change that is new has no number yet.
LEMMA NewNumber ==
  ASSUME EdgeAssumption, Numbered
  PROVE  /\ Cardinality(Asked) \in Nat
         /\ Cardinality(Asked) + 1 \notin Asked
         /\ \A m \in Muts : m <= Cardinality(Asked) => m \in Asked
<1>1. PICK k \in 0..MaxMutations : \A m \in Muts : m \in Asked <=> m <= k
  BY DEF Numbered
<1>2. Asked = 1..k
  <2>1. Asked \subseteq Muts
    BY DEF Asked
  <2>2. 1..k \subseteq Muts
    BY IdFacts DEF Muts, EdgeAssumption
  <2>3. \A m \in Muts : m \in 1..k <=> m <= k
    BY DEF Muts, EdgeAssumption
  <2> QED BY <1>1, <2>1, <2>2, <2>3
<1>3. Cardinality(Asked) = k
  <2>1. Cardinality(1..k) = IF 1 > k THEN 0 ELSE k - 1 + 1
    BY FS_Interval
  <2> QED BY <1>2, <2>1
<1> QED BY <1>1, <1>2, <1>3

\* What holds of a change once it was asked for stays.
LEMMA MutsStay ==
  ASSUME EdgeAssumption, Shape, [Next]_vars
  PROVE  \A m \in Asked : m \in Asked' /\ mut'[m] = mut[m]
<1> SUFFICES ASSUME NEW m \in Asked  PROVE m \in Asked' /\ mut'[m] = mut[m]
  OBVIOUS
<1>1. CASE \E w \in Tills : Ask(w)
  <2>1. Cardinality(Asked) + 1 # m
    BY NewNumber DEF Shape
  <2>2. mut' = [mut EXCEPT ![Cardinality(Asked) + 1] = mut'[Cardinality(Asked) + 1]]
    BY <1>1 DEF Ask, Shape, MutShape
  <2> QED BY <2>1, <2>2 DEF Asked, Shape, MutShape
<1>2. CASE mut' = mut
  BY <1>2 DEF Asked
<1>3. mut' = mut \/ \E w \in Tills : Ask(w)
  BY DEF Next, vars, edge, EdgeStep, SyncStep, CloudStep, AskAgain, Run, Enqueue, Record, Tick,
         ReadProtected, ListLocal, Reconcile, InsertOne, SendBatch, NothingToSend, Look, Apply,
         RecordInCloud, Answer, Unheard, CloudFails, CloudStops, CloseInCloud, LoseAnswer, EdgeStops,
         EdgeFails
<1> QED BY <1>1, <1>2, <1>3

LEMMA MutShapeKeeps ==
  ASSUME EdgeAssumption, Shape, [Next]_vars
  PROVE  MutShape' /\ Numbered'
<1>1. ASSUME NEW w \in Tills, Ask(w)  PROVE MutShape' /\ Numbered'
  <2> DEFINE m == Cardinality(Asked) + 1
  <2>1. PICK t \in Tables, s \in OpenIn(local) \cup {NoId} : \E kind \in {"open", "add", "close"} :
          /\ Idle(w) /\ m \in Muts
          /\ (kind = "open") = (s = NoId) /\ (s # NoId => t = local.acc[s].table)
          /\ mut' = [mut EXCEPT ![m] = [kind |-> kind, id |-> s, table |-> t]]
          /\ till' = [till EXCEPT ![w] = [at |-> "run", m |-> m]]
          /\ UNCHANGED <<keys, local, ran, outbox, sync, outside, faults, doubled>>
    BY <1>1, Zenon DEF Ask
  <2>2. PICK kind \in {"open", "add", "close"} :
          /\ m \in Muts
          /\ (kind = "open") = (s = NoId)
          /\ mut' = [mut EXCEPT ![m] = [kind |-> kind, id |-> s, table |-> t]]
    BY <2>1
  <2>3. s \in Ids \cup {NoId}
    BY DEF OpenIn, Shape, LocalShape, SideOf
  <2>4. MutShape'
    BY <2>2, <2>3 DEF Shape, MutShape
  <2>5. Numbered'
    <3>1. PICK k \in 0..MaxMutations : \A n \in Muts : n \in Asked <=> n <= k
      BY DEF Shape, Numbered
    <3>2. m \in 0..MaxMutations /\ m \in Muts /\ Cardinality(Asked) \in Nat
      BY <2>2, IdFacts, NewNumber DEF Shape
    <3>3. \A n \in Muts : n \in Asked' <=> n \in Asked \/ n = m
      BY <2>2, IdFacts DEF Shape, MutShape, Asked
    <3>4. \A n \in Muts : n \in Asked <=> n <= Cardinality(Asked)
      <4>1. \A n \in Muts : n <= Cardinality(Asked) => n \in Asked
        BY NewNumber DEF Shape
      <4>2. m \notin Asked
        BY NewNumber DEF Shape
      <4>3. k < m
        BY <3>1, <3>2, <4>2 DEF Muts
      <4> QED BY <3>1, <3>2, <4>1, <4>3 DEF Muts
    <3>5. \A n \in Muts : n \in Asked' <=> n <= m
      BY <3>2, <3>3, <3>4 DEF Muts
    <3> HIDE DEF m
    <3> QED BY <3>2, <3>5 DEF Numbered, Muts
  <2> QED BY <2>4, <2>5
<1>2. CASE mut' = mut
  BY <1>2 DEF Shape, MutShape, Numbered, Asked
<1>3. mut' = mut \/ \E w \in Tills : Ask(w)
  BY DEF Next, vars, edge, EdgeStep, SyncStep, CloudStep, AskAgain, Run, Enqueue, Record, Tick,
         ReadProtected, ListLocal, Reconcile, InsertOne, SendBatch, NothingToSend, Look, Apply,
         RecordInCloud, Answer, Unheard, CloudFails, CloudStops, CloseInCloud, LoseAnswer, EdgeStops,
         EdgeFails
<1> QED BY <1>1, <1>2, <1>3

LEMMA TillShapeKeeps ==
  ASSUME EdgeAssumption, Shape, [Next]_vars
  PROVE  TillShape'
<1>0. Asked \subseteq Asked' /\ NoTill \in [at : {"idle", "run", "queue", "key"}, m : 0..MaxMutations]
  BY MutsStay, IdFacts DEF NoTill
<1>1. ASSUME NEW w \in Tills, Ask(w)  PROVE TillShape'
  <2>1. Cardinality(Asked) + 1 \in Muts
        /\ till' = [till EXCEPT ![w] = [at |-> "run", m |-> Cardinality(Asked) + 1]]
        /\ Cardinality(Asked) + 1 \in Asked'
    BY <1>1 DEF Ask, Asked, Shape, MutShape
  <2> QED BY <1>0, <2>1, IdFacts DEF Shape, TillShape
<1>2. ASSUME NEW w \in Tills, AskAgain(w)  PROVE TillShape'
  <2>1. PICK m \in Asked : till' = till \/ till' = [till EXCEPT ![w] = [at |-> "run", m |-> m]]
    BY <1>2 DEF AskAgain
  <2>2. m \in 0..MaxMutations
    BY IdFacts DEF Asked
  <2> QED BY <1>0, <2>1, <2>2 DEF Shape, TillShape
<1>3. ASSUME NEW w \in Tills, EdgeStep(w) \/ EdgeFails(w)  PROVE TillShape'
  <2>1. till[w].at # "idle" /\ (Goes(w, "queue") \/ Goes(w, "key") \/ Goes(w, "idle"))
    BY <1>3 DEF EdgeStep, Run, Enqueue, Record, EdgeFails, Idle
  <2>2. Goes(w, "queue") \/ Goes(w, "key") => TillShape'
    BY <1>0, <2>1 DEF Goes, Shape, TillShape
  <2>3. Goes(w, "idle") => TillShape'
    BY <1>0 DEF Goes, NoTill, Shape, TillShape
  <2> QED BY <2>1, <2>2, <2>3
<1>4. CASE EdgeStops
  BY <1>0, <1>4 DEF EdgeStops, TillShape, NoTill
<1>5. CASE till' = till
  BY <1>0, <1>5 DEF Shape, TillShape
<1>6. \/ till' = till \/ EdgeStops
      \/ \E w \in Tills : Ask(w) \/ AskAgain(w) \/ EdgeStep(w) \/ EdgeFails(w)
  BY DEF Next, vars, edge, SyncStep, CloudStep, Tick,
         ReadProtected, ListLocal, Reconcile, InsertOne, SendBatch, NothingToSend, Look, Apply,
         RecordInCloud, Answer, Unheard, CloudFails, CloudStops, CloseInCloud, LoseAnswer
<1> QED BY <1>1, <1>2, <1>3, <1>4, <1>5, <1>6

-----------------------------------------------------------------------------
(* A change of one side.                                                   *)

\* A change leaves accounts that exist in existence and, but for a new one, closed ones
\* closed and absent ones absent.
Leaves(side, next, ids, m, new) ==
  /\ \A s \in ids : s # new => (next.acc[s].status = "NONE" <=> side.acc[s].status = "NONE")
  /\ \A s \in ids : s # new /\ side.acc[s].status = "CLOSED" => next.acc[s].status = "CLOSED"
  /\ \A s \in ids : side.acc[s].status # "NONE" => next.acc[s].status # "NONE"
  /\ mut[m].kind # "open" => \A s \in ids :
       /\ next.acc[s].status = "NONE" <=> side.acc[s].status = "NONE"
       /\ side.acc[s].status = "CLOSED" => next.acc[s].status = "CLOSED"

LEMMA ChangedIsTyped ==
  ASSUME EdgeAssumption, MutShape,
         NEW ids \in SUBSET Ids, NEW side, SideOf(side, ids),
         NEW m \in Asked, Allowed(side, m), NEW new
  PROVE  SideOf(Changed(side, m, new), ids) /\ Leaves(side, Changed(side, m, new), ids, m, new)
<1> SUFFICES ASSUME NEW next, next = Changed(side, m, new)
             PROVE  SideOf(next, ids) /\ Leaves(side, next, ids, m, new)
  OBVIOUS
<1> USE DEF SideOf, Leaves
<1> DEFINE id == mut[m].id
<1>0. m \in Muts /\ m \in 0..MaxMutations /\ mut[m].kind \in {"open", "add", "close"}
      /\ mut[m].table \in Tables \cup {NoTable}
  BY IdFacts DEF Asked, MutShape
<1>1. CASE mut[m].kind = "open"
  <2> DEFINE rec == [status |-> "OPEN", table |-> mut[m].table, items |-> {}]
  <2>1. next = [acc |-> [side.acc EXCEPT ![new] = rec],
                holder |-> [side.holder EXCEPT ![mut[m].table] = new]]
    BY <1>1 DEF Changed, Opened
  <2>2. rec \in Account /\ rec.status = "OPEN"
    BY <1>0 DEF Account
  <2>3. next.acc = [side.acc EXCEPT ![new] = rec] /\ next = [acc |-> next.acc, holder |-> next.holder]
    BY <2>1
  <2> HIDE DEF rec
  <2> QED BY <1>1, <2>2, <2>3
<1>2. CASE mut[m].kind = "add"
  <2>1. next = [side EXCEPT !.acc[id].items = @ \cup {m}]
    BY <1>2 DEF Changed
  <2>2. next = [acc |-> [side.acc EXCEPT ![id].items = @ \cup {m}], holder |-> side.holder]
    BY <2>1
  <2>3. id \in ids /\ side.acc[id].status = "OPEN"
    BY <1>2 DEF Allowed, OpenIn
  <2>4. [side.acc[id] EXCEPT !.items = @ \cup {m}] \in Account
        /\ [side.acc[id] EXCEPT !.items = @ \cup {m}].status = "OPEN"
    BY <1>0, <2>3 DEF Account
  <2>5. next.acc = [side.acc EXCEPT ![id] = [side.acc[id] EXCEPT !.items = @ \cup {m}]]
    BY <2>2
  <2> HIDE DEF id
  <2> QED BY <1>2, <2>2, <2>3, <2>4, <2>5
<1>3. CASE mut[m].kind = "close"
  <2>1. next = [side EXCEPT !.acc[id].status = "CLOSED", !.holder = Freed(side, id)]
    BY <1>3 DEF Changed
  <2>2. next = [acc |-> [side.acc EXCEPT ![id].status = "CLOSED"], holder |-> Freed(side, id)]
    BY <2>1
  <2>3. id \in ids /\ side.acc[id].status = "OPEN"
    BY <1>3 DEF Allowed, OpenIn
  <2>4. [side.acc[id] EXCEPT !.status = "CLOSED"] \in Account
        /\ [side.acc[id] EXCEPT !.status = "CLOSED"].status = "CLOSED"
    BY <2>3 DEF Account
  <2>5. next.acc = [side.acc EXCEPT ![id] = [side.acc[id] EXCEPT !.status = "CLOSED"]]
    BY <2>2
  <2> HIDE DEF id
  <2> QED BY <1>3, <2>2, <2>3, <2>4, <2>5
<1> QED BY <1>0, <1>1, <1>2, <1>3

-----------------------------------------------------------------------------
(* The accounts of the edge.                                               *)

LEMMA PulledIsTyped ==
  ASSUME EdgeAssumption, Shape, NEW s \in PulledIds
  PROVE  PulledOf(s) \in Pulled /\ s \in Ids
<1>1. PICK p \in sync.pulled : p.id = s
  BY DEF PulledIds
<1>2. PulledOf(s) \in sync.pulled
  BY <1>1 DEF PulledOf
<1> QED BY <1>1, <1>2, IdFacts DEF Shape, SyncShape, Pulled

\* What the cloud says of an account changes its table and dishes only.
LEMMA FromCloudIsTyped ==
  ASSUME EdgeAssumption, Shape, NEW s \in PulledIds, NEW withItems \in BOOLEAN,
         NEW next, next = FromCloud(s, withItems)
  PROVE  /\ next = [acc |-> next.acc, holder |-> next.holder]
         /\ next.acc \in [Ids -> Account]
         /\ \A i \in Ids : next.acc[i].status = local.acc[i].status
<1> DEFINE p == PulledOf(s)
           table == IF local.acc[s].status = "OPEN" THEN p.table ELSE local.acc[s].table
           items == IF withItems THEN p.items ELSE local.acc[s].items
           rec == [status |-> local.acc[s].status, table |-> table, items |-> items]
<1>1. p \in Pulled /\ s \in Ids /\ local.acc \in [Ids -> Account]
  BY PulledIsTyped DEF Shape, LocalShape, SideOf
<1>2. next = [acc |-> [local.acc EXCEPT
                ![s].table = IF local.acc[s].status = "OPEN" THEN p.table ELSE @,
                ![s].items = IF withItems THEN p.items ELSE @],
              holder |-> [local.holder EXCEPT ![p.table] = s]]
  BY DEF FromCloud
<1>3. next.acc = [local.acc EXCEPT ![s] = rec]
  BY <1>1, <1>2 DEF Account
<1>4. rec \in Account /\ rec.status = local.acc[s].status
  BY <1>1 DEF Account, Pulled
<1>5. next = [acc |-> next.acc, holder |-> next.holder]
  BY <1>2
<1> HIDE DEF rec, p
<1> QED BY <1>1, <1>3, <1>4, <1>5

\* An account stays in existence but for the one a pull removes.
LEMMA LocalKeeps ==
  ASSUME EdgeAssumption, Shape, [Next]_vars
  PROVE  /\ LocalShape'
         /\ \A s \in Ids : local.acc[s].status # "NONE" =>
              \/ local'.acc[s].status # "NONE"
              \/ sync.at = "reconcile" /\ s \in sync.todo
<1>1. ASSUME NEW w \in Tills, Run(w)
      PROVE  LocalShape' /\ \A s \in Ids : local.acc[s].status # "NONE" => local'.acc[s].status # "NONE"
  <2> DEFINE m == till[w].m
  <2>1. CASE Allowed(local, m)
    <3>1. local' = Changed(local, m, <<"edge", m, ran[m]>>)
      BY <1>1, <2>1 DEF Run
    <3>2. m \in Asked
      BY <1>1 DEF Run, Shape, TillShape
    <3>3. SideOf(local', Ids) /\ Leaves(local, local', Ids, m, <<"edge", m, ran[m]>>)
      BY <2>1, <3>1, <3>2, ChangedIsTyped DEF Shape, LocalShape
    <3> QED BY <3>3 DEF LocalShape, Leaves
  <2>2. CASE ~Allowed(local, m)
    BY <1>1, <2>2 DEF Run, Shape, LocalShape
  <2> QED BY <2>1, <2>2
<1>2. ASSUME Reconcile
      PROVE  LocalShape' /\ \A s \in Ids : local.acc[s].status # "NONE" =>
               local'.acc[s].status # "NONE" \/ (sync.at = "reconcile" /\ s \in sync.todo)
  <2>1. PICK s \in sync.todo :
          /\ sync.at = "reconcile"
          /\ local' = IF s \in PulledIds THEN FromCloud(s, TRUE)
                      ELSE [acc |-> [local.acc EXCEPT ![s] = NoAccount], holder |-> Freed(local, s)]
    BY <1>2 DEF Reconcile
  <2>2. CASE s \in PulledIds
    <3>1. local' = FromCloud(s, TRUE)
      BY <2>1, <2>2
    <3> QED BY <2>2, <3>1, FromCloudIsTyped DEF Shape, LocalShape, SideOf
  <2>3. CASE s \notin PulledIds
    BY <2>1, <2>3, IdFacts DEF Shape, LocalShape, SideOf
  <2> QED BY <2>2, <2>3
<1>3. ASSUME InsertOne
      PROVE  LocalShape' /\ \A s \in Ids : local.acc[s].status # "NONE" => local'.acc[s].status # "NONE"
  <2>1. PICK s \in sync.todo :
          /\ sync.at = "insert"
          /\ local' = CASE local.acc[s].status = "CLOSED" -> local
                        [] local.acc[s].status = "OPEN" -> FromCloud(s, s \notin sync.protected)
                        [] local.acc[s].status = "NONE" ->
                             Opened(local, s, PulledOf(s).table, PulledOf(s).items)
    BY <1>3 DEF InsertOne
  <2>2. s \in PulledIds /\ s \in Ids
    BY <2>1, PulledIsTyped DEF Shape, SyncShape
  <2>3. local.acc[s].status \in {"NONE", "OPEN", "CLOSED"}
    BY <2>2 DEF Shape, LocalShape, SideOf, Account
  <2>4. CASE local.acc[s].status = "CLOSED"
    BY <2>1, <2>4 DEF Shape, LocalShape, SideOf
  <2>5. CASE local.acc[s].status = "OPEN"
    <3>1. local' = FromCloud(s, s \notin sync.protected)
      BY <2>1, <2>5
    <3> QED BY <2>2, <3>1, FromCloudIsTyped DEF Shape, LocalShape, SideOf
  <2>6. CASE local.acc[s].status = "NONE"
    <3> DEFINE rec == [status |-> "OPEN", table |-> PulledOf(s).table, items |-> PulledOf(s).items]
    <3>1. local' = [acc |-> [local.acc EXCEPT ![s] = rec],
                    holder |-> [local.holder EXCEPT ![PulledOf(s).table] = s]]
      BY <2>1, <2>6 DEF Opened
    <3>2. rec \in Account /\ rec.status = "OPEN"
      BY <2>2, PulledIsTyped DEF Pulled, Account
    <3>3. local'.acc = [local.acc EXCEPT ![s] = rec]
          /\ local' = [acc |-> local'.acc, holder |-> local'.holder]
      BY <3>1
    <3> HIDE DEF rec
    <3> QED BY <2>2, <3>2, <3>3 DEF Shape, LocalShape, SideOf
  <2> QED BY <2>3, <2>4, <2>5, <2>6
<1>4. CASE local' = local
  BY <1>4 DEF Shape, LocalShape, SideOf
<1>5. local' = local \/ Reconcile \/ InsertOne \/ \E w \in Tills : Run(w)
  BY DEF Next, vars, edge, EdgeStep, SyncStep, CloudStep, Ask, AskAgain, Enqueue, Record, Tick,
         ReadProtected, ListLocal, SendBatch, NothingToSend, Look, Apply,
         RecordInCloud, Answer, Unheard, CloudFails, CloudStops, CloseInCloud, LoseAnswer, EdgeStops,
         EdgeFails
<1> QED BY <1>1, <1>2, <1>3, <1>4, <1>5

-----------------------------------------------------------------------------
(* The accounts of the cloud.                                              *)

\* What a push applies was asked for by a till.
LEMMA NowIsAsked ==
  ASSUME Shape, NEW p \in Pushes, push[p].at \in {"run", "key"}
  PROVE  /\ push[p].now \in Muts /\ push[p].now \in Asked /\ push[p].now \in Recorded
         /\ push[p].now \in push[p].batch
BY DEF Shape, PushShape, PushOk, OutboxShape, Recorded

\* An account that is closed stays closed: an opening takes a number that no account has.
LEMMA CloudKeeps ==
  ASSUME EdgeAssumption, Shape, [Next]_vars
  PROVE  /\ CloudShape'
         /\ \A s \in CloudIds : cloud.acc[s].status = "CLOSED" => cloud'.acc[s].status = "CLOSED"
<1>1. ASSUME NEW p \in Pushes, Apply(p), Allowed(cloud, push[p].now)
      PROVE  /\ CloudShape'
             /\ \A s \in CloudIds : cloud.acc[s].status = "CLOSED" => cloud'.acc[s].status = "CLOSED"
  <2> DEFINE m == push[p].now
             new == <<"cloud", m, applied[m]>>
  <2>1. /\ cloud' = Changed(cloud, m, new)
        /\ applied' = [applied EXCEPT ![m] = @ + 1]
        /\ m \in Asked /\ m \in Muts /\ m # 0
    BY <1>1, NowIsAsked DEF Apply, Muts
  <2>2. SideOf(cloud', CloudIds) /\ Leaves(cloud, cloud', CloudIds, m, new)
    <3>1. CloudIds \in SUBSET Ids /\ MutShape /\ SideOf(cloud, CloudIds)
      BY IdFacts DEF Shape, CloudShape
    <3>2. Allowed(cloud, m)
      BY <1>1
    <3> HIDE DEF m, new
    <3> QED BY <2>1, <3>1, <3>2, ChangedIsTyped
  <2>3. /\ applied \in [Muts -> Nat]
        /\ \A s \in CloudIds : /\ s[2] \in Nat /\ s[3] \in Nat /\ (s[2] # 0 => s[2] \in Muts)
                               /\ cloud.acc[s].status # "NONE" => Counted(s)
    BY IdFacts DEF Shape, CloudShape, Counts, Muts
  <2>4. /\ applied'[m] = applied[m] + 1
        /\ \A n \in Muts : applied[n] \in Nat /\ applied'[n] \in Nat /\ applied[n] <= applied'[n]
    <3> HIDE DEF m
    <3> QED BY <2>1, <2>3
  <2>5. ASSUME NEW s \in CloudIds, s = new
        PROVE  cloud.acc[s].status = "NONE" /\ Counted(s)'
    <3>1. s[2] = m /\ s[3] = applied[m]
      BY <2>5
    <3>2. ~Counted(s)
      BY <2>1, <2>4, <3>1 DEF Counted
    <3>3. Counted(s)'
      BY <2>1, <2>4, <3>1 DEF Counted
    <3> QED BY <2>3, <3>2, <3>3
  <2>6. ASSUME NEW s \in CloudIds, Counted(s)
        PROVE  Counted(s)'
    <3>1. s[3] \in Nat /\ (s[2] = 0 \/ s[2] \in Muts)
      BY <2>3
    <3> QED BY <2>4, <2>6, <3>1 DEF Counted
  <2> HIDE DEF m, new
  <2>7. ASSUME NEW s \in CloudIds, cloud'.acc[s].status # "NONE"
        PROVE  Counted(s)'
    <3>1. CASE s = new
      BY <2>5, <3>1
    <3>2. CASE s # new
      BY <2>2, <2>3, <2>6, <2>7, <3>2 DEF Leaves
    <3> QED BY <3>1, <3>2
  <2>8. \A s \in CloudIds : cloud.acc[s].status = "CLOSED" => cloud'.acc[s].status = "CLOSED"
    BY <2>2, <2>5 DEF Leaves
  <2> QED BY <2>2, <2>7, <2>8 DEF CloudShape
<1>2. ASSUME CloseInCloud
      PROVE  /\ CloudShape'
             /\ \A s \in CloudIds : cloud.acc[s].status = "CLOSED" => cloud'.acc[s].status = "CLOSED"
  <2>1. PICK s \in OpenIn(cloud) :
          /\ cloud' = [cloud EXCEPT !.acc[s].status = "CLOSED", !.holder = Freed(cloud, s)]
          /\ applied' = applied
    BY <1>2 DEF CloseInCloud
  <2>2. s \in CloudIds /\ cloud.acc[s].status = "OPEN" /\ cloud.acc[s] \in Account
    BY DEF OpenIn, Shape, CloudShape, SideOf
  <2> DEFINE rec == [cloud.acc[s] EXCEPT !.status = "CLOSED"]
  <2>3. cloud' = [acc |-> [cloud.acc EXCEPT ![s] = rec], holder |-> Freed(cloud, s)]
    BY <2>1 DEF Shape, CloudShape, SideOf
  <2>4. rec \in Account /\ rec.status = "CLOSED"
    BY <2>2 DEF Account
  <2>5. cloud'.acc = [cloud.acc EXCEPT ![s] = rec]
        /\ cloud' = [acc |-> cloud'.acc, holder |-> cloud'.holder]
    BY <2>3
  <2> HIDE DEF rec
  <2> QED BY <2>1, <2>2, <2>4, <2>5 DEF Shape, CloudShape, SideOf, Counted
<1>3. CASE UNCHANGED <<cloud, applied>>
  BY <1>3 DEF Shape, CloudShape, Counted
<1>4. \/ UNCHANGED <<cloud, applied>> \/ CloseInCloud
      \/ \E p \in Pushes : Apply(p) /\ Allowed(cloud, push[p].now)
  BY ZenonT(60) DEF Next, vars, edge, outside, EdgeStep, SyncStep, CloudStep, Ask, AskAgain, Run, Enqueue,
         Record, Tick, ReadProtected, ListLocal, Reconcile, InsertOne, SendBatch, NothingToSend,
         Look, Apply, RecordInCloud, Answer, Unheard, CloudFails, CloudStops, LoseAnswer, EdgeStops,
         EdgeFails
<1> QED BY <1>1, <1>2, <1>3, <1>4

-----------------------------------------------------------------------------
(* The outbox and the pushes.                                              *)

LEMMA RecordedIsFinite ==
  ASSUME EdgeAssumption, NEW m \in Muts
  PROVE  /\ IsFiniteSet(Recorded) /\ Cardinality(Recorded) \in Nat
         /\ m \notin Recorded => Cardinality(Recorded \cup {m}) = Cardinality(Recorded) + 1
<1>1. IsFiniteSet(Muts)
  BY FS_Interval DEF Muts, EdgeAssumption
<1>2. IsFiniteSet(Recorded)
  BY <1>1, FS_Subset DEF Recorded
<1> QED BY <1>2, FS_CardinalityType, FS_AddElement

\* A row that exists keeps its place.
LEMMA RowsStay ==
  ASSUME EdgeAssumption, Shape, [Next]_vars
  PROVE  /\ OutboxShape'
         /\ Recorded \subseteq Recorded'
         /\ \A m \in Recorded : outbox'[m].created = outbox[m].created
<1>0. /\ outbox \in [Muts -> [status : {"NONE", "PENDING", "SYNCING", "COMPLETED", "FAILED"},
                               retries : Nat, created : Nat]]
      /\ Recorded \subseteq Asked' /\ Recorded \subseteq Muts
      /\ \A m \in Recorded : outbox[m].created <= Cardinality(Recorded)
  BY MutsStay DEF Shape, OutboxShape, Recorded
<1>1. ASSUME NEW w \in Tills, Enqueue(w)
      PROVE  /\ OutboxShape' /\ Recorded \subseteq Recorded'
             /\ \A m \in Recorded : outbox'[m].created = outbox[m].created
  <2> DEFINE m == till[w].m
             created == IF m \in Recorded THEN outbox[m].created ELSE Cardinality(Recorded) + 1
  <2>2. m \in Muts /\ m \in Asked'
    BY <1>1, MutsStay DEF Enqueue, Shape, TillShape, Asked
  <2>3. created \in Nat /\ Cardinality(Recorded) \in Nat
        /\ (m \notin Recorded => Cardinality(Recorded \cup {m}) = Cardinality(Recorded) + 1)
    <3>1. /\ Cardinality(Recorded) \in Nat
          /\ m \notin Recorded => Cardinality(Recorded \cup {m}) = Cardinality(Recorded) + 1
      BY <2>2, RecordedIsFinite
    <3>2. outbox[m].created \in Nat
      BY <1>0, <2>2
    <3> QED BY <3>1, <3>2
  <2>4. outbox' = [outbox EXCEPT ![m] = [status |-> "PENDING", retries |-> outbox[m].retries,
                                         created |-> created]]
    BY <1>1 DEF Enqueue
  <2>5. /\ outbox' \in [Muts -> [status : {"NONE", "PENDING", "SYNCING", "COMPLETED", "FAILED"},
                                 retries : Nat, created : Nat]]
        /\ \A n \in Muts : n # m => outbox'[n] = outbox[n]
        /\ outbox'[m].status = "PENDING" /\ outbox'[m].created = created
    BY <1>0, <2>2, <2>3, <2>4
  <2>6. Recorded' = Recorded \cup {m}
    BY <2>2, <2>5 DEF Recorded
  <2>7. \A n \in Recorded : outbox'[n].created = outbox[n].created
    BY <1>0, <2>5
  <2>8. \A n \in Recorded' : outbox'[n].created <= Cardinality(Recorded')
    <3>1. CASE m \in Recorded
      <4>1. Recorded' = Recorded
        BY <2>6, <3>1
      <4> QED BY <1>0, <2>7, <4>1
    <3>2. CASE m \notin Recorded
      <4>1. Cardinality(Recorded') = Cardinality(Recorded) + 1
        BY <2>3, <2>6, <3>2
      <4>2. \A n \in Recorded : outbox'[n].created <= Cardinality(Recorded) + 1
        BY <1>0, <2>3, <2>7
      <4>3. outbox'[m].created <= Cardinality(Recorded) + 1
        BY <2>3, <2>5, <3>2
      <4> QED BY <2>6, <4>1, <4>2, <4>3
    <3> QED BY <3>1, <3>2
  <2> QED BY <1>0, <2>2, <2>5, <2>6, <2>7, <2>8 DEF OutboxShape
<1>2. ASSUME \/ Tick \/ (\E p \in Pushes : Answer(p)) \/ SendBatch \/ outbox' = outbox
      PROVE  /\ outbox' \in [Muts -> [status : {"NONE", "PENDING", "SYNCING", "COMPLETED", "FAILED"},
                                      retries : Nat, created : Nat]]
             /\ \A m \in Muts : /\ outbox'[m].status = "NONE" <=> outbox[m].status = "NONE"
                                /\ outbox'[m].created = outbox[m].created
  <2>1. CASE Tick
    BY <1>0, <2>1, SMTT(30) DEF Tick, ResetSyncing, Reset
  <2>2. CASE \E p \in Pushes : Answer(p)
    <3>1. PICK p \in Pushes :
            outbox' = [m \in Muts |-> IF m \in sync.sent THEN Marked(m, push[p].accepted) ELSE outbox[m]]
      BY <2>2 DEF Answer
    <3>2. \A m \in sync.sent : m \in Muts /\ outbox[m].status # "NONE"
      BY DEF Shape, SyncShape, Recorded
    <3>3. \A m \in sync.sent :
            /\ Marked(m, push[p].accepted) \in
                 [status : {"NONE", "PENDING", "SYNCING", "COMPLETED", "FAILED"},
                  retries : Nat, created : Nat]
            /\ Marked(m, push[p].accepted).status # "NONE"
            /\ Marked(m, push[p].accepted).created = outbox[m].created
      <4> SUFFICES ASSUME NEW m \in sync.sent
          PROVE  /\ Marked(m, push[p].accepted) \in
                      [status : {"NONE", "PENDING", "SYNCING", "COMPLETED", "FAILED"},
                       retries : Nat, created : Nat]
                 /\ Marked(m, push[p].accepted).status # "NONE"
                 /\ Marked(m, push[p].accepted).created = outbox[m].created
        OBVIOUS
      <4>1. outbox[m] \in [status : {"NONE", "PENDING", "SYNCING", "COMPLETED", "FAILED"},
                           retries : Nat, created : Nat]
        BY <1>0, <3>2
      <4>2. CASE m \in push[p].accepted
        BY <4>1, <4>2 DEF Marked
      <4>3. CASE m \notin push[p].accepted
        BY <4>1, <4>3 DEF Marked
      <4> QED BY <4>2, <4>3
    <3> QED BY <1>0, <3>1, <3>2, <3>3
  <2>3. CASE SendBatch
    <3>1. outbox' = [m \in Muts |-> IF m \in Batch THEN [outbox[m] EXCEPT !.status = "SYNCING"]
                                                    ELSE outbox[m]]
      BY <2>3 DEF SendBatch
    <3>2. \A m \in Batch : outbox[m].status # "NONE"
      BY DEF Batch, Due
    <3> QED BY <1>0, <3>1, <3>2
  <2>4. CASE outbox' = outbox
    BY <1>0, <2>4
  <2> QED BY <1>2, <2>1, <2>2, <2>3, <2>4
<1>3. ASSUME \/ Tick \/ (\E p \in Pushes : Answer(p)) \/ SendBatch \/ outbox' = outbox
      PROVE  /\ OutboxShape' /\ Recorded \subseteq Recorded'
             /\ \A m \in Recorded : outbox'[m].created = outbox[m].created
  <2>1. Recorded' = Recorded
    BY <1>2, <1>3 DEF Recorded
  <2> QED BY <1>0, <1>2, <1>3, <2>1 DEF OutboxShape
<1>4. \/ Tick \/ (\E p \in Pushes : Answer(p)) \/ SendBatch \/ outbox' = outbox
      \/ \E w \in Tills : Enqueue(w)
  BY DEF Next, vars, edge, EdgeStep, SyncStep, CloudStep, Ask, AskAgain, Run, Record,
         ReadProtected, ListLocal, Reconcile, InsertOne, NothingToSend, Look, Apply, RecordInCloud,
         Unheard, CloudFails, CloudStops, CloseInCloud, LoseAnswer, EdgeStops, EdgeFails
<1> QED BY <1>1, <1>3, <1>4

LEMMA PushOkStays ==
  ASSUME EdgeAssumption, Shape, [Next]_vars, NEW q, PushOk(q)
  PROVE  PushOk(q)'
BY RowsStay DEF PushOk, Recorded

LEMMA PushSet ==
  ASSUME EdgeAssumption, Shape, [Next]_vars, NEW p \in Pushes, NEW q, PushOk(q),
         push' = [push EXCEPT ![p] = q]
  PROVE  PushShape'
<1>1. \A r \in Pushes : PushOk(push[r])' /\ PushOk(q)'
  BY PushOkStays DEF Shape, PushShape
<1>2. \A r \in Pushes : push'[r] = push[r] \/ push'[r] = q
  BY DEF Shape, PushShape
<1> QED BY <1>1, <1>2 DEF PushShape, Shape

LEMMA AdvanceShape ==
  ASSUME EdgeAssumption, Shape, [Next]_vars, NEW p \in Pushes,
         NEW m \in push[p].batch, NEW done \in SUBSET {m}, Advance(p, m, done)
  PROVE  PushShape'
<1> DEFINE rest == push[p].batch \ {m}
           q == [at |-> IF rest = {} THEN "done" ELSE "find", batch |-> rest, now |-> 0,
                 accepted |-> push[p].accepted \cup done]
<1>1. push' = [push EXCEPT ![p] = q]
  BY DEF Advance
<1>2. PushOk(q)
  BY IdFacts DEF PushOk, Shape, PushShape, Recorded, EdgeAssumption
<1> HIDE DEF q
<1> QED BY <1>1, <1>2, PushSet

LEMMA PushShapeKeeps ==
  ASSUME EdgeAssumption, Shape, [Next]_vars
  PROVE  PushShape'
<1>0. PushOk(NoPush)
  BY EdgeAssumption DEF PushOk, NoPush, EdgeAssumption
<1>1. ASSUME NEW p \in Pushes, push' = [push EXCEPT ![p] = NoPush]  PROVE PushShape'
  BY <1>0, <1>1, PushSet
<1>2. ASSUME SendBatch  PROVE PushShape'
  <2> DEFINE q == [at |-> "find", batch |-> Batch, now |-> 0, accepted |-> {}]
  <2>1. PICK p \in Pushes : push' = [push EXCEPT ![p] = q]
    BY <1>2 DEF SendBatch
  <2>2. PushOk(q)
    BY EdgeAssumption DEF PushOk, Batch, Due, Recorded, EdgeAssumption
  <2> HIDE DEF q
  <2> QED BY <2>1, <2>2, PushSet
<1>3. ASSUME NEW p \in Pushes, Look(p)  PROVE PushShape'
  <2>1. PICK m \in Oldest(p) : IF Known(m) THEN Advance(p, m, {m}) ELSE At(p, "run", m)
    BY <1>3 DEF Look
  <2>2. m \in push[p].batch /\ m \in Recorded /\ m \in 0..MaxMutations
        /\ \A n \in push[p].batch : outbox[m].created <= outbox[n].created
    BY IdFacts DEF Oldest, Shape, PushShape, PushOk, Recorded
  <2>3. CASE Known(m)
    BY <2>1, <2>2, <2>3, AdvanceShape
  <2>4. CASE ~Known(m)
    <3> DEFINE q == [at |-> "run", batch |-> push[p].batch, now |-> m, accepted |-> push[p].accepted]
    <3>1. push' = [push EXCEPT ![p] = q]
      BY <2>1, <2>4 DEF At
    <3>2. PushOk(q)
      BY <2>2 DEF PushOk, Shape, PushShape
    <3> HIDE DEF q
    <3> QED BY <3>1, <3>2, PushSet
  <2> QED BY <2>3, <2>4
<1>4. ASSUME NEW p \in Pushes, Apply(p)  PROVE PushShape'
  <2>1. push[p].at = "run" /\ push[p].now \in push[p].batch
        /\ (At(p, "key", push[p].now) \/ Advance(p, push[p].now, {}))
    BY <1>4, NowIsAsked DEF Apply, Refuse
  <2>2. CASE Advance(p, push[p].now, {})
    BY <2>1, <2>2, AdvanceShape
  <2>3. CASE At(p, "key", push[p].now)
    <3> DEFINE q == [at |-> "key", batch |-> push[p].batch, now |-> push[p].now,
                     accepted |-> push[p].accepted]
    <3>1. push' = [push EXCEPT ![p] = q]
      BY <2>3 DEF At
    <3>2. PushOk(q)
      BY <2>1 DEF PushOk, Shape, PushShape
    <3> HIDE DEF q
    <3> QED BY <3>1, <3>2, PushSet
  <2> QED BY <2>1, <2>2, <2>3
<1>5. ASSUME NEW p \in Pushes, RecordInCloud(p) \/ CloudFails(p)  PROVE PushShape'
  <2>1. PICK m \in push[p].batch : \E done \in SUBSET {m} : Advance(p, m, done)
    <3>1. CASE RecordInCloud(p)
      BY <3>1, NowIsAsked DEF RecordInCloud
    <3>2. CASE CloudFails(p)
      BY <3>2, NowIsAsked DEF CloudFails, Refuse, Oldest
    <3> QED BY <1>5, <3>1, <3>2
  <2> QED BY <2>1, AdvanceShape
<1>6. CASE push' = push
  BY <1>6, PushOkStays DEF Shape, PushShape
<1>7. \/ push' = push \/ SendBatch
      \/ \E p \in Pushes : \/ push' = [push EXCEPT ![p] = NoPush]
                           \/ Look(p) \/ Apply(p) \/ RecordInCloud(p) \/ CloudFails(p)
  BY DEF Next, vars, edge, outside, EdgeStep, SyncStep, CloudStep, Ask, AskAgain, Run, Enqueue,
         Record, Tick, ReadProtected, ListLocal, Reconcile, InsertOne, NothingToSend,
         Answer, Unheard, CloudStops, CloseInCloud, LoseAnswer, EdgeStops, EdgeFails
<1> QED BY <1>1, <1>2, <1>3, <1>4, <1>5, <1>6, <1>7

-----------------------------------------------------------------------------
(* The tick, and the shape as a whole.                                     *)

LEMMA TurnShape ==
  ASSUME EdgeAssumption, Shape, [Next]_vars, NEW at \in {"reconcile", "insert"},
         NEW todo \in SUBSET Ids, Turn(at, todo), at = "insert" => todo \subseteq PulledIds
  PROVE  SyncShape'
<1>0. Recorded \subseteq Recorded' /\ SyncShape /\ PulledIds \subseteq Ids
  BY RowsStay, PulledIsTyped DEF Shape
<1>1. CASE todo # {}
  <2>1. sync' = [sync EXCEPT !.at = at, !.todo = todo]
    BY <1>1 DEF Turn
  <2> QED BY <1>0, <2>1 DEF SyncShape, SyncSteps, PulledIds
<1>2. CASE todo = {} /\ at = "reconcile"
  <2>1. sync' = [sync EXCEPT !.at = "insert", !.todo = PulledIds, !.late = {}]
    BY <1>2 DEF Turn
  <2> QED BY <1>0, <2>1 DEF SyncShape, SyncSteps, PulledIds
<1>3. CASE todo = {} /\ at = "insert"
  <2>1. sync' = [NoSync EXCEPT !.at = "push"]
    BY <1>3 DEF Turn
  <2> QED BY <2>1 DEF SyncShape, NoSync, SyncSteps
<1> QED BY <1>1, <1>2, <1>3

LEMMA SyncShapeKeeps ==
  ASSUME EdgeAssumption, Shape, [Next]_vars
  PROVE  SyncShape'
<1>0. Recorded \subseteq Recorded' /\ SyncShape
  BY RowsStay DEF Shape
<1>1. ASSUME NEW w \in Tills, Enqueue(w)  PROVE SyncShape'
  <2>1. till[w].m \in Muts
    BY <1>1 DEF Enqueue, Shape, TillShape, Asked
  <2>2. sync' = sync \/ sync' = [sync EXCEPT !.late = @ \cup {till[w].m}]
    BY <1>1 DEF Enqueue
  <2> QED BY <1>0, <2>1, <2>2 DEF SyncShape, PulledIds
<1>2. ASSUME Tick  PROVE SyncShape'
  <2>1. PICK S \in SUBSET OpenIn(cloud) : 
          sync' = [NoSync EXCEPT
                    !.at = IF S = {} THEN "push" ELSE "protect",
                    !.pulled = {[id |-> s, table |-> cloud.acc[s].table,
                                 items |-> cloud.acc[s].items] : s \in S}]
    BY <1>2 DEF Tick
  <2>2. {[id |-> s, table |-> cloud.acc[s].table, items |-> cloud.acc[s].items] : s \in S}
          \subseteq Pulled
    BY DEF OpenIn, Pulled, Account, Shape, CloudShape, SideOf
  <2> QED BY <2>1, <2>2 DEF SyncShape, NoSync, SyncSteps
<1>3. ASSUME ReadProtected  PROVE SyncShape'
  <2>1. OpenIn(local) \subseteq Ids
    BY DEF OpenIn, Shape, LocalShape, SideOf
  <2>2. ASSUME NEW m \in Muts, Waiting(m), mut[m].kind # "open"  PROVE mut[m].id \in Ids
    <3>1. m \in Asked
      BY <2>2 DEF Waiting, Recorded, Shape, OutboxShape
    <3> QED BY <2>2, <3>1 DEF Asked, Shape, MutShape
  <2>3. Protected \subseteq Ids
    BY <2>1, <2>2 DEF Protected
  <2> QED BY <1>0, <1>3, <2>3 DEF ReadProtected, SyncShape, SyncSteps
<1>4. ASSUME ListLocal  PROVE SyncShape'
  <2>1. OpenIn(local) \ sync.protected \in SUBSET Ids
    BY DEF OpenIn, Shape, LocalShape, SideOf
  <2> QED BY <1>4, <2>1, TurnShape DEF ListLocal
<1>5. ASSUME Reconcile \/ InsertOne  PROVE SyncShape'
  <2>1. PICK s \in sync.todo :
          \/ sync.at = "reconcile" /\ Turn("reconcile", sync.todo \ {s})
          \/ sync.at = "insert" /\ Turn("insert", sync.todo \ {s})
    BY <1>5 DEF Reconcile, InsertOne
  <2>2. sync.todo \ {s} \in SUBSET Ids
    BY <1>0 DEF SyncShape
  <2>3. sync.at = "insert" => sync.todo \ {s} \subseteq PulledIds
    BY <1>0 DEF SyncShape
  <2> QED BY <2>1, <2>2, <2>3, TurnShape
<1>6. ASSUME SendBatch  PROVE SyncShape'
  <2>1. PICK p \in Pushes : sync' = [NoSync EXCEPT !.at = "wait", !.slot = {p}, !.sent = Batch]
    BY <1>6 DEF SendBatch
  <2>2. Batch \subseteq Recorded
    BY DEF Batch, Due, Recorded
  <2> QED BY <1>0, <2>1, <2>2 DEF SyncShape, NoSync, SyncSteps
<1>7. CASE sync' = NoSync
  BY <1>7 DEF SyncShape, NoSync, SyncSteps
<1>8. CASE sync' = sync
  BY <1>0, <1>8 DEF SyncShape, PulledIds
<1>9. \/ sync' = sync \/ sync' = NoSync \/ (\E w \in Tills : Enqueue(w))
      \/ Tick \/ ReadProtected \/ ListLocal \/ Reconcile \/ InsertOne \/ SendBatch
  BY DEF Next, vars, edge, outside, EdgeStep, SyncStep, CloudStep, Ask, AskAgain, Run, Record,
         NothingToSend, Look, Apply, RecordInCloud, Answer, Unheard, CloudFails, CloudStops,
         CloseInCloud, LoseAnswer, EdgeStops, EdgeFails
<1> QED BY <1>1, <1>2, <1>3, <1>4, <1>5, <1>6, <1>7, <1>8, <1>9

LEMMA CountsKeep ==
  ASSUME EdgeAssumption, Shape, [Next]_vars
  PROVE  Counts'
<1>0. Asked \subseteq Asked' /\ Counts
  BY MutsStay DEF Shape
<1>1. ran' \in [Muts -> Nat]
  <2>1. ran' = ran \/ \E w \in Tills : ran' = [ran EXCEPT ![till[w].m] = @ + 1]
    BY DEF Next, vars, edge, EdgeStep, SyncStep, CloudStep, Ask, AskAgain, Run, Enqueue, Record,
           Tick, ReadProtected, ListLocal, Reconcile, InsertOne, SendBatch, NothingToSend, Look,
           Apply, RecordInCloud, Answer, Unheard, CloudFails, CloudStops, CloseInCloud,
           LoseAnswer, EdgeStops, EdgeFails
  <2> QED BY <1>0, <2>1 DEF Counts
<1>2. applied' \in [Muts -> Nat]
  <2>1. applied' = applied \/ \E p \in Pushes : applied' = [applied EXCEPT ![push[p].now] = @ + 1]
    BY DEF Next, vars, outside, EdgeStep, SyncStep, CloudStep, Ask, AskAgain, Run, Enqueue, Record,
           Tick, ReadProtected, ListLocal, Reconcile, InsertOne, SendBatch, NothingToSend, Look,
           Apply, RecordInCloud, Answer, Unheard, CloudFails, CloudStops, CloseInCloud,
           LoseAnswer, EdgeStops, EdgeFails
  <2> QED BY <1>0, <2>1 DEF Counts
<1>3. keys' \subseteq Asked'
  <2>1. keys' = keys \/ \E w \in Tills : keys' = keys \cup {till[w].m} /\ till[w].at # "idle"
    BY DEF Next, vars, edge, EdgeStep, SyncStep, CloudStep, Ask, AskAgain, Run, Enqueue, Record,
           Tick, ReadProtected, ListLocal, Reconcile, InsertOne, SendBatch, NothingToSend, Look,
           Apply, RecordInCloud, Answer, Unheard, CloudFails, CloudStops, CloseInCloud,
           LoseAnswer, EdgeStops, EdgeFails
  <2> QED BY <1>0, <2>1 DEF Counts, Shape, TillShape
<1> QED BY <1>1, <1>2, <1>3 DEF Counts

LEMMA InitShape ==
  ASSUME EdgeAssumption, Init  PROVE Shape
<1>1. MutShape /\ Numbered /\ TillShape /\ Counts
  <2>1. Asked = {} /\ 0 \in 0..MaxMutations /\ \A m \in Muts : ~(m <= 0)
    BY IdFacts DEF Init, NoMut, Asked, Muts
  <2> QED BY <2>1, IdFacts DEF Init, MutShape, NoMut, Numbered, TillShape, NoTill, Counts
<1>2. LocalShape
  BY IdFacts DEF Init, LocalShape, SideOf, NoAccounts
<1>3. CloudShape
  <2>1. /\ SideOf(NoAccounts(CloudIds), CloudIds)
        /\ \A s \in CloudIds : NoAccounts(CloudIds).acc[s].status = "NONE"
    BY IdFacts DEF SideOf, NoAccounts, NoAccount
  <2>2. CASE cloud = NoAccounts(CloudIds)
    BY <2>1, <2>2 DEF CloudShape
  <2>3. ASSUME NEW t \in Tables, cloud = Opened(NoAccounts(CloudIds), <<"cloud", 0, 0>>, t, {0})
        PROVE  CloudShape
    <3> DEFINE rec == [status |-> "OPEN", table |-> t, items |-> {0}]
    <3>1. cloud.acc = [NoAccounts(CloudIds).acc EXCEPT ![<<"cloud", 0, 0>>] = rec]
          /\ cloud = [acc |-> cloud.acc, holder |-> cloud.holder]
      BY <2>3 DEF Opened
    <3>2. rec \in Account
      BY IdFacts DEF Account
    <3>3. \A s \in CloudIds : cloud.acc[s].status # "NONE" => s = <<"cloud", 0, 0>>
      BY <2>1, <3>1 DEF SideOf
    <3> HIDE DEF rec
    <3>4. SideOf(cloud, CloudIds)
      BY <2>1, <3>1, <3>2 DEF SideOf
    <3>5. \A s \in CloudIds : cloud.acc[s].status # "NONE" => Counted(s)
      BY <3>3 DEF Counted
    <3> QED BY <3>4, <3>5 DEF CloudShape
  <2> QED BY <2>2, <2>3 DEF Init
<1>4. Recorded = {} /\ OutboxShape
  <2>1. Recorded = {}
    BY DEF Init, Recorded, NoRow
  <2> QED BY <2>1 DEF Init, OutboxShape, NoRow
<1>5. SyncShape
  BY DEF Init, SyncShape, NoSync, SyncSteps
<1>6. PushShape
  BY IdFacts DEF Init, PushShape, PushOk, NoPush
<1> QED BY <1>1, <1>2, <1>3, <1>4, <1>5, <1>6 DEF Shape

LEMMA ShapeInvariant == Spec => []Shape
<1>1. Init => Shape
  BY InitShape, EdgeAssumption
<1>2. Shape /\ [Next]_vars => Shape'
  BY EdgeAssumption, MutShapeKeeps, TillShapeKeeps, LocalKeeps, CloudKeeps, RowsStay,
     SyncShapeKeeps, PushShapeKeeps, CountsKeep DEF Shape
<1> QED BY <1>1, <1>2, PTL DEF Spec

-----------------------------------------------------------------------------
(* What is done is done in the cloud.                                      *)

\* The cloud applied the change, or it closes an account that is closed there.
InCloud(m) == applied[m] > 0 \/ ClosedThere(m)

\* What a push carries back was applied; so were the ids the cloud knows.
AcceptedIsApplied ==
  /\ \A m \in Muts \cap cloudKeys : applied[m] > 0
  /\ \A p \in Pushes : push[p].at = "key" => applied[push[p].now] > 0
  /\ \A p \in Pushes : \A m \in push[p].accepted : InCloud(m)

\* What the cloud did with a change it never takes back.
LEMMA CloudGrows ==
  ASSUME EdgeAssumption, Shape, [Next]_vars
  PROVE  /\ \A m \in Muts : applied[m] > 0 => applied'[m] > 0
         /\ \A m \in Asked : ClosedThere(m) => ClosedThere(m)'
         /\ \A m \in Asked : InCloud(m) => InCloud(m)'
         /\ refused \subseteq refused'
<1>1. \A m \in Muts : applied[m] > 0 => applied'[m] > 0
  <2>1. applied' = applied
        \/ \E p \in Pushes : push[p].at = "run" /\ applied' = [applied EXCEPT ![push[p].now] = @ + 1]
    BY DEF Next, vars, outside, EdgeStep, SyncStep, CloudStep, Ask, AskAgain, Run, Enqueue, Record,
           Tick, ReadProtected, ListLocal, Reconcile, InsertOne, SendBatch, NothingToSend, Look,
           Apply, RecordInCloud, Answer, Unheard, CloudFails, CloudStops, CloseInCloud,
           LoseAnswer, EdgeStops, EdgeFails
  <2> QED BY <2>1 DEF Shape, Counts
<1>2. \A m \in Asked : ClosedThere(m) => ClosedThere(m)'
  BY MutsStay, CloudKeeps DEF ClosedThere
<1>3. \A m \in Asked : m \in Muts
  BY DEF Asked
<1>4. refused \subseteq refused'
  BY DEF Next, vars, outside, EdgeStep, SyncStep, CloudStep, Ask, AskAgain, Run, Enqueue, Record,
         Tick, ReadProtected, ListLocal, Reconcile, InsertOne, SendBatch, NothingToSend, Look,
         Apply, RecordInCloud, Answer, Unheard, CloudFails, CloudStops, CloseInCloud,
         LoseAnswer, EdgeStops, EdgeFails, Refuse
<1> QED BY <1>1, <1>2, <1>3, <1>4 DEF InCloud

\* A push that does not add what is not applied keeps it.
LEMMA AcceptedStays ==
  ASSUME EdgeAssumption, Shape, [Next]_vars, AcceptedIsApplied,
         NEW p \in Pushes, NEW q, push' = [push EXCEPT ![p] = q],
         q.at = "key" => q.now \in Muts /\ applied'[q.now] > 0,
         \A m \in q.accepted : m \in Asked /\ InCloud(m),
         cloudKeys' = cloudKeys
  PROVE  AcceptedIsApplied'
<1>1. \A r \in Pushes : push'[r] = q \/ push'[r] = push[r]
  BY DEF Shape, PushShape
<1>2. \A r \in Pushes : \A m \in push[r].accepted : m \in Asked /\ m \in Muts
  BY DEF Shape, PushShape, PushOk, OutboxShape, Recorded
<1>3. \A r \in Pushes : push[r].at = "key" => push[r].now \in Muts
  BY NowIsAsked
<1> QED BY <1>1, <1>2, <1>3, CloudGrows DEF AcceptedIsApplied

LEMMA AcceptedAdvances ==
  ASSUME EdgeAssumption, Shape, [Next]_vars, AcceptedIsApplied, NEW p \in Pushes, NEW m \in Asked,
         NEW done \in SUBSET {m}, Advance(p, m, done), m \in done => InCloud(m), cloudKeys' = cloudKeys
  PROVE  AcceptedIsApplied'
<1> DEFINE rest == push[p].batch \ {m}
           q == [at |-> IF rest = {} THEN "done" ELSE "find", batch |-> rest, now |-> 0,
                 accepted |-> push[p].accepted \cup done]
<1>1. push' = [push EXCEPT ![p] = q]
  BY DEF Advance
<1>2. q.at # "key" /\ q.accepted = push[p].accepted \cup done
  OBVIOUS
<1>3. \A n \in q.accepted : n \in Asked /\ InCloud(n)
  BY DEF AcceptedIsApplied, Shape, PushShape, PushOk, OutboxShape
<1> HIDE DEF q
<1> QED BY <1>1, <1>2, <1>3, AcceptedStays

LEMMA AcceptedKeeps ==
  ASSUME EdgeAssumption, Shape, [Next]_vars, AcceptedIsApplied
  PROVE  AcceptedIsApplied'
<1>1. ASSUME NEW p \in Pushes, push' = [push EXCEPT ![p] = NoPush], cloudKeys' = cloudKeys
      PROVE  AcceptedIsApplied'
  <2>1. NoPush.at # "key" /\ NoPush.accepted = {}
    BY DEF NoPush
  <2> QED BY <1>1, <2>1, AcceptedStays
<1>2. ASSUME SendBatch  PROVE AcceptedIsApplied'
  <2> DEFINE q == [at |-> "find", batch |-> Batch, now |-> 0, accepted |-> {}]
  <2>1. PICK p \in Pushes : push' = [push EXCEPT ![p] = q] /\ cloudKeys' = cloudKeys
    BY <1>2 DEF SendBatch
  <2>2. q.at # "key" /\ q.accepted = {}
    OBVIOUS
  <2> HIDE DEF q
  <2> QED BY <2>1, <2>2, AcceptedStays
<1>3. ASSUME NEW p \in Pushes, Look(p)  PROVE AcceptedIsApplied'
  <2>1. PICK m \in Oldest(p) : /\ IF Known(m) THEN Advance(p, m, {m}) ELSE At(p, "run", m)
                               /\ cloudKeys' = cloudKeys
    BY <1>3 DEF Look
  <2>2. m \in Asked /\ m \in Muts
    BY DEF Oldest, Shape, PushShape, PushOk, OutboxShape, Recorded
  <2>3. CASE Known(m)
    <3>1. InCloud(m)
      BY <2>2, <2>3 DEF Known, InCloud, AcceptedIsApplied
    <3> QED BY <2>1, <2>2, <2>3, <3>1, AcceptedAdvances
  <2>4. CASE ~Known(m)
    <3> DEFINE q == [at |-> "run", batch |-> push[p].batch, now |-> m, accepted |-> push[p].accepted]
    <3>1. push' = [push EXCEPT ![p] = q]
      BY <2>1, <2>4 DEF At
    <3>2. q.at # "key" /\ \A n \in q.accepted : n \in Asked /\ InCloud(n)
      BY DEF AcceptedIsApplied, Shape, PushShape, PushOk, OutboxShape
    <3> HIDE DEF q
    <3> QED BY <2>1, <3>1, <3>2, AcceptedStays
  <2> QED BY <2>3, <2>4
<1>4. ASSUME NEW p \in Pushes, Apply(p)  PROVE AcceptedIsApplied'
  <2> DEFINE m == push[p].now
  <2>1. m \in Asked /\ m \in Muts /\ cloudKeys' = cloudKeys
    BY <1>4, NowIsAsked DEF Apply
  <2>2. CASE Advance(p, m, {})
    BY <2>1, <2>2, AcceptedAdvances
  <2>3. CASE At(p, "key", m) /\ applied' = [applied EXCEPT ![m] = @ + 1]
    <3> DEFINE q == [at |-> "key", batch |-> push[p].batch, now |-> m, accepted |-> push[p].accepted]
    <3>1. push' = [push EXCEPT ![p] = q]
      BY <2>3 DEF At
    <3>2. q.now = m /\ applied'[m] > 0
      BY <2>1, <2>3 DEF Shape, Counts
    <3>3. \A n \in q.accepted : n \in Asked /\ InCloud(n)
      BY DEF AcceptedIsApplied, Shape, PushShape, PushOk, OutboxShape
    <3> HIDE DEF q
    <3> QED BY <2>1, <3>1, <3>2, <3>3, AcceptedStays
  <2> QED BY <1>4, <2>2, <2>3 DEF Apply, Refuse
<1>5. ASSUME NEW p \in Pushes, RecordInCloud(p)  PROVE AcceptedIsApplied'
  <2> DEFINE m == push[p].now
             rest == push[p].batch \ {m}
             q == [at |-> IF rest = {} THEN "done" ELSE "find", batch |-> rest, now |-> 0,
                   accepted |-> push[p].accepted \cup {m}]
  <2>1. /\ m \in Asked /\ m \in Muts /\ applied[m] > 0 /\ InCloud(m)
        /\ cloudKeys' = cloudKeys \cup {m} /\ push' = [push EXCEPT ![p] = q]
    BY <1>5, NowIsAsked DEF RecordInCloud, Advance, AcceptedIsApplied, InCloud
  <2>2. q.at # "key" /\ q.accepted = push[p].accepted \cup {m}
    OBVIOUS
  <2>3. \A r \in Pushes : push'[r] = push[r] \/ push'[r] = q
    BY <2>1 DEF Shape, PushShape
  <2>4. \A r \in Pushes : \A n \in push[r].accepted : n \in Asked
    BY DEF Shape, PushShape, PushOk, OutboxShape
  <2>5. \A r \in Pushes : push[r].at = "key" => push[r].now \in Muts
    BY NowIsAsked
  <2> HIDE DEF q, m
  <2>6. \A n \in Muts \cap cloudKeys' : applied'[n] > 0
    BY <2>1, CloudGrows DEF AcceptedIsApplied
  <2>7. \A r \in Pushes : push'[r].at = "key" => applied'[push'[r].now] > 0
    BY <2>2, <2>3, <2>5, CloudGrows DEF AcceptedIsApplied
  <2>8. \A r \in Pushes : \A n \in push'[r].accepted : InCloud(n)'
    BY <2>1, <2>2, <2>3, <2>4, CloudGrows DEF AcceptedIsApplied
  <2> QED BY <2>6, <2>7, <2>8 DEF AcceptedIsApplied
<1>6. ASSUME NEW p \in Pushes, CloudFails(p)  PROVE AcceptedIsApplied'
  <2>1. PICK m \in push[p].batch : Advance(p, m, {}) /\ cloudKeys' = cloudKeys
    BY <1>6, NowIsAsked DEF CloudFails, Refuse, Oldest
  <2>2. m \in Asked
    BY DEF Shape, PushShape, PushOk, OutboxShape
  <2> QED BY <2>1, <2>2, AcceptedAdvances
<1>7. CASE UNCHANGED <<push, cloudKeys>>
  <2>1. \A r \in Pushes : \A m \in push[r].accepted : m \in Asked
    BY DEF Shape, PushShape, PushOk, OutboxShape
  <2>2. \A r \in Pushes : push[r].at = "key" => push[r].now \in Muts
    BY NowIsAsked
  <2> QED BY <1>7, <2>1, <2>2, CloudGrows DEF AcceptedIsApplied
<1>8. \/ UNCHANGED <<push, cloudKeys>> \/ SendBatch
      \/ \E p \in Pushes : \/ push' = [push EXCEPT ![p] = NoPush] /\ cloudKeys' = cloudKeys
                           \/ Look(p) \/ Apply(p) \/ RecordInCloud(p) \/ CloudFails(p)
  BY ZenonT(60) DEF Next, vars, edge, outside, EdgeStep, SyncStep, CloudStep, Ask, AskAgain, Run, Enqueue,
         Record, Tick, ReadProtected, ListLocal, Reconcile, InsertOne, NothingToSend,
         Answer, Unheard, CloudStops, CloseInCloud, LoseAnswer, EdgeStops, EdgeFails
<1> QED BY <1>1, <1>2, <1>3, <1>4, <1>5, <1>6, <1>7, <1>8

LEMMA CompletedKeeps ==
  ASSUME EdgeAssumption, Shape, [Next]_vars, AcceptedIsApplied, CompletedIsApplied
  PROVE  CompletedIsApplied'
<1> SUFFICES ASSUME NEW m \in Muts, outbox'[m].status = "COMPLETED"  PROVE InCloud(m)'
  BY DEF CompletedIsApplied, InCloud
<1>1. outbox[m].status = "COMPLETED" \/ \E p \in Pushes : m \in push[p].accepted
  <2>1. CASE \E w \in Tills : Enqueue(w)
    <3>1. PICK w \in Tills : Enqueue(w)
      BY <2>1
    <3>2. outbox'[m] = outbox[m] \/ outbox'[m].status = "PENDING"
      BY <3>1 DEF Enqueue, Shape, OutboxShape
    <3> QED BY <3>2
  <2>2. CASE Tick
    BY <2>2 DEF Tick, ResetSyncing, Reset, Shape, OutboxShape
  <2>3. CASE SendBatch
    BY <2>3 DEF SendBatch, Shape, OutboxShape
  <2>4. ASSUME NEW p \in Pushes, Answer(p)
        PROVE  outbox[m].status = "COMPLETED" \/ m \in push[p].accepted
    BY <2>4 DEF Answer, Marked
  <2>5. CASE outbox' = outbox
    BY <2>5
  <2>6. \/ outbox' = outbox \/ Tick \/ SendBatch \/ (\E w \in Tills : Enqueue(w))
        \/ \E p \in Pushes : Answer(p)
    BY DEF Next, vars, edge, EdgeStep, SyncStep, CloudStep, Ask, AskAgain, Run, Record,
           ReadProtected, ListLocal, Reconcile, InsertOne, NothingToSend, Look, Apply,
           RecordInCloud, Unheard, CloudFails, CloudStops, CloseInCloud, LoseAnswer, EdgeStops,
           EdgeFails
  <2> QED BY <2>1, <2>2, <2>3, <2>4, <2>5, <2>6
<1>2. m \in Asked /\ InCloud(m)
  <2>1. CASE outbox[m].status = "COMPLETED"
    <3>1. m \in Recorded
      BY <2>1 DEF Recorded
    <3> QED BY <2>1, <3>1 DEF CompletedIsApplied, InCloud, Shape, OutboxShape
  <2>2. ASSUME NEW p \in Pushes, m \in push[p].accepted
        PROVE  m \in Asked /\ InCloud(m)
    BY <2>2 DEF AcceptedIsApplied, Shape, PushShape, PushOk, OutboxShape
  <2> QED BY <1>1, <2>1, <2>2
<1> QED BY <1>2, CloudGrows

-----------------------------------------------------------------------------
(* Once on each side.  A change that nobody doubled is handled by one at a  *)
(* time, has run only if its id is known or about to be, and is not taken  *)
(* up again then.                                                          *)

OnceOnEdge(m) ==
  /\ \A v, w \in Tills : HandledBy(v, m) /\ HandledBy(w, m) => v = w
  /\ \A w \in Tills : HandledBy(w, m) => m \notin keys /\ (till[w].at = "run" => ran[m] = 0)
  /\ m \notin keys /\ ran[m] > 0 => \E w \in Tills : HandledBy(w, m) /\ till[w].at # "run"
  /\ ran[m] <= 1

OnceInCloud(m) ==
  /\ \A p, q \in Pushes : AppliedBy(p, m) /\ AppliedBy(q, m) => p = q
  /\ \A p \in Pushes : AppliedBy(p, m) =>
       m \notin cloudKeys /\ (push[p].at = "run" => applied[m] = 0)
  /\ m \notin cloudKeys /\ applied[m] > 0 => \E p \in Pushes : AppliedBy(p, m) /\ push[p].at = "key"
  /\ applied[m] <= 1

LEMMA DoubledGrows ==
  ASSUME [Next]_vars  PROVE doubled \subseteq doubled'
BY DEF Next, vars, edge, EdgeStep, SyncStep, CloudStep, Ask, AskAgain, Run, Enqueue, Record, Tick,
       ReadProtected, ListLocal, Reconcile, InsertOne, SendBatch, NothingToSend, Look, Apply,
       RecordInCloud, Answer, Unheard, CloudFails, CloudStops, CloseInCloud, LoseAnswer, EdgeStops,
       EdgeFails

LEMMA EdgeKeepsOnce ==
  ASSUME EdgeAssumption, Shape, [Next]_vars, NEW m \in Muts \ doubled', OnceOnEdge(m)
  PROVE  OnceOnEdge(m)'
<1>0. /\ till \in [Tills -> [at : {"idle", "run", "queue", "key"}, m : 0..MaxMutations]]
      /\ ran \in [Muts -> Nat] /\ ran[m] \in Nat /\ keys \subseteq Asked
      /\ \A w \in Tills : till[w].at # "idle" => till[w].m \in Asked
  BY DEF Shape, TillShape, Counts
<1>1. ASSUME NEW w \in Tills, Ask(w)  PROVE OnceOnEdge(m)'
  <2> DEFINE n == Cardinality(Asked) + 1
  <2>1. till[w].at = "idle" /\ till' = [till EXCEPT ![w] = [at |-> "run", m |-> n]]
        /\ UNCHANGED <<keys, ran>>
    BY <1>1 DEF Ask, Idle
  <2>2. n \notin Asked
    BY NewNumber DEF Shape
  <2>3. CASE m = n
    <3>1. m \notin keys /\ \A v \in Tills : ~HandledBy(v, m)
      BY <1>0, <2>2, <2>3 DEF HandledBy
    <3>2. ran[m] = 0
      BY <1>0, <3>1 DEF OnceOnEdge
    <3>3. \A v \in Tills : HandledBy(v, m)' <=> v = w
      BY <1>0, <2>1, <2>3, <3>1 DEF HandledBy
    <3>4. m \notin keys' /\ ran'[m] = 0 /\ till'[w].at = "run"
      BY <1>0, <2>1, <3>1, <3>2
    <3> QED BY <3>3, <3>4 DEF OnceOnEdge
  <2>4. CASE m # n
    <3>1. \A v \in Tills : (HandledBy(v, m)' <=> HandledBy(v, m))
            /\ (HandledBy(v, m) => till'[v] = till[v])
      BY <1>0, <2>1, <2>4 DEF HandledBy
    <3> QED BY <2>1, <3>1 DEF OnceOnEdge
  <2> QED BY <2>3, <2>4
<1>2. ASSUME NEW w \in Tills, AskAgain(w)  PROVE OnceOnEdge(m)'
  <2>1. PICK n \in Asked :
          /\ till[w].at = "idle" /\ UNCHANGED <<keys, ran>>
          /\ \/ till' = till
             \/ /\ n \notin keys /\ till' = [till EXCEPT ![w] = [at |-> "run", m |-> n]]
                /\ (\E v \in Tills : HandledBy(v, n)) => n \in doubled'
    BY <1>2 DEF AskAgain, Idle
  <2>2. CASE till' = till
    BY <2>1, <2>2 DEF OnceOnEdge, HandledBy
  <2>3. CASE till' # till /\ m = n
    <3>1. m \notin keys /\ \A v \in Tills : ~HandledBy(v, m)
      BY <2>1, <2>3
    <3>2. ran[m] = 0
      BY <1>0, <3>1 DEF OnceOnEdge
    <3>3. \A v \in Tills : HandledBy(v, m)' <=> v = w
      BY <1>0, <2>1, <2>3, <3>1 DEF HandledBy
    <3>4. m \notin keys' /\ ran'[m] = 0 /\ till'[w].at = "run"
      BY <1>0, <2>1, <2>3, <3>1, <3>2
    <3> QED BY <3>3, <3>4 DEF OnceOnEdge
  <2>4. CASE till' # till /\ m # n
    <3>1. \A v \in Tills : (HandledBy(v, m)' <=> HandledBy(v, m))
            /\ (HandledBy(v, m) => till'[v] = till[v])
      BY <1>0, <2>1, <2>4 DEF HandledBy
    <3> QED BY <2>1, <3>1 DEF OnceOnEdge
  <2> QED BY <2>2, <2>3, <2>4
<1>3. ASSUME NEW w \in Tills, EdgeStep(w)  PROVE OnceOnEdge(m)'
  <2>1. CASE till[w].m # m
    <3>1. /\ Goes(w, "queue") \/ Goes(w, "key") \/ Goes(w, "idle")
          /\ ran' = ran \/ ran' = [ran EXCEPT ![till[w].m] = @ + 1]
          /\ keys' = keys \/ keys' = keys \cup {till[w].m}
          /\ till[w].at # "idle"
      BY <1>3 DEF EdgeStep, Run, Enqueue, Record
    <3>2. ran'[m] = ran[m] /\ (m \in keys' <=> m \in keys)
      BY <1>0, <2>1, <3>1
    <3>3. \A v \in Tills : v # w => till'[v] = till[v]
      BY <1>0, <3>1 DEF Goes
    <3>4. ~HandledBy(w, m) /\ ~HandledBy(w, m)'
      BY <1>0, <2>1, <3>1 DEF HandledBy, Goes, NoTill
    <3>5. \A v \in Tills : (HandledBy(v, m)' <=> HandledBy(v, m))
            /\ (HandledBy(v, m) => till'[v] = till[v])
      BY <3>3, <3>4 DEF HandledBy
    <3> QED BY <3>2, <3>5 DEF OnceOnEdge
  <2>2. CASE till[w].m = m
    <3>1. HandledBy(w, m) /\ m \notin keys /\ \A v \in Tills : v # w => ~HandledBy(v, m)
      BY <1>3, <2>2 DEF EdgeStep, Run, Enqueue, Record, HandledBy, OnceOnEdge
    <3>2. \A v \in Tills : v # w => ~HandledBy(v, m)'
      <4>1. \A v \in Tills : v # w => till'[v] = till[v]
        BY <1>0, <1>3 DEF EdgeStep, Run, Enqueue, Record, Goes
      <4> QED BY <3>1, <4>1 DEF HandledBy
    <3>3. CASE Run(w)
      <4>1. ran[m] = 0 /\ keys' = keys
        BY <3>1, <3>3 DEF Run, OnceOnEdge
      <4>2. CASE Goes(w, "queue") /\ ran' = [ran EXCEPT ![m] = @ + 1]
        <5>1. HandledBy(w, m)' /\ till'[w].at # "run" /\ ran'[m] = 1
          BY <1>0, <2>2, <4>1, <4>2 DEF Goes, HandledBy
        <5> QED BY <3>1, <3>2, <4>1, <5>1 DEF OnceOnEdge
      <4>3. CASE Goes(w, "idle") /\ ran' = ran
        <5>1. ~HandledBy(w, m)'
          BY <1>0, <4>3 DEF Goes, HandledBy, NoTill
        <5> QED BY <3>2, <4>1, <4>3, <5>1 DEF OnceOnEdge
      <4> QED BY <2>2, <3>3, <4>2, <4>3 DEF Run
    <3>4. CASE Enqueue(w)
      <4>1. HandledBy(w, m)' /\ till'[w].at # "run" /\ UNCHANGED <<keys, ran>>
        BY <1>0, <2>2, <3>4 DEF Enqueue, Goes, HandledBy
      <4> QED BY <3>1, <3>2, <4>1 DEF OnceOnEdge
    <3>5. CASE Record(w)
      <4>1. ~HandledBy(w, m)' /\ m \in keys' /\ ran' = ran
        BY <1>0, <2>2, <3>5 DEF Record, Goes, HandledBy, NoTill
      <4> QED BY <3>2, <4>1 DEF OnceOnEdge
    <3> QED BY <1>3, <3>3, <3>4, <3>5 DEF EdgeStep
  <2> QED BY <2>1, <2>2
<1>4. CASE EdgeStops
  <2>1. \A w \in Tills : ~HandledBy(w, m)' /\ (HandledBy(w, m) => till[w].at = "run")
    BY <1>0, <1>4 DEF EdgeStops, HandledBy, NoTill
  <2>2. UNCHANGED <<keys, ran>>
    BY <1>4 DEF EdgeStops
  <2> QED BY <2>1, <2>2 DEF OnceOnEdge
<1>5. CASE UNCHANGED <<till, keys, ran>>
  BY <1>5 DEF OnceOnEdge, HandledBy
<1>6. ASSUME NEW w \in Tills, EdgeFails(w)  PROVE OnceOnEdge(m)'
  <2>1. /\ \A v \in Tills : v # w => till'[v] = till[v]
        /\ till'[w] = NoTill /\ UNCHANGED <<keys, ran>>
    BY <1>0, <1>6 DEF EdgeFails, Goes
  <2>2. ~HandledBy(w, m)' /\ (HandledBy(w, m) => till[w].at = "run")
    BY <1>6, <2>1 DEF EdgeFails, HandledBy, NoTill
  <2>3. \A v \in Tills : v # w => (HandledBy(v, m)' <=> HandledBy(v, m))
    BY <2>1 DEF HandledBy
  <2> QED BY <1>0, <2>1, <2>2, <2>3 DEF OnceOnEdge
<1>7. \/ UNCHANGED <<till, keys, ran>> \/ EdgeStops
      \/ \E w \in Tills : Ask(w) \/ AskAgain(w) \/ EdgeStep(w) \/ EdgeFails(w)
  BY DEF Next, vars, edge, SyncStep, CloudStep, Tick, ReadProtected, ListLocal, Reconcile,
         InsertOne, SendBatch, NothingToSend, Look, Apply, RecordInCloud, Answer, Unheard,
         CloudFails, CloudStops, CloseInCloud, LoseAnswer
<1> QED BY <1>1, <1>2, <1>3, <1>4, <1>5, <1>6, <1>7

\* A step that leaves alone what the cloud does with a change keeps that it does it once.
LEMMA OtherChange ==
  ASSUME NEW m, OnceInCloud(m),
         \A q \in Pushes : /\ AppliedBy(q, m)' <=> AppliedBy(q, m)
                           /\ AppliedBy(q, m) => push'[q].at = push[q].at,
         applied'[m] = applied[m], m \in cloudKeys' <=> m \in cloudKeys
  PROVE  OnceInCloud(m)'
<1>1. \A p, q \in Pushes : AppliedBy(p, m)' /\ AppliedBy(q, m)' => p = q
  BY DEF OnceInCloud, AppliedBy
<1>2. \A p \in Pushes : AppliedBy(p, m)' =>
        m \notin cloudKeys' /\ (push'[p].at = "run" => applied'[m] = 0)
  BY DEF OnceInCloud, AppliedBy
<1>3. m \notin cloudKeys' /\ applied'[m] > 0 =>
        \E p \in Pushes : AppliedBy(p, m)' /\ push'[p].at = "key"
  BY DEF OnceInCloud, AppliedBy
<1>4. applied'[m] <= 1
  BY DEF OnceInCloud, AppliedBy
<1> QED BY <1>1, <1>2, <1>3, <1>4 DEF OnceInCloud, AppliedBy

\* Nor does a push that drops a change that did not run, or that is with another one.
LEMMA Dropped ==
  ASSUME Shape, NEW m \in Muts, OnceInCloud(m), NEW p \in Pushes, NEW q,
         push' = [push EXCEPT ![p] = q], q.at \notin {"run", "key"},
         push[p].at = "key" => push[p].now # m,
         applied' = applied, cloudKeys' = cloudKeys
  PROVE  OnceInCloud(m)'
<1>1. \A r \in Pushes : r # p => push'[r] = push[r]
  BY DEF Shape, PushShape
<1>2. push'[p] = q /\ ~AppliedBy(p, m)'
  BY DEF Shape, PushShape, AppliedBy
<1>3. AppliedBy(p, m) => push[p].at = "run"
  BY DEF AppliedBy
<1>4. \A r \in Pushes : r # p => (AppliedBy(r, m)' <=> AppliedBy(r, m))
  BY <1>1 DEF AppliedBy
<1>5. applied[m] \in Nat
  BY DEF Shape, Counts
<1> QED BY <1>1, <1>2, <1>3, <1>4, <1>5 DEF OnceInCloud

LEMMA CloudKeepsOnce ==
  ASSUME EdgeAssumption, Shape, [Next]_vars, NEW m \in Muts \ doubled', OnceInCloud(m)
  PROVE  OnceInCloud(m)'
<1>0. /\ push = [p \in Pushes |-> push[p]] /\ applied \in [Muts -> Nat] /\ applied[m] \in Nat
      /\ \A p \in Pushes : push[p].at \in {"run", "key"} => push[p].now \in Muts
  BY NowIsAsked DEF Shape, PushShape, Counts
<1>1. ASSUME NEW p \in Pushes, NEW n, NEW done, Advance(p, n, done),
             push[p].at = "key" => push[p].now # m, UNCHANGED <<applied, cloudKeys>>
      PROVE  OnceInCloud(m)'
  <2> DEFINE q == [at |-> IF push[p].batch \ {n} = {} THEN "done" ELSE "find",
                   batch |-> push[p].batch \ {n}, now |-> 0,
                   accepted |-> push[p].accepted \cup done]
  <2>1. push' = [push EXCEPT ![p] = q] /\ q.at \notin {"run", "key"}
    BY <1>1 DEF Advance
  <2> HIDE DEF q
  <2> QED BY <1>1, <2>1, Dropped
<1>2. ASSUME SendBatch \/ (\E p \in Pushes : Answer(p) \/ Unheard(p))  PROVE OnceInCloud(m)'
  <2>1. PICK p \in Pushes : \E q : /\ push' = [push EXCEPT ![p] = q] /\ q.at \in {"find", "idle"}
                                   /\ push[p].at # "key" /\ UNCHANGED <<applied, cloudKeys>>
    <3>1. NoPush.at = "idle"
      BY DEF NoPush
    <3>2. [at |-> "find", batch |-> Batch, now |-> 0, accepted |-> {}].at = "find"
      OBVIOUS
    <3>3. CASE SendBatch
      <4>1. PICK p \in Pushes :
              /\ push' = [push EXCEPT ![p] = [at |-> "find", batch |-> Batch, now |-> 0, accepted |-> {}]]
              /\ push[p].at = "idle" /\ UNCHANGED <<applied, cloudKeys>>
        BY <3>3 DEF SendBatch
      <4> QED BY <3>2, <4>1
    <3>4. CASE \E p \in Pushes : Answer(p) \/ Unheard(p)
      <4>1. PICK p \in Pushes : /\ push' = [push EXCEPT ![p] = NoPush] /\ push[p].at = "done"
                                /\ UNCHANGED <<applied, cloudKeys>>
        BY <3>4 DEF Answer, Unheard
      <4> QED BY <3>1, <4>1
    <3> QED BY <1>2, <3>3, <3>4
  <2>2. PICK q : /\ push' = [push EXCEPT ![p] = q] /\ q.at \in {"find", "idle"}
                 /\ push[p].at # "key" /\ UNCHANGED <<applied, cloudKeys>>
    BY <2>1
  <2> QED BY <2>2, Dropped
<1>3. ASSUME NEW p \in Pushes, Look(p)  PROVE OnceInCloud(m)'
  <2>1. PICK n \in Oldest(p) :
          /\ push[p].at = "find" /\ UNCHANGED <<applied, cloudKeys>>
          /\ IF Known(n) THEN Advance(p, n, {n}) ELSE At(p, "run", n)
          /\ ~Known(n) /\ (\E q \in Pushes : AppliedBy(q, n)) => n \in doubled'
    BY <1>3 DEF Look
  <2>2. CASE Known(n)
    BY <1>1, <2>1, <2>2
  <2>3. CASE ~Known(n)
    <3>1. /\ \A q \in Pushes : q # p => push'[q] = push[q]
          /\ push'[p].at = "run" /\ push'[p].now = n /\ ~AppliedBy(p, m)
      BY <1>0, <2>1, <2>3 DEF At, AppliedBy
    <3>2. CASE n = m
      <4>1. m \notin cloudKeys /\ \A q \in Pushes : ~AppliedBy(q, m)
        BY <2>1, <2>3, <3>2 DEF Known
      <4>2. applied[m] = 0
        BY <1>0, <4>1 DEF OnceInCloud
      <4>3. \A q \in Pushes : AppliedBy(q, m)' <=> q = p
        BY <3>1, <3>2, <4>1 DEF AppliedBy
      <4> QED BY <2>1, <3>1, <4>1, <4>2, <4>3 DEF OnceInCloud
    <3>3. CASE n # m
      <4>1. \A q \in Pushes : (AppliedBy(q, m)' <=> AppliedBy(q, m))
              /\ (AppliedBy(q, m) => push'[q].at = push[q].at)
        BY <3>1, <3>3 DEF AppliedBy
      <4> QED BY <2>1, <4>1, OtherChange
    <3> QED BY <3>2, <3>3
  <2> QED BY <2>2, <2>3
<1>4. ASSUME NEW p \in Pushes, Apply(p)  PROVE OnceInCloud(m)'
  <2> DEFINE n == push[p].now
  <2>1. push[p].at = "run" /\ n \in Muts /\ cloudKeys' = cloudKeys
    BY <1>0, <1>4 DEF Apply
  <2>2. CASE Advance(p, n, {}) /\ applied' = applied
    BY <1>1, <2>1, <2>2
  <2>3. CASE At(p, "key", n) /\ applied' = [applied EXCEPT ![n] = @ + 1]
    <3>1. /\ \A q \in Pushes : q # p => push'[q] = push[q]
          /\ push'[p].at = "key" /\ push'[p].now = n
      BY <1>0, <2>3 DEF At
    <3>2. \A q \in Pushes : AppliedBy(q, m)' <=> AppliedBy(q, m)
      BY <2>1, <3>1 DEF AppliedBy
    <3>3. CASE n = m
      <4>1. AppliedBy(p, m)
        BY <2>1, <3>3 DEF AppliedBy
      <4>2. m \notin cloudKeys /\ applied[m] = 0
        BY <2>1, <4>1 DEF OnceInCloud
      <4>3. applied'[m] = 1
        BY <1>0, <2>3, <3>3, <4>2
      <4>4. \A q \in Pushes : AppliedBy(q, m) => q = p
        BY <4>1 DEF OnceInCloud
      <4> QED BY <2>1, <3>1, <3>2, <4>1, <4>2, <4>3, <4>4 DEF OnceInCloud
    <3>4. CASE n # m
      <4>1. \A q \in Pushes : AppliedBy(q, m) => push'[q].at = push[q].at
        BY <3>1, <3>4 DEF AppliedBy
      <4>2. applied'[m] = applied[m]
        BY <1>0, <2>3, <3>4
      <4> QED BY <2>1, <3>2, <4>1, <4>2, OtherChange
    <3> QED BY <3>3, <3>4
  <2> QED BY <1>4, <2>2, <2>3 DEF Apply, Refuse
<1>5. ASSUME NEW p \in Pushes, RecordInCloud(p)  PROVE OnceInCloud(m)'
  <2> DEFINE n == push[p].now
  <2>1. /\ push[p].at = "key" /\ n \in Muts /\ applied' = applied /\ cloudKeys' = cloudKeys \cup {n}
        /\ Advance(p, n, {n})
    BY <1>0, <1>5 DEF RecordInCloud
  <2>2. /\ \A q \in Pushes : q # p => push'[q] = push[q]
        /\ ~AppliedBy(p, m)'
    BY <1>0, <2>1 DEF Advance, AppliedBy
  <2>3. CASE n = m
    <3>1. \A q \in Pushes : ~AppliedBy(q, m)'
      BY <2>1, <2>2, <2>3 DEF AppliedBy, OnceInCloud
    <3> QED BY <2>1, <2>3, <3>1 DEF OnceInCloud
  <2>4. CASE n # m
    <3>1. \A q \in Pushes : (AppliedBy(q, m)' <=> AppliedBy(q, m))
            /\ (AppliedBy(q, m) => push'[q].at = push[q].at)
      BY <2>2, <2>4 DEF AppliedBy
    <3> QED BY <2>1, <2>4, <3>1, OtherChange
  <2> QED BY <2>3, <2>4
<1>6. ASSUME NEW p \in Pushes, CloudFails(p)  PROVE OnceInCloud(m)'
  <2>1. PICK n : /\ Advance(p, n, {}) /\ UNCHANGED <<applied, cloudKeys>>
                 /\ push[p].at = "key" => push[p].now # m
    BY <1>6 DEF CloudFails, Refuse
  <2> QED BY <1>1, <2>1
<1>7. ASSUME NEW p \in Pushes, CloudStops(p)  PROVE OnceInCloud(m)'
  <2>1. NoPush.at \notin {"run", "key"}
    BY DEF NoPush
  <2>2. /\ push' = [push EXCEPT ![p] = NoPush] /\ UNCHANGED <<applied, cloudKeys>>
        /\ push[p].at = "key" => push[p].now # m
    BY <1>7 DEF CloudStops
  <2> QED BY <2>1, <2>2, Dropped
<1>8. CASE UNCHANGED <<push, applied, cloudKeys>>
  BY <1>8 DEF OnceInCloud, AppliedBy
<1>9. \/ UNCHANGED <<push, applied, cloudKeys>>
      \/ SendBatch \/ (\E p \in Pushes : Answer(p) \/ Unheard(p))
      \/ \E p \in Pushes : Look(p) \/ Apply(p) \/ RecordInCloud(p) \/ CloudFails(p) \/ CloudStops(p)
  BY ZenonT(60) DEF Next, vars, edge, outside, EdgeStep, SyncStep, CloudStep, Ask, AskAgain, Run, Enqueue,
         Record, Tick, ReadProtected, ListLocal, Reconcile, InsertOne, NothingToSend,
         CloseInCloud, LoseAnswer, EdgeStops, EdgeFails
<1> QED BY <1>2, <1>3, <1>4, <1>5, <1>6, <1>7, <1>8, <1>9

-----------------------------------------------------------------------------
(* In order.                                                               *)

\* The cloud has dealt with a change: applied it, refused it, or had its account closed.
Dealt(m) == InCloud(m) \/ m \in refused

Before(m, n) ==
  m \in Recorded /\ n \in Recorded /\ outbox[m].created < outbox[n].created

\* Rows are settled once they were dealt with, none is in between while a batch is chosen,
\* what a push has been sent is in it or dealt with, and so is what comes before.
InOrder ==
  /\ \A m \in Muts : outbox[m].status \in {"COMPLETED", "FAILED"} => Dealt(m)
  /\ sync.at \in {"protect", "list", "reconcile", "insert", "push"} =>
       \A m \in Muts : outbox[m].status # "SYNCING"
  /\ \A p \in sync.slot : \A m \in sync.sent : m \in push[p].batch \/ Dealt(m)
  /\ \A p \in Pushes : \A n \in push[p].batch : \A m \in Muts :
       Before(m, n) => m \in push[p].batch \/ Dealt(m)
  /\ \A m \in Muts : applied[m] > 0 => m \in Recorded

LEMMA DealtStays ==
  ASSUME EdgeAssumption, Shape, [Next]_vars, NEW m \in Asked, Dealt(m)
  PROVE  Dealt(m)'
BY CloudGrows DEF Dealt

\* Of two rows the one recorded first stays first, whatever is recorded later.
LEMMA BeforeStays ==
  ASSUME EdgeAssumption, Shape, [Next]_vars, NEW m \in Muts, NEW n \in Recorded, Before(m, n)'
  PROVE  Before(m, n)
<1>1. m \in Recorded' /\ outbox'[m].created < outbox'[n].created
  BY DEF Before
<1>2. outbox'[n].created = outbox[n].created /\ outbox[n].created \in Nat
      /\ outbox[n].created <= Cardinality(Recorded) /\ Cardinality(Recorded) \in Nat
  BY RowsStay, RecordedIsFinite DEF Shape, OutboxShape, Recorded
<1>3. CASE m \in Recorded
  BY <1>1, <1>2, <1>3, RowsStay DEF Before
<1>4. CASE m \notin Recorded
  <2>1. \E w \in Tills : Enqueue(w)
    <3>1. outbox[m].status = "NONE" /\ outbox'[m].status # "NONE"
      BY <1>1, <1>4 DEF Recorded
    <3>2. m \notin sync.sent /\ m \notin Batch
      BY <1>4 DEF Shape, SyncShape, Batch, Due, Recorded
    <3>3. ~Tick /\ ~SendBatch /\ ~(\E p \in Pushes : Answer(p)) /\ outbox' # outbox
      BY <3>1, <3>2 DEF Tick, ResetSyncing, Reset, SendBatch, Answer, Shape, OutboxShape
    <3> QED BY <3>3 DEF Next, vars, edge, EdgeStep, SyncStep, CloudStep, Ask, AskAgain, Run, Record,
               ReadProtected, ListLocal, Reconcile, InsertOne, NothingToSend, Look, Apply,
               RecordInCloud, Unheard, CloudFails, CloudStops, CloseInCloud, LoseAnswer, EdgeStops,
               EdgeFails
  <2>2. PICK w \in Tills : Enqueue(w)
    BY <2>1
  <2>3. till[w].m = m
    BY <1>1, <1>4, <2>2 DEF Enqueue, Recorded, Shape, OutboxShape
  <2>4. outbox'[m].created = Cardinality(Recorded) + 1
    BY <1>4, <2>2, <2>3 DEF Enqueue, Shape, OutboxShape
  <2> QED BY <1>1, <1>2, <2>4
<1> QED BY <1>3, <1>4

\* A push that only leaves out what was dealt with keeps the order.
LEMMA BatchKeepsOrder ==
  ASSUME EdgeAssumption, Shape, [Next]_vars, InOrder,
         NEW p \in Pushes, push'[p].batch \subseteq push[p].batch,
         \A m \in push[p].batch : m \in push'[p].batch \/ Dealt(m)'
  PROVE  \A n \in push'[p].batch : \A m \in Muts :
           Before(m, n)' => m \in push'[p].batch \/ Dealt(m)'
<1> SUFFICES ASSUME NEW n \in push'[p].batch, NEW m \in Muts, Before(m, n)'
             PROVE  m \in push'[p].batch \/ Dealt(m)'
  OBVIOUS
<1>1. n \in push[p].batch /\ n \in Recorded
  BY DEF Shape, PushShape, PushOk
<1>2. Before(m, n)
  BY <1>1, BeforeStays
<1>3. m \in push[p].batch \/ Dealt(m)
  BY <1>1, <1>2 DEF InOrder
<1>4. m \in Asked
  BY <1>2 DEF Before, Shape, OutboxShape
<1> QED BY <1>3, <1>4, DealtStays

\* A push that goes on has dealt with the change it leaves.
LEMMA PushMoves ==
  ASSUME EdgeAssumption, Shape, [Next]_vars, NEW p \in Pushes, AcceptedIsApplied
  PROVE  \/ push'[p].batch \subseteq push[p].batch /\ push'[p].at # "idle"
            /\ \A m \in push[p].batch : m \in push'[p].batch \/ Dealt(m)'
         \/ push'[p].batch = {} /\ (p \in sync.slot => sync' = NoSync)
         \/ SendBatch /\ push'[p].batch = Batch /\ push[p].at = "idle"
         \/ push'[p] = push[p]
<1> DEFINE Goal == push'[p].batch \subseteq push[p].batch /\ push'[p].at # "idle"
                     /\ \A m \in push[p].batch : m \in push'[p].batch \/ Dealt(m)'
<1>0. push = [r \in Pushes |-> push[r]]
  BY DEF Shape, PushShape
<1>1. ASSUME NEW r \in Pushes, NEW m, NEW done, Advance(r, m, done), Dealt(m)'
      PROVE  Goal \/ push'[p] = push[p]
  <2>1. r # p => push'[p] = push[p]
    BY <1>0, <1>1 DEF Advance
  <2>2. r = p => push'[p].batch = push[p].batch \ {m} /\ push'[p].at \in {"done", "find"}
    BY <1>0, <1>1 DEF Advance
  <2> QED BY <1>1, <2>1, <2>2
<1>2. ASSUME NEW r \in Pushes, NEW m, NEW step \in {"run", "key"}, At(r, step, m)
      PROVE  Goal \/ push'[p] = push[p]
  <2>1. r # p => push'[p] = push[p]
    BY <1>0, <1>2 DEF At
  <2>2. r = p => push'[p].batch = push[p].batch /\ push'[p].at = step
    BY <1>0, <1>2 DEF At
  <2> QED BY <2>1, <2>2
<1>3. ASSUME NEW r \in Pushes, Look(r)  PROVE Goal \/ push'[p] = push[p]
  <2>1. PICK m \in Oldest(r) : IF Known(m) THEN Advance(r, m, {m}) ELSE At(r, "run", m)
    BY <1>3 DEF Look
  <2>2. m \in Asked /\ m \in Muts
    BY DEF Oldest, Shape, PushShape, PushOk, OutboxShape, Recorded
  <2>3. CASE Known(m)
    <3>1. Dealt(m)
      BY <2>2, <2>3 DEF Known, Dealt, InCloud, AcceptedIsApplied
    <3> HIDE DEF Goal
    <3> QED BY <1>1, <2>1, <2>2, <2>3, <3>1, DealtStays
  <2>4. CASE ~Known(m)
    <3> HIDE DEF Goal
    <3> QED BY <1>2, <2>1, <2>4
  <2> QED BY <2>3, <2>4
<1>4. ASSUME NEW r \in Pushes, Apply(r) \/ CloudFails(r)  PROVE Goal \/ push'[p] = push[p]
  <2>1. (\E m : Refuse(r, m)) \/ At(r, "key", push[r].now)
    BY <1>4 DEF Apply, CloudFails
  <2>2. ASSUME NEW m, Refuse(r, m)  PROVE Goal \/ push'[p] = push[p]
    <3>1. Dealt(m)' /\ Advance(r, m, {})
      BY <2>2 DEF Refuse, Dealt
    <3> HIDE DEF Goal
    <3> QED BY <1>1, <3>1
  <2> HIDE DEF Goal
  <2> QED BY <1>2, <2>1, <2>2
<1>5. ASSUME NEW r \in Pushes, RecordInCloud(r)  PROVE Goal \/ push'[p] = push[p]
  <2>1. PICK m \in Asked : m = push[r].now /\ applied[m] > 0 /\ Advance(r, m, {m})
    BY <1>5, NowIsAsked DEF RecordInCloud, AcceptedIsApplied
  <2>2. Dealt(m)
    BY <2>1 DEF Dealt, InCloud
  <2> HIDE DEF Goal
  <2> QED BY <1>1, <2>1, <2>2, DealtStays
<1>6. ASSUME NEW r \in Pushes, Answer(r) \/ Unheard(r) \/ CloudStops(r)
      PROVE  push'[p] = push[p] \/ (push'[p].batch = {} /\ (p \in sync.slot => sync' = NoSync))
  <2>1. push' = [push EXCEPT ![r] = NoPush] /\ (r \in sync.slot => sync' = NoSync)
    BY <1>6 DEF Answer, Unheard, CloudStops
  <2> QED BY <1>0, <2>1 DEF NoPush
<1>7. ASSUME SendBatch
      PROVE  push'[p] = push[p] \/ (push'[p].batch = Batch /\ push[p].at = "idle")
  BY <1>0, <1>7 DEF SendBatch
<1>8. push' = push \/ SendBatch
      \/ \E r \in Pushes : \/ Look(r) \/ Apply(r) \/ CloudFails(r) \/ RecordInCloud(r)
                           \/ Answer(r) \/ Unheard(r) \/ CloudStops(r)
  BY DEF Next, vars, edge, outside, EdgeStep, SyncStep, CloudStep, Ask, AskAgain, Run, Enqueue,
         Record, Tick, ReadProtected, ListLocal, Reconcile, InsertOne, NothingToSend,
         CloseInCloud, LoseAnswer, EdgeStops, EdgeFails
<1> QED BY <1>3, <1>4, <1>5, <1>6, <1>7, <1>8

LEMMA SettledKeeps ==
  ASSUME EdgeAssumption, Shape, [Next]_vars, AcceptedIsApplied, CompletedIsApplied, InOrder,
         NEW m \in Muts, outbox'[m].status \in {"COMPLETED", "FAILED"}
  PROVE  Dealt(m)'
<1>0. outbox \in [Muts -> [status : {"NONE", "PENDING", "SYNCING", "COMPLETED", "FAILED"},
                          retries : Nat, created : Nat]]
  BY DEF Shape, OutboxShape
<1>1. ASSUME NEW p \in Pushes, Answer(p), m \in sync.sent  PROVE Dealt(m)'
  <2>1. m \in Asked /\ push[p].batch = {} /\ p \in sync.slot
    BY <1>1 DEF Answer, Shape, PushShape, PushOk, SyncShape, OutboxShape
  <2>2. Dealt(m)
    BY <1>1, <2>1 DEF InOrder
  <2> QED BY <2>1, <2>2, DealtStays
<1>2. outbox[m].status \in {"COMPLETED", "FAILED"}
      \/ \E p \in Pushes : Answer(p) /\ m \in sync.sent
  <2>1. ASSUME NEW w \in Tills, Enqueue(w)  PROVE outbox[m].status \in {"COMPLETED", "FAILED"}
    <3>1. outbox'[m] = outbox[m] \/ outbox'[m].status = "PENDING"
      BY <1>0, <2>1 DEF Enqueue
    <3> QED BY <3>1
  <2>2. CASE Tick
    BY <1>0, <2>2 DEF Tick, ResetSyncing, Reset
  <2>3. CASE SendBatch
    BY <1>0, <2>3 DEF SendBatch
  <2>4. ASSUME NEW p \in Pushes, Answer(p), m \notin sync.sent
        PROVE  outbox[m].status \in {"COMPLETED", "FAILED"}
    BY <1>0, <2>4 DEF Answer
  <2>5. \/ outbox' = outbox \/ Tick \/ SendBatch \/ (\E w \in Tills : Enqueue(w))
        \/ \E p \in Pushes : Answer(p)
    BY DEF Next, vars, edge, EdgeStep, SyncStep, CloudStep, Ask, AskAgain, Run, Record,
           ReadProtected, ListLocal, Reconcile, InsertOne, NothingToSend, Look, Apply,
           RecordInCloud, Unheard, CloudFails, CloudStops, CloseInCloud, LoseAnswer, EdgeStops,
           EdgeFails
  <2> QED BY <2>1, <2>2, <2>3, <2>4, <2>5
<1>3. CASE outbox[m].status \in {"COMPLETED", "FAILED"}
  <2>1. m \in Asked
    BY <1>3 DEF Shape, OutboxShape, Recorded
  <2> QED BY <1>3, <2>1, DealtStays DEF InOrder
<1> QED BY <1>1, <1>2, <1>3

LEMMA NoneSyncing ==
  ASSUME EdgeAssumption, Shape, [Next]_vars, InOrder,
         sync'.at \in {"protect", "list", "reconcile", "insert", "push"}, NEW m \in Muts
  PROVE  outbox'[m].status # "SYNCING"
<1>0. outbox \in [Muts -> [status : {"NONE", "PENDING", "SYNCING", "COMPLETED", "FAILED"},
                          retries : Nat, created : Nat]]
      /\ sync \in [at : SyncSteps, pulled : SUBSET Pulled, protected : SUBSET Ids,
                   todo : SUBSET Ids, sent : SUBSET Recorded, slot : SUBSET Pushes, late : SUBSET Muts]
  BY DEF Shape, OutboxShape, SyncShape
<1>1. CASE Tick
  BY <1>0, <1>1 DEF Tick, ResetSyncing, Reset
<1>2. ASSUME NEW w \in Tills, Enqueue(w)  PROVE outbox'[m].status # "SYNCING"
  <2>1. sync'.at = sync.at
    BY <1>0, <1>2 DEF Enqueue
  <2>2. outbox'[m] = outbox[m] \/ outbox'[m].status = "PENDING"
    BY <1>0, <1>2 DEF Enqueue
  <2> QED BY <2>1, <2>2 DEF InOrder
<1>3. CASE ReadProtected \/ ListLocal \/ Reconcile \/ InsertOne
  <2>1. sync.at \in {"protect", "list", "reconcile", "insert"} /\ outbox' = outbox
    BY <1>3 DEF ReadProtected, ListLocal, Reconcile, InsertOne
  <2> QED BY <2>1 DEF InOrder
<1>4. CASE sync' = NoSync \/ SendBatch
  <2>1. sync'.at \in {"idle", "wait"}
    <3>1. CASE sync' = NoSync
      BY <3>1 DEF NoSync
    <3>2. CASE SendBatch
      <4>1. PICK p \in Pushes : sync' = [NoSync EXCEPT !.at = "wait", !.slot = {p}, !.sent = Batch]
        BY <3>2 DEF SendBatch
      <4> QED BY <4>1 DEF NoSync
    <3> QED BY <1>4, <3>1, <3>2
  <2> QED BY <2>1
<1>5. CASE UNCHANGED <<sync, outbox>>
  BY <1>5 DEF InOrder
<1>6. \/ UNCHANGED <<sync, outbox>> \/ Tick \/ (\E w \in Tills : Enqueue(w))
      \/ ReadProtected \/ ListLocal \/ Reconcile \/ InsertOne \/ SendBatch \/ sync' = NoSync
  BY DEF Next, vars, edge, outside, EdgeStep, SyncStep, CloudStep, Ask, AskAgain, Run, Record,
         NothingToSend, Look, Apply, RecordInCloud, Answer, Unheard, CloudFails, CloudStops,
         CloseInCloud, LoseAnswer, EdgeStops, EdgeFails
<1> QED BY <1>1, <1>2, <1>3, <1>4, <1>5, <1>6

\* A batch leaves nothing out that comes before one of its rows and is not dealt with.
LEMMA BatchIsOldest ==
  ASSUME EdgeAssumption, Shape, InOrder, sync.at = "push",
         NEW n \in Batch, NEW m \in Muts, Before(m, n), ~Dealt(m)
  PROVE  m \in Batch
<1> DEFINE Earlier(r) == {k \in Muts : Due(k) /\ outbox[k].created < outbox[r].created}
<1>0. outbox[m] \in [status : {"NONE", "PENDING", "SYNCING", "COMPLETED", "FAILED"},
                      retries : Nat, created : Nat]
      /\ n \in Muts /\ (\A k \in Muts : outbox[k].created \in Nat) /\ BatchSize \in Nat
  BY DEF Shape, OutboxShape, Batch, EdgeAssumption
<1>1. outbox[m].status = "PENDING"
  BY <1>0 DEF InOrder, Before, Recorded
<1>2. Earlier(m) \subseteq Earlier(n)
  BY <1>0 DEF Before
<1>3. IsFiniteSet(Muts)
  BY FS_Interval DEF Muts, EdgeAssumption
<1>4. IsFiniteSet(Earlier(n))
  BY <1>3, FS_Subset
<1>5. Cardinality(Earlier(m)) <= Cardinality(Earlier(n)) /\ Cardinality(Earlier(n)) \in Nat
      /\ Cardinality(Earlier(m)) \in Nat
  <2> HIDE DEF Earlier
  <2> QED BY <1>2, <1>4, FS_Subset, FS_CardinalityType
<1>6. Cardinality(Earlier(n)) < BatchSize
  BY DEF Batch
<1>7. Cardinality(Earlier(m)) < BatchSize
  <2> HIDE DEF Earlier
  <2> QED BY <1>0, <1>5, <1>6
<1> QED BY <1>1, <1>7 DEF Batch, Due

LEMMA InOrderKeeps ==
  ASSUME EdgeAssumption, Shape, [Next]_vars, AcceptedIsApplied, CompletedIsApplied, InOrder
  PROVE  InOrder'
<1>1. \A m \in Muts : outbox'[m].status \in {"COMPLETED", "FAILED"} => Dealt(m)'
  BY SettledKeeps
<1>2. sync'.at \in {"protect", "list", "reconcile", "insert", "push"} =>
        \A m \in Muts : outbox'[m].status # "SYNCING"
  BY NoneSyncing
<1>3. \A p \in sync'.slot : \A m \in sync'.sent : m \in push'[p].batch \/ Dealt(m)'
  <2>1. CASE SendBatch
    <3>1. PICK p \in Pushes : /\ push' = [push EXCEPT ![p] =
                                    [at |-> "find", batch |-> Batch, now |-> 0, accepted |-> {}]]
                             /\ sync' = [NoSync EXCEPT !.at = "wait", !.slot = {p}, !.sent = Batch]
      BY <2>1 DEF SendBatch
    <3>2. sync'.slot = {p} /\ sync'.sent = Batch
      BY <3>1 DEF NoSync
    <3>3. push'[p].batch = Batch
      BY <3>1 DEF Shape, PushShape
    <3> QED BY <3>2, <3>3
  <2>2. CASE sync'.slot = {}
    BY <2>2
  <2>3. ASSUME sync'.slot = sync.slot, sync'.sent = sync.sent, ~SendBatch,
               NEW p \in sync.slot, NEW m \in sync.sent, sync' # NoSync
        PROVE  m \in push'[p].batch \/ Dealt(m)'
    <3>1. p \in Pushes /\ m \in Asked
      BY DEF Shape, SyncShape, OutboxShape
    <3>2. m \in push[p].batch \/ Dealt(m)
      BY DEF InOrder
    <3>3. push'[p] = push[p]
          \/ \A n \in push[p].batch : n \in push'[p].batch \/ Dealt(n)'
      BY <2>3, <3>1, PushMoves
    <3> QED BY <3>1, <3>2, <3>3, DealtStays
  <2>4. SendBatch \/ sync'.slot = {} \/ (sync'.slot = sync.slot /\ sync'.sent = sync.sent)
    <3>1. sync \in [at : SyncSteps, pulled : SUBSET Pulled, protected : SUBSET Ids,
                    todo : SUBSET Ids, sent : SUBSET Recorded, slot : SUBSET Pushes, late : SUBSET Muts]
      BY DEF Shape, SyncShape
    <3>2. CASE Tick \/ sync' = NoSync
      <4>1. NoSync.slot = {}
        BY DEF NoSync
      <4>2. CASE Tick
        <5>1. PICK at, pulled : sync' = [NoSync EXCEPT !.at = at, !.pulled = pulled]
          BY <4>2 DEF Tick
        <5> QED BY <5>1 DEF NoSync
      <4> QED BY <3>2, <4>1, <4>2
    <3>3. CASE ReadProtected \/ (\E w \in Tills : Enqueue(w)) \/ sync' = sync
      BY <3>1, <3>3 DEF ReadProtected, Enqueue
    <3>4. ASSUME NEW at \in {"reconcile", "insert"}, NEW todo, Turn(at, todo)
          PROVE  sync'.slot = {} \/ (sync'.slot = sync.slot /\ sync'.sent = sync.sent)
      BY <3>1, <3>4 DEF Turn, NoSync
    <3>5. ListLocal \/ Reconcile \/ InsertOne =>
            \E at \in {"reconcile", "insert"} : \E todo : Turn(at, todo)
      BY DEF ListLocal, Reconcile, InsertOne
    <3>6. \/ sync' = sync \/ sync' = NoSync \/ Tick \/ ReadProtected \/ (\E w \in Tills : Enqueue(w))
          \/ ListLocal \/ Reconcile \/ InsertOne \/ SendBatch
      BY DEF Next, vars, edge, outside, EdgeStep, SyncStep, CloudStep, Ask, AskAgain, Run, Record,
             NothingToSend, Look, Apply, RecordInCloud, Answer, Unheard, CloudFails, CloudStops,
             CloseInCloud, LoseAnswer, EdgeStops, EdgeFails
    <3> QED BY <3>2, <3>3, <3>4, <3>5, <3>6
  <2>5. CASE sync' = NoSync
    BY <2>5 DEF NoSync
  <2> QED BY <2>1, <2>2, <2>3, <2>4, <2>5
<1>4. \A p \in Pushes : \A n \in push'[p].batch : \A m \in Muts :
        Before(m, n)' => m \in push'[p].batch \/ Dealt(m)'
  <2> SUFFICES ASSUME NEW p \in Pushes
               PROVE  \A n \in push'[p].batch : \A m \in Muts :
                        Before(m, n)' => m \in push'[p].batch \/ Dealt(m)'
    OBVIOUS
  <2>1. CASE /\ push'[p].batch \subseteq push[p].batch
             /\ \A m \in push[p].batch : m \in push'[p].batch \/ Dealt(m)'
    BY <2>1, BatchKeepsOrder
  <2>2. CASE push'[p].batch = {}
    BY <2>2
  <2>3. CASE SendBatch /\ push'[p].batch = Batch
    <3> SUFFICES ASSUME NEW n \in Batch, NEW m \in Muts, Before(m, n)', ~Dealt(m)'
                 PROVE  m \in Batch
      BY <2>3
    <3>1. sync.at = "push" /\ n \in Recorded
      BY <2>3 DEF SendBatch, Batch, Due, Recorded
    <3>2. Before(m, n)
      BY <3>1, BeforeStays
    <3>3. ~Dealt(m)
      BY <3>2, DealtStays DEF Before, Shape, OutboxShape
    <3> QED BY <3>1, <3>2, <3>3, BatchIsOldest
  <2>4. CASE push'[p] = push[p]
    BY <2>4, BatchKeepsOrder
  <2> QED BY <2>1, <2>2, <2>3, <2>4, PushMoves
<1>5. \A m \in Muts : applied'[m] > 0 => m \in Recorded'
  <2>1. applied' = applied
        \/ \E p \in Pushes : push[p].at = "run" /\ applied' = [applied EXCEPT ![push[p].now] = @ + 1]
    BY DEF Next, vars, outside, EdgeStep, SyncStep, CloudStep, Ask, AskAgain, Run, Enqueue, Record,
           Tick, ReadProtected, ListLocal, Reconcile, InsertOne, SendBatch, NothingToSend, Look,
           Apply, RecordInCloud, Answer, Unheard, CloudFails, CloudStops, CloseInCloud,
           LoseAnswer, EdgeStops, EdgeFails
  <2>2. \A p \in Pushes : push[p].at = "run" => push[p].now \in Recorded
    BY NowIsAsked
  <2> QED BY <2>1, <2>2, RowsStay DEF InOrder, Shape, Counts
<1> QED BY <1>1, <1>2, <1>3, <1>4, <1>5 DEF InOrder

\* When a change is applied, what came before it on its account was applied or refused:
\* the account is open, so it was not closed there.
LEMMA OrderKeeps ==
  ASSUME EdgeAssumption, Shape, [Next]_vars, InOrder, NoOvertaking
  PROVE  NoOvertaking'
<1> SUFFICES ASSUME NEW m \in Recorded', NEW n \in Recorded', Before(m, n)',
                    mut'[m].id = mut'[n].id, applied'[n] > 0
             PROVE  applied'[m] > 0 \/ m \in refused'
  BY DEF NoOvertaking, Before
<1>0. m \in Muts /\ n \in Muts
  BY DEF Recorded
<1>1. n \in Recorded /\ (applied[n] > 0
        \/ \E p \in Pushes : Apply(p) /\ push[p].now = n /\ Allowed(cloud, n))
  <2>1. applied' = applied
        \/ \E p \in Pushes : /\ Apply(p) /\ Allowed(cloud, push[p].now)
                             /\ applied' = [applied EXCEPT ![push[p].now] = @ + 1]
    BY DEF Next, vars, outside, EdgeStep, SyncStep, CloudStep, Ask, AskAgain, Run, Enqueue, Record,
           Tick, ReadProtected, ListLocal, Reconcile, InsertOne, SendBatch, NothingToSend, Look,
           Apply, RecordInCloud, Answer, Unheard, CloudFails, CloudStops, CloseInCloud,
           LoseAnswer, EdgeStops, EdgeFails
  <2>2. CASE applied[n] > 0
    BY <1>0, <2>2 DEF InOrder
  <2>3. CASE ~(applied[n] > 0)
    <3>1. PICK p \in Pushes : Apply(p) /\ Allowed(cloud, push[p].now) /\ push[p].now = n
      BY <1>0, <2>1, <2>3 DEF Shape, Counts
    <3>2. n \in Recorded
      BY <3>1, NowIsAsked DEF Apply
    <3> QED BY <3>1, <3>2
  <2> QED BY <2>2, <2>3
<1>2. Before(m, n)
  BY <1>0, <1>1, BeforeStays
<1>3. m \in Asked /\ n \in Asked /\ m \in Recorded
  BY <1>1, <1>2 DEF Before, Shape, OutboxShape
<1>4. mut[m].id = mut[n].id
  BY <1>3, MutsStay
<1>5. CASE applied[n] > 0
  BY <1>0, <1>1, <1>2, <1>3, <1>4, <1>5, CloudGrows DEF NoOvertaking, Before
<1>6. ASSUME NEW p \in Pushes, Apply(p), push[p].now = n, Allowed(cloud, n)
      PROVE  applied[m] > 0 \/ m \in refused
  <2>1. m \notin push[p].batch /\ n \in push[p].batch
    BY <1>2, <1>6, <1>0 DEF Apply, Shape, PushShape, PushOk, Before, OutboxShape
  <2>2. Dealt(m)
    BY <1>0, <1>2, <2>1 DEF InOrder
  <2>3. ~ClosedThere(m)
    <3> SUFFICES ASSUME ClosedThere(m)  PROVE FALSE
      OBVIOUS
    <3>1. mut[n].id \in CloudIds /\ cloud.acc[mut[n].id].status = "CLOSED"
      BY <1>4 DEF ClosedThere
    <3>2. mut[n].kind # "open"
      BY <1>0, <3>1, IdFacts DEF Shape, MutShape
    <3>3. mut[n].id \in OpenIn(cloud)
      BY <1>6, <3>2 DEF Allowed
    <3> QED BY <3>1, <3>3 DEF OpenIn
  <2> QED BY <2>2, <2>3 DEF Dealt, InCloud
<1> QED BY <1>0, <1>1, <1>5, <1>6, CloudGrows

-----------------------------------------------------------------------------
(* A pull removes no account with changes on their way.                    *)

OnItsWay(m) == Waiting(m) /\ mut[m].kind # "open"

\* A change that was in the outbox when the pull read what to protect protects its account
\* until the pull has gone through the accounts of the edge.
Guarded ==
  /\ sync.at = "list" =>
       \A m \in Muts \ sync.late : OnItsWay(m) => mut[m].id \in sync.protected
  /\ sync.at = "reconcile" =>
       \A m \in Muts \ sync.late : OnItsWay(m) => mut[m].id \notin sync.todo

LEMMA GuardedKeeps ==
  ASSUME EdgeAssumption, Shape, [Next]_vars, Guarded
  PROVE  Guarded'
<1>0. /\ sync \in [at : SyncSteps, pulled : SUBSET Pulled, protected : SUBSET Ids,
                   todo : SUBSET Ids, sent : SUBSET Recorded, slot : SUBSET Pushes, late : SUBSET Muts]
      /\ outbox \in [Muts -> [status : {"NONE", "PENDING", "SYNCING", "COMPLETED", "FAILED"},
                              retries : Nat, created : Nat]]
  BY DEF Shape, SyncShape, OutboxShape
<1>1. \A m \in Muts : Waiting(m) => mut'[m] = mut[m]
  <2>1. \A m \in Muts : Waiting(m) => m \in Asked
    BY DEF Waiting, Shape, OutboxShape, Recorded
  <2> QED BY <2>1, MutsStay
<1>2. CASE ReadProtected
  <2>1. /\ sync' = [sync EXCEPT !.at = "list", !.protected = Protected]
        /\ outbox' = outbox /\ mut' = mut
    BY <1>2 DEF ReadProtected, edge
  <2>2. \A m \in Muts : OnItsWay(m) => mut[m].id \in Protected
    BY DEF OnItsWay, Protected
  <2>3. sync'.at = "list" /\ sync'.protected = Protected
    BY <1>0, <2>1
  <2> QED BY <2>1, <2>2, <2>3 DEF Guarded, OnItsWay, Waiting
<1>3. CASE ListLocal \/ Reconcile
  <2>1. PICK todo : /\ Turn("reconcile", todo)
                    /\ \A m \in Muts \ sync.late : OnItsWay(m) => mut[m].id \notin todo
    <3>1. CASE ListLocal
      <4>1. Turn("reconcile", OpenIn(local) \ sync.protected) /\ sync.at = "list"
        BY <3>1 DEF ListLocal
      <4> QED BY <4>1 DEF Guarded
    <3>2. CASE Reconcile
      <4>1. PICK s \in sync.todo : Turn("reconcile", sync.todo \ {s}) /\ sync.at = "reconcile"
        BY <3>2 DEF Reconcile
      <4> QED BY <4>1 DEF Guarded
    <3> QED BY <1>3, <3>1, <3>2
  <2>2. outbox' = outbox /\ mut' = mut
    BY <1>3 DEF ListLocal, Reconcile, edge
  <2>3. CASE todo = {}
    BY <1>0, <2>1, <2>3 DEF Turn, Guarded
  <2>4. CASE todo # {}
    <3>1. sync' = [sync EXCEPT !.at = "reconcile", !.todo = todo]
      BY <2>1, <2>4 DEF Turn
    <3>2. sync'.at = "reconcile" /\ sync'.todo = todo /\ sync'.late = sync.late
      BY <1>0, <3>1
    <3> QED BY <2>1, <2>2, <3>2 DEF Guarded, OnItsWay, Waiting
  <2> QED BY <2>3, <2>4
<1>4. ASSUME NEW w \in Tills, Enqueue(w)  PROVE Guarded'
  <2> DEFINE n == till[w].m
  <2>1. /\ mut' = mut /\ \A m \in Muts : m # n => outbox'[m] = outbox[m]
        /\ sync' = IF sync.at \in {"list", "reconcile"} THEN [sync EXCEPT !.late = @ \cup {n}]
                   ELSE sync
    BY <1>0, <1>4 DEF Enqueue
  <2>2. CASE sync.at \in {"list", "reconcile"}
    <3>1. sync' = [sync EXCEPT !.late = @ \cup {n}]
      BY <2>1, <2>2
    <3>2. /\ sync'.at = sync.at /\ sync'.protected = sync.protected /\ sync'.todo = sync.todo
          /\ sync'.late = sync.late \cup {n}
      BY <1>0, <3>1
    <3> HIDE DEF n
    <3> QED BY <2>1, <3>2 DEF Guarded, OnItsWay, Waiting
  <2>3. CASE sync.at \notin {"list", "reconcile"}
    BY <2>1, <2>3 DEF Guarded
  <2> QED BY <2>2, <2>3
<1>5. CASE sync'.at \notin {"list", "reconcile"}
  BY <1>5 DEF Guarded
<1>6. CASE UNCHANGED <<sync, outbox>>
  BY <1>1, <1>6 DEF Guarded, OnItsWay, Waiting
<1>7. Tick \/ SendBatch \/ InsertOne \/ sync' = NoSync => sync'.at \notin {"list", "reconcile"}
  <2>1. sync' = NoSync => sync'.at = "idle"
    BY DEF NoSync
  <2>2. SendBatch => sync'.at = "wait"
    <3>1. SendBatch => \E p : sync' = [NoSync EXCEPT !.at = "wait", !.slot = {p}, !.sent = Batch]
      BY DEF SendBatch
    <3> QED BY <3>1 DEF NoSync
  <2>3. Tick => sync'.at \in {"push", "protect"}
    <3>1. Tick => \E at \in {"push", "protect"} : \E pulled :
                    sync' = [NoSync EXCEPT !.at = at, !.pulled = pulled]
      BY DEF Tick
    <3> QED BY <3>1 DEF NoSync
  <2>4. InsertOne => sync'.at \in {"insert", "push"}
    <3>1. InsertOne => \E todo : Turn("insert", todo)
      BY DEF InsertOne
    <3>2. ASSUME NEW todo, Turn("insert", todo)  PROVE sync'.at \in {"insert", "push"}
      BY <1>0, <3>2 DEF Turn, NoSync
    <3> QED BY <3>1, <3>2
  <2> QED BY <2>1, <2>2, <2>3, <2>4
<1>8. \/ UNCHANGED <<sync, outbox>> \/ Tick \/ (\E w \in Tills : Enqueue(w)) \/ ReadProtected
      \/ ListLocal \/ Reconcile \/ InsertOne \/ SendBatch \/ sync' = NoSync
  BY DEF Next, vars, edge, outside, EdgeStep, SyncStep, CloudStep, Ask, AskAgain, Run, Record,
         NothingToSend, Look, Apply, RecordInCloud, Answer, Unheard, CloudFails, CloudStops,
         CloseInCloud, LoseAnswer, EdgeStops, EdgeFails
<1> QED BY <1>2, <1>3, <1>4, <1>5, <1>6, <1>7, <1>8

\* The one account a step can remove is on the list of the pull, and that account has no
\* change on its way.
LEMMA GuardedStep ==
  ASSUME EdgeAssumption, Shape, Guarded, [Next]_vars
  PROVE  \A m \in Muts \ sync.late : Waiting(m) /\ mut[m].id \in OpenIn(local) =>
           local'.acc[mut[m].id].status # "NONE"
<1> SUFFICES ASSUME NEW m \in Muts \ sync.late, Waiting(m), mut[m].id \in OpenIn(local)
             PROVE  local'.acc[mut[m].id].status # "NONE"
  OBVIOUS
<1>1. mut[m].id \in Ids /\ local.acc[mut[m].id].status # "NONE"
  BY DEF OpenIn, Shape, LocalShape, SideOf
<1>2. OnItsWay(m)
  BY <1>1, IdFacts DEF OnItsWay, Shape, MutShape
<1>3. ~(sync.at = "reconcile" /\ mut[m].id \in sync.todo)
  BY <1>2 DEF Guarded
<1> QED BY <1>1, <1>3, LocalKeeps

-----------------------------------------------------------------------------
(* The inductive invariant, and what follows.                              *)

OnlyOnce == \A m \in Muts \ doubled : OnceOnEdge(m) /\ OnceInCloud(m)

EdgeInv ==
  /\ AcceptedIsApplied /\ CompletedIsApplied
  /\ OnlyOnce
  /\ InOrder /\ NoOvertaking
  /\ Guarded

LEMMA EdgeInvStarts ==
  ASSUME EdgeAssumption, Init
  PROVE  EdgeInv
<1>1. /\ \A m \in Muts : ran[m] = 0 /\ applied[m] = 0 /\ outbox[m] = NoRow
      /\ \A w \in Tills : till[w].at = "idle"
      /\ \A p \in Pushes : push[p].at = "idle" /\ push[p].batch = {} /\ push[p].accepted = {}
      /\ sync.at = "idle" /\ sync.slot = {} /\ keys = {} /\ cloudKeys = {}
  BY DEF Init, NoTill, NoPush, NoSync
<1>2. Recorded = {}
  BY <1>1 DEF Recorded, NoRow
<1>3. AcceptedIsApplied
  BY <1>1 DEF AcceptedIsApplied
<1>4. CompletedIsApplied
  BY <1>1 DEF CompletedIsApplied, NoRow
<1>5. OnlyOnce
  BY <1>1 DEF OnlyOnce, OnceOnEdge, OnceInCloud, HandledBy, AppliedBy
<1>6. InOrder
  BY <1>1 DEF InOrder, NoRow
<1>7. NoOvertaking
  BY <1>2 DEF NoOvertaking
<1>8. Guarded
  BY <1>1 DEF Guarded
<1> QED BY <1>3, <1>4, <1>5, <1>6, <1>7, <1>8 DEF EdgeInv

LEMMA EdgeInvKeeps ==
  ASSUME EdgeAssumption, Shape, [Next]_vars, EdgeInv
  PROVE  EdgeInv'
<1>1. AcceptedIsApplied' /\ CompletedIsApplied'
  BY AcceptedKeeps, CompletedKeeps DEF EdgeInv
<1>2. OnlyOnce'
  <2> SUFFICES ASSUME NEW m \in Muts \ doubled'  PROVE OnceOnEdge(m)' /\ OnceInCloud(m)'
    BY DEF OnlyOnce
  <2>1. OnceOnEdge(m) /\ OnceInCloud(m)
    BY DoubledGrows DEF EdgeInv, OnlyOnce
  <2> QED BY <2>1, EdgeKeepsOnce, CloudKeepsOnce
<1>3. InOrder' /\ NoOvertaking'
  BY InOrderKeeps, OrderKeeps DEF EdgeInv
<1>4. Guarded'
  BY GuardedKeeps DEF EdgeInv
<1> QED BY <1>1, <1>2, <1>3, <1>4 DEF EdgeInv

LEMMA EdgeInvariant == Spec => []EdgeInv
<1>1. Init => EdgeInv
  BY EdgeInvStarts, EdgeAssumption
<1>2. Shape /\ EdgeInv /\ [Next]_vars => EdgeInv'
  BY EdgeInvKeeps, EdgeAssumption
<1> QED BY <1>1, <1>2, ShapeInvariant, PTL DEF Spec

\* A change runs once on each side however often a till repeats its request and the edge
\* its push, unless two looked its id up at once or a crash came before it was recorded
\* (FloorIdempotencyService.run).
THEOREM ChangesRunOnce == Spec => []AppliedOnce
<1>1. EdgeInv => AppliedOnce
  BY DEF EdgeInv, OnlyOnce, OnceOnEdge, OnceInCloud, AppliedOnce
<1> QED BY <1>1, EdgeInvariant, PTL

\* What markCompleted takes as done was applied by the cloud, or closes an account that is
\* closed there.
THEOREM CompletedAlwaysApplied == Spec => []CompletedIsApplied
<1>1. EdgeInv => CompletedIsApplied
  BY DEF EdgeInv
<1> QED BY <1>1, EdgeInvariant, PTL

\* listPending and the loop over a push keep the order in which the changes of an account
\* were recorded, whatever is lost, refused or sent again in between.
THEOREM NeverOvertaken == Spec => []NoOvertaking
<1>1. EdgeInv => NoOvertaking
  BY DEF EdgeInv
<1> QED BY <1>1, EdgeInvariant, PTL

\* No pull removes an account with a change that was in the outbox when the pull read what
\* to protect (collectProtectedSessionIds).
THEOREM PendingAlwaysKept == Spec => PendingIsKept
<1>1. Shape /\ EdgeInv /\ [Next]_vars =>
        [\A m \in Muts \ sync.late : Waiting(m) /\ mut[m].id \in OpenIn(local) =>
           local'.acc[mut[m].id].status # "NONE"]_vars
  BY GuardedStep, EdgeAssumption DEF EdgeInv
<1> QED BY <1>1, ShapeInvariant, EdgeInvariant, PTL DEF Spec, PendingIsKept
-----------------------------------------------------------------------------
(* Bounds.  Every repetition is paid for by a fault: a change handled again *)
(* on the edge, a row tried beyond MAX_OUTBOX_RETRIES, a push sent again    *)
(* for a change the cloud does not know yet.                                *)

One(b) == IF b THEN 1 ELSE 0

\* The tills at some steps of a change.
Handles(request, m, steps) == request.at \in steps /\ request.m = m
Handlers(tills, m, steps) == {w \in Tills : Handles(tills[w], m, steps)}

RanBound ==
  \A m \in Muts : ran[m] + Cardinality(Handlers(till, m, {"run"})) <= One(m \in Asked) + faults

\* How far a row is beyond MAX_OUTBOX_RETRIES, with the try that is on its way.
Over(row) ==
  (IF row.retries > MaxRetries THEN row.retries - MaxRetries ELSE 0)
  + One(row.status \in {"PENDING", "SYNCING"} /\ row.retries >= MaxRetries)

RetryBound ==
  \A m \in Muts :
    Over(outbox[m]) + Cardinality(Handlers(till, m, {"run", "queue"})) + One(m \in Recorded)
      <= One(m \in Asked) + faults

\* The pushes that may still apply a change, and whether the edge may send it once more
\* before the cloud knows it.
Holds(q, m) == q.at \in {"find", "run", "key"} /\ m \in q.batch
MayApply(q, known, m) ==
  \/ q.at = "run" /\ q.now = m
  \/ m \notin known /\ Holds(q, m) /\ ~(q.at = "key" /\ q.now = m)
Appliers(pushes, known, m) == {p \in Pushes : MayApply(pushes[p], known, m)}
MaySend(pushes, slot, known, m) == m \notin known /\ \A p \in slot : ~Holds(pushes[p], m)

AppliedBound ==
  \A m \in Muts :
    applied[m] + Cardinality(Appliers(push, cloudKeys, m))
      + One(MaySend(push, sync.slot, cloudKeys, m)) <= faults + 1

\* The edge waits for one push, whose rows were not settled meanwhile.
SlotShape ==
  /\ sync.at = "wait" => \E p \in Pushes : sync.slot = {p}
  /\ sync.at # "wait" => sync.slot = {} /\ sync.sent = {}
  /\ \A m \in sync.sent : outbox[m].status \in {"PENDING", "SYNCING"}

BlankRows == \A m \in Muts \ Recorded : outbox[m] = NoRow

HolderShape ==
  /\ local.holder \in [Tables -> Ids \cup {NoId}]
  /\ cloud.holder \in [Tables -> CloudIds \cup {NoId}]
  /\ opened \in Seq(CloudIds)

MarkShape ==
  faults \in 0..MaxFaults /\ refused \subseteq Muts /\ doubled \subseteq Muts /\ cloudKeys \subseteq Muts

Bounds ==
  /\ RanBound /\ RetryBound /\ AppliedBound
  /\ SlotShape /\ BlankRows /\ HolderShape /\ MarkShape

\* A set that changes at one place.
LEMMA OneMoves ==
  ASSUME NEW S, NEW T, NEW w, IsFiniteSet(S), \A v : v # w => (v \in T <=> v \in S)
  PROVE  /\ IsFiniteSet(T) /\ Cardinality(S) \in Nat /\ Cardinality(T) \in Nat
         /\ (w \in S <=> w \in T) => Cardinality(T) = Cardinality(S)
         /\ w \in S /\ w \notin T => Cardinality(T) + 1 = Cardinality(S)
         /\ w \notin S /\ w \in T => Cardinality(T) = Cardinality(S) + 1
<1>1. CASE w \in S <=> w \in T
  <2>1. S = T
    BY <1>1
  <2> QED BY <1>1, <2>1, FS_CardinalityType
<1>2. CASE w \notin S /\ w \in T
  <2>1. T = S \cup {w}
    BY <1>2
  <2> QED BY <1>2, <2>1, FS_AddElement, FS_CardinalityType
<1>3. CASE w \in S /\ w \notin T
  <2>1. T = S \ {w} /\ IsFiniteSet(T) /\ Cardinality(T) = Cardinality(S) - 1
    BY <1>3, FS_RemoveElement
  <2> QED BY <1>3, <2>1, FS_CardinalityType
<1> QED BY <1>1, <1>2, <1>3

LEMMA HandlersAreFinite ==
  ASSUME EdgeAssumption, NEW tills, NEW m, NEW steps
  PROVE  IsFiniteSet(Handlers(tills, m, steps)) /\ Cardinality(Handlers(tills, m, steps)) \in Nat
BY FS_Subset, FS_CardinalityType DEF Handlers, EdgeAssumption

\* One till goes on, and the others stay where they are.
TillMoves(w, m, steps) ==
  LET was  == Handles(till[w], m, steps)
      is   == Handles(till'[w], m, steps)
      n    == Cardinality(Handlers(till, m, steps))
      next == Cardinality(Handlers(till', m, steps))
  IN /\ n \in Nat /\ next \in Nat
     /\ (was <=> is) => next = n
     /\ was /\ ~is => next + 1 = n
     /\ ~was /\ is => next = n + 1

LEMMA HandlersMove ==
  ASSUME EdgeAssumption, NEW w \in Tills, \A v \in Tills \ {w} : till'[v] = till[v],
         NEW m, NEW steps
  PROVE  TillMoves(w, m, steps)
<1>1. \A v : v # w => (v \in Handlers(till', m, steps) <=> v \in Handlers(till, m, steps))
  BY DEF Handlers
<1>2. /\ w \in Handlers(till, m, steps) <=> Handles(till[w], m, steps)
      /\ w \in Handlers(till', m, steps) <=> Handles(till'[w], m, steps)
  BY DEF Handlers
<1> QED BY <1>1, <1>2, HandlersAreFinite, OneMoves DEF TillMoves

LEMMA OneTillMoves ==
  ASSUME EdgeAssumption, Shape, NEW w \in Tills, NEW q, till' = [till EXCEPT ![w] = q]
  PROVE  till'[w] = q /\ \A m, steps : TillMoves(w, m, steps)
<1>1. till'[w] = q /\ \A v \in Tills \ {w} : till'[v] = till[v]
  BY DEF Shape, TillShape
<1> QED BY <1>1, HandlersMove

\* A row that is not in the outbox has not been tried.
LEMMA BlankRowsKeep ==
  ASSUME EdgeAssumption, Shape, [Next]_vars, BlankRows
  PROVE  BlankRows'
<1>0. Recorded \subseteq Recorded'
  BY RowsStay
<1>1. ASSUME NEW w \in Tills, Enqueue(w)  PROVE BlankRows'
  <2>1. till[w].m \in Muts
    BY <1>1 DEF Enqueue, Shape, TillShape, Asked
  <2>2. outbox'[till[w].m].status = "PENDING"
        /\ \A n \in Muts : n # till[w].m => outbox'[n] = outbox[n]
    BY <1>1, <2>1 DEF Enqueue, Shape, OutboxShape
  <2>3. till[w].m \in Recorded'
    BY <2>1, <2>2 DEF Recorded
  <2> QED BY <1>0, <2>2, <2>3 DEF BlankRows
<1>2. ASSUME \/ Tick \/ (\E p \in Pushes : Answer(p)) \/ SendBatch \/ outbox' = outbox
      PROVE  \A m \in Muts \ Recorded : outbox'[m] = outbox[m]
  <2>1. \A m \in Muts \ Recorded : outbox[m].status = "NONE"
    BY DEF Recorded
  <2>2. CASE Tick
    BY <2>1, <2>2 DEF Tick, ResetSyncing, Reset
  <2>3. CASE \E p \in Pushes : Answer(p)
    <3>1. sync.sent \subseteq Recorded
      BY DEF Shape, SyncShape
    <3> QED BY <2>3, <3>1 DEF Answer
  <2>4. CASE SendBatch
    BY <2>1, <2>4 DEF SendBatch, Batch, Due
  <2>5. CASE outbox' = outbox
    BY <2>5
  <2> QED BY <1>2, <2>2, <2>3, <2>4, <2>5
<1>3. \/ Tick \/ (\E p \in Pushes : Answer(p)) \/ SendBatch \/ outbox' = outbox
      \/ \E w \in Tills : Enqueue(w)
  BY DEF Next, vars, edge, EdgeStep, SyncStep, CloudStep, Ask, AskAgain, Run, Record,
         ReadProtected, ListLocal, Reconcile, InsertOne, NothingToSend, Look, Apply, RecordInCloud,
         Unheard, CloudFails, CloudStops, CloseInCloud, LoseAnswer, EdgeStops, EdgeFails
<1> QED BY <1>0, <1>1, <1>2, <1>3 DEF BlankRows

LEMMA SlotShapeKeeps ==
  ASSUME EdgeAssumption, Shape, [Next]_vars, SlotShape
  PROVE  SlotShape' /\ (sync'.slot = sync.slot \/ sync' = NoSync \/ SendBatch)
<1>0. sync = [sync EXCEPT !.at = sync.at] /\ sync.sent \subseteq Muts
  BY DEF Shape, SyncShape, Recorded
<1>1. ASSUME NEW w \in Tills, Enqueue(w)  PROVE SlotShape' /\ sync'.slot = sync.slot
  <2>1. sync'.at = sync.at /\ sync'.slot = sync.slot /\ sync'.sent = sync.sent
    BY <1>0, <1>1 DEF Enqueue, Shape, SyncShape
  <2>2. \A n \in Muts : outbox'[n].status = outbox[n].status \/ outbox'[n].status = "PENDING"
    BY <1>1 DEF Enqueue, Shape, OutboxShape
  <2> QED BY <1>0, <2>1, <2>2 DEF SlotShape
<1>2. ASSUME SendBatch  PROVE SlotShape'
  <2>1. PICK p \in Pushes :
          /\ sync' = [NoSync EXCEPT !.at = "wait", !.slot = {p}, !.sent = Batch]
          /\ outbox' = [m \in Muts |-> IF m \in Batch THEN [outbox[m] EXCEPT !.status = "SYNCING"]
                                                      ELSE outbox[m]]
    BY <1>2 DEF SendBatch
  <2>2. sync'.at = "wait" /\ sync'.slot = {p} /\ sync'.sent = Batch
    BY <2>1 DEF NoSync
  <2>3. \A m \in Batch : m \in Muts /\ outbox'[m].status = "SYNCING"
    BY <2>1 DEF Batch, Shape, OutboxShape
  <2> QED BY <2>2, <2>3 DEF SlotShape
<1>3. CASE sync' = NoSync
  BY <1>3 DEF SlotShape, NoSync
<1>4. ASSUME \/ Tick \/ ReadProtected \/ ListLocal \/ Reconcile \/ InsertOne
      PROVE  SlotShape' /\ sync'.slot = sync.slot
  <2>1. sync.slot = {} /\ sync.sent = {}
    BY <1>4 DEF Tick, ReadProtected, ListLocal, Reconcile, InsertOne, SlotShape
  <2>2. sync'.at # "wait" /\ sync'.slot = {} /\ sync'.sent = {}
    <3>1. CASE Tick
      <4>1. \E at \in {"push", "protect"} : \E pulled :
              sync' = [NoSync EXCEPT !.at = at, !.pulled = pulled]
        BY <3>1 DEF Tick
      <4> QED BY <4>1 DEF NoSync
    <3>2. CASE ReadProtected
      BY <2>1, <3>2 DEF ReadProtected, Shape, SyncShape
    <3>3. ASSUME NEW at \in {"reconcile", "insert"}, NEW todo, Turn(at, todo)
          PROVE  sync'.at # "wait" /\ sync'.slot = {} /\ sync'.sent = {}
      <4>1. CASE todo # {}
        BY <2>1, <3>3, <4>1 DEF Turn, Shape, SyncShape
      <4>2. CASE todo = {} /\ at = "reconcile"
        BY <2>1, <3>3, <4>2 DEF Turn, Shape, SyncShape
      <4>3. CASE todo = {} /\ at = "insert"
        BY <3>3, <4>3 DEF Turn, NoSync
      <4> QED BY <4>1, <4>2, <4>3
    <3>4. ListLocal \/ Reconcile \/ InsertOne =>
            \E at \in {"reconcile", "insert"} : \E todo : Turn(at, todo)
      BY DEF ListLocal, Reconcile, InsertOne
    <3> QED BY <1>4, <3>1, <3>2, <3>3, <3>4
  <2> QED BY <2>1, <2>2 DEF SlotShape
<1>5. CASE UNCHANGED <<sync, outbox>>
  BY <1>5 DEF SlotShape
<1>6. \/ UNCHANGED <<sync, outbox>> \/ sync' = NoSync \/ (\E w \in Tills : Enqueue(w))
      \/ Tick \/ ReadProtected \/ ListLocal \/ Reconcile \/ InsertOne \/ SendBatch
  <2>1. ASSUME NEW w \in Tills, Ask(w) \/ AskAgain(w) \/ Run(w) \/ Record(w) \/ EdgeFails(w)
        PROVE  UNCHANGED <<sync, outbox>>
    BY <2>1 DEF Ask, AskAgain, Run, Record, EdgeFails
  <2>2. ASSUME NEW p \in Pushes,
               Look(p) \/ Apply(p) \/ RecordInCloud(p) \/ Unheard(p) \/ CloudFails(p)
        PROVE  UNCHANGED <<sync, outbox>>
    BY <2>2 DEF Look, Apply, RecordInCloud, Unheard, CloudFails
  <2>3. ASSUME NEW p \in Pushes, Answer(p) \/ CloudStops(p)
        PROVE  UNCHANGED <<sync, outbox>> \/ sync' = NoSync
    BY <2>3 DEF Answer, CloudStops
  <2>4. CloseInCloud \/ UNCHANGED vars => UNCHANGED <<sync, outbox>>
    BY DEF CloseInCloud, vars
  <2>5. NothingToSend \/ LoseAnswer \/ EdgeStops => sync' = NoSync
    BY DEF NothingToSend, LoseAnswer, EdgeStops
  <2> QED BY <2>1, <2>2, <2>3, <2>4, <2>5 DEF Next, EdgeStep, SyncStep, CloudStep
<1> QED BY <1>1, <1>2, <1>3, <1>4, <1>5, <1>6

LEMMA MarkShapeKeeps ==
  ASSUME EdgeAssumption, Shape, [Next]_vars, MarkShape
  PROVE  MarkShape' /\ faults' \in {faults, faults + 1}
<1>1. \A p \in Pushes : /\ push[p].at \in {"run", "key"} => push[p].now \in Muts
                        /\ Oldest(p) \subseteq Muts
  BY NowIsAsked DEF Oldest, Shape, PushShape, PushOk
<1>2. \A w \in Tills : till[w].at # "idle" => till[w].m \in Muts
  BY DEF Shape, TillShape, Asked
<1>3. faults' \in 0..MaxFaults /\ faults' \in {faults, faults + 1}
  <2>1. faults' = faults \/ (faults < MaxFaults /\ faults' = faults + 1)
    BY DEF Next, vars, outside, EdgeStep, SyncStep, CloudStep, Ask, AskAgain, Run, Enqueue, Record,
           Tick, ReadProtected, ListLocal, Reconcile, InsertOne, SendBatch, NothingToSend, Look,
           Apply, RecordInCloud, Answer, Unheard, CloudFails, CloudStops, CloseInCloud,
           LoseAnswer, EdgeStops, EdgeFails, Fault
  <2> QED BY <2>1 DEF MarkShape, EdgeAssumption
<1>4. refused' \subseteq Muts
  <2>1. refused' = refused \/ \E p \in Pushes : \E m \in Muts : refused' = refused \cup {m}
    BY <1>1 DEF Next, vars, outside, EdgeStep, SyncStep, CloudStep, Ask, AskAgain, Run, Enqueue,
           Record, Tick, ReadProtected, ListLocal, Reconcile, InsertOne, SendBatch, NothingToSend,
           Look, Apply, RecordInCloud, Answer, Unheard, CloudFails, CloudStops, CloseInCloud,
           LoseAnswer, EdgeStops, EdgeFails, Refuse
  <2> QED BY <2>1 DEF MarkShape
<1>5. cloudKeys' \subseteq Muts
  <2>1. cloudKeys' = cloudKeys \/ \E m \in Muts : cloudKeys' = cloudKeys \cup {m}
    BY <1>1 DEF Next, vars, outside, EdgeStep, SyncStep, CloudStep, Ask, AskAgain, Run, Enqueue,
           Record, Tick, ReadProtected, ListLocal, Reconcile, InsertOne, SendBatch, NothingToSend,
           Look, Apply, RecordInCloud, Answer, Unheard, CloudFails, CloudStops, CloseInCloud,
           LoseAnswer, EdgeStops, EdgeFails
  <2> QED BY <2>1 DEF MarkShape
<1>6. doubled' \subseteq Muts
  <2>0. doubled \subseteq Muts
    BY DEF MarkShape
  <2>1. ASSUME NEW w \in Tills, AskAgain(w)  PROVE doubled' \subseteq Muts
    BY <2>0, <2>1 DEF AskAgain, Asked
  <2>2. ASSUME NEW p \in Pushes, Look(p) \/ CloudStops(p)  PROVE doubled' \subseteq Muts
    BY <1>1, <2>0, <2>2 DEF Look, CloudStops
  <2>3. ASSUME NEW p \in Pushes, CloudFails(p)  PROVE doubled' \subseteq Muts
    <3>1. doubled' = doubled \/ (push[p].at = "key" /\ doubled' = doubled \cup {push[p].now})
      BY <2>3, Zenon DEF CloudFails
    <3> QED BY <1>1, <2>0, <3>1
  <2>4. ASSUME NEW w \in Tills, EdgeFails(w)  PROVE doubled' \subseteq Muts
    BY <1>2, <2>0, <2>4 DEF EdgeFails, Idle
  <2>5. CASE EdgeStops
    BY <1>2, <2>0, <2>5 DEF EdgeStops
  <2>6. \/ doubled' = doubled \/ EdgeStops \/ (\E w \in Tills : AskAgain(w) \/ EdgeFails(w))
        \/ \E p \in Pushes : Look(p) \/ CloudStops(p) \/ CloudFails(p)
    BY DEF Next, vars, outside, EdgeStep, SyncStep, CloudStep, Ask, Run, Enqueue, Record, Tick,
           ReadProtected, ListLocal, Reconcile, InsertOne, SendBatch, NothingToSend, Apply,
           RecordInCloud, Answer, Unheard, CloseInCloud, LoseAnswer
  <2> QED BY <2>0, <2>1, <2>2, <2>3, <2>4, <2>5, <2>6
<1> QED BY <1>3, <1>4, <1>5, <1>6 DEF MarkShape

\* One more handler of a change is one more request for it: its first, or a repeated one.
LEMMA RanBoundKeeps ==
  ASSUME EdgeAssumption, Shape, [Next]_vars, RanBound, MarkShape
  PROVE  RanBound'
<1> SUFFICES ASSUME NEW m \in Muts
             PROVE  ran'[m] + Cardinality(Handlers(till', m, {"run"})) <= One(m \in Asked)' + faults'
  BY DEF RanBound
<1> DEFINE Now == Cardinality(Handlers(till, m, {"run"}))
           Later == Cardinality(Handlers(till', m, {"run"}))
<1>0. /\ ran[m] \in Nat /\ Now \in Nat /\ faults \in Nat
      /\ ran[m] + Now <= One(m \in Asked) + faults
      /\ One(m \in Asked) <= One(m \in Asked)' /\ One(m \in Asked)' \in {0, 1}
      /\ One(m \in Asked) \in {0, 1}
      /\ faults' \in {faults, faults + 1}
  BY HandlersAreFinite, MutsStay, MarkShapeKeeps DEF RanBound, Shape, Counts, MarkShape, One,
     EdgeAssumption
<1>1. ASSUME NEW w \in Tills, Ask(w)
      PROVE  ran'[m] + Later <= One(m \in Asked)' + faults'
  <2> DEFINE q == [at |-> "run", m |-> Cardinality(Asked) + 1]
  <2>1. /\ till' = [till EXCEPT ![w] = q] /\ till[w].at = "idle"
        /\ UNCHANGED <<ran, faults>> /\ Cardinality(Asked) + 1 \in Asked'
    BY <1>1 DEF Ask, Idle, Asked, Shape, MutShape
  <2>2. /\ Later \in Nat
        /\ IF q.m = m THEN Later = Now + 1 ELSE Later = Now
    <3>1. q.at = "run"
      OBVIOUS
    <3> HIDE DEF q
    <3>2. till'[w] = q /\ TillMoves(w, m, {"run"})
      BY <2>1, OneTillMoves
    <3> QED BY <2>1, <3>1, <3>2 DEF TillMoves, Handles
  <2>3. q.m = m => m \in Asked' /\ m \notin Asked
    BY <2>1, NewNumber DEF Shape
  <2> HIDE DEF q
  <2> QED BY <1>0, <2>1, <2>2, <2>3 DEF One
<1>2. ASSUME NEW w \in Tills, AskAgain(w)
      PROVE  ran'[m] + Later <= One(m \in Asked)' + faults'
  <2>1. /\ till' = till \/ \E n \in Asked : till' = [till EXCEPT ![w] = [at |-> "run", m |-> n]]
        /\ ran' = ran /\ faults' = faults + 1
    BY <1>2 DEF AskAgain, Fault
  <2>2. Later \in Nat /\ Later <= Now + 1
    <3>1. CASE till' = till
      BY <1>0, <3>1
    <3>2. ASSUME NEW q, till' = [till EXCEPT ![w] = q]
          PROVE  Later \in Nat /\ Later <= Now + 1
      <4>1. TillMoves(w, m, {"run"})
        BY <3>2, OneTillMoves
      <4> QED BY <1>0, <4>1 DEF TillMoves
    <3> QED BY <2>1, <3>1, <3>2
  <2> QED BY <1>0, <2>1, <2>2
<1>3. ASSUME NEW w \in Tills, EdgeStep(w)
      PROVE  ran'[m] + Later <= One(m \in Asked)' + faults'
  <2>1. PICK q :
          /\ till' = [till EXCEPT ![w] = q] /\ q.at # "run"
          /\ \/ ran' = ran
             \/ till[w].at = "run" /\ ran' = [ran EXCEPT ![till[w].m] = @ + 1]
    BY <1>3 DEF EdgeStep, Run, Enqueue, Record, Goes, NoTill, Shape, TillShape
  <2>2. /\ Later \in Nat
        /\ IF till[w].at = "run" /\ till[w].m = m THEN Later + 1 = Now ELSE Later = Now
    <3>1. till'[w] = q /\ TillMoves(w, m, {"run"})
      BY <2>1, OneTillMoves
    <3> QED BY <2>1, <3>1 DEF TillMoves, Handles
  <2>3. ran'[m] = ran[m] \/ (till[w].at = "run" /\ till[w].m = m /\ ran'[m] = ran[m] + 1)
    BY <2>1 DEF Shape, Counts
  <2> QED BY <1>0, <2>2, <2>3 DEF One
<1>4. CASE EdgeStops
  <2>1. Handlers(till', m, {"run"}) = {} /\ ran' = ran
    BY <1>4 DEF EdgeStops, Handlers, Handles, NoTill
  <2>2. Later = 0
    BY <2>1, FS_EmptySet
  <2> QED BY <1>0, <2>1, <2>2
<1>5. CASE UNCHANGED <<till, ran>>
  <2>1. Handlers(till', m, {"run"}) = Handlers(till, m, {"run"})
    BY <1>5 DEF Handlers
  <2> QED BY <1>0, <1>5, <2>1
<1>6. ASSUME NEW w \in Tills, EdgeFails(w)
      PROVE  ran'[m] + Later <= One(m \in Asked)' + faults'
  <2>1. /\ till' = [till EXCEPT ![w] = NoTill] /\ NoTill.at # "run"
        /\ ran' = ran /\ faults' = faults + 1
    BY <1>6 DEF EdgeFails, Goes, NoTill, Fault
  <2>2. till'[w] = NoTill /\ TillMoves(w, m, {"run"})
    BY <2>1, OneTillMoves
  <2>3. Later \in Nat /\ Later <= Now
    BY <1>0, <2>1, <2>2 DEF TillMoves, Handles
  <2> QED BY <1>0, <2>1, <2>3
<1>7. \/ UNCHANGED <<till, ran>> \/ EdgeStops
      \/ \E w \in Tills : Ask(w) \/ AskAgain(w) \/ EdgeStep(w) \/ EdgeFails(w)
  BY DEF Next, vars, edge, SyncStep, CloudStep, Tick, ReadProtected, ListLocal, Reconcile,
         InsertOne, SendBatch, NothingToSend, Look, Apply, RecordInCloud, Answer, Unheard,
         CloudFails, CloudStops, CloseInCloud, LoseAnswer
<1> QED BY <1>1, <1>2, <1>3, <1>4, <1>5, <1>6, <1>7

\* What is left of the rows that are there: a try is used up when its answer comes, and a
\* row beyond MAX_OUTBOX_RETRIES is not sent by itself.
LEMMA OverStays ==
  ASSUME EdgeAssumption, Shape, SlotShape,
         Tick \/ (\E p \in Pushes : Answer(p)) \/ SendBatch \/ outbox' = outbox,
         NEW m \in Muts
  PROVE  /\ Over(outbox[m]) \in Nat /\ Over(outbox'[m]) \in Nat
         /\ Over(outbox'[m]) <= Over(outbox[m])
         /\ m \in Recorded' <=> m \in Recorded
<1> DEFINE row == outbox[m]
           next == outbox'[m]
<1>0. /\ row.retries \in Nat /\ MaxRetries \in Nat
      /\ row = [status |-> row.status, retries |-> row.retries, created |-> row.created]
  BY DEF Shape, OutboxShape, EdgeAssumption
<1>1. \/ next = row
      \/ /\ row.status \in {"PENDING", "SYNCING"} \/ row.retries < MaxRetries
         /\ row.status # "NONE"
         /\ next.status \in {"PENDING", "SYNCING"} /\ next.retries = row.retries
      \/ row.status # "NONE" /\ next.status = "COMPLETED" /\ next.retries = row.retries
      \/ /\ row.status \in {"PENDING", "SYNCING"}
         /\ next.status = "FAILED" /\ next.retries = row.retries + 1
  <2>1. CASE Tick
    <3>1. next = IF row.status = "SYNCING" THEN [row EXCEPT !.status = "PENDING"] ELSE row
      BY <2>1 DEF Tick, ResetSyncing, Reset
    <3> HIDE DEF row, next
    <3> QED BY <1>0, <3>1
  <2>2. ASSUME NEW p \in Pushes, Answer(p)
        PROVE  \/ next = row
               \/ row.status # "NONE" /\ next.status = "COMPLETED" /\ next.retries = row.retries
               \/ /\ row.status \in {"PENDING", "SYNCING"}
                  /\ next.status = "FAILED" /\ next.retries = row.retries + 1
    <3>1. next = IF m \in sync.sent THEN Marked(m, push[p].accepted) ELSE row
      BY <2>2 DEF Answer
    <3>2. m \in sync.sent => row.status \in {"PENDING", "SYNCING"}
      BY DEF SlotShape
    <3>3. Marked(m, push[p].accepted) = IF m \in push[p].accepted THEN [row EXCEPT !.status = "COMPLETED"]
            ELSE [status |-> "FAILED", retries |-> row.retries + 1, created |-> row.created]
      BY DEF Marked
    <3> HIDE DEF row, next
    <3> QED BY <1>0, <3>1, <3>2, <3>3
  <2>3. CASE SendBatch
    <3>1. next = IF m \in Batch THEN [row EXCEPT !.status = "SYNCING"] ELSE row
      BY <2>3 DEF SendBatch
    <3>2. m \in Batch => row.status = "PENDING" \/ (row.status = "FAILED" /\ row.retries < MaxRetries)
      BY DEF Batch, Due
    <3> HIDE DEF row, next
    <3> QED BY <1>0, <3>1, <3>2
  <2> QED BY <2>1, <2>2, <2>3
<1>2. m \in Recorded' <=> m \in Recorded
  BY <1>1 DEF Recorded
<1> HIDE DEF row, next
<1>3. Over(row) \in Nat /\ Over(next) \in Nat /\ Over(next) <= Over(row)
  BY <1>0, <1>1 DEF Over, One
<1> QED BY <1>2, <1>3 DEF row, next

\* A row beyond MAX_OUTBOX_RETRIES is pending only because its request was repeated.
LEMMA RetryBoundKeeps ==
  ASSUME EdgeAssumption, Shape, [Next]_vars, RetryBound, SlotShape, BlankRows, MarkShape
  PROVE  RetryBound'
<1> SUFFICES ASSUME NEW m \in Muts
             PROVE  Over(outbox'[m]) + Cardinality(Handlers(till', m, {"run", "queue"}))
                      + One(m \in Recorded)' <= One(m \in Asked)' + faults'
  BY DEF RetryBound
<1> DEFINE n == Cardinality(Handlers(till, m, {"run", "queue"}))
           next == Cardinality(Handlers(till', m, {"run", "queue"}))
           Kept == Over(outbox'[m]) + next + One(m \in Recorded)' <= One(m \in Asked)' + faults'
<1>0. /\ n \in Nat /\ next \in Nat /\ faults \in Nat
      /\ Over(outbox[m]) + n + One(m \in Recorded) <= One(m \in Asked) + faults
      /\ One(m \in Asked) <= One(m \in Asked)' /\ One(m \in Asked)' \in {0, 1}
      /\ One(m \in Asked) \in {0, 1} /\ One(m \in Recorded) \in {0, 1}
      /\ faults' \in {faults, faults + 1}
  BY HandlersAreFinite, MutsStay, MarkShapeKeeps
     DEF RetryBound, Shape, Counts, MarkShape, One, EdgeAssumption
<1>1. ASSUME outbox' = outbox
      PROVE  /\ Over(outbox[m]) \in Nat /\ Over(outbox'[m]) = Over(outbox[m])
             /\ One(m \in Recorded)' = One(m \in Recorded)
  BY <1>1, OverStays DEF Recorded
<1>2. ASSUME NEW w \in Tills, Ask(w)  PROVE Kept
  <2> DEFINE q == [at |-> "run", m |-> Cardinality(Asked) + 1]
  <2>1. /\ till' = [till EXCEPT ![w] = q] /\ till[w].at = "idle"
        /\ UNCHANGED <<outbox, faults>> /\ Cardinality(Asked) + 1 \in Asked'
    BY <1>2 DEF Ask, Idle, Asked, Shape, MutShape
  <2>2. q.at = "run" /\ (q.m = m => m \in Asked' /\ m \notin Asked)
    BY <2>1, NewNumber DEF Shape
  <2> HIDE DEF q
  <2>3. till'[w] = q /\ TillMoves(w, m, {"run", "queue"})
    BY <2>1, OneTillMoves
  <2>4. IF q.m = m THEN next = n + 1 ELSE next = n
    BY <2>1, <2>2, <2>3 DEF TillMoves, Handles
  <2> HIDE DEF n, next
  <2> QED BY <1>0, <1>1, <2>1, <2>2, <2>4 DEF One
<1>3. ASSUME NEW w \in Tills, AskAgain(w)  PROVE Kept
  <2>1. /\ till' = till \/ \E k \in Asked : till' = [till EXCEPT ![w] = [at |-> "run", m |-> k]]
        /\ outbox' = outbox /\ faults' = faults + 1
    BY <1>3 DEF AskAgain, Fault
  <2>2. next <= n + 1
    <3>1. CASE till' = till
      BY <1>0, <3>1
    <3>2. ASSUME NEW q, till' = [till EXCEPT ![w] = q]
          PROVE  next <= n + 1
      <4>1. TillMoves(w, m, {"run", "queue"})
        BY <3>2, OneTillMoves
      <4> QED BY <1>0, <4>1 DEF TillMoves
    <3> QED BY <2>1, <3>1, <3>2
  <2> HIDE DEF n, next
  <2> QED BY <1>0, <1>1, <2>1, <2>2
<1>4. ASSUME NEW w \in Tills, Run(w) \/ Record(w)  PROVE Kept
  <2>1. PICK q :
          /\ till' = [till EXCEPT ![w] = q]
          /\ q.at \notin {"run", "queue"} \/ (till[w].at = "run" /\ q.m = till[w].m)
    BY <1>4 DEF Run, Record, Goes, NoTill, Shape, TillShape
  <2>2. till'[w] = q /\ TillMoves(w, m, {"run", "queue"})
    BY <2>1, OneTillMoves
  <2>3. next <= n
    BY <1>0, <2>1, <2>2 DEF TillMoves, Handles
  <2>4. outbox' = outbox
    BY <1>4 DEF Run, Record
  <2> HIDE DEF n, next
  <2> QED BY <1>0, <1>1, <2>3, <2>4
<1>5. ASSUME NEW w \in Tills, Enqueue(w)  PROVE Kept
  <2>1. PICK q, c :
          /\ till' = [till EXCEPT ![w] = q] /\ q.at = "key" /\ till[w].at = "queue"
          /\ outbox' = [outbox EXCEPT ![till[w].m] =
                          [status |-> "PENDING", retries |-> outbox[till[w].m].retries, created |-> c]]
    <3>1. /\ till' = [till EXCEPT ![w] = [till[w] EXCEPT !.at = "key"]] /\ till[w].at = "queue"
          /\ till[w] \in [at : {"idle", "run", "queue", "key"}, m : 0..MaxMutations]
      BY <1>5 DEF Enqueue, Goes, Shape, TillShape
    <3>2. [till[w] EXCEPT !.at = "key"].at = "key"
      BY <3>1
    <3>3. \E c : outbox' = [outbox EXCEPT ![till[w].m] =
                     [status |-> "PENDING", retries |-> outbox[till[w].m].retries, created |-> c]]
      BY <1>5 DEF Enqueue
    <3> QED BY <3>1, <3>2, <3>3
  <2>2. till'[w] = q /\ TillMoves(w, m, {"run", "queue"})
    BY <2>1, OneTillMoves
  <2>3. IF till[w].m = m THEN next + 1 = n ELSE next = n
    BY <2>1, <2>2 DEF TillMoves, Handles
  <2>4. CASE till[w].m # m
    <3>1. outbox'[m] = outbox[m]
      BY <2>1, <2>4
    <3>2. Over(outbox[m]) \in Nat /\ One(m \in Recorded)' = One(m \in Recorded)
      BY <3>1 DEF Recorded, Shape, OutboxShape, Over, One, EdgeAssumption
    <3> HIDE DEF n, next
    <3> QED BY <1>0, <2>3, <2>4, <3>1, <3>2
  <2>5. CASE till[w].m = m
    <3>1. /\ outbox'[m].status = "PENDING" /\ outbox'[m].retries = outbox[m].retries
          /\ outbox[m].retries \in Nat /\ MaxRetries \in Nat \ {0}
      BY <2>1, <2>5 DEF Shape, OutboxShape, EdgeAssumption
    <3>2. m \notin Recorded => outbox[m].retries = 0
      BY DEF BlankRows, NoRow
    <3>3. m \in Recorded'
      BY <3>1 DEF Recorded
    <3>4. /\ Over(outbox[m]) \in Nat /\ Over(outbox'[m]) \in Nat
          /\ Over(outbox'[m]) + One(m \in Recorded)' <= Over(outbox[m]) + One(m \in Recorded) + 1
      BY <3>1, <3>2, <3>3 DEF Over, One
    <3> HIDE DEF n, next
    <3> QED BY <1>0, <2>3, <2>5, <3>3, <3>4 DEF One
  <2> QED BY <2>4, <2>5
<1>6. ASSUME EdgeStops  PROVE Kept
  <2>1. Handlers(till', m, {"run", "queue"}) = {}
    BY <1>6 DEF EdgeStops, Handlers, Handles, NoTill
  <2>2. next = 0
    BY <2>1, FS_EmptySet
  <2>3. outbox' = outbox
    BY <1>6 DEF EdgeStops
  <2>4. /\ Over(outbox[m]) \in Nat /\ Over(outbox'[m]) = Over(outbox[m])
        /\ One(m \in Recorded)' = One(m \in Recorded)
    BY <1>1, <2>3
  <2> HIDE DEF n, next
  <2> QED BY <1>0, <2>2, <2>4
<1>7. ASSUME till' = till, Tick \/ (\E p \in Pushes : Answer(p)) \/ SendBatch \/ outbox' = outbox
      PROVE  Kept
  <2>1. /\ Over(outbox[m]) \in Nat /\ Over(outbox'[m]) \in Nat
        /\ Over(outbox'[m]) <= Over(outbox[m]) /\ (m \in Recorded' <=> m \in Recorded)
    BY <1>7, OverStays
  <2>2. next = n
    BY <1>7
  <2> HIDE DEF n, next
  <2> QED BY <1>0, <2>1, <2>2 DEF One
<1>8. ASSUME NEW w \in Tills, EdgeFails(w)  PROVE Kept
  <2>1. /\ till' = [till EXCEPT ![w] = NoTill] /\ NoTill.at \notin {"run", "queue"}
        /\ outbox' = outbox /\ faults' = faults + 1
    BY <1>8 DEF EdgeFails, Goes, NoTill, Fault
  <2>2. till'[w] = NoTill /\ TillMoves(w, m, {"run", "queue"})
    BY <2>1, OneTillMoves
  <2>3. next <= n
    BY <1>0, <2>1, <2>2 DEF TillMoves, Handles
  <2>4. /\ Over(outbox[m]) \in Nat /\ Over(outbox'[m]) = Over(outbox[m])
        /\ One(m \in Recorded)' = One(m \in Recorded)
    BY <1>1, <2>1
  <2> HIDE DEF n, next
  <2> QED BY <1>0, <2>1, <2>3, <2>4
<1>9. \/ EdgeStops
      \/ till' = till /\ (Tick \/ (\E p \in Pushes : Answer(p)) \/ SendBatch \/ outbox' = outbox)
      \/ \E w \in Tills : \/ Ask(w) \/ AskAgain(w) \/ Run(w) \/ Enqueue(w) \/ Record(w)
                          \/ EdgeFails(w)
  BY DEF Next, vars, edge, EdgeStep, SyncStep, CloudStep, Tick, ReadProtected, ListLocal,
         Reconcile, InsertOne, SendBatch, NothingToSend, Look, Apply, RecordInCloud, Answer,
         Unheard, CloudFails, CloudStops, CloseInCloud, LoseAnswer
<1> QED BY <1>2, <1>3, <1>4, <1>5, <1>6, <1>7, <1>8, <1>9

\* One push goes on, and the others stay where they are.
PushGoes(p, m) ==
  LET was  == MayApply(push[p], cloudKeys, m)
      is   == MayApply(push'[p], cloudKeys', m)
      n    == Cardinality(Appliers(push, cloudKeys, m))
      next == Cardinality(Appliers(push', cloudKeys', m))
  IN /\ n \in Nat /\ next \in Nat
     /\ (was <=> is) => next = n
     /\ was /\ ~is => next + 1 = n
     /\ ~was /\ is => next = n + 1

LEMMA AppliersAreFinite ==
  ASSUME EdgeAssumption, NEW pushes, NEW known, NEW m
  PROVE  /\ IsFiniteSet(Appliers(pushes, known, m))
         /\ Cardinality(Appliers(pushes, known, m)) \in Nat
BY FS_Subset, FS_CardinalityType DEF Appliers, EdgeAssumption

LEMMA AppliersMove ==
  ASSUME EdgeAssumption, NEW p \in Pushes, \A r \in Pushes \ {p} : push'[r] = push[r],
         NEW m, m \in cloudKeys' <=> m \in cloudKeys
  PROVE  PushGoes(p, m)
<1>1. \A r : r # p => (r \in Appliers(push', cloudKeys', m) <=> r \in Appliers(push, cloudKeys, m))
  BY DEF Appliers, MayApply
<1>2. /\ p \in Appliers(push, cloudKeys, m) <=> MayApply(push[p], cloudKeys, m)
      /\ p \in Appliers(push', cloudKeys', m) <=> MayApply(push'[p], cloudKeys', m)
  BY DEF Appliers
<1> QED BY <1>1, <1>2, AppliersAreFinite, OneMoves DEF PushGoes

LEMMA OnePushMoves ==
  ASSUME EdgeAssumption, Shape, NEW p \in Pushes, NEW q, push' = [push EXCEPT ![p] = q],
         NEW m, m \in cloudKeys' <=> m \in cloudKeys
  PROVE  push'[p] = q /\ (\A r \in Pushes \ {p} : push'[r] = push[r]) /\ PushGoes(p, m)
<1>1. push'[p] = q /\ \A r \in Pushes \ {p} : push'[r] = push[r]
  BY DEF Shape, PushShape
<1> QED BY <1>1, AppliersMove

\* What a push has done with makes room for sending it again.
LEMMA AdvanceFrees ==
  ASSUME EdgeAssumption, Shape, NEW p \in Pushes, NEW k \in push[p].batch, NEW done,
         Advance(p, k, done), NEW m, m \in cloudKeys' <=> m \in cloudKeys,
         push[p].at \in {"find", "run"} \/ (push[p].at = "key" /\ push[p].now = k /\ m # k),
         push[p].at = "run" => push[p].now = k
  PROVE  Cardinality(Appliers(push', cloudKeys', m)) + One(MaySend(push', sync.slot, cloudKeys', m))
           <= Cardinality(Appliers(push, cloudKeys, m)) + One(MaySend(push, sync.slot, cloudKeys, m))
<1> DEFINE rest == push[p].batch \ {k}
           q == [at |-> IF rest = {} THEN "done" ELSE "find", batch |-> rest, now |-> 0,
                 accepted |-> push[p].accepted \cup done]
           n == Cardinality(Appliers(push, cloudKeys, m))
           next == Cardinality(Appliers(push', cloudKeys', m))
           Room == next + One(MaySend(push', sync.slot, cloudKeys', m))
                     <= n + One(MaySend(push, sync.slot, cloudKeys, m))
<1>1. push' = [push EXCEPT ![p] = q]
  BY DEF Advance
<1>2. /\ q.at \in {"find", "done"} /\ (q.at = "done" <=> rest = {}) /\ q.batch = rest
      /\ push[p].batch = rest \cup {k} /\ k \notin rest
  OBVIOUS
<1> HIDE DEF q, rest
<1>3. push'[p] = q /\ (\A r \in Pushes \ {p} : push'[r] = push[r]) /\ PushGoes(p, m)
  BY <1>1, OnePushMoves
<1>4. n \in Nat /\ next \in Nat
  BY <1>3 DEF PushGoes
<1>5. ASSUME m = k  PROVE Room
  <2>1. ~MayApply(push'[p], cloudKeys', m)
    BY <1>2, <1>3, <1>5 DEF MayApply, Holds
  <2>2. m \notin cloudKeys => MayApply(push[p], cloudKeys, m)
    BY <1>2, <1>5 DEF MayApply, Holds
  <2>3. next <= n /\ (m \notin cloudKeys => next + 1 = n)
    BY <1>3, <2>1, <2>2 DEF PushGoes
  <2>4. m \in cloudKeys => ~MaySend(push', sync.slot, cloudKeys', m)
    BY DEF MaySend
  <2> HIDE DEF n, next
  <2> QED BY <1>4, <2>3, <2>4 DEF One
<1>6. ASSUME m # k  PROVE Room
  <2>1. MayApply(push'[p], cloudKeys', m) => MayApply(push[p], cloudKeys, m)
    BY <1>2, <1>3, <1>6 DEF MayApply, Holds
  <2>2. next <= n
    BY <1>3, <2>1 DEF PushGoes
  <2>3. Holds(push[p], m) => Holds(push'[p], m)
    BY <1>2, <1>3, <1>6 DEF Holds
  <2>4. \A r \in sync.slot : Holds(push[r], m) => Holds(push'[r], m)
    BY <1>3, <2>3 DEF Shape, SyncShape
  <2>5. MaySend(push', sync.slot, cloudKeys', m) => MaySend(push, sync.slot, cloudKeys, m)
    BY <2>4 DEF MaySend
  <2> HIDE DEF n, next
  <2> QED BY <1>4, <2>2, <2>5 DEF One
<1> QED BY <1>5, <1>6

\* A change is applied once more only when a fault let the edge send it again before the
\* cloud knew it, or made the cloud forget that it had applied it.
LEMMA AppliedBoundKeeps ==
  ASSUME EdgeAssumption, Shape, [Next]_vars, AppliedBound, SlotShape, MarkShape
  PROVE  AppliedBound'
<1> SUFFICES ASSUME NEW m \in Muts
             PROVE  applied'[m] + Cardinality(Appliers(push', cloudKeys', m))
                      + One(MaySend(push', sync'.slot, cloudKeys', m)) <= faults' + 1
  BY DEF AppliedBound
<1> DEFINE n == Cardinality(Appliers(push, cloudKeys, m))
           next == Cardinality(Appliers(push', cloudKeys', m))
           may == MaySend(push, sync.slot, cloudKeys, m)
           mayNext == MaySend(push', sync'.slot, cloudKeys', m)
           Kept == applied'[m] + next + One(mayNext) <= faults' + 1
<1>0. /\ applied[m] \in Nat /\ n \in Nat /\ next \in Nat /\ faults \in Nat
      /\ applied[m] + n + One(may) <= faults + 1
      /\ faults' \in {faults, faults + 1}
  BY AppliersAreFinite, MarkShapeKeeps DEF AppliedBound, Shape, Counts, MarkShape, EdgeAssumption
<1>1. ASSUME applied' = applied, next + One(mayNext) <= n + One(may)  PROVE Kept
  <2> HIDE DEF n, next, may, mayNext
  <2> QED BY <1>0, <1>1 DEF One
<1>2. ASSUME applied' = applied, next <= n, faults' = faults + 1  PROVE Kept
  <2> HIDE DEF n, next, may, mayNext
  <2> QED BY <1>0, <1>2 DEF One
<1>3. ASSUME NEW p \in Pushes, NEW k \in push[p].batch, NEW done, Advance(p, k, done),
             push[p].at \in {"find", "run"}, push[p].at = "run" => push[p].now = k,
             UNCHANGED <<cloudKeys, applied>>, sync'.slot = sync.slot
      PROVE  Kept
  BY <1>1, <1>3, AdvanceFrees
<1>4. ASSUME NEW p \in Pushes, Look(p)  PROVE Kept
  <2>1. PICK k \in Oldest(p) : IF Known(k) THEN Advance(p, k, {k}) ELSE At(p, "run", k)
    BY <1>4 DEF Look
  <2>2. k \in push[p].batch /\ push[p].at = "find" /\ UNCHANGED <<cloudKeys, applied, sync>>
    BY <1>4 DEF Look, Oldest
  <2>3. CASE Known(k)
    BY <1>3, <2>1, <2>2, <2>3
  <2>4. CASE ~Known(k)
    <3> DEFINE q == [at |-> "run", batch |-> push[p].batch, now |-> k, accepted |-> push[p].accepted]
    <3>1. push' = [push EXCEPT ![p] = q] /\ k \notin cloudKeys
      BY <2>1, <2>4 DEF At, Known
    <3>2. q.at = "run" /\ q.batch = push[p].batch /\ q.now = k
      OBVIOUS
    <3> HIDE DEF q
    <3>3. push'[p] = q /\ (\A r \in Pushes \ {p} : push'[r] = push[r]) /\ PushGoes(p, m)
      BY <2>2, <3>1, OnePushMoves
    <3>4. MayApply(push'[p], cloudKeys', m) <=> MayApply(push[p], cloudKeys, m)
      BY <2>2, <3>1, <3>2, <3>3 DEF MayApply, Holds
    <3>5. next = n
      BY <3>3, <3>4 DEF PushGoes
    <3>6. Holds(push'[p], m) <=> Holds(push[p], m)
      BY <2>2, <3>2, <3>3 DEF Holds
    <3>7. mayNext <=> may
      BY <2>2, <3>3, <3>6 DEF MaySend, Shape, SyncShape
    <3>8. next + One(mayNext) <= n + One(may)
      <4> HIDE DEF n, next, may, mayNext
      <4> QED BY <1>0, <3>5, <3>7 DEF One
    <3> QED BY <1>1, <2>2, <3>8
  <2> QED BY <2>3, <2>4
<1>5. ASSUME NEW p \in Pushes, Apply(p)  PROVE Kept
  <2> DEFINE k == push[p].now
  <2>1. k \in push[p].batch /\ push[p].at = "run" /\ UNCHANGED <<cloudKeys, sync, faults>>
    BY <1>5, NowIsAsked DEF Apply
  <2>2. CASE ~Allowed(cloud, k)
    <3>1. Advance(p, k, {}) /\ applied' = applied
      BY <1>5, <2>2 DEF Apply, Refuse
    <3> HIDE DEF k
    <3>2. push[p].now = k
      BY DEF k
    <3> QED BY <1>3, <2>1, <3>1, <3>2
  <2>3. CASE Allowed(cloud, k)
    <3> DEFINE q == [at |-> "key", batch |-> push[p].batch, now |-> k, accepted |-> push[p].accepted]
    <3>1. push' = [push EXCEPT ![p] = q] /\ applied' = [applied EXCEPT ![k] = @ + 1]
      BY <1>5, <2>3 DEF Apply, At
    <3>2. q.at = "key" /\ q.batch = push[p].batch /\ q.now = k
      OBVIOUS
    <3> HIDE DEF q
    <3>3. push'[p] = q /\ (\A r \in Pushes \ {p} : push'[r] = push[r]) /\ PushGoes(p, m)
      BY <2>1, <3>1, OnePushMoves
    <3>4. /\ m = k => MayApply(push[p], cloudKeys, m) /\ ~MayApply(push'[p], cloudKeys', m)
          /\ m # k => (MayApply(push'[p], cloudKeys', m) <=> MayApply(push[p], cloudKeys, m))
      BY <2>1, <3>2, <3>3 DEF MayApply, Holds
    <3>5. IF m = k THEN next + 1 = n ELSE next = n
      BY <3>3, <3>4 DEF PushGoes
    <3>6. Holds(push'[p], m) <=> Holds(push[p], m)
      BY <2>1, <3>2, <3>3 DEF Holds
    <3>7. mayNext <=> may
      BY <2>1, <3>3, <3>6 DEF MaySend, Shape, SyncShape
    <3>8. applied'[m] = IF m = k THEN applied[m] + 1 ELSE applied[m]
      BY <3>1 DEF Shape, Counts
    <3> HIDE DEF n, next, may, mayNext, k
    <3> QED BY <1>0, <2>1, <3>5, <3>7, <3>8 DEF One
  <2> QED BY <2>2, <2>3
<1>6. ASSUME NEW p \in Pushes, CloudFails(p)  PROVE Kept
  <2>1. PICK k \in push[p].batch :
          /\ push[p].at = "find" \/ (push[p].at \in {"run", "key"} /\ push[p].now = k)
          /\ Advance(p, k, {})
    BY <1>6, NowIsAsked DEF CloudFails, Refuse, Oldest
  <2>2. UNCHANGED <<cloudKeys, applied, sync>> /\ faults' = faults + 1
    BY <1>6 DEF CloudFails, Fault
  <2>3. CASE push[p].at # "key"
    BY <1>3, <2>1, <2>2, <2>3
  <2>4. CASE push[p].at = "key"
    <3> DEFINE rest == push[p].batch \ {k}
               q == [at |-> IF rest = {} THEN "done" ELSE "find", batch |-> rest, now |-> 0,
                     accepted |-> push[p].accepted \cup {}]
    <3>1. push' = [push EXCEPT ![p] = q]
      BY <2>1 DEF Advance
    <3>2. q.at \in {"find", "done"} /\ q.batch = push[p].batch \ {k}
      OBVIOUS
    <3> HIDE DEF q
    <3>3. push'[p] = q /\ PushGoes(p, m)
      BY <2>2, <3>1, OnePushMoves
    <3>4. MayApply(push'[p], cloudKeys', m) => MayApply(push[p], cloudKeys, m)
      BY <2>1, <2>2, <2>4, <3>2, <3>3 DEF MayApply, Holds
    <3>5. next <= n
      BY <1>0, <3>3, <3>4 DEF PushGoes
    <3> QED BY <1>2, <2>2, <3>5
  <2> QED BY <2>3, <2>4
<1>7. ASSUME NEW p \in Pushes, RecordInCloud(p)  PROVE Kept
  <2> DEFINE k == push[p].now
  <2>1. /\ k \in push[p].batch /\ push[p].at = "key" /\ Advance(p, k, {k})
        /\ cloudKeys' = cloudKeys \cup {k} /\ UNCHANGED <<applied, sync>>
    BY <1>7, NowIsAsked DEF RecordInCloud
  <2>2. CASE m # k
    <3>1. m \in cloudKeys' <=> m \in cloudKeys
      BY <2>1, <2>2
    <3>2. push[p].now = k
      OBVIOUS
    <3> HIDE DEF k
    <3>3. next + One(mayNext) <= n + One(may)
      BY <2>1, <2>2, <3>1, <3>2, AdvanceFrees
    <3> QED BY <1>1, <2>1, <3>3
  <2>3. CASE m = k
    <3> DEFINE rest == push[p].batch \ {k}
               q == [at |-> IF rest = {} THEN "done" ELSE "find", batch |-> rest, now |-> 0,
                     accepted |-> push[p].accepted \cup {k}]
    <3>1. push' = [push EXCEPT ![p] = q]
      BY <2>1 DEF Advance
    <3>2. q.at # "run"
      OBVIOUS
    <3> HIDE DEF q
    <3>3. push'[p] = q /\ \A r \in Pushes \ {p} : push'[r] = push[r]
      BY <3>1 DEF Shape, PushShape
    <3>4. m \in cloudKeys'
      BY <2>1, <2>3
    <3>5. Appliers(push', cloudKeys', m) \subseteq Appliers(push, cloudKeys, m)
      BY <3>2, <3>3, <3>4 DEF Appliers, MayApply
    <3>6. next <= n
      BY <3>5, AppliersAreFinite, FS_Subset
    <3>7. ~mayNext
      BY <3>4 DEF MaySend
    <3>8. next + One(mayNext) <= n + One(may)
      <4> HIDE DEF n, next, may, mayNext
      <4> QED BY <1>0, <3>6, <3>7 DEF One
    <3> QED BY <1>1, <2>1, <3>8
  <2> QED BY <2>2, <2>3
<1>8. ASSUME SendBatch  PROVE Kept
  <2> DEFINE q == [at |-> "find", batch |-> Batch, now |-> 0, accepted |-> {}]
  <2>1. PICK p \in Pushes :
          /\ push[p].at = "idle" /\ push' = [push EXCEPT ![p] = q]
          /\ sync' = [NoSync EXCEPT !.at = "wait", !.slot = {p}, !.sent = Batch]
          /\ UNCHANGED <<cloudKeys, applied>>
    BY <1>8 DEF SendBatch
  <2>2. sync.slot = {} /\ sync'.slot = {p}
    BY <1>8, <2>1 DEF SendBatch, SlotShape, NoSync
  <2>3. q.at = "find"
    OBVIOUS
  <2> HIDE DEF q
  <2>4. push'[p] = q /\ PushGoes(p, m)
    BY <2>1, OnePushMoves
  <2>5. ~MayApply(push[p], cloudKeys, m)
    BY <2>1 DEF MayApply, Holds
  <2>6. MayApply(push'[p], cloudKeys', m) <=> m \notin cloudKeys /\ Holds(push'[p], m)
    BY <2>1, <2>3, <2>4 DEF MayApply
  <2>7. IF m \notin cloudKeys /\ Holds(push'[p], m) THEN next = n + 1 ELSE next = n
    BY <2>4, <2>5, <2>6 DEF PushGoes
  <2>8. /\ may <=> m \notin cloudKeys
        /\ mayNext <=> m \notin cloudKeys /\ ~Holds(push'[p], m)
    BY <2>1, <2>2 DEF MaySend
  <2>9. next + One(mayNext) <= n + One(may)
    <3> HIDE DEF n, next, may, mayNext
    <3> QED BY <1>0, <2>7, <2>8 DEF One
  <2> QED BY <1>1, <2>1, <2>9
<1>9. ASSUME NEW p \in Pushes, push' = [push EXCEPT ![p] = NoPush], cloudKeys' = cloudKeys
      PROVE  /\ \A r \in Pushes \ {p} : push'[r] = push[r]
             /\ next <= n /\ ~Holds(push'[p], m)
  <2>1. push'[p] = NoPush /\ (\A r \in Pushes \ {p} : push'[r] = push[r]) /\ PushGoes(p, m)
    BY <1>9, OnePushMoves
  <2>2. ~MayApply(push'[p], cloudKeys', m) /\ ~Holds(push'[p], m)
    BY <2>1 DEF MayApply, Holds, NoPush
  <2> QED BY <2>1, <2>2 DEF PushGoes
<1>10. ASSUME NEW p \in Pushes, CloudStops(p)  PROVE Kept
  <2>1. /\ push' = [push EXCEPT ![p] = NoPush] /\ UNCHANGED <<cloudKeys, applied>>
        /\ faults' = faults + 1
    BY <1>10 DEF CloudStops, Fault
  <2> QED BY <1>2, <1>9, <2>1
<1>11. ASSUME NEW p \in Pushes, Answer(p) \/ Unheard(p)  PROVE Kept
  <2>1. /\ push' = [push EXCEPT ![p] = NoPush] /\ UNCHANGED <<cloudKeys, applied>>
        /\ push[p].at = "done"
    BY <1>11 DEF Answer, Unheard
  <2>2. sync.slot \subseteq Pushes /\ (Answer(p) => sync.slot = {p}) /\ (Unheard(p) => sync' = sync)
    BY DEF Answer, Unheard, SlotShape, Shape, SyncShape
  <2>3. ~Holds(push[p], m)
    BY <2>1 DEF Holds
  <2>4. mayNext => may
    BY <1>9, <1>11, <2>1, <2>2, <2>3 DEF MaySend
  <2>5. next + One(mayNext) <= n + One(may)
    <3>1. next <= n
      BY <1>9, <2>1
    <3> HIDE DEF n, next, may, mayNext
    <3> QED BY <1>0, <2>4, <3>1 DEF One
  <2> QED BY <1>1, <2>1, <2>5
<1>12. ASSUME UNCHANGED <<push, cloudKeys, applied>>, sync'.slot = sync.slot \/ faults' = faults + 1
       PROVE  Kept
  <2>1. next = n
    BY <1>12
  <2>2. CASE faults' = faults + 1
    BY <1>0, <1>2, <1>12, <2>1, <2>2
  <2>3. CASE sync'.slot = sync.slot
    <3>1. mayNext <=> may
      BY <1>12, <2>3 DEF MaySend
    <3>2. next + One(mayNext) <= n + One(may)
      <4> HIDE DEF n, next, may, mayNext
      <4> QED BY <1>0, <2>1, <3>1 DEF One
    <3> QED BY <1>1, <1>12, <3>2
  <2> QED BY <1>12, <2>2, <2>3
<1>13. \/ UNCHANGED <<push, cloudKeys, applied>> /\ (sync'.slot = sync.slot \/ faults' = faults + 1)
       \/ SendBatch
       \/ \E p \in Pushes : \/ Look(p) \/ Apply(p) \/ RecordInCloud(p) \/ CloudFails(p)
                            \/ CloudStops(p) \/ Answer(p) \/ Unheard(p)
  <2>1. NothingToSend => sync'.slot = sync.slot /\ UNCHANGED <<push, cloudKeys, applied>>
    BY DEF NothingToSend, NoSync, SlotShape, outside
  <2>2. ASSUME Tick \/ ReadProtected \/ ListLocal \/ Reconcile \/ InsertOne
        PROVE  sync'.slot = sync.slot /\ UNCHANGED <<push, cloudKeys, applied>>
    <3>1. sync.at # "wait" /\ ~SendBatch
      BY <2>2 DEF Tick, ReadProtected, ListLocal, Reconcile, InsertOne, SendBatch
    <3>2. sync'.slot = sync.slot
      BY <3>1, SlotShapeKeeps DEF SlotShape, NoSync
    <3>3. UNCHANGED <<push, cloudKeys, applied>>
      BY <2>2 DEF Tick, ReadProtected, ListLocal, Reconcile, InsertOne, outside
    <3> QED BY <3>2, <3>3
  <2>3. ASSUME NEW w \in Tills, Ask(w) \/ AskAgain(w) \/ EdgeStep(w) \/ EdgeFails(w)
        PROVE  sync'.slot = sync.slot /\ UNCHANGED <<push, cloudKeys, applied>>
    BY <2>3 DEF Ask, AskAgain, EdgeStep, Run, Enqueue, Record, EdgeFails, outside, Shape,
       SyncShape
  <2>4. CloseInCloud => UNCHANGED <<push, cloudKeys, applied, sync>>
    BY DEF CloseInCloud
  <2>5. LoseAnswer \/ EdgeStops => UNCHANGED <<push, cloudKeys, applied>> /\ faults' = faults + 1
    BY DEF LoseAnswer, EdgeStops, EdgeFails, Fault, outside
  <2>6. vars' = vars => UNCHANGED <<push, cloudKeys, applied, sync>>
    BY DEF vars, outside
  <2> QED BY <2>1, <2>2, <2>3, <2>4, <2>5, <2>6 DEF Next, SyncStep, CloudStep
<1> QED BY <1>4, <1>5, <1>6, <1>7, <1>8, <1>10, <1>11, <1>12, <1>13

\* A change gives a table a new account, or takes the table from one.
LEMMA ChangedHolder ==
  ASSUME EdgeAssumption, MutShape, NEW ids, NEW side, SideOf(side, ids),
         side.holder \in [Tables -> ids \cup {NoId}], NEW m \in Asked, NEW new \in ids
  PROVE  Changed(side, m, new).holder \in [Tables -> ids \cup {NoId}]
<1>1. mut[m].kind \in {"open", "add", "close"}
  BY DEF Asked, MutShape
<1>2. CASE mut[m].kind = "open"
  <2>1. Changed(side, m, new).holder = [side.holder EXCEPT ![mut[m].table] = new]
    BY <1>2 DEF Changed, Opened
  <2> QED BY <2>1
<1>3. CASE mut[m].kind = "add"
  <2>1. Changed(side, m, new).holder = side.holder
    BY <1>3 DEF Changed, SideOf
  <2> QED BY <2>1
<1>4. CASE mut[m].kind = "close"
  <2>1. Changed(side, m, new).holder = Freed(side, mut[m].id)
    BY <1>4 DEF Changed, SideOf
  <2> QED BY <2>1 DEF Freed
<1> QED BY <1>1, <1>2, <1>3, <1>4

\* The ids that the accounts get are enough.
LEMMA EnoughIds ==
  ASSUME EdgeAssumption, Shape, RanBound, AppliedBound, MarkShape
  PROVE  /\ \A w \in Tills : till[w].at = "run" => <<"edge", till[w].m, ran[till[w].m]>> \in Ids
         /\ \A p \in Pushes : push[p].at = "run" =>
              <<"cloud", push[p].now, applied[push[p].now]>> \in CloudIds
<1>1. ASSUME NEW w \in Tills, till[w].at = "run"
      PROVE  <<"edge", till[w].m, ran[till[w].m]>> \in Ids
  <2>1. PICK m \in Muts : m = till[w].m /\ m \in 0..MaxMutations
    BY <1>1 DEF Shape, TillShape, Asked
  <2>2. w \in Handlers(till, m, {"run"})
    BY <1>1, <2>1 DEF Handlers, Handles
  <2>3. /\ Cardinality(Handlers(till, m, {"run"})) \in Nat
        /\ Cardinality(Handlers(till, m, {"run"})) # 0
    BY <2>2, HandlersAreFinite, FS_EmptySet
  <2>4. /\ ran[m] \in Nat /\ faults \in Nat /\ MaxFaults \in Nat /\ faults <= MaxFaults
        /\ ran[m] + Cardinality(Handlers(till, m, {"run"})) <= One(m \in Asked) + faults
    BY DEF Shape, Counts, MarkShape, RanBound, EdgeAssumption
  <2>5. ran[m] <= MaxFaults
    BY <2>3, <2>4 DEF One
  <2> QED BY <2>1, <2>4, <2>5 DEF Ids
<1>2. ASSUME NEW p \in Pushes, push[p].at = "run"
      PROVE  <<"cloud", push[p].now, applied[push[p].now]>> \in CloudIds
  <2>1. PICK m \in Muts : m = push[p].now /\ m \in 0..MaxMutations
    BY <1>2, NowIsAsked, IdFacts
  <2>2. p \in Appliers(push, cloudKeys, m)
    BY <1>2, <2>1 DEF Appliers, MayApply
  <2>3. /\ Cardinality(Appliers(push, cloudKeys, m)) \in Nat
        /\ Cardinality(Appliers(push, cloudKeys, m)) # 0
    BY <2>2, AppliersAreFinite, FS_EmptySet
  <2>4. /\ applied[m] \in Nat /\ faults \in Nat /\ MaxFaults \in Nat /\ faults <= MaxFaults
        /\ applied[m] + Cardinality(Appliers(push, cloudKeys, m))
             + One(MaySend(push, sync.slot, cloudKeys, m)) <= faults + 1
    BY DEF Shape, Counts, MarkShape, AppliedBound, EdgeAssumption
  <2>5. applied[m] <= MaxFaults
    BY <2>3, <2>4 DEF One
  <2> QED BY <2>1, <2>4, <2>5 DEF CloudIds, Ids
<1> QED BY <1>1, <1>2

LEMMA HolderShapeKeeps ==
  ASSUME EdgeAssumption, Shape, [Next]_vars, RanBound, AppliedBound, MarkShape, HolderShape
  PROVE  HolderShape'
<1> DEFINE Holders(ids) == [Tables -> ids \cup {NoId}]
<1>1. local'.holder \in Holders(Ids)
  <2>0. local.holder \in Holders(Ids) /\ local = [acc |-> local.acc, holder |-> local.holder]
    BY DEF HolderShape, Shape, LocalShape, SideOf
  <2>1. ASSUME NEW w \in Tills, Run(w)  PROVE local'.holder \in Holders(Ids)
    <3>1. till[w].at = "run" /\ till[w].m \in Asked
      BY <2>1 DEF Run, Shape, TillShape
    <3>2. PICK m \in Asked, new \in Ids : local' = local \/ local' = Changed(local, m, new)
      BY <2>1, <3>1, EnoughIds DEF Run
    <3>3. MutShape /\ SideOf(local, Ids)
      BY DEF Shape, LocalShape
    <3> QED BY <2>0, <3>2, <3>3, ChangedHolder
  <2>2. ASSUME NEW s, s \in PulledIds, NEW withItems
        PROVE  FromCloud(s, withItems).holder \in Holders(Ids)
    BY <2>0, <2>2, PulledIsTyped DEF FromCloud
  <2>3. CASE Reconcile
    <3>1. PICK s \in sync.todo :
            local' = IF s \in PulledIds THEN FromCloud(s, TRUE)
                     ELSE [acc |-> [local.acc EXCEPT ![s] = NoAccount], holder |-> Freed(local, s)]
      BY <2>3 DEF Reconcile
    <3>2. Freed(local, s) \in Holders(Ids)
      BY <2>0 DEF Freed
    <3> QED BY <2>2, <3>1, <3>2
  <2>4. CASE InsertOne
    <3>1. PICK s \in PulledIds :
            local' = CASE local.acc[s].status = "CLOSED" -> local
                       [] local.acc[s].status = "OPEN" -> FromCloud(s, s \notin sync.protected)
                       [] local.acc[s].status = "NONE" ->
                            Opened(local, s, PulledOf(s).table, PulledOf(s).items)
      BY <2>4 DEF InsertOne, Shape, SyncShape
    <3>2. s \in Ids /\ local.acc[s].status \in {"NONE", "OPEN", "CLOSED"}
      BY PulledIsTyped DEF Shape, LocalShape, SideOf, Account
    <3>3. Opened(local, s, PulledOf(s).table, PulledOf(s).items).holder \in Holders(Ids)
      BY <2>0, <3>2 DEF Opened
    <3> QED BY <2>0, <2>2, <3>1, <3>2, <3>3
  <2>5. local' = local \/ Reconcile \/ InsertOne \/ \E w \in Tills : Run(w)
    BY DEF Next, vars, edge, EdgeStep, SyncStep, CloudStep, Ask, AskAgain, Enqueue, Record, Tick,
           ReadProtected, ListLocal, SendBatch, NothingToSend, Look, Apply, RecordInCloud, Answer,
           Unheard, CloudFails, CloudStops, CloseInCloud, LoseAnswer, EdgeStops, EdgeFails
  <2> QED BY <2>0, <2>1, <2>3, <2>4, <2>5
<1>2. cloud'.holder \in Holders(CloudIds) /\ opened' \in Seq(CloudIds)
  <2>0. /\ cloud.holder \in Holders(CloudIds) /\ opened \in Seq(CloudIds)
        /\ MutShape /\ SideOf(cloud, CloudIds)
    BY DEF HolderShape, Shape, CloudShape
  <2>1. ASSUME NEW p \in Pushes, Apply(p)
        PROVE  cloud'.holder \in Holders(CloudIds) /\ opened' \in Seq(CloudIds)
    <3>1. push[p].at = "run" /\ push[p].now \in Asked
      BY <2>1, NowIsAsked DEF Apply
    <3>2. PICK m \in Asked, new \in CloudIds :
            /\ cloud' = cloud \/ cloud' = Changed(cloud, m, new)
            /\ opened' = opened \/ opened' = Append(opened, new)
      BY <2>1, <3>1, EnoughIds DEF Apply
    <3>3. opened' \in Seq(CloudIds)
      BY <2>0, <3>2
    <3> QED BY <2>0, <3>2, <3>3, ChangedHolder
  <2>2. CASE CloseInCloud
    <3>1. PICK s \in OpenIn(cloud) :
            /\ cloud' = [cloud EXCEPT !.acc[s].status = "CLOSED", !.holder = Freed(cloud, s)]
            /\ opened' = opened
      BY <2>2 DEF CloseInCloud
    <3>2. cloud'.holder = Freed(cloud, s)
      BY <2>0, <3>1 DEF SideOf
    <3> QED BY <2>0, <3>1, <3>2 DEF Freed
  <2>3. UNCHANGED <<cloud, opened>> \/ CloseInCloud \/ \E p \in Pushes : Apply(p)
    BY DEF Next, vars, edge, outside, EdgeStep, SyncStep, CloudStep, Ask, AskAgain, Run, Enqueue,
           Record, Tick, ReadProtected, ListLocal, Reconcile, InsertOne, SendBatch, NothingToSend,
           Look, RecordInCloud, Answer, Unheard, CloudFails, CloudStops, LoseAnswer, EdgeStops,
           EdgeFails
  <2> QED BY <2>0, <2>1, <2>2, <2>3
<1> QED BY <1>1, <1>2 DEF HolderShape

LEMMA InitBounds ==
  ASSUME EdgeAssumption, Init, Shape  PROVE Bounds
<1>1. /\ faults = 0 /\ Recorded = {} /\ Asked = {} /\ BlankRows /\ MarkShape /\ SlotShape
  BY DEF Init, Recorded, NoRow, Asked, NoMut, BlankRows, MarkShape, SlotShape, NoSync, EdgeAssumption
<1>2. ASSUME NEW m \in Muts
      PROVE  /\ ran[m] = 0 /\ applied[m] = 0 /\ Over(outbox[m]) = 0
             /\ \A steps : "idle" \notin steps => Cardinality(Handlers(till, m, steps)) = 0
             /\ Cardinality(Appliers(push, cloudKeys, m)) = 0
  <2>1. ran[m] = 0 /\ applied[m] = 0 /\ Over(outbox[m]) = 0
    BY DEF Init, Over, One, NoRow, EdgeAssumption
  <2>2. \A steps : "idle" \notin steps => Handlers(till, m, steps) = {}
    BY DEF Init, Handlers, Handles, NoTill
  <2>3. Appliers(push, cloudKeys, m) = {}
    BY DEF Init, Appliers, MayApply, Holds, NoPush
  <2> QED BY <2>1, <2>2, <2>3, FS_EmptySet
<1>3. RanBound /\ RetryBound /\ AppliedBound
  BY <1>1, <1>2 DEF RanBound, RetryBound, AppliedBound, One
<1>4. HolderShape
  <2>1. /\ NoAccounts(Ids).holder \in [Tables -> Ids \cup {NoId}]
        /\ NoAccounts(CloudIds).holder \in [Tables -> CloudIds \cup {NoId}]
    BY DEF NoAccounts
  <2>2. <<"cloud", 0, 0>> \in CloudIds
    BY DEF CloudIds, Ids, EdgeAssumption
  <2>3. ASSUME NEW t \in Tables, cloud = Opened(NoAccounts(CloudIds), <<"cloud", 0, 0>>, t, {0})
        PROVE  cloud.holder \in [Tables -> CloudIds \cup {NoId}]
    BY <2>1, <2>2, <2>3 DEF Opened
  <2>4. <<>> \in Seq(CloudIds) /\ << <<"cloud", 0, 0>> >> \in Seq(CloudIds)
    BY <2>2
  <2>5. /\ local = NoAccounts(Ids)
        /\ \/ cloud = NoAccounts(CloudIds) /\ opened = <<>>
           \/ \E t \in Tables : /\ cloud = Opened(NoAccounts(CloudIds), <<"cloud", 0, 0>>, t, {0})
                                /\ opened = << <<"cloud", 0, 0>> >>
    BY DEF Init
  <2> QED BY <2>1, <2>3, <2>4, <2>5 DEF HolderShape
<1> QED BY <1>1, <1>3, <1>4 DEF Bounds

LEMMA BoundsInvariant == Spec => []Bounds
<1>1. Init /\ Shape => Bounds
  BY InitBounds, EdgeAssumption
<1>2. Shape /\ Bounds /\ [Next]_vars => Bounds'
  BY RanBoundKeeps, RetryBoundKeeps, AppliedBoundKeeps, SlotShapeKeeps, BlankRowsKeep,
     HolderShapeKeeps, MarkShapeKeeps, EdgeAssumption DEF Bounds
<1> QED BY <1>1, <1>2, ShapeInvariant, PTL DEF Spec

\* Every reachable state is well typed: a change runs no more often than it was asked for,
\* the ids of the accounts are enough, and a row is tried no more often than
\* MAX_OUTBOX_RETRIES and once for each repeated request (listPending, markFailed).
THEOREM TypeCorrect == Spec => []TypeOK
<1>1. ASSUME EdgeAssumption, Shape, Bounds  PROVE TypeOK
  <2> USE <1>1
  <2>1. /\ mut \in [Muts -> [kind : {"none", "open", "add", "close"}, id : Ids \cup {NoId},
                             table : Tables \cup {NoTable}]]
        /\ till \in [Tills -> [at : {"idle", "run", "queue", "key"}, m : 0..MaxMutations]]
        /\ keys \subseteq Muts
    BY DEF Shape, MutShape, TillShape, Counts, Asked
  <2>2. /\ faults \in 0..MaxFaults /\ refused \subseteq Muts /\ doubled \subseteq Muts
        /\ cloudKeys \subseteq Muts
    BY DEF Bounds, MarkShape
  <2>3. local \in Side(Ids) /\ cloud \in Side(CloudIds) /\ opened \in Seq(CloudIds)
    BY DEF Bounds, HolderShape, Shape, LocalShape, CloudShape, SideOf, Side
  <2>4. ASSUME NEW m \in Muts
        PROVE  outbox[m].retries \in 0..(MaxRetries + MaxFaults) /\ outbox[m].created \in 0..MaxMutations
    <3>1. outbox[m].retries \in Nat /\ outbox[m].created \in Nat
      BY DEF Shape, OutboxShape
    <3>2. MaxMutations \in Nat /\ MaxRetries \in Nat /\ MaxFaults \in Nat
      BY DEF EdgeAssumption
    <3>3. outbox[m].created <= MaxMutations
      <4>1. Cardinality(Recorded) \in Nat /\ Cardinality(Recorded) <= MaxMutations
        <5>1. IsFiniteSet(Muts) /\ Cardinality(Muts) = MaxMutations
          BY <3>2, FS_Interval DEF Muts
        <5>2. Recorded \subseteq Muts
          BY DEF Recorded
        <5> QED BY <5>1, <5>2, RecordedIsFinite, FS_Subset, FS_CardinalityType
      <4>2. m \notin Recorded => outbox[m].created = 0
        BY DEF Bounds, BlankRows, NoRow
      <4>3. m \in Recorded => outbox[m].created <= Cardinality(Recorded)
        BY DEF Shape, OutboxShape
      <4> QED BY <3>1, <3>2, <4>1, <4>2, <4>3
    <3>4. outbox[m].retries <= MaxRetries + MaxFaults
      <4>1. CASE m \notin Recorded
        <5>1. outbox[m].retries = 0
          BY <4>1 DEF Bounds, BlankRows, NoRow
        <5> QED BY <3>2, <5>1
      <4>2. CASE m \in Recorded
        <5>1. /\ Over(outbox[m]) + Cardinality(Handlers(till, m, {"run", "queue"})) + One(m \in Recorded)
                   <= One(m \in Asked) + faults
              /\ Cardinality(Handlers(till, m, {"run", "queue"})) \in Nat
          BY HandlersAreFinite DEF Bounds, RetryBound
        <5>2. One(m \in Recorded) = 1 /\ One(m \in Asked) \in {0, 1}
          BY <4>2 DEF One
        <5>3. /\ Over(outbox[m]) \in Nat
              /\ outbox[m].retries > MaxRetries => Over(outbox[m]) >= outbox[m].retries - MaxRetries
          BY <3>1, <3>2 DEF Over, One
        <5> QED BY <2>2, <3>1, <3>2, <5>1, <5>2, <5>3
      <4> QED BY <4>1, <4>2
    <3> QED BY <3>1, <3>2, <3>3, <3>4
  <2>5. outbox \in [Muts -> [status : {"NONE", "PENDING", "SYNCING", "COMPLETED", "FAILED"},
                             retries : 0..(MaxRetries + MaxFaults), created : 0..MaxMutations]]
    BY <2>4 DEF Shape, OutboxShape
  <2>6. /\ sync.at \in SyncSteps /\ sync.todo \subseteq Ids /\ sync.protected \subseteq Ids
        /\ sync.sent \cup sync.late \subseteq Muts /\ sync.slot \subseteq Pushes
    BY DEF Shape, SyncShape, Recorded
  <2>7. push \in [Pushes -> [at : {"idle", "find", "run", "key", "done"}, batch : SUBSET Muts,
                             now : 0..MaxMutations, accepted : SUBSET Muts]]
    BY DEF Shape, PushShape, PushOk
  <2> QED BY <2>1, <2>2, <2>3, <2>5, <2>6, <2>7 DEF TypeOK, SyncSteps
<1> QED BY <1>1, ShapeInvariant, BoundsInvariant, EdgeAssumption, PTL

=============================================================================
