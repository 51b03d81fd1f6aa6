------------------------------ MODULE EdgeSync ------------------------------
(***************************************************************************)
(* The salon that works without the cloud.  A server in the restaurant     *)
(* (the edge) handles what the tills ask, writes every change into an      *)
(* outbox and, at each tick, pulls the open accounts of the cloud and      *)
(* pushes the outbox, which the cloud applies to its own accounts.         *)
(*                                                                         *)
(* A till repeats a request it got no answer for, with the same id; so     *)
(* does a push whose answer is lost.  Both sides look the id up, run the   *)
(* change and then record the id: three awaits.  The change is committed   *)
(* in one step here (TableSession has its own), and what a handler awaits  *)
(* after that may still fail.  Menu, layout and settings only flow down    *)
(* and are left out; a table is where an account is opened.                *)
(***************************************************************************)
EXTENDS Integers, FiniteSets, Sequences

CONSTANTS
  Tables,
  Tills,            \* slots for requests that the edge handles at the same time
  Pushes,           \* slots for pushes that the cloud handles at the same time
  BatchSize,        \* DEFAULT_BATCH_SIZE
  MaxRetries,       \* MAX_OUTBOX_RETRIES
  MaxMutations,     \* bound: changes that tills ask for
  MaxFaults         \* bound: repeated requests, lost answers, errors and crashes

ASSUME EdgeAssumption ==
  /\ BatchSize \in Nat \ {0} /\ MaxRetries \in Nat \ {0}
  /\ MaxMutations \in Nat /\ MaxFaults \in Nat
  /\ IsFiniteSet(Tills) /\ IsFiniteSet(Pushes)

Muts == 1..MaxMutations

\* An account is named by the side it was opened on, the change that opened it (0 for the
\* cloud's own users) and how often the change had run there
Ids == {"edge", "cloud"} \X (0..MaxMutations) \X (0..MaxFaults)
CloudIds == {s \in Ids : s[1] = "cloud"}
NoId == <<"none", 0, 0>>
NoTable == "none"

\* The accounts of one side, and the account each table has (Table.currentSessionId); an
\* item is named by the change that adds it, 0 by the cloud's own users
Account == [status : {"NONE", "OPEN", "CLOSED"}, table : Tables \cup {NoTable},
            items : SUBSET (0..MaxMutations)]
Side(ids) == [acc : [ids -> Account], holder : [Tables -> ids \cup {NoId}]]

VARIABLES
  mut,              \* what each change is
  till,             \* requests the edge handles
  keys,             \* FloorClientMutation of the edge
  local,            \* the accounts of the edge
  outbox,           \* SyncOutbox; created is the rank of createdAt
  sync,             \* the tick of the edge; late is history: changes recorded since it
                    \* read what to protect
  push,             \* the pushes the cloud handles
  cloudKeys,        \* FloorClientMutation of the cloud
  cloud, opened,    \* the accounts of the cloud, and the order in which they were opened
  faults,
  ran, applied,     \* history: how often each change ran on the edge and on the cloud
  refused,          \* history: changes the cloud refused once
  doubled           \* history: changes whose id was looked up by two at once, or that ran
                    \* and were not recorded

edge == <<mut, till, keys, local, ran>>
outside == <<push, cloudKeys, cloud, opened, applied, refused>>
vars == <<edge, outbox, sync, outside, faults, doubled>>

NoMut == [kind |-> "none", id |-> NoId, table |-> NoTable]
NoRow == [status |-> "NONE", retries |-> 0, created |-> 0]
NoTill == [at |-> "idle", m |-> 0]
NoPush == [at |-> "idle", batch |-> {}, now |-> 0, accepted |-> {}]
NoSync == [at |-> "idle", pulled |-> {}, protected |-> {}, todo |-> {}, sent |-> {}, slot |-> {},
           late |-> {}]

\* A row is not tried more often than MAX_OUTBOX_RETRIES and once for each repeated request
TypeOK ==
  /\ mut \in [Muts -> [kind : {"none", "open", "add", "close"}, id : Ids \cup {NoId},
                       table : Tables \cup {NoTable}]]
  /\ till \in [Tills -> [at : {"idle", "run", "queue", "key"}, m : 0..MaxMutations]]
  /\ keys \subseteq Muts /\ cloudKeys \subseteq Muts
  /\ local \in Side(Ids) /\ cloud \in Side(CloudIds)
  /\ outbox \in [Muts -> [status : {"NONE", "PENDING", "SYNCING", "COMPLETED", "FAILED"},
                          retries : 0..(MaxRetries + MaxFaults), created : 0..MaxMutations]]
  /\ opened \in Seq(CloudIds)
  /\ sync.at \in {"idle", "protect", "list", "reconcile", "insert", "push", "wait"}
  /\ sync.protected \subseteq Ids /\ sync.todo \subseteq Ids
  /\ sync.sent \cup sync.late \subseteq Muts /\ sync.slot \subseteq Pushes
  /\ push \in [Pushes -> [at : {"idle", "find", "run", "key", "done"}, batch : SUBSET Muts,
                          now : 0..MaxMutations, accepted : SUBSET Muts]]
  /\ faults \in 0..MaxFaults
  /\ refused \subseteq Muts /\ doubled \subseteq Muts

NoAccount == [status |-> "NONE", table |-> NoTable, items |-> {}]
NoAccounts(ids) == [acc |-> [s \in ids |-> NoAccount], holder |-> [t \in Tables |-> NoId]]
Opened(side, s, t, items) ==
  [acc |-> [side.acc EXCEPT ![s] = [status |-> "OPEN", table |-> t, items |-> items]],
   holder |-> [side.holder EXCEPT ![t] = s]]

\* The cloud may have an account of its own
Init ==
  /\ mut = [m \in Muts |-> NoMut] /\ till = [w \in Tills |-> NoTill]
  /\ keys = {} /\ cloudKeys = {}
  /\ local = NoAccounts(Ids)
  /\ \/ cloud = NoAccounts(CloudIds) /\ opened = <<>>
     \/ \E t \in Tables :
          /\ cloud = Opened(NoAccounts(CloudIds), <<"cloud", 0, 0>>, t, {0})
          /\ opened = << <<"cloud", 0, 0>> >>
  /\ outbox = [m \in Muts |-> NoRow]
  /\ sync = NoSync /\ push = [p \in Pushes |-> NoPush]
  /\ faults = 0
  /\ ran = [m \in Muts |-> 0] /\ applied = [m \in Muts |-> 0]
  /\ refused = {} /\ doubled = {}

-----------------------------------------------------------------------------
(* A change of an account, on either side *)

Fault == faults < MaxFaults /\ faults' = faults + 1

OpenIn(side) == {s \in DOMAIN side.acc : side.acc[s].status = "OPEN"}

\* open refuses a table that has an account, the others an account that is not open, and
\* close one without dishes
Allowed(side, m) ==
  IF mut[m].kind = "open" THEN side.holder[mut[m].table] = NoId
  ELSE /\ mut[m].id \in OpenIn(side)
       /\ mut[m].kind = "close" => side.acc[mut[m].id].items # {}

Freed(side, s) == [t \in Tables |-> IF side.holder[t] = s THEN NoId ELSE side.holder[t]]

\* An account gets its id where it is opened
Changed(side, m, new) ==
  CASE mut[m].kind = "open" -> Opened(side, new, mut[m].table, {})
    [] mut[m].kind = "add" -> [side EXCEPT !.acc[mut[m].id].items = @ \cup {m}]
    [] mut[m].kind = "close" -> [side EXCEPT !.acc[mut[m].id].status = "CLOSED",
                                             !.holder = Freed(side, mut[m].id)]

-----------------------------------------------------------------------------
(* The edge: what a till asks *)

Asked == {m \in Muts : mut[m].kind # "none"}

Idle(w) == till[w].at = "idle"
Goes(w, step) ==
  till' = [till EXCEPT ![w] = IF step = "idle" THEN NoTill ELSE [@ EXCEPT !.at = step]]
HandledBy(w, m) == till[w].m = m /\ till[w].at \in {"run", "queue", "key"}

\* A new request: its id is not known
Ask(w) == \E t \in Tables, s \in OpenIn(local) \cup {NoId} : \E kind \in {"open", "add", "close"} :
  LET m == Cardinality(Asked) + 1 IN
  /\ Idle(w) /\ m \in Muts
  /\ (kind = "open") = (s = NoId) /\ (s # NoId => t = local.acc[s].table)
  /\ mut' = [mut EXCEPT ![m] = [kind |-> kind, id |-> s, table |-> t]]
  /\ till' = [till EXCEPT ![w] = [at |-> "run", m |-> m]]
  /\ UNCHANGED <<keys, local, ran, outbox, sync, outside, faults, doubled>>

\* No answer came, and the till sends the request again; FloorIdempotencyService.run looks
\* its id up and answers it, or handles it once more
AskAgain(w) == \E m \in Asked :
  /\ Idle(w) /\ Fault
  /\ IF m \in keys THEN UNCHANGED <<till, doubled>>
     ELSE /\ till' = [till EXCEPT ![w] = [at |-> "run", m |-> m]]
          /\ doubled' = IF \E v \in Tills : HandledBy(v, m) THEN doubled \cup {m} ELSE doubled
  /\ UNCHANGED <<mut, keys, local, ran, outbox, sync, outside>>

\* the handler, up to its commit
Run(w) ==
  LET m == till[w].m IN
  /\ till[w].at = "run"
  /\ IF Allowed(local, m)
       THEN /\ local' = Changed(local, m, <<"edge", m, ran[m]>>)
            /\ ran' = [ran EXCEPT ![m] = @ + 1]
            /\ Goes(w, "queue")
       ELSE Goes(w, "idle") /\ UNCHANGED <<local, ran>>
  /\ UNCHANGED <<mut, keys, outbox, sync, outside, faults, doubled>>

Recorded == {m \in Muts : outbox[m].status # "NONE"}

\* recordFloorMutation: the row is created, or put back to PENDING
Enqueue(w) ==
  LET m == till[w].m
      created == IF m \in Recorded THEN outbox[m].created ELSE Cardinality(Recorded) + 1
  IN
  /\ till[w].at = "queue"
  /\ outbox' = [outbox EXCEPT ![m] =
                   [status |-> "PENDING", retries |-> outbox[m].retries, created |-> created]]
  /\ Goes(w, "key")
  /\ sync' = IF sync.at \in {"list", "reconcile"} THEN [sync EXCEPT !.late = @ \cup {m}] ELSE sync
  /\ UNCHANGED <<mut, keys, local, ran, outside, faults, doubled>>

\* the id is recorded, with the answer
Record(w) ==
  /\ till[w].at = "key"
  /\ keys' = keys \cup {till[w].m}
  /\ Goes(w, "idle")
  /\ UNCHANGED <<mut, local, ran, outbox, sync, outside, faults, doubled>>

-----------------------------------------------------------------------------
(* The edge: a tick pulls and pushes *)

Waiting(m) == outbox[m].status \in {"PENDING", "SYNCING", "FAILED"}
Reset(rows) == [m \in Muts |->
  IF rows[m].status = "SYNCING" THEN [rows[m] EXCEPT !.status = "PENDING"] ELSE rows[m]]

\* (mutant) what was being pushed is left as it is
KeepSyncing(rows) == rows

\* resetSyncingToPending
ResetSyncing(rows) == Reset(rows)

\* The cloud answers the open accounts that were opened since the oldest cursor
Tick == \E n \in 1..(Len(opened) + 1) :
  LET pulled == {s \in OpenIn(cloud) : \E i \in n..Len(opened) : opened[i] = s} IN
  /\ sync.at = "idle"
  /\ outbox' = ResetSyncing(outbox)
  /\ sync' = [NoSync EXCEPT
                !.at = IF pulled = {} THEN "push" ELSE "protect",
                !.pulled = {[id |-> s, table |-> cloud.acc[s].table,
                                items |-> cloud.acc[s].items] : s \in pulled}]
  /\ UNCHANGED <<edge, outside, faults, doubled>>

\* (mutant) a change that was refused once is not looked for
ProtectedFresh == {mut[m].id : m \in {n \in Muts : Waiting(n) /\ outbox[n].status # "FAILED"}}

\* collectProtectedSessionIds: the accounts with changes on their way, and those on the
\* tables of an opening on its way
Protected ==
  LET tables == {mut[m].table : m \in {n \in Muts : Waiting(n) /\ mut[n].kind = "open"}} IN
  {mut[m].id : m \in {n \in Muts : Waiting(n) /\ mut[n].kind # "open"}}
    \cup {s \in OpenIn(local) : local.acc[s].table \in tables}

ReadProtected ==
  /\ sync.at = "protect"
  /\ sync' = [sync EXCEPT !.at = "list", !.protected = Protected]
  /\ UNCHANGED <<edge, outbox, outside, faults, doubled>>

PulledIds == {p.id : p \in sync.pulled}
PulledOf(s) == CHOOSE p \in sync.pulled : p.id = s

\* First the accounts of the edge, then those of the answer
Turn(at, todo) ==
  sync' = CASE todo # {} -> [sync EXCEPT !.at = at, !.todo = todo]
            [] todo = {} /\ at = "reconcile" -> [sync EXCEPT !.at = "insert", !.todo = PulledIds,
                                                                  !.late = {}]
            [] todo = {} /\ at = "insert" -> [NoSync EXCEPT !.at = "push"]

ListLocal ==
  /\ sync.at = "list"
  /\ Turn("reconcile", OpenIn(local) \ sync.protected)
  /\ UNCHANGED <<edge, outbox, outside, faults, doubled>>

\* updateSessionFromCloud and, unless the account is protected, syncSessionItemsFromCloud
FromCloud(s, withItems) ==
  LET p == PulledOf(s) IN
  [acc |-> [local.acc EXCEPT
              ![s].table = IF local.acc[s].status = "OPEN" THEN p.table ELSE @,
              ![s].items = IF withItems THEN p.items ELSE @],
   holder |-> [local.holder EXCEPT ![p.table] = s]]

\* An account that is not in the answer is removed, whatever it is by now
Reconcile == \E s \in sync.todo :
  /\ sync.at = "reconcile"
  /\ local' = IF s \in PulledIds THEN FromCloud(s, TRUE)
              ELSE [acc |-> [local.acc EXCEPT ![s] = NoAccount], holder |-> Freed(local, s)]
  /\ Turn("reconcile", sync.todo \ {s})
  /\ UNCHANGED <<mut, till, keys, ran, outbox, outside, faults, doubled>>

\* Accounts of the cloud that the edge does not have are inserted
InsertOne == \E s \in sync.todo :
  /\ sync.at = "insert"
  /\ local' = CASE local.acc[s].status = "CLOSED" -> local
                [] local.acc[s].status = "OPEN" -> FromCloud(s, s \notin sync.protected)
                [] local.acc[s].status = "NONE" ->
                     Opened(local, s, PulledOf(s).table, PulledOf(s).items)
  /\ Turn("insert", sync.todo \ {s})
  /\ UNCHANGED <<mut, till, keys, ran, outbox, outside, faults, doubled>>

\* (mutant) what was refused is sent again for ever
AlwaysDue(m) == outbox[m].status \in {"PENDING", "FAILED"}

Due(m) ==
  outbox[m].status = "PENDING" \/ (outbox[m].status = "FAILED" /\ outbox[m].retries < MaxRetries)

\* listPending: the oldest ones
Batch == {m \in Muts :
  Due(m) /\ Cardinality({n \in Muts : Due(n) /\ outbox[n].created < outbox[m].created}) < BatchSize}

SendBatch == \E p \in Pushes :
  /\ sync.at = "push" /\ Batch # {} /\ push[p].at = "idle"
  /\ outbox' = [m \in Muts |-> IF m \in Batch THEN [outbox[m] EXCEPT !.status = "SYNCING"]
                                               ELSE outbox[m]]
  /\ push' = [push EXCEPT ![p] =
                [at |-> "find", batch |-> Batch, now |-> 0, accepted |-> {}]]
  /\ sync' = [NoSync EXCEPT !.at = "wait", !.slot = {p}, !.sent = Batch]
  /\ UNCHANGED <<edge, cloudKeys, cloud, opened, applied, refused, faults, doubled>>

NothingToSend ==
  /\ sync.at = "push" /\ Batch = {}
  /\ sync' = NoSync
  /\ UNCHANGED <<edge, outbox, outside, faults, doubled>>

-----------------------------------------------------------------------------
(* The cloud: a push is applied one change after another *)

\* (mutant) the newest first
Newest(p) == {m \in push[p].batch :
  \A n \in push[p].batch : outbox[n].created <= outbox[m].created}

\* The oldest of what the push has left
Oldest(p) == {m \in push[p].batch :
  \A n \in push[p].batch : outbox[m].created <= outbox[n].created}

AppliedBy(p, m) == push[p].at \in {"run", "key"} /\ push[p].now = m

\* On to the next change of the push
Advance(p, m, accepted) ==
  LET rest == push[p].batch \ {m} IN
  push' = [push EXCEPT ![p] =
    [at |-> IF rest = {} THEN "done" ELSE "find", batch |-> rest, now |-> 0,
     accepted |-> push[p].accepted \cup accepted]]
At(p, step, m) ==
  push' = [push EXCEPT ![p] =
    [at |-> step, batch |-> push[p].batch, now |-> m, accepted |-> push[p].accepted]]

Refuse(p, m) == Advance(p, m, {}) /\ refused' = refused \cup {m}

\* applyClose answers for an account that is closed
ClosedThere(m) ==
  mut[m].kind = "close" /\ mut[m].id \in CloudIds /\ cloud.acc[mut[m].id].status = "CLOSED"

\* (mutant) the id is not looked up
Unknown(m) == ClosedThere(m)

Known(m) == ClosedThere(m) \/ m \in cloudKeys

Look(p) == \E m \in Oldest(p) :
  /\ push[p].at = "find"
  /\ IF Known(m) THEN Advance(p, m, {m}) ELSE At(p, "run", m)
  /\ doubled' = IF ~Known(m) /\ \E q \in Pushes : AppliedBy(q, m)
                  THEN doubled \cup {m} ELSE doubled
  /\ UNCHANGED <<edge, outbox, sync, cloudKeys, cloud, opened, applied, refused, faults>>

\* The handler, up to its commit; one that refuses is an answer like any other
Apply(p) ==
  LET m == push[p].now
      new == <<"cloud", m, applied[m]>>
  IN
  /\ push[p].at = "run"
  /\ IF Allowed(cloud, m)
       THEN /\ cloud' = Changed(cloud, m, new)
            /\ opened' = IF mut[m].kind = "open" THEN Append(opened, new) ELSE opened
            /\ applied' = [applied EXCEPT ![m] = @ + 1]
            /\ At(p, "key", m) /\ UNCHANGED refused
       ELSE Refuse(p, m) /\ UNCHANGED <<cloud, opened, applied>>
  /\ UNCHANGED <<edge, outbox, sync, cloudKeys, faults, doubled>>

RecordInCloud(p) ==
  LET m == push[p].now IN
  /\ push[p].at = "key"
  /\ cloudKeys' = cloudKeys \cup {m}
  /\ Advance(p, m, {m})
  /\ UNCHANGED <<edge, outbox, sync, cloud, opened, applied, refused, faults, doubled>>

\* (mutant) a change the answer does not name is done with
Settled(m, accepted) == [outbox[m] EXCEPT !.status = "COMPLETED"]

\* markCompleted, markFailed
Marked(m, accepted) ==
  IF m \in accepted THEN [outbox[m] EXCEPT !.status = "COMPLETED"]
  ELSE [status |-> "FAILED", retries |-> outbox[m].retries + 1, created |-> outbox[m].created]

Answer(p) ==
  /\ sync.at = "wait" /\ p \in sync.slot /\ push[p].at = "done"
  /\ outbox' = [m \in Muts |-> IF m \in sync.sent THEN Marked(m, push[p].accepted) ELSE outbox[m]]
  /\ push' = [push EXCEPT ![p] = NoPush]
  /\ sync' = NoSync
  /\ UNCHANGED <<edge, cloudKeys, cloud, opened, applied, refused, faults, doubled>>

\* A push nobody waits for ends
Unheard(p) ==
  /\ push[p].at = "done" /\ p \notin sync.slot
  /\ push' = [push EXCEPT ![p] = NoPush]
  /\ UNCHANGED <<edge, outbox, sync, cloudKeys, cloud, opened, applied, refused, faults,
                 doubled>>

\* The cloud's own users close or void an account
CloseInCloud == \E s \in OpenIn(cloud) :
  /\ cloud' = [cloud EXCEPT !.acc[s].status = "CLOSED", !.holder = Freed(cloud, s)]
  /\ UNCHANGED <<edge, outbox, sync, push, cloudKeys, opened, applied, refused, faults,
                 doubled>>

-----------------------------------------------------------------------------
(* Failures *)

\* A query of the cloud rejects while it applies a change: before the change is committed,
\* or after it, in the rest of the handler (addItems sums up and calls the kitchen, close
\* books the sale) or while the id is recorded.  applyMutation refuses the change either way
CloudFails(p) ==
  /\ Fault
  /\ \/ push[p].at = "find" /\ UNCHANGED doubled /\ \E m \in Oldest(p) : Refuse(p, m)
     \/ push[p].at = "run" /\ UNCHANGED doubled /\ Refuse(p, push[p].now)
     \/ push[p].at = "key" /\ doubled' = doubled \cup {push[p].now} /\ Refuse(p, push[p].now)
  /\ UNCHANGED <<edge, outbox, sync, cloudKeys, cloud, opened, applied>>

\* So does one of the edge, or of the writing of the outbox row: the till gets an error
EdgeFails(w) ==
  /\ ~Idle(w) /\ Fault
  /\ Goes(w, "idle")
  /\ doubled' = IF till[w].at = "run" THEN doubled ELSE doubled \cup {till[w].m}
  /\ UNCHANGED <<mut, keys, local, ran, outbox, sync, outside>>

\* The cloud stops: what ran without its id recorded may run again
CloudStops(p) ==
  /\ push[p].at \in {"find", "run", "key"} /\ Fault
  /\ push' = [push EXCEPT ![p] = NoPush]
  /\ sync' = IF p \in sync.slot THEN NoSync ELSE sync
  /\ doubled' = IF push[p].at = "key" THEN doubled \cup {push[p].now} ELSE doubled
  /\ UNCHANGED <<edge, outbox, cloudKeys, cloud, opened, applied, refused>>

\* The edge gives up waiting, the cloud does not know
LoseAnswer ==
  /\ sync.at = "wait" /\ Fault
  /\ sync' = NoSync
  /\ UNCHANGED <<edge, outbox, outside, doubled>>

EdgeStops ==
  /\ Fault
  /\ till' = [w \in Tills |-> NoTill] /\ sync' = NoSync
  /\ doubled' = doubled \cup {till[w].m : w \in {v \in Tills : till[v].at \in {"queue", "key"}}}
  /\ UNCHANGED <<mut, keys, local, ran, outbox, outside>>

EdgeStep(w) == Run(w) \/ Enqueue(w) \/ Record(w)
SyncStep ==
  \/ ReadProtected \/ ListLocal \/ Reconcile \/ InsertOne
  \/ SendBatch \/ NothingToSend
CloudStep(p) == Look(p) \/ Apply(p) \/ RecordInCloud(p) \/ Answer(p) \/ Unheard(p)

Next ==
  \/ \E w \in Tills : Ask(w) \/ AskAgain(w) \/ EdgeStep(w) \/ EdgeFails(w)
  \/ Tick \/ SyncStep
  \/ \E p \in Pushes : CloudStep(p) \/ CloudFails(p) \/ CloudStops(p)
  \/ CloseInCloud \/ LoseAnswer \/ EdgeStops

\* The ticks go on, and the pushes the cloud handles end
Fairness ==
  /\ WF_vars(Tick \/ SyncStep)
  /\ \A p \in Pushes : WF_vars(CloudStep(p))

Spec == Init /\ [][Next]_vars /\ Fairness

-----------------------------------------------------------------------------
(* Properties *)

\* However often a till repeats a request and a push its changes, a change runs once on
\* each side, unless two looked its id up at once, or it ran and its id was not recorded:
\* the rest of its handler or the recording failed, or a crash came first.
AppliedOnce == \A m \in Muts \ doubled : ran[m] <= 1 /\ applied[m] <= 1

\* A change the edge takes as done was applied by the cloud, or closes an account that
\* the cloud has closed.
CompletedIsApplied ==
  \A m \in Muts : outbox[m].status = "COMPLETED" =>
    applied[m] > 0 \/ ClosedThere(m)

\* `lista pendientes en orden FIFO': the cloud applies no change of an account before an
\* earlier one, unless it refused that one.
NoOvertaking ==
  \A m, n \in Recorded :
    outbox[m].created < outbox[n].created /\ mut[m].id = mut[n].id /\ applied[n] > 0 =>
      applied[m] > 0 \/ m \in refused

\* Nothing waits for ever: a change in the outbox is done, or has used up its retries.
EverythingSettles ==
  \A m \in Muts : Waiting(m) ~>
    (outbox[m].status = "COMPLETED" \/ outbox[m].retries >= MaxRetries)

\* `no borra sesiones locales con outbox pendiente', for every change that was recorded
\* when the tick read what to protect: an account with such a change on its way is not
\* removed, however often the change was refused.
PendingIsKept ==
  [][\A m \in Muts \ sync.late : Waiting(m) /\ mut[m].id \in OpenIn(local) =>
       local'.acc[mut[m].id].status # "NONE"]_vars

=============================================================================
