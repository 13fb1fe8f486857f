-------------------------- MODULE DeferredJobProofs --------------------------
(***************************************************************************)
(* DeferredJob is type-correct and safe, for any workers, types and bounds:   *)
(* facts about the updates of a record, cited instead of their definitions;  *)
(* the types, one lemma per action; then arbitration and the finality of a   *)
(* terminal status.                                                         *)
(*                                                                         *)
(* Neither of the two is inductive: that a worker's change is the only one    *)
(* depends on what its step and its entity in memory say of the record.       *)
(* Fits says it: a worker in an attempt that still owns the job owns a       *)
(* running one, and a report about to be applied was not applied before; a    *)
(* deliverer remembers the outcome that is stored.  The invariant holds as    *)
(* long as none of start()'s unconditional saves replaced an unseen record.   *)
(***************************************************************************)
EXTENDS DeferredJob, TLAPS

-----------------------------------------------------------------------------
(* The updates of a record *)

\* Two records agree on what decides who may write and what was decided.
Agree(r, s) == /\ s.status = r.status /\ s.token = r.token
               /\ s.type = r.type /\ s.receipt = r.receipt

\* An entity read into memory is a record that differs only in its times.
LEMMA SeenFields ==
  ASSUME NEW r \in Record
  PROVE  Seen(r) \in Record /\ Agree(r, Seen(r))
BY DEF Record, Seen, Updated, Agree

\* The writes that set a flag.
LEMMA FlagTypes ==
  ASSUME NEW r \in Record, NEW rev \in Nat
  PROVE  /\ Updated(r, [noted |-> TRUE]) \in Record
         /\ Updated(r, [ready |-> TRUE, rev |-> rev]) \in Record
         /\ Updated(r, [dispatch |-> "claimed", lease |-> "live",
                        started |-> TRUE, rev |-> rev]) \in Record
<1>1. Updated(r, [noted |-> TRUE]) \in Record
  <2> DEFINE updates == [noted |-> TRUE]
  <2>1. DOMAIN updates = {"noted"} /\ updates["noted"] \in BOOLEAN
    OBVIOUS
  <2> HIDE DEF updates
  <2>2. Updated(r, updates) \in Record
    BY <2>1 DEF Updated, Record
  <2>3. QED BY <2>2 DEF updates
<1>2. Updated(r, [ready |-> TRUE, rev |-> rev]) \in Record
  BY DEF Updated, Record
<1>3. Updated(r, [dispatch |-> "claimed", lease |-> "live",
                  started |-> TRUE, rev |-> rev]) \in Record
  BY DEF Updated, Record, Dispatches
<1>4. QED BY <1>1, <1>2, <1>3

\* The record that start() creates is queued, unowned and without a receipt.
LEMMA SubmittedFields ==
  ASSUME NEW type \in JobTypes
  PROVE  /\ Submitted(type) \in Record
         /\ Submitted(type).status = "queued" /\ Submitted(type).token = NoToken
         /\ Submitted(type).type = type /\ Submitted(type).receipt = FALSE
<1> DEFINE r == Updated(Blank, [type |-> type, status |-> "queued", rev |-> 1])
<1>1. /\ r \in Record /\ r.status = "queued" /\ r.token = NoToken
      /\ r.type = type /\ r.receipt = FALSE
  BY DEF Updated, Blank, Record, Active, Dispatches
<1>2. NotifiedAtStart(r) \in BOOLEAN
  BY DEF NotifiedAtStart
<1>3. Submitted(type) = Updated(r, [noted |-> NotifiedAtStart(r)])
  BY DEF Submitted
<1> HIDE DEF r
<1>4. QED BY <1>1, <1>2, <1>3 DEF Updated, Record

\* No record at all is a record of its own.
LEMMA BlankFields ==
  /\ Blank \in Record
  /\ Blank.status = "absent" /\ Blank.token = NoToken
  /\ Blank.type = "none" /\ Blank.receipt = FALSE
BY DEF Blank, Record, Dispatches

\* A claim makes the worker the owner of a running job.
LEMMA ClaimedFields ==
  ASSUME NEW r \in Record, NEW w \in Workers, NEW bound \in Nat
  PROVE  /\ Claimed(r, w, bound) \in Record
         /\ Claimed(r, w, bound).status = "running" /\ Claimed(r, w, bound).token = w
         /\ Claimed(r, w, bound).type = r.type /\ Claimed(r, w, bound).receipt = r.receipt
<1>1. (IF r.attempt < bound THEN r.attempt + 1 ELSE r.attempt) \in Nat /\ r.rev + 1 \in Nat
  BY DEF Record
<1>2. QED BY <1>1 DEF Claimed, Updated, Record, Active, Dispatches

\* A revocation takes the token and leaves the outcome.
LEMMA RevokedFields ==
  ASSUME NEW r \in Record
  PROVE  /\ Revoked(r) \in Record
         /\ Revoked(r).status = r.status /\ Revoked(r).token = NoToken
         /\ Revoked(r).type = r.type /\ Revoked(r).receipt = r.receipt
         /\ Revoked(r).rev = r.rev
BY DEF Record, Updated, Revoked

\* A tombstone sets the outcome and takes the token.
LEMMA TombstoneFields ==
  ASSUME NEW r \in Record, NEW outcome \in Terminal
  PROVE  /\ Tombstone(r, outcome) \in Record
         /\ Tombstone(r, outcome).status = outcome /\ Tombstone(r, outcome).token = NoToken
         /\ Tombstone(r, outcome).type = r.type
         /\ Tombstone(r, outcome).receipt = r.receipt
<1>1. r.rev + 1 \in Nat
  BY DEF Record
<1>2. QED BY <1>1, RevokedFields DEF Tombstone, Updated, Record, Terminal, Dispatches, Marks

\* A start that failed fails its job and takes the token.
LEMMA FailedStartFields ==
  ASSUME NEW r \in Record
  PROVE  /\ FailedStart(r) \in Record
         /\ FailedStart(r).status = "failed" /\ FailedStart(r).token = NoToken
         /\ FailedStart(r).type = r.type /\ FailedStart(r).receipt = r.receipt
<1>1. r.rev + 1 \in Nat
  BY DEF Record
<1>2. QED BY <1>1, RevokedFields DEF FailedStart, Updated, Record, Terminal, Dispatches

\* A redispatch changes neither the owner nor the outcome.
LEMMA RedispatchedFields ==
  ASSUME NEW r \in Record
  PROVE  Redispatched(r) \in Record /\ Agree(r, Redispatched(r))
<1>1. r.rev + 1 \in Nat
  BY DEF Record
<1>2. QED BY <1>1 DEF Redispatched, Updated, Record, Agree, Dispatches

\* Membership is a Boolean before and after every boundary.
LEMMA TrackingType ==
  ASSUME NEW member \in BOOLEAN, NEW r, NEW s
  PROVE  Tracking(member, r, s) \in BOOLEAN
BY DEF Tracking

-----------------------------------------------------------------------------
(* Types *)

\* The step an actor rests at is a label.
LEMMA RestType == ASSUME NEW p \in Actors PROVE Rest(p) \in Labels
BY DEF Rest, Labels

\* An actor that leaves is at rest and remembers no entity.
LEMMA LeaveType ==
  ASSUME TypeOK, NEW p \in Actors, Leave(p)
  PROVE  pc' \in [Actors -> Labels] /\ mem' \in [Actors -> Record]
BY RestType, BlankFields DEF TypeOK, Leave, GoTo

\* One more delivery stays within the bound.
LEMMA QueuedType ==
  ASSUME TypeOK PROVE Queued(tasks) \in 0..MaxTasks
BY ParametersAssumption DEF TypeOK, Queued

\* A repeated delivery stays within the bound.
LEMMA RedeliveryType ==
  ASSUME TypeOK, NEW p \in Actors, tasks' \in Redelivery(p)
  PROVE  tasks' \in 0..MaxTasks
BY QueuedType DEF TypeOK, Redelivery

\* A fault is spent from the budget.
LEMMA FaultType ==
  ASSUME TypeOK, Fault PROVE faults' \in 0..MaxFaults
BY ParametersAssumption DEF TypeOK, Fault

\* What a guarded write leaves in the record, in the listing and in memory.
LEMMA PersistType ==
  ASSUME TypeOK, NEW p \in Actors, NEW updates, Persist(p, updates),
         \A r \in Record : Updated(r, updates) \in Record
  PROVE  /\ job' \in Record /\ tracked' \in BOOLEAN /\ mem' \in [Actors -> Record]
         /\ quiet' \in BOOLEAN /\ UNCHANGED <<lost, aged>>
<1>1. mem[p] \in Record /\ job \in Record
  BY DEF TypeOK
<1>2. Seen(Updated(mem[p], updates)) \in Record
  BY <1>1, SeenFields
<1>3. QED BY <1>1, <1>2, TrackingType DEF TypeOK, Persist, Touch

\* What an unguarded save leaves.
LEMMA BlindSaveType ==
  ASSUME TypeOK, NEW p \in Actors, NEW r \in Record, BlindSave(p, r)
  PROVE  /\ job' \in Record /\ tracked' \in BOOLEAN /\ mem' \in [Actors -> Record]
         /\ quiet' \in BOOLEAN /\ aged' \in BOOLEAN /\ lost' \subseteq {"start", "deliver"}
<1>1. Seen(r) \in Record
  BY SeenFields
<1>2. QED BY <1>1 DEF TypeOK, BlindSave, Touch

\* An actor that gives up leaves the record alone.
LEMMA ClaimLostType ==
  ASSUME TypeOK, NEW p \in Actors, ClaimLost(p)
  PROVE  /\ pc' \in [Actors -> Labels] /\ mem' \in [Actors -> Record]
         /\ tasks' \in 0..MaxTasks /\ UNCHANGED <<job, tracked, quiet, aged, lost>>
BY LeaveType, RedeliveryType DEF ClaimLost, clock

\* A delivery write is well-typed under a token and without one.
LEMMA SaveTerminalType ==
  ASSUME TypeOK, NEW p \in Actors, NEW updates, SaveTerminal(p, updates),
         \A r \in Record : Updated(r, updates) \in Record
  PROVE  /\ job' \in Record /\ tracked' \in BOOLEAN /\ mem' \in [Actors -> Record]
         /\ quiet' \in BOOLEAN /\ aged' \in BOOLEAN /\ lost' \subseteq {"start", "deliver"}
<1>1. mem[p] \in Record
  BY DEF TypeOK
<1>2. CASE mem[p].token = NoToken
  BY <1>1, <1>2, BlindSaveType DEF SaveTerminal
<1>3. CASE mem[p].token # NoToken
  BY <1>3, PersistType DEF SaveTerminal, TypeOK
<1>4. QED BY <1>2, <1>3

-----------------------------------------------------------------------------
\* The steps of DeferredJobService.start keep every variable in its type.
LEMMA StartType == ASSUME TypeOK, Start PROVE TypeOK'
<1> "start" \in Actors
  BY DEF Actors
<1>0. mem["start"] \in Record /\ mem["start"].rev + 1 \in Nat
  BY DEF TypeOK, Record
<1>1. CASE StartCreate
  <2>1. PICK type \in Types :
          /\ job' = Submitted(type) /\ tracked' = Tracking(tracked, job, job')
          /\ note' = IF NotifiedAtStart(job') THEN "pending" ELSE note
          /\ Touch("start", job')
    BY <1>1 DEF StartCreate
  <2>2. job' \in Record /\ Seen(job') \in Record
    BY <2>1, RecordAssumption, SubmittedFields, SeenFields
  <2>3. tracked' \in BOOLEAN
    BY <2>1, TrackingType DEF TypeOK
  <2>4. QED BY <1>1, <2>1, <2>2, <2>3 DEF TypeOK, StartCreate, Touch, GoTo, Labels
<1>2. CASE StartSave
  BY <1>0, <1>2, BlindSaveType DEF TypeOK, StartSave, GoTo, Labels
<1>3. CASE StartStarted
  <2> DEFINE r == [mem["start"] EXCEPT !.started = TRUE, !.rev = @ + 1]
  <2>1. r \in Record
    BY <1>0 DEF Record
  <2> HIDE DEF r
  <2>2. CASE BlindSave("start", r) /\ GoTo("start", "dispatching") /\ UNCHANGED faults
    BY <1>3, <2>1, <2>2, BlindSaveType DEF TypeOK, StartStarted, domain, GoTo, Labels
  <2>3. CASE Fault /\ GoTo("start", "failstart") /\ UNCHANGED mem /\ NoWrite
    BY <1>3, <2>3, FaultType DEF TypeOK, StartStarted, NoWrite, domain, clock, GoTo, Labels
  <2>4. QED BY <1>3, <2>2, <2>3 DEF StartStarted, r
<1>4. CASE StartDispatching
  <2> DEFINE r == [mem["start"] EXCEPT !.dispatch = "dispatching", !.sent = "fresh",
                                       !.rev = @ + 1]
  <2>1. r \in Record
    BY <1>0 DEF Record, Dispatches
  <2>2. BlindSave("start", r)
    BY <1>4 DEF StartDispatching
  <2> HIDE DEF r
  <2>3. QED BY <1>4, <2>1, <2>2, BlindSaveType
            DEF TypeOK, StartDispatching, domain, GoTo, Labels
<1>5. CASE StartFail
  <2>1. job' \in Record /\ tracked' \in BOOLEAN
    BY <1>5, FailedStartFields, TrackingType DEF TypeOK, StartFail
  <2>2. pc' \in [Actors -> Labels] /\ mem' \in [Actors -> Record]
    BY <1>5, LeaveType DEF TypeOK, StartFail, GoTo, Labels
  <2>3. QED BY <1>5, <2>1, <2>2 DEF TypeOK, StartFail
<1>6. CASE StartFailNote
  BY <1>6, LeaveType DEF TypeOK, StartFailNote, NoWrite, clock
<1>7. QED BY <1>1, <1>2, <1>3, <1>4, <1>5, <1>6 DEF Start

\* Sending a task and confirming it keep every variable in its type.
LEMMA DispatchType ==
  ASSUME TypeOK, NEW p \in Dispatchers, Dispatch(p) PROVE TypeOK'
<1> p \in Actors
  BY DEF Dispatchers
<1>1. CASE Send(p)
  <2>1. tasks' \in 0..MaxTasks /\ faults' \in 0..MaxFaults
    BY <1>1, QueuedType, FaultType DEF TypeOK, Send
  <2>2. QED BY <1>1, <2>1 DEF TypeOK, Send, NoWrite, domain, clock, GoTo, Labels
<1>2. CASE Confirm(p)
  <2>1. [job EXCEPT !.dispatch = "dispatched"] \in Record
    BY DEF TypeOK, Record, Dispatches
  <2>2. QED BY <1>2, <2>1, LeaveType DEF TypeOK, Confirm, domain
<1>3. CASE Unconfirm(p)
  <2>1. [job EXCEPT !.dispatch = "pending", !.sent = "none"] \in Record
    BY DEF TypeOK, Record, Dispatches
  <2>2. job' \in Record /\ quiet' \in BOOLEAN
    BY <1>3, <2>1 DEF TypeOK, Unconfirm
  <2>3. pc' \in [Actors -> Labels] /\ mem' \in [Actors -> Record]
    BY <1>3, LeaveType DEF TypeOK, Unconfirm, GoTo, Labels
  <2>4. QED BY <1>3, <2>2, <2>3 DEF TypeOK, Unconfirm, domain
<1>4. QED BY <1>1, <1>2, <1>3 DEF Dispatch

\* A deliverer takes up a step of delivery.
LEMMA EntryType == ASSUME NEW r PROVE Entry(r) \in Deliver
BY DEF Entry, Deliver

\* Storing a delivery marker is well-typed.
LEMMA SaveMarkType ==
  ASSUME TypeOK, NEW p \in Actors, NEW mark \in Marks, SaveMark(p, mark)
  PROVE  /\ job' \in Record /\ tracked' \in BOOLEAN /\ mem' \in [Actors -> Record]
         /\ quiet' \in BOOLEAN /\ aged' \in BOOLEAN /\ lost' \subseteq {"start", "deliver"}
<1> DEFINE updates == [marks |-> mem[p].marks \cup {mark}]
<1>1. mem[p].marks \cup {mark} \in SUBSET Marks
  BY DEF TypeOK, Record
<1>2. \A r \in Record : Updated(r, updates) \in Record
  BY <1>1 DEF Updated, Record
<1>3. SaveTerminal(p, updates)
  BY DEF SaveMark
<1> HIDE DEF updates
<1>4. QED BY <1>2, <1>3, SaveTerminalType

\* The steps of terminal delivery keep every variable in its type.
LEMMA DeliveryType ==
  ASSUME TypeOK, NEW p \in Actors, Delivery(p) PROVE TypeOK'
<1> USE DEF MarksLost, domain
<1>1. CASE DeliverFailure(p)
  <2>1. CASE SaveMark(p, "failure") /\ GoTo(p, Entry(mem[p])) /\ UNCHANGED tasks
    BY <1>1, <2>1, EntryType, SaveMarkType
       DEF TypeOK, DeliverFailure, GoTo, Labels, Marks
  <2>2. CASE MarksLost(p)
    BY <1>1, <2>2, ClaimLostType DEF TypeOK, DeliverFailure
  <2>3. CASE GoTo(p, Entry(mem[p])) /\ UNCHANGED <<mem, tasks>> /\ NoWrite
    BY <1>1, <2>3, EntryType DEF TypeOK, DeliverFailure, GoTo, Labels, NoWrite, clock
  <2>4. QED BY <1>1, <2>1, <2>2, <2>3 DEF DeliverFailure
<1>2. CASE Cleanup(p)
  BY <1>2 DEF TypeOK, Cleanup, GoTo, Labels, Deliver, NoWrite, clock
<1>3. CASE MarkCleanup(p)
  <2>1. CASE MarksLost(p)
    BY <1>3, <2>1, ClaimLostType DEF TypeOK, MarkCleanup
  <2>2. CASE ~ MarksLost(p)
    BY <1>3, <2>2, SaveMarkType DEF TypeOK, MarkCleanup, GoTo, Labels, Deliver, Marks
  <2>3. QED BY <2>1, <2>2
<1>4. CASE Notify(p)
  BY <1>4 DEF TypeOK, Notify, GoTo, Labels, Deliver, NoWrite, clock
<1>5. CASE LinkNotification(p)
  <2>1. CASE MarksLost(p)
    BY <1>5, <2>1, ClaimLostType DEF TypeOK, LinkNotification
  <2>2. CASE ~ MarksLost(p)
    <3>1. SaveTerminal(p, [noted |-> TRUE])
      BY <1>5, <2>2 DEF LinkNotification
    <3>2. QED BY <1>5, <2>2, <3>1, FlagTypes, SaveTerminalType
              DEF TypeOK, LinkNotification, GoTo, Labels, Deliver
  <2>3. QED BY <2>1, <2>2
<1>6. CASE MarkNotification(p)
  <2>1. CASE MarksLost(p)
    BY <1>6, <2>1, ClaimLostType DEF TypeOK, MarkNotification
  <2>2. CASE ~ MarksLost(p)
    BY <1>6, <2>2, SaveMarkType DEF TypeOK, MarkNotification, GoTo, Labels, Deliver, Marks
  <2>3. QED BY <2>1, <2>2
<1>7. CASE Release(p)
  <2>1. CASE ClaimLost(p)
    BY <1>7, <2>1, ClaimLostType DEF TypeOK, Release
  <2>2. CASE ~ ClaimLost(p)
    <3> DEFINE next == [Revoked(job) EXCEPT !.dispatch = "complete"]
    <3>1. next \in Record
      BY RevokedFields DEF TypeOK, Record, Dispatches
    <3>2. job' = next /\ tracked' = Tracking(tracked, job, next)
      BY <1>7, <2>2 DEF Release
    <3> HIDE DEF next
    <3>3. QED BY <1>7, <2>2, <3>1, <3>2, LeaveType, TrackingType DEF TypeOK, Release
  <2>3. QED BY <2>1, <2>2
<1>8. QED BY <1>1, <1>2, <1>3, <1>4, <1>5, <1>6, <1>7 DEF Delivery

-----------------------------------------------------------------------------
\* A task's arrival keeps every variable in its type.
LEMMA ClaimType ==
  ASSUME TypeOK, NEW w \in Workers, Claim(w) PROVE TypeOK'
<1> w \in Actors
  BY DEF Actors
<1>0. tasks' \in 0..MaxTasks
  BY ParametersAssumption DEF TypeOK, Claim
<1>1. CASE Claimable(job)
  <2> DEFINE next == Claimed(job, w, MaxAttempts)
  <2>1. next \in Record /\ Seen(next) \in Record
    BY ClaimedFields, SeenFields, ParametersAssumption DEF TypeOK
  <2>2. CASE /\ job' = next /\ Touch(w, next) /\ tracked' = Tracking(tracked, job, next)
             /\ quiet' = FALSE /\ GoTo(w, "begin")
    <3> HIDE DEF next
    <3>1. QED BY <1>0, <2>1, <2>2, TrackingType
              DEF TypeOK, Claim, Touch, GoTo, Labels, Attempt, domain
  <2>3. CASE UNCHANGED <<job, tracked, quiet, pc, mem>>
    BY <1>0, <2>3 DEF TypeOK, Claim, domain
  <2>4. CASE job.status \in Terminal
    BY <1>1, <2>4 DEF Claimable, Active, Terminal
  <2>5. QED BY <1>1, <2>2, <2>3, <2>4 DEF Claim
<1>2. CASE ~ Claimable(job)
  <2>1. Seen(job) \in Record
    BY SeenFields DEF TypeOK
  <2>2. QED BY <1>0, <1>2, <2>1, EntryType DEF TypeOK, Claim, Touch, GoTo, Labels, domain
<1>3. QED BY <1>1, <1>2

\* An error in an attempt leads to a retry or a failure and writes nothing.
LEMMA ErredType ==
  ASSUME TypeOK, NEW w \in Workers, Erred(w)
  PROVE  /\ pc' \in [Actors -> Labels] /\ UNCHANGED <<mem, tasks, job, tracked, quiet, aged, lost>>
BY DEF TypeOK, Erred, HandleError, GoTo, Labels, Requeue, NoWrite, clock

\* The steps of DeferredJobRunner.run keep every variable in its type.
LEMMA RunType ==
  ASSUME TypeOK, NEW w \in Workers, Run(w) PROVE TypeOK'
<1> w \in Actors
  BY DEF Actors
<1> USE DEF domain
<1>0. Raised(w) \in Nat /\ mem[w].waits \in Nat /\ mem[w] \in Record
  BY DEF TypeOK, Record, Raised
<1>1. CASE Begin(w)
  <2>1. \A r \in Record : Updated(r, [dispatch |-> "claimed"]) \in Record
    BY DEF Updated, Record, Dispatches
  <2>2. \A r \in Record :
          Updated(r, [dispatch |-> "claimed", lease |-> "live"]) \in Record
    BY DEF Updated, Record, Dispatches
  <2>3. \A r \in Record :
          Updated(r, [dispatch |-> "claimed", lease |-> "live",
                      started |-> TRUE, rev |-> Raised(w)]) \in Record
    BY <1>0, FlagTypes
  <2>4. CASE ClaimLost(w)
    BY <1>1, <2>4, ClaimLostType DEF TypeOK, Begin
  <2>5. CASE ~ ClaimLost(w)
    <3>1. PICK updates : Persist(w, updates)
                         /\ \A r \in Record : Updated(r, updates) \in Record
      BY <1>1, <2>1, <2>2, <2>3, <2>5 DEF Begin
    <3>2. pc' \in [Actors -> Labels] /\ tasks' = tasks
      BY <1>1, <2>5 DEF Begin, TypeOK, GoTo, Labels, Attempt
    <3>3. QED BY <1>1, <3>1, <3>2, PersistType DEF TypeOK, Begin
  <2>6. QED BY <2>4, <2>5
<1>2. CASE Prepare(w)
  <2>1. CASE ClaimLost(w)
    BY <1>2, <2>1, ClaimLostType DEF TypeOK, Prepare
  <2>2. CASE Erred(w)
    BY <1>2, <2>2, ErredType DEF TypeOK, Prepare
  <2>3. CASE GoTo(w, "check") /\ UNCHANGED <<mem, tasks>> /\ NoWrite
    BY <1>2, <2>3 DEF TypeOK, Prepare, NoWrite, clock, GoTo, Labels, Attempt
  <2>4. CASE /\ Persist(w, [ready |-> TRUE, rev |-> Raised(w)])
             /\ GoTo(w, "check") /\ UNCHANGED tasks
    <3>1. \A r \in Record : Updated(r, [ready |-> TRUE, rev |-> Raised(w)]) \in Record
      BY <1>0, FlagTypes
    <3>2. QED BY <1>2, <2>4, <3>1, PersistType DEF TypeOK, Prepare, GoTo, Labels, Attempt
  <2>5. QED BY <1>2, <2>1, <2>2, <2>3, <2>4 DEF Prepare
<1>3. CASE Check(w)
  <2>1. CASE ClaimLost(w)
    BY <1>3, <2>1, ClaimLostType DEF TypeOK, Check
  <2>2. CASE Erred(w)
    BY <1>3, <2>2, ErredType DEF TypeOK, Check
  <2>3. CASE GoTo(w, "complete") /\ UNCHANGED <<mem, tasks>> /\ NoWrite
    BY <1>3, <2>3 DEF TypeOK, Check, NoWrite, clock, GoTo, Labels, Attempt
  <2>4. CASE Persist(w, [rev |-> Raised(w)]) /\ GoTo(w, "apply") /\ UNCHANGED tasks
    <3>1. \A r \in Record : Updated(r, [rev |-> Raised(w)]) \in Record
      BY <1>0 DEF Updated, Record
    <3>2. QED BY <1>3, <2>4, <3>1, PersistType DEF TypeOK, Check, GoTo, Labels, Attempt
  <2>5. QED BY <1>3, <2>1, <2>2, <2>3, <2>4 DEF Check
<1>4. CASE ApplyFenced(w)
  <2>1. CASE ClaimLost(w) /\ UNCHANGED <<applied, late, faults>>
    BY <1>4, <2>1, ClaimLostType DEF TypeOK, ApplyFenced
  <2>2. CASE Erred(w) /\ UNCHANGED <<applied, late, faults>>
    BY <1>4, <2>2, ErredType DEF TypeOK, ApplyFenced
  <2>3. CASE GoTo(w, "complete") /\ UNCHANGED <<mem, tasks, applied, late, faults>> /\ NoWrite
    BY <1>4, <2>3 DEF TypeOK, ApplyFenced, NoWrite, clock, GoTo, Labels, Attempt
  <2> DEFINE receipt == mem[w].type = "autofill"
  <2>4. CASE /\ Mutate(w) /\ Reported(w)
             /\ job' = [job EXCEPT !.receipt = receipt]
             /\ mem' = [mem EXCEPT ![w].receipt = receipt]
             /\ UNCHANGED <<tasks, tracked, clock, lost>>
    <3>1. receipt \in BOOLEAN
      OBVIOUS
    <3> HIDE DEF receipt
    <3>2. job' \in Record /\ mem' \in [Actors -> Record]
      BY <1>0, <2>4, <3>1 DEF TypeOK, Record
    <3>3. applied' \in 0..2 /\ late' \in BOOLEAN
      BY <2>4 DEF TypeOK, Mutate
    <3>4. pc' \in [Actors -> Labels] /\ faults' \in 0..MaxFaults
      BY <2>4, FaultType
         DEF TypeOK, Reported, HandleError, GoTo, Labels, Attempt, Requeue
    <3>5. UNCHANGED <<note, cleaned>>
      BY <1>4 DEF ApplyFenced
    <3>6. QED BY <2>4, <3>2, <3>3, <3>4, <3>5 DEF TypeOK, clock
  <2>5. QED BY <1>4, <2>1, <2>2, <2>3, <2>4, Zenon DEF ApplyFenced
<1>5. CASE ApplyUnfenced(w)
  <2>1. CASE ClaimLost(w) /\ UNCHANGED <<applied, late, faults>>
    BY <1>5, <2>1, ClaimLostType DEF TypeOK, ApplyUnfenced
  <2>2. CASE Erred(w) /\ UNCHANGED <<applied, late, faults>>
    BY <1>5, <2>2, ErredType DEF TypeOK, ApplyUnfenced
  <2>3. CASE GoTo(w, "wait") /\ UNCHANGED <<mem, tasks, applied, late, faults>> /\ NoWrite
    BY <1>5, <2>3 DEF TypeOK, ApplyUnfenced, NoWrite, clock, GoTo, Labels, Requeue
  <2>4. CASE Mutate(w) /\ Reported(w) /\ UNCHANGED <<mem, tasks>> /\ NoWrite
    <3>1. applied' \in 0..2 /\ late' \in BOOLEAN
      BY <2>4 DEF TypeOK, Mutate
    <3>2. pc' \in [Actors -> Labels] /\ faults' \in 0..MaxFaults
      BY <2>4, FaultType
         DEF TypeOK, Reported, HandleError, GoTo, Labels, Attempt, Requeue
    <3>3. QED BY <1>5, <2>4, <3>1, <3>2 DEF TypeOK, ApplyUnfenced, NoWrite, clock
  <2>5. QED BY <1>5, <2>1, <2>2, <2>3, <2>4 DEF ApplyUnfenced
<1>6. CASE Complete(w)
  <2>1. CASE ClaimLost(w)
    BY <1>6, <2>1, ClaimLostType DEF TypeOK, Complete
  <2>2. CASE ~ ClaimLost(w)
    <3>1. \A r \in Record :
            Updated(r, [status |-> "succeeded", marks |-> {},
                        dispatch |-> "delivery_pending", rev |-> Raised(w)]) \in Record
      BY <1>0 DEF Updated, Record, Terminal, Dispatches
    <3>2. QED BY <1>6, <2>2, <3>1, PersistType
              DEF TypeOK, Complete, GoTo, Labels, Deliver
  <2>3. QED BY <2>1, <2>2
<1>7. CASE Fail(w)
  <2>1. CASE ClaimLost(w)
    BY <1>7, <2>1, ClaimLostType DEF TypeOK, Fail
  <2>2. CASE ~ ClaimLost(w)
    <3>1. \A r \in Record :
            Updated(r, [status |-> "failed", marks |-> {"failure"},
                        dispatch |-> "delivery_pending", rev |-> Raised(w)]) \in Record
      BY <1>0 DEF Updated, Record, Terminal, Dispatches, Marks
    <3>2. QED BY <1>7, <2>2, <3>1, PersistType
              DEF TypeOK, Fail, GoTo, Labels, Deliver
  <2>3. QED BY <2>1, <2>2
<1>8. CASE Postpone(w)
  <2>1. CASE ClaimLost(w)
    BY <1>8, <2>1, ClaimLostType DEF TypeOK, Postpone
  <2>2. CASE ~ ClaimLost(w)
    <3> DEFINE waits == mem[w].waits + IF pc[w] = "wait" THEN 1 ELSE 0
    <3>1. waits \in Nat
      BY <1>0
    <3>2. /\ Persist(w, [status |-> "retry_wait", dispatch |-> "pending", wait |-> "later",
                         lease |-> "lapsed", rev |-> Raised(w), waits |-> waits])
          /\ GoTo(w, "enqueue") /\ UNCHANGED <<tasks, domain, faults>>
      BY <1>8, <2>2 DEF Postpone
    <3> HIDE DEF waits
    <3>3. \A r \in Record :
            Updated(r, [status |-> "retry_wait", dispatch |-> "pending", wait |-> "later",
                        lease |-> "lapsed", rev |-> Raised(w), waits |-> waits]) \in Record
      BY <1>0, <3>1 DEF Updated, Record, Active, Dispatches
    <3>4. QED BY <3>2, <3>3, PersistType DEF TypeOK, GoTo, Labels, Requeue
  <2>3. QED BY <2>1, <2>2
<1>9. CASE Enqueue(w)
  BY <1>9, QueuedType, FaultType
     DEF TypeOK, Enqueue, NoWrite, clock, GoTo, Labels, Requeue
<1>10. CASE MarkSent(w)
  <2>1. CASE ClaimLost(w)
    BY <1>10, <2>1, ClaimLostType, FaultType DEF TypeOK, MarkSent
  <2>2. CASE ~ ClaimLost(w)
    <3>1. \A r \in Record :
            Updated(r, [dispatch |-> "dispatched", sent |-> "fresh",
                        rev |-> Raised(w)]) \in Record
      BY <1>0 DEF Updated, Record, Dispatches
    <3>2. CASE Persist(w, [dispatch |-> "dispatched", sent |-> "fresh", rev |-> Raised(w)])
               /\ GoTo(w, "renote") /\ UNCHANGED <<tasks, faults>>
      BY <1>10, <3>1, <3>2, PersistType DEF TypeOK, MarkSent, GoTo, Labels, Requeue
    <3>3. CASE Fault /\ GoTo(w, "unsent") /\ UNCHANGED <<mem, tasks>> /\ NoWrite
      BY <1>10, <3>3, FaultType
         DEF TypeOK, MarkSent, NoWrite, clock, GoTo, Labels, Requeue
    <3>4. QED BY <1>10, <2>2, <3>2, <3>3 DEF MarkSent
  <2>3. QED BY <2>1, <2>2
<1>11. CASE Unsent(w)
  <2>1. CASE ClaimLost(w)
    BY <1>11, <2>1, ClaimLostType DEF TypeOK, Unsent
  <2>2. CASE ~ ClaimLost(w)
    <3>1. [job EXCEPT !.wait = "due", !.lease = "lapsed"] \in Record
      BY DEF TypeOK, Record
    <3>2. tracked' \in BOOLEAN
      BY <1>11, <2>2, TrackingType DEF TypeOK, Unsent
    <3>3. QED BY <1>11, <2>2, <3>1, <3>2, LeaveType, QueuedType DEF TypeOK, Unsent
  <2>3. QED BY <2>1, <2>2
<1>12. CASE RetryNote(w)
  BY <1>12, LeaveType DEF TypeOK, RetryNote, NoWrite, clock
<1>13. QED BY <1>1, <1>2, <1>3, <1>4, <1>5, <1>6, <1>7, <1>8, <1>9, <1>10, <1>11, <1>12
           DEF Run

\* A heartbeat and an aborted attempt keep every variable in its type.
LEMMA WorkerFaultType ==
  ASSUME TypeOK, NEW w \in Workers, Heartbeat(w) \/ Abort(w) PROVE TypeOK'
<1> w \in Actors
  BY DEF Actors
<1>1. CASE Heartbeat(w)
  BY <1>1 DEF TypeOK, Heartbeat, Record, domain
<1>2. CASE Abort(w)
  <2>1. [job EXCEPT !.lease = "lapsed"] \in Record
    BY DEF TypeOK, Record
  <2>2. QED BY <1>2, <2>1, LeaveType, FaultType, QueuedType DEF TypeOK, Abort, domain
<1>3. QED BY <1>1, <1>2

\* A process that dies keeps every variable in its type.
LEMMA CrashType == ASSUME TypeOK, NEW p \in Actors, Crash(p) PROVE TypeOK'
BY LeaveType, FaultType, RedeliveryType DEF TypeOK, Crash, NoWrite, domain, clock

\* A cancellation keeps every variable in its type.
LEMMA CancelType == ASSUME TypeOK, Cancel PROVE TypeOK'
<1> "cancel" \in Actors
  BY DEF Cancel, Actors
<1>1. tasks' \in 0..MaxTasks
  BY ParametersAssumption DEF TypeOK, Cancel
<1>2. CASE Cancellable(job)
  <2>1. PICK outcome \in Withdrawn :
          /\ job' = Tombstone(job, outcome)
          /\ Touch("cancel", Tombstone(job, outcome))
          /\ tracked' = Tracking(tracked, job, Tombstone(job, outcome))
    BY <1>2 DEF Cancel
  <2>2. job' \in Record /\ Seen(job') \in Record
    BY <2>1, TombstoneFields, SeenFields DEF TypeOK, Withdrawn, Terminal
  <2>3. tracked' \in BOOLEAN
    BY <2>1, TrackingType DEF TypeOK
  <2>4. GoTo("cancel", "stale") /\ quiet' = FALSE
    BY <1>2 DEF Cancel
  <2>5. mem' \in [Actors -> Record] /\ pc' \in [Actors -> Labels]
    BY <2>1, <2>2, <2>4 DEF TypeOK, Touch, GoTo, Labels, Deliver
  <2>6. QED BY <1>1, <2>2, <2>3, <2>4, <2>5 DEF TypeOK, Cancel, domain
<1>3. CASE ~ Cancellable(job)
  BY <1>1, <1>3, LeaveType DEF TypeOK, Cancel, domain
<1>4. QED BY <1>2, <1>3

\* The reconciler's scan and recovery keep every variable in its type.
LEMMA ReconcileType == ASSUME TypeOK, Scan \/ Recover PROVE TypeOK'
<1> "reconcile" \in Actors
  BY DEF Scan, Recover, Actors
<1>1. CASE Scan
  <2>1. /\ Seen(job) \in Record
        /\ Seen([Blank EXCEPT !.rev = job.rev]) \in Record
    BY SeenFields, BlankFields DEF TypeOK, Record
  <2>2. tracked' \in BOOLEAN
    BY <1>1 DEF Scan, RequiresRecovery
  <2>3. QED BY <1>1, <2>1, <2>2
            DEF TypeOK, Scan, Touch, GoTo, Labels, Deliver, domain, clock
<1>2. CASE Recover
  <2>1. /\ Tombstone(job, "failed") \in Record /\ Redispatched(job) \in Record
        /\ Seen(Tombstone(job, "failed")) \in Record /\ Seen(Redispatched(job)) \in Record
    BY TombstoneFields, RedispatchedFields, SeenFields DEF TypeOK, Terminal
  <2>2. /\ Tracking(tracked, job, Tombstone(job, "failed")) \in BOOLEAN
        /\ Tracking(tracked, job, Redispatched(job)) \in BOOLEAN
    BY TrackingType DEF TypeOK
  <2>3. \/ \E next \in {Tombstone(job, "failed"), Redispatched(job)},
              label \in {"stale", "send"} :
             /\ job' = next /\ Touch("reconcile", next)
             /\ tracked' = Tracking(tracked, job, next)
             /\ quiet' = FALSE /\ GoTo("reconcile", label)
        \/ Leave("reconcile") /\ UNCHANGED <<job, tracked, quiet>>
    BY <1>2, Zenon DEF Recover
  <2>4. job' \in Record /\ tracked' \in BOOLEAN /\ quiet' \in BOOLEAN
    BY <2>1, <2>2, <2>3 DEF TypeOK
  <2>5. mem' \in [Actors -> Record] /\ pc' \in [Actors -> Labels]
    <3>1. CASE Leave("reconcile")
      BY <3>1, LeaveType
    <3>2. CASE ~ Leave("reconcile")
      BY <2>1, <2>3, <3>2 DEF TypeOK, Touch, GoTo, Labels, Deliver
    <3>3. QED BY <3>1, <3>2
  <2>6. QED BY <1>2, <2>4, <2>5 DEF TypeOK, Recover, domain
<1>3. QED BY <1>1, <1>2

\* The delayed message keeps every variable in its type.
LEMMA FeedbackType == ASSUME TypeOK, FeedbackRead \/ FeedbackWrite PROVE TypeOK'
BY DEF TypeOK, FeedbackRead, FeedbackWrite, GoTo, Labels, NoWrite, domain, clock

\* A repeated delivery and the passing of times keep every variable in its type.
LEMMA TimeType == ASSUME TypeOK, Duplicate \/ Time PROVE TypeOK'
<1> USE DEF domain, clock
<1>0. ASSUME NEW stall \in BOOLEAN, Passing(stall) PROVE faults' \in 0..MaxFaults
  BY <1>0, FaultType DEF TypeOK, Passing
<1>1. CASE Duplicate
  BY <1>1, FaultType, ParametersAssumption DEF TypeOK, Duplicate, NoWrite
<1>2. CASE LeasePasses
  <2>1. faults' \in 0..MaxFaults
    BY <1>0, <1>2 DEF LeasePasses, Slow
  <2>2. job' \in Record
    BY <1>2 DEF TypeOK, LeasePasses, Record
  <2>3. tasks' \in 0..MaxTasks
    BY <1>2, QueuedType DEF TypeOK, LeasePasses
  <2>4. QED BY <1>2, <2>1, <2>2, <2>3 DEF TypeOK, LeasePasses
<1>3. CASE WaitPasses
  <2>1. faults' \in 0..MaxFaults
    BY <1>0, <1>3 DEF WaitPasses, Slow
  <2>2. job' \in Record
    BY <1>3 DEF TypeOK, WaitPasses, Record
  <2>3. QED BY <1>3, <2>1, <2>2 DEF TypeOK, WaitPasses
<1>4. CASE SentPasses
  <2>1. faults' \in 0..MaxFaults
    BY <1>0, <1>4 DEF SentPasses, Slow
  <2>2. job' \in Record
    BY <1>4 DEF TypeOK, SentPasses, Record
  <2>3. QED BY <1>4, <2>1, <2>2 DEF TypeOK, SentPasses
<1>5. CASE GracePasses
  BY <1>0, <1>5 DEF TypeOK, GracePasses, Slow
<1>6. CASE AgePasses
  BY <1>0, <1>6 DEF TypeOK, AgePasses, Slow
<1>7. QED BY <1>1, <1>2, <1>3, <1>4, <1>5, <1>6 DEF Time

\* The initial state is well-typed.
LEMMA InitType == Init => TypeOK
<1> SUFFICES ASSUME Init PROVE TypeOK
  OBVIOUS
<1>1. pc \in [Actors -> Labels]
  BY RestType DEF Init, Labels
<1>2. mem \in [Actors -> Record] /\ job \in Record
  BY BlankFields DEF Init
<1>3. /\ tracked \in BOOLEAN /\ cleaned \in BOOLEAN /\ late \in BOOLEAN
      /\ quiet \in BOOLEAN /\ aged \in BOOLEAN
  BY Zenon DEF Init
<1>4. tasks = 0 /\ note = "absent" /\ applied = 0 /\ faults = 0 /\ lost = {}
  BY Zenon DEF Init
<1>5. QED BY <1>1, <1>2, <1>3, <1>4, ParametersAssumption DEF TypeOK

\* Every step keeps every variable in its type.
LEMMA StepType == ASSUME TypeOK, [Next]_vars PROVE TypeOK'
<1>1. CASE UNCHANGED vars
  BY <1>1 DEF vars, TypeOK, domain, clock
<1>2. CASE Next
  BY <1>2, StartType, DispatchType, DeliveryType, CrashType, ClaimType, RunType,
     WorkerFaultType, CancelType, ReconcileType, FeedbackType, TimeType DEF Next
<1>3. QED BY <1>1, <1>2

\* The record and every actor's copy of it keep their types, and the counters stay
\* within their bounds, in every reachable state, for any workers, types and bounds.
THEOREM TypeCorrect == Spec => []TypeOK
  BY InitType, StepType, PTL DEF Spec

-----------------------------------------------------------------------------
(* Arbitration and finality *)

\* What an actor's step and memory say of the record.
Fits(p) ==
    /\ pc[p] \in Deliver =>
         /\ job.status \in Terminal
         /\ mem[p].status = job.status /\ mem[p].type = job.type
         /\ mem[p].receipt = job.receipt
         /\ mem[p].token = NoToken => job.token = NoToken
    /\ p \in Workers /\ Working(p) =>
         /\ mem[p].token = p /\ mem[p].type = job.type /\ job.status # "absent"
         /\ job.token = p =>
              /\ mem[p].receipt = job.receipt
              /\ job.status \in {"running", "retry_wait"}
              /\ pc[p] \in Attempt \cup {"retry", "wait", "fail"} => job.status = "running"
              /\ pc[p] = "apply" /\ job.type = "report" => applied = 0

\* Before it is created, a job has no receipt and nothing was applied.
Uncreated ==
    /\ pc["start"] = "create" => job.status = "absent"
    /\ job.status = "absent" => applied = 0 /\ ~ late /\ ~ job.receipt

\* The fenced changes made so far, against the receipt and the status.
Changed ==
    /\ job.type \in {"autofill", "report"} => applied <= 1 /\ ~ late
    /\ job.type = "autofill" => /\ applied = 1 <=> job.receipt
                                /\ job.status \in Withdrawn => applied = 0
    /\ job.type = "report" => ~ job.receipt

\* The strengthening that is inductive.
Sound == (\A p \in Actors : Fits(p)) /\ Uncreated /\ Changed

IInv == TypeOK /\ ("start" \notin lost => Sound)

\* What a step owes TerminalIsFinal.
Final == job.status \in Terminal => job'.status = job.status

\* The outcome and the receipt stay, and the owner stays or goes.
Kept == /\ job'.status = job.status /\ job'.type = job.type
        /\ job'.receipt = job.receipt /\ job'.token \in {job.token, NoToken}

\* Records that agree keep the outcome, the receipt and the owner.
LEMMA AgreeIsKept == Agree(job, job') => Kept
BY DEF Agree, Kept

\* Only p moves.
Alone(p) == /\ \A q \in Actors : q # p => pc'[q] = pc[q] /\ mem'[q] = mem[q]
            /\ pc'["start"] = "create" => pc["start"] = "create"

\* The actors that are not workers have names of their own.
LEMMA Names ==
  /\ "start" \in Actors /\ "start" \notin Workers /\ "cancel" \notin Workers
  /\ "reconcile" \notin Workers /\ "feedback" \notin Workers /\ NoToken \notin Workers
  /\ \A w \in Workers : w \in Actors /\ w # "start"
BY ParametersAssumption, RecordAssumption DEF Actors

\* An actor at rest fits every record.
LEMMA RestFits ==
  ASSUME NEW p \in Actors, pc'[p] \notin Attempt \cup Requeue \cup Deliver \cup {"fail"}
  PROVE  Fits(p)'
BY DEF Fits, Working

\* An actor that leaves fits every record and disturbs no other.
LEMMA LeaveFits ==
  ASSUME TypeOK, NEW p \in Actors, Leave(p)
  PROVE  Fits(p)' /\ Alone(p)
<1>1. pc'[p] \in {"idle", "scan", "done"}
  BY DEF TypeOK, Leave, GoTo, Rest
<1>2. pc'[p] \notin Attempt \cup Requeue \cup Deliver \cup {"fail", "create"}
  BY <1>1 DEF Attempt, Requeue, Deliver
<1>3. \A q \in Actors : q # p => pc'[q] = pc[q] /\ mem'[q] = mem[q]
  BY DEF TypeOK, Leave, GoTo
<1>4. QED BY <1>2, <1>3, RestFits, Names DEF Alone

\* Steps that leave the outcome, the receipt and the change alone.
LEMMA Keep ==
  ASSUME TypeOK, Sound, NEW p \in Actors, Alone(p), Fits(p)',
         Kept, UNCHANGED <<applied, late>>
  PROVE  Sound' /\ Final
<1>1. ASSUME NEW q \in Actors PROVE Fits(q)'
  <2>1. CASE q = p
    BY <2>1
  <2>2. CASE q # p
    BY <2>2, Names DEF Sound, Fits, Working, Alone, Kept
  <2>3. QED BY <2>1, <2>2
<1>2. Uncreated' /\ Changed'
  BY DEF Sound, Uncreated, Changed, Alone, Kept
<1>3. QED BY <1>1, <1>2 DEF Sound, Final, Kept

\* Steps that decide an undecided job or pass it to another owner.
LEMMA Decide ==
  ASSUME TypeOK, Sound, NEW p \in Actors, Alone(p), Fits(p)',
         job.status \notin Terminal, job.status # "absent", job'.status # "absent",
         job'.token \in {NoToken, p}, job'.type = job.type, job'.receipt = job.receipt,
         job'.status \in Withdrawn => ~ job.receipt, UNCHANGED <<applied, late>>
  PROVE  Sound' /\ Final
<1>1. ASSUME NEW q \in Actors PROVE Fits(q)'
  <2>1. CASE q = p
    BY <2>1
  <2>2. CASE q # p
    BY <2>2, Names DEF Sound, Fits, Working, Alone
  <2>3. QED BY <2>1, <2>2
<1>2. Uncreated'
  BY DEF Sound, Uncreated, Alone
<1>3. Changed'
  BY DEF TypeOK, Sound, Changed
<1>4. QED BY <1>1, <1>2, <1>3 DEF Sound, Final

\* A guarded write that names no token, type or receipt.
LEMMA PersistFields ==
  ASSUME TypeOK, NEW p \in Actors, NEW updates, Persist(p, updates),
         \A r \in Record : Updated(r, updates) \in Record,
         {"token", "type", "receipt"} \cap DOMAIN updates = {}
  PROVE  /\ job.token = mem[p].token /\ job'.token = job.token
         /\ job'.type = job.type /\ job'.receipt = job.receipt
         /\ mem'[p].token = mem[p].token /\ mem'[p].type = mem[p].type
         /\ mem'[p].receipt = mem[p].receipt
         /\ IF "status" \in DOMAIN updates
              THEN job'.status = updates.status /\ mem'[p].status = updates.status
              ELSE job'.status = job.status /\ mem'[p].status = mem[p].status
         /\ \A q \in Actors : q # p => mem'[q] = mem[q]
<1> DEFINE m == Updated(mem[p], updates)
<1>1. mem[p] \in Record /\ job \in Record /\ m \in Record
  BY DEF TypeOK
<1>2. mem' = [mem EXCEPT ![p] = Seen(m)] /\ job' = Updated(job, updates)
      /\ job.token = mem[p].token
  BY DEF Persist, Touch, Owns
<1>3. Agree(m, mem'[p]) /\ \A q \in Actors : q # p => mem'[q] = mem[q]
  BY <1>1, <1>2, SeenFields DEF TypeOK
<1>4. \A r \in Record :
        /\ Updated(r, updates).token = r.token /\ Updated(r, updates).type = r.type
        /\ Updated(r, updates).receipt = r.receipt
        /\ Updated(r, updates).status = IF "status" \in DOMAIN updates
                                          THEN updates.status ELSE r.status
  BY DEF Updated, Record
<1> HIDE DEF m
<1>5. Agree(m, mem'[p]) /\ m.token = mem[p].token /\ m.type = mem[p].type
      /\ m.receipt = mem[p].receipt
      /\ m.status = IF "status" \in DOMAIN updates THEN updates.status ELSE mem[p].status
  BY <1>1, <1>3, <1>4 DEF m
<1>6. QED BY <1>1, <1>2, <1>3, <1>4, <1>5 DEF Agree

-----------------------------------------------------------------------------
\* start: only a save that replaces a record it had not seen could change the
\* outcome, and that adds "start" to lost.
LEMMA StartSafe ==
  ASSUME TypeOK, Sound, "start" \notin lost', Start
  PROVE  Sound' /\ Final
<1> "start" \in Actors
  BY Names
<1>0. mem["start"] \in Record /\ job \in Record /\ mem["start"].rev + 1 \in Nat
  BY DEF TypeOK, Record
<1>c. [mem["start"] EXCEPT !.dispatch = "dispatching", !.sent = "fresh", !.rev = @ + 1]
        \in Record
  <2>1. mem["start"] \in Record /\ mem["start"].rev + 1 \in Nat
    BY <1>0
  <2>2. QED BY <2>1 DEF Record, Dispatches
<1> USE Names
<1>a. ASSUME NEW r \in Record, Agree(mem["start"], r), BlindSave("start", r)
      PROVE  Agree(job, job') /\ \A q \in Actors : q # "start" => mem'[q] = mem[q]
  <2>1. Seen(job) = mem["start"]
    BY <1>a DEF BlindSave
  <2>2. Agree(job, mem["start"])
    BY <1>0, <2>1, SeenFields
  <2>3. QED BY <1>a, <2>2 DEF BlindSave, Touch, Agree, TypeOK
<1>b. ASSUME NEW label \in {"save", "started", "dispatching", "send", "failstart", "failnote"},
             GoTo("start", label), \A q \in Actors : q # "start" => mem'[q] = mem[q]
      PROVE  Fits("start")' /\ Alone("start")
  <2>1. pc'["start"] = label /\ \A q \in Actors : q # "start" => pc'[q] = pc[q]
    BY <1>b DEF GoTo, TypeOK
  <2>2. label \notin Attempt \cup Requeue \cup Deliver \cup {"fail", "create"}
    BY <1>b DEF Attempt, Requeue, Deliver
  <2>3. QED BY <1>b, <2>1, <2>2, RestFits DEF Alone
<1>1. CASE StartCreate
  <2>1. PICK type \in Types : job' = Submitted(type) /\ Touch("start", job')
    BY <1>1 DEF StartCreate
  <2>2. /\ job'.status = "queued" /\ job'.token = NoToken
        /\ job'.type = type /\ job'.receipt = FALSE
    BY <2>1, RecordAssumption, SubmittedFields
  <2>3. Fits("start")' /\ Alone("start")
    <3>1. GoTo("start", "save")
      BY <1>1 DEF StartCreate
    <3>2. \A q \in Actors : q # "start" => mem'[q] = mem[q]
      BY <2>1 DEF Touch, TypeOK
    <3>3. QED BY <1>b, <3>1, <3>2
  <2>4. job.status = "absent" /\ applied' = 0 /\ ~ late' /\ pc'["start"] # "create"
    BY <1>1 DEF StartCreate, Sound, Uncreated, GoTo, TypeOK
  <2>5. ASSUME NEW q \in Actors, q # "start" PROVE Fits(q)'
    BY <2>2, <2>3, <2>4, <2>5 DEF Sound, Fits, Working, Alone, Terminal
  <2>6. Uncreated' /\ Changed'
    BY <2>2, <2>4 DEF Uncreated, Changed, Withdrawn
  <2>7. QED BY <2>3, <2>4, <2>5, <2>6 DEF Sound, Final, Terminal
<1>2. CASE StartSave
  <2>1. BlindSave("start", mem["start"]) /\ GoTo("start", "started")
        /\ UNCHANGED <<applied, late>>
    BY <1>2 DEF StartSave
  <2>2. Agree(mem["start"], mem["start"])
    BY DEF Agree
  <2>3. QED BY <1>0, <1>a, <1>b, <2>1, <2>2, Keep, AgreeIsKept
<1>3. CASE StartStarted
  <2> DEFINE r == [mem["start"] EXCEPT !.started = TRUE, !.rev = @ + 1]
  <2>1. r \in Record /\ Agree(mem["start"], r)
    <3>1. r \in Record
      BY <1>0 DEF Record
    <3>2. Agree(mem["start"], r)
      BY <1>0 DEF Record, Agree
    <3>3. QED BY <3>1, <3>2
  <2> HIDE DEF r
  <2>2. UNCHANGED <<applied, late>>
    BY <1>3 DEF StartStarted, domain
  <2>3. CASE BlindSave("start", r) /\ GoTo("start", "dispatching")
    BY <1>a, <1>b, <2>1, <2>2, <2>3, Keep, AgreeIsKept
  <2>4. CASE GoTo("start", "failstart") /\ UNCHANGED <<mem, job>>
    BY <1>b, <2>2, <2>4, Keep DEF Kept
  <2>5. QED BY <1>3, <2>3, <2>4, Zenon DEF StartStarted, NoWrite, r
<1>4. CASE StartDispatching
  <2> DEFINE r == [mem["start"] EXCEPT !.dispatch = "dispatching", !.sent = "fresh",
                                       !.rev = @ + 1]
  <2>1. r \in Record /\ Agree(mem["start"], r)
    <3>1. r \in Record
      BY <1>c
    <3>2. Agree(mem["start"], r)
      BY <1>0 DEF Record, Agree
    <3>3. QED BY <3>1, <3>2
  <2>2. BlindSave("start", r) /\ GoTo("start", "send") /\ UNCHANGED <<applied, late>>
    BY <1>4 DEF StartDispatching, domain
  <2> HIDE DEF r
  <2>3. QED BY <1>a, <1>b, <2>1, <2>2, Keep, AgreeIsKept
<1>5. CASE StartFail
  <2>1. UNCHANGED <<applied, late>>
    BY <1>5 DEF StartFail
  <2>2. CASE Cancellable(job)
    <3>1. job' = FailedStart(job) /\ GoTo("start", "failnote") /\ UNCHANGED mem
      BY <1>5, <2>2 DEF StartFail
    <3>2. /\ job'.status = "failed" /\ job'.token = NoToken
          /\ job'.type = job.type /\ job'.receipt = job.receipt
      BY <1>0, <3>1, FailedStartFields
    <3>3. Fits("start")' /\ Alone("start")
      BY <1>b, <3>1
    <3>4. QED BY <2>1, <2>2, <3>2, <3>3, Decide
              DEF Cancellable, Active, Terminal, Withdrawn
  <2>3. CASE Leave("start") /\ UNCHANGED job
    BY <2>1, <2>3, LeaveFits, Keep DEF Kept
  <2>4. QED BY <1>5, <2>2, <2>3 DEF StartFail
<1>6. CASE StartFailNote
  BY <1>6, LeaveFits, Keep DEF StartFailNote, NoWrite, Kept
<1>7. QED BY <1>1, <1>2, <1>3, <1>4, <1>5, <1>6 DEF Start

\* Sending and confirming a task change the dispatch state only.
LEMMA DispatchSafe ==
  ASSUME TypeOK, Sound, NEW p \in Dispatchers, Dispatch(p)
  PROVE  Sound' /\ Final
<1> USE Names
<1>0. p \in Actors /\ job \in Record /\ UNCHANGED <<applied, late>>
  BY DEF Dispatchers, TypeOK, Dispatch, Send, Confirm, Unconfirm, domain
<1>1. Agree(job, job')
  <2>1. /\ Agree(job, [job EXCEPT !.dispatch = "dispatched"])
        /\ Agree(job, [job EXCEPT !.dispatch = "pending", !.sent = "none"])
    BY <1>0 DEF Agree, Record
  <2>2. \/ job' = job \/ job' = [job EXCEPT !.dispatch = "dispatched"]
        \/ job' = [job EXCEPT !.dispatch = "pending", !.sent = "none"]
    BY Zenon DEF Dispatch, Send, Confirm, Unconfirm, NoWrite
  <2>3. QED BY <2>1, <2>2 DEF Agree
<1>2. CASE Leave(p)
  BY <1>0, <1>1, <1>2, LeaveFits, Keep, AgreeIsKept
<1>3. CASE ~ Leave(p)
  <2>1. PICK label \in {"confirm", "unconfirm", "disabled", "failstart"} :
          GoTo(p, label) /\ UNCHANGED mem
    BY <1>3 DEF Dispatch, Send, Confirm, Unconfirm
  <2>2. pc'[p] = label /\ \A q \in Actors : q # p => pc'[q] = pc[q]
    BY <1>0, <2>1 DEF GoTo, TypeOK
  <2>3. label \notin Attempt \cup Requeue \cup Deliver \cup {"fail", "create"}
    BY DEF Attempt, Requeue, Deliver
  <2>4. Fits(p)' /\ Alone(p)
    BY <1>0, <2>1, <2>2, <2>3, RestFits DEF Alone
  <2>5. QED BY <1>0, <1>1, <2>4, Keep, AgreeIsKept
<1>4. QED BY <1>2, <1>3

\* A delivering actor only sets markers, a notification and the end of delivery.
LEMMA SaveTerminalFields ==
  ASSUME TypeOK, Sound, NEW p \in Actors, pc[p] \in Deliver,
         NEW updates, SaveTerminal(p, updates),
         \A r \in Record : Updated(r, updates) \in Record,
         {"status", "token", "type", "receipt"} \cap DOMAIN updates = {}
  PROVE  /\ Agree(job, job') /\ Agree(mem[p], mem'[p])
         /\ \A q \in Actors : q # p => mem'[q] = mem[q]
<1> DEFINE m == Updated(mem[p], updates)
<1>1. mem[p] \in Record /\ job \in Record /\ m \in Record
  BY DEF TypeOK
<1>2. CASE mem[p].token = NoToken
  <2>1. BlindSave(p, m)
    BY <1>2 DEF SaveTerminal
  <2>2. Agree(mem[p], m)
    BY <1>1 DEF Agree, Updated, Record
  <2>3. Agree(job, mem[p])
    BY <1>2 DEF Sound, Fits, Agree
  <2> HIDE DEF m
  <2>4. Agree(m, mem'[p]) /\ \A q \in Actors : q # p => mem'[q] = mem[q]
    BY <1>1, <2>1, SeenFields DEF BlindSave, Touch, TypeOK
  <2>5. QED BY <2>1, <2>2, <2>3, <2>4 DEF BlindSave, Agree
<1>3. CASE mem[p].token # NoToken
  <2>1. Persist(p, updates)
    BY <1>3 DEF SaveTerminal
  <2>2. QED BY <2>1, PersistFields DEF Agree
<1>4. QED BY <1>2, <1>3

\* Storing a marker leaves the outcome, the owner and the receipt.
LEMMA SaveMarkFields ==
  ASSUME TypeOK, Sound, NEW p \in Actors, pc[p] \in Deliver,
         NEW mark \in Marks, SaveMark(p, mark)
  PROVE  /\ Agree(job, job') /\ Agree(mem[p], mem'[p])
         /\ \A q \in Actors : q # p => mem'[q] = mem[q]
<1> DEFINE updates == [marks |-> mem[p].marks \cup {mark}]
<1>1. mem[p].marks \cup {mark} \in SUBSET Marks
  BY DEF TypeOK, Record
<1>2. \A r \in Record : Updated(r, updates) \in Record
  BY <1>1 DEF Updated, Record
<1>3. SaveTerminal(p, updates) /\ DOMAIN updates = {"marks"}
  BY DEF SaveMark
<1> HIDE DEF updates
<1>4. QED BY <1>2, <1>3, SaveTerminalFields

\* Delivery leaves the outcome and the receipt; its release takes the token only.
LEMMA DeliverySafe ==
  ASSUME TypeOK, Sound, NEW p \in Actors, Delivery(p)
  PROVE  Sound' /\ Final
<1> USE DEF MarksLost, domain
<1>a. ASSUME NEW label \in Deliver, GoTo(p, label), pc[p] \in Deliver,
             Agree(job, job'), Agree(mem[p], mem'[p]),
             \A q \in Actors : q # p => mem'[q] = mem[q], UNCHANGED <<applied, late>>
      PROVE  Sound' /\ Final
  <2>1. pc'[p] = label /\ \A q \in Actors : q # p => pc'[q] = pc[q]
    BY <1>a DEF GoTo, TypeOK
  <2>2. label \notin Attempt \cup Requeue \cup {"fail", "create"}
    BY <1>a DEF Attempt, Requeue, Deliver
  <2>3. Alone(p)
    BY <1>a, <2>1, <2>2, Names DEF Alone
  <2>4. Fits(p)'
    BY <1>a, <2>1, <2>2 DEF Sound, Fits, Working, Agree
  <2>5. QED BY <1>a, <2>3, <2>4, Keep, AgreeIsKept
<1>b. ASSUME ClaimLost(p), UNCHANGED <<applied, late>> PROVE Sound' /\ Final
  BY <1>b, LeaveFits, Keep DEF ClaimLost, Kept
<1>c. Agree(job, job) /\ Agree(mem[p], mem[p])
  BY DEF Agree
<1>1. CASE DeliverFailure(p)
  <2>1. CASE SaveMark(p, "failure") /\ GoTo(p, Entry(mem[p]))
    <3>1. pc[p] \in Deliver /\ "failure" \in Marks /\ UNCHANGED <<applied, late>>
      BY <1>1 DEF DeliverFailure, Deliver, Marks
    <3>2. QED BY <1>a, <2>1, <3>1, EntryType, SaveMarkFields
  <2>2. CASE MarksLost(p)
    BY <1>1, <1>b, <2>2 DEF DeliverFailure
  <2>3. CASE GoTo(p, Entry(mem[p])) /\ UNCHANGED <<mem, tasks>> /\ NoWrite
    <3>1. pc[p] \in Deliver /\ UNCHANGED <<applied, late, job, mem>>
      BY <1>1, <2>3 DEF DeliverFailure, Deliver, NoWrite
    <3>2. QED BY <1>a, <1>c, <2>3, <3>1, EntryType
  <2>4. QED BY <1>1, <2>1, <2>2, <2>3 DEF DeliverFailure
<1>2. CASE Cleanup(p)
  <2>1. /\ pc[p] \in Deliver /\ "cleaned" \in Deliver /\ GoTo(p, "cleaned")
        /\ UNCHANGED <<applied, late, job, mem>>
    BY <1>2 DEF Cleanup, Deliver, NoWrite
  <2>2. QED BY <1>a, <1>c, <2>1
<1>3. CASE MarkCleanup(p)
  <2>1. CASE MarksLost(p)
    BY <1>3, <1>b, <2>1 DEF MarkCleanup
  <2>2. CASE ~ MarksLost(p)
    <3>1. /\ pc[p] \in Deliver /\ "cleanup" \in Marks /\ SaveMark(p, "cleanup")
          /\ UNCHANGED <<applied, late>>
      BY <1>3, <2>2 DEF MarkCleanup, Deliver, Marks
    <3>2. PICK label \in Deliver : GoTo(p, label)
      BY <1>3, <2>2 DEF MarkCleanup, Deliver
    <3>3. QED BY <1>a, <3>1, <3>2, SaveMarkFields
  <2>3. QED BY <2>1, <2>2
<1>4. CASE Notify(p)
  <2>1. pc[p] \in Deliver /\ UNCHANGED <<applied, late, job, mem>>
    BY <1>4 DEF Notify, Deliver, NoWrite
  <2>2. PICK label \in Deliver : GoTo(p, label)
    BY <1>4 DEF Notify, Deliver
  <2>3. QED BY <1>a, <1>c, <2>1, <2>2
<1>5. CASE LinkNotification(p)
  <2>1. CASE MarksLost(p)
    BY <1>5, <1>b, <2>1 DEF LinkNotification
  <2>2. CASE ~ MarksLost(p)
    <3> DEFINE updates == [noted |-> TRUE]
    <3>1. /\ pc[p] \in Deliver /\ "notified" \in Deliver /\ GoTo(p, "notified")
          /\ SaveTerminal(p, updates) /\ UNCHANGED <<applied, late>>
      BY <1>5, <2>2 DEF LinkNotification, Deliver
    <3>2. (\A r \in Record : Updated(r, updates) \in Record) /\ DOMAIN updates = {"noted"}
      BY FlagTypes
    <3> HIDE DEF updates
    <3>3. QED BY <1>a, <3>1, <3>2, SaveTerminalFields
  <2>3. QED BY <2>1, <2>2
<1>6. CASE MarkNotification(p)
  <2>1. CASE MarksLost(p)
    BY <1>6, <1>b, <2>1 DEF MarkNotification
  <2>2. CASE ~ MarksLost(p)
    <3>1. /\ pc[p] \in Deliver /\ "notification" \in Marks /\ SaveMark(p, "notification")
          /\ "release" \in Deliver /\ GoTo(p, "release") /\ UNCHANGED <<applied, late>>
      BY <1>6, <2>2 DEF MarkNotification, Deliver, Marks
    <3>2. QED BY <1>a, <3>1, SaveMarkFields
  <2>3. QED BY <2>1, <2>2
<1>7. CASE Release(p)
  <2>1. CASE ClaimLost(p)
    BY <1>7, <1>b, <2>1 DEF Release
  <2>2. CASE ~ ClaimLost(p)
    <3>1. job' = [Revoked(job) EXCEPT !.dispatch = "complete"]
          /\ Leave(p) /\ UNCHANGED <<applied, late>>
      BY <1>7, <2>2 DEF Release
    <3>2. Kept
      BY <3>1, RevokedFields DEF TypeOK, Kept, Record
    <3>3. QED BY <3>1, <3>2, LeaveFits, Keep
  <2>3. QED BY <2>1, <2>2
<1>8. QED BY <1>1, <1>2, <1>3, <1>4, <1>5, <1>6, <1>7 DEF Delivery

-----------------------------------------------------------------------------
\* Steps of the clock and of others that touch neither an actor nor the outcome.
LEMMA Still ==
  ASSUME TypeOK, Sound, Agree(job, job'), UNCHANGED <<pc, mem, applied, late>>
  PROVE  Sound' /\ Final
<1>1. ASSUME NEW q \in Actors PROVE Fits(q)'
  BY DEF Sound, Fits, Working, Agree
<1>2. Uncreated' /\ Changed'
  BY DEF Sound, Uncreated, Changed, Agree
<1>3. QED BY <1>1, <1>2 DEF Sound, Final, Agree

\* An actor that takes a terminal record up for delivery.
LEMMA TakeUpFits ==
  ASSUME TypeOK, NEW p \in Actors, NEW r \in Record, NEW label \in Deliver,
         Touch(p, r), GoTo(p, label), job' = r, r.status \in Terminal
  PROVE  Fits(p)' /\ Alone(p)
<1>1. Agree(r, mem'[p]) /\ \A q \in Actors : q # p => mem'[q] = mem[q]
  BY SeenFields DEF Touch, TypeOK
<1>2. pc'[p] = label /\ \A q \in Actors : q # p => pc'[q] = pc[q]
  BY DEF GoTo, TypeOK
<1>3. label \notin Attempt \cup Requeue \cup {"fail", "create"}
  BY DEF Attempt, Requeue, Deliver
<1>4. Fits(p)'
  BY <1>1, <1>2, <1>3 DEF Fits, Working, Agree
<1>5. QED BY <1>1, <1>2, <1>3, <1>4, Names DEF Alone

\* A worker that goes on with its attempt under the memory it has.
LEMMA WorkFits ==
  ASSUME TypeOK, Sound, NEW w \in Workers, Working(w),
         NEW label \in Attempt \cup Requeue \cup {"fail"}, GoTo(w, label),
         mem'[w].token = mem[w].token, mem'[w].type = mem[w].type,
         mem'[w].receipt = mem[w].receipt,
         \A q \in Actors : q # w => mem'[q] = mem[q],
         job'.token = job.token, job'.type = job.type, job'.receipt = job.receipt,
         job'.status # "absent", applied' = applied,
         job.token = w =>
           /\ job'.status \in {"running", "retry_wait"}
           /\ label \in Attempt \cup {"retry", "wait", "fail"} => job'.status = "running"
           /\ label = "apply" /\ job.type = "report" => applied = 0
  PROVE  Fits(w)' /\ Alone(w)
<1> USE Names
<1>1. pc'[w] = label /\ \A q \in Actors : q # w => pc'[q] = pc[q]
  BY DEF GoTo, TypeOK
<1>2. label \notin Deliver \cup {"create"}
  BY DEF Attempt, Requeue, Deliver
<1>3. Alone(w)
  BY <1>1, <1>2 DEF Alone
<1>4. mem[w].token = w /\ mem[w].type = job.type /\ (job.token = w => mem[w].receipt = job.receipt)
  BY DEF Sound, Fits
<1>5. Fits(w)'
  BY <1>1, <1>2, <1>4 DEF Fits
<1>6. QED BY <1>3, <1>5

\* A task's arrival passes an undecided job to a new owner, or takes up a delivery.
LEMMA ClaimSafe ==
  ASSUME TypeOK, Sound, NEW w \in Workers, Claim(w)
  PROVE  Sound' /\ Final
<1> USE Names
<1>0. job \in Record /\ UNCHANGED <<applied, late>>
  BY DEF TypeOK, Claim, domain
<1>1. CASE /\ Claimable(job) /\ job' = Claimed(job, w, MaxAttempts)
           /\ Touch(w, Claimed(job, w, MaxAttempts)) /\ GoTo(w, "begin")
  <2> DEFINE next == Claimed(job, w, MaxAttempts)
  <2>1. /\ next \in Record /\ next.status = "running" /\ next.token = w
        /\ next.type = job.type /\ next.receipt = job.receipt
    <3>1. MaxAttempts \in Nat
      BY ParametersAssumption
    <3>2. QED BY <1>0, <3>1, ClaimedFields
  <2>2. job' = next /\ Touch(w, next)
    BY <1>1
  <2> HIDE DEF next
  <2>3. Agree(next, mem'[w]) /\ \A q \in Actors : q # w => mem'[q] = mem[q]
    BY <2>1, <2>2, SeenFields DEF Touch, TypeOK
  <2>4. pc'[w] = "begin" /\ \A q \in Actors : q # w => pc'[q] = pc[q]
    BY <1>1 DEF GoTo, TypeOK
  <2>5. Fits(w)' /\ Alone(w)
    BY <2>1, <2>2, <2>3, <2>4 DEF Fits, Alone, Agree, Deliver
  <2>6. QED BY <1>0, <1>1, <2>1, <2>2, <2>5, Decide
            DEF Claimable, Active, Terminal, Withdrawn
<1>2. CASE job.status \in Terminal /\ Touch(w, job) /\ GoTo(w, Entry(job)) /\ job' = job
  BY <1>0, <1>2, EntryType, TakeUpFits, Keep DEF Kept
<1>3. CASE UNCHANGED <<job, pc, mem>>
  BY <1>0, <1>3, Still DEF Agree
<1>4. QED BY <1>1, <1>2, <1>3, Zenon DEF Claim

\* A worker that goes on, writes under its token, and changes no status.
LEMMA WorkSafe ==
  ASSUME TypeOK, Sound, NEW w \in Workers, Working(w), Owns(w),
         NEW label \in Attempt \cup Requeue \cup {"fail"}, GoTo(w, label),
         mem'[w].token = mem[w].token, mem'[w].type = mem[w].type,
         mem'[w].receipt = mem[w].receipt,
         \A q \in Actors : q # w => mem'[q] = mem[q],
         job'.status = job.status,
         job'.token = job.token, job'.type = job.type, job'.receipt = job.receipt,
         UNCHANGED <<applied, late>>,
         label \in Attempt \cup {"retry", "wait", "fail"} => job.status = "running",
         label = "apply" /\ job.type = "report" => applied = 0
  PROVE  Sound' /\ Final
<1>1. job.token = w /\ job.status # "absent" /\ job.status \in {"running", "retry_wait"}
  BY Names DEF Sound, Fits, Owns
<1>2. Fits(w)' /\ Alone(w)
  BY <1>1, WorkFits
<1>3. QED BY <1>2, Names, Keep DEF Kept

\* A worker in an attempt that owns the job owns a running one.
LEMMA OwnerRuns ==
  ASSUME TypeOK, Sound, NEW w \in Workers, Owns(w),
         pc[w] \in Attempt \cup {"retry", "wait", "fail"}
  PROVE  /\ Working(w) /\ job.status = "running" /\ job.token = w /\ mem[w].token = w
         /\ mem[w].type = job.type /\ mem[w].receipt = job.receipt
         /\ pc[w] = "apply" /\ job.type = "report" => applied = 0
<1>1. Working(w)
  BY DEF Working, Requeue
<1>2. QED BY <1>1, Names DEF Sound, Fits, Owns

\* An error, and an effect that changes nothing, leave the record alone.
LEMMA ErredSafe ==
  ASSUME TypeOK, Sound, NEW w \in Workers, pc[w] \in Attempt, Erred(w),
         UNCHANGED <<applied, late>>
  PROVE  Sound' /\ Final
<1>1. PICK label \in {"retry", "fail"} : GoTo(w, label)
  BY DEF Erred, HandleError
<1>2. Owns(w) /\ UNCHANGED <<mem, job>>
  BY DEF Erred, NoWrite
<1>3. QED BY <1>1, <1>2, OwnerRuns, WorkSafe DEF Requeue

\* An actor that gives up changes nothing.
LEMMA ClaimLostSafe ==
  ASSUME TypeOK, Sound, NEW p \in Actors, ClaimLost(p), UNCHANGED <<applied, late>>
  PROVE  Sound' /\ Final
BY LeaveFits, Keep DEF ClaimLost, Kept

\* A guarded write by a worker in its attempt that names no status.
LEMMA ProgressSafe ==
  ASSUME TypeOK, Sound, NEW w \in Workers, pc[w] \in Attempt,
         NEW updates, Persist(w, updates), \A r \in Record : Updated(r, updates) \in Record,
         {"status", "token", "type", "receipt"} \cap DOMAIN updates = {},
         NEW label \in Attempt \cup {"fail"}, GoTo(w, label), UNCHANGED <<applied, late>>,
         label = "apply" /\ job.type = "report" => applied = 0
  PROVE  Sound' /\ Final
<1>1. Owns(w)
  BY DEF Persist
<1>2. w \in Actors
  BY Names
<1>3. QED BY <1>1, <1>2, PersistFields, OwnerRuns, WorkSafe

\* A guarded write by the owner of a running job that decides it.
LEMMA OutcomeSafe ==
  ASSUME TypeOK, Sound, NEW w \in Workers, pc[w] \in Attempt \cup {"fail"},
         NEW updates, Persist(w, updates), \A r \in Record : Updated(r, updates) \in Record,
         {"token", "type", "receipt"} \cap DOMAIN updates = {},
         "status" \in DOMAIN updates, updates.status \in {"succeeded", "failed"},
         GoTo(w, "cleanup"), UNCHANGED <<applied, late>>
  PROVE  Sound' /\ Final
<1> USE Names
<1>1. Owns(w)
  BY DEF Persist
<1>2. /\ job'.status = updates.status /\ mem'[w].status = updates.status
      /\ job'.token = job.token /\ job'.type = job.type /\ job'.receipt = job.receipt
      /\ mem'[w].token = mem[w].token /\ mem'[w].type = mem[w].type
      /\ mem'[w].receipt = mem[w].receipt
      /\ \A q \in Actors : q # w => mem'[q] = mem[q]
  BY PersistFields
<1>3. pc'[w] = "cleanup" /\ \A q \in Actors : q # w => pc'[q] = pc[q]
  BY DEF GoTo, TypeOK
<1>4. /\ job.status = "running" /\ job.token = w /\ mem[w].token = w
      /\ mem[w].type = job.type /\ mem[w].receipt = job.receipt
  BY <1>1, OwnerRuns
<1>5. Fits(w)' /\ Alone(w)
  BY <1>2, <1>3, <1>4 DEF Fits, Working, Alone, Attempt, Requeue, Terminal
<1>6. QED BY <1>2, <1>4, <1>5, Decide DEF Terminal, Withdrawn

-----------------------------------------------------------------------------
\* Recording the claim names no outcome.
LEMMA BeginSafe ==
  ASSUME TypeOK, Sound, NEW w \in Workers, Begin(w)
  PROVE  Sound' /\ Final
<1>0. Raised(w) \in Nat /\ pc[w] \in Attempt /\ w \in Actors /\ UNCHANGED <<applied, late>>
  BY Names DEF TypeOK, Record, Raised, Begin, Attempt, domain
<1>1. CASE ClaimLost(w)
  BY <1>0, <1>1, ClaimLostSafe
<1>2. CASE ~ ClaimLost(w)
  <2> DEFINE plain  == [dispatch |-> "claimed"]
             beat   == [dispatch |-> "claimed", lease |-> "live"]
             opened == [dispatch |-> "claimed", lease |-> "live",
                        started |-> TRUE, rev |-> Raised(w)]
             Names4 == {"status", "token", "type", "receipt"}
  <2>1. /\ \A r \in Record : Updated(r, plain) \in Record
        /\ Names4 \cap DOMAIN plain = {}
    BY DEF Updated, Record, Dispatches
  <2>2. /\ \A r \in Record : Updated(r, beat) \in Record
        /\ Names4 \cap DOMAIN beat = {}
    BY DEF Updated, Record, Dispatches
  <2>3. /\ \A r \in Record : Updated(r, opened) \in Record
        /\ Names4 \cap DOMAIN opened = {}
    BY <1>0, FlagTypes
  <2>a. Persist(w, plain) \/ Persist(w, IF mem[w].started THEN beat ELSE opened)
    BY <1>2, Zenon DEF Begin
  <2> HIDE DEF plain, beat, opened
  <2>4. PICK updates : /\ Persist(w, updates)
                       /\ \A r \in Record : Updated(r, updates) \in Record
                       /\ Names4 \cap DOMAIN updates = {}
    BY <2>1, <2>2, <2>3, <2>a
  <2>5. PICK label \in {"complete", "fail", "prepare"} : GoTo(w, label)
    BY <1>2 DEF Begin
  <2>6. label \in Attempt \cup {"fail"} /\ label # "apply"
    BY DEF Attempt
  <2>7. QED BY <1>0, <2>4, <2>5, <2>6, ProgressSafe
<1>3. QED BY <1>1, <1>2

\* Preparation stores a checkpoint, finds one, or fails.
LEMMA PrepareSafe ==
  ASSUME TypeOK, Sound, NEW w \in Workers, Prepare(w)
  PROVE  Sound' /\ Final
<1>0. Raised(w) \in Nat /\ pc[w] \in Attempt /\ w \in Actors /\ UNCHANGED <<applied, late>>
  BY Names DEF TypeOK, Record, Raised, Prepare, Attempt, domain
<1>1. CASE ClaimLost(w)
  BY <1>0, <1>1, ClaimLostSafe
<1>2. CASE Erred(w)
  BY <1>0, <1>2, ErredSafe
<1>3. CASE /\ Persist(w, [ready |-> TRUE, rev |-> Raised(w)]) /\ GoTo(w, "check")
  <2> DEFINE updates == [ready |-> TRUE, rev |-> Raised(w)]
  <2>1. /\ \A r \in Record : Updated(r, updates) \in Record
        /\ DOMAIN updates = {"ready", "rev"}
    BY <1>0, FlagTypes
  <2>2. Persist(w, updates) /\ "check" \in Attempt
    BY <1>3 DEF Attempt
  <2> HIDE DEF updates
  <2>3. QED BY <1>0, <1>3, <2>1, <2>2, ProgressSafe
<1>4. CASE /\ CheckpointReady(mem[w])
           /\ GoTo(w, "check") /\ UNCHANGED <<mem, tasks>> /\ NoWrite
  \* The checkpoint is there: the worker only moves, whoever owns the job now.
  <2>1. Working(w) /\ job' = job
    BY <1>0, <1>4 DEF Working, NoWrite
  <2>2. /\ job.status # "absent"
        /\ job.token = w => job.status = "running"
    BY <1>0, <2>1, Names DEF Sound, Fits
  <2>3. "check" \in Attempt
    BY DEF Attempt
  <2>4. Fits(w)' /\ Alone(w)
    BY <1>0, <1>4, <2>1, <2>2, <2>3, WorkFits
  <2>5. QED BY <1>0, <2>1, <2>4, Keep DEF Kept
<1>5. QED BY <1>1, <1>2, <1>3, <1>4 DEF Prepare

\* A report goes on to apply only if it was not applied before.
LEMMA CheckSafe ==
  ASSUME TypeOK, Sound, NEW w \in Workers, Check(w)
  PROVE  Sound' /\ Final
<1>0. Raised(w) \in Nat /\ pc[w] \in Attempt /\ w \in Actors /\ UNCHANGED <<applied, late>>
  BY Names DEF TypeOK, Record, Raised, Check, Attempt, domain
<1>1. CASE ClaimLost(w)
  BY <1>0, <1>1, ClaimLostSafe
<1>2. CASE Erred(w)
  BY <1>0, <1>2, ErredSafe
<1>3. CASE Owns(w) /\ GoTo(w, "complete") /\ UNCHANGED mem /\ NoWrite
  BY <1>0, <1>3, OwnerRuns, WorkSafe DEF Attempt, NoWrite
<1>4. CASE ~ Inspected(w) /\ Persist(w, [rev |-> Raised(w)]) /\ GoTo(w, "apply")
  <2> DEFINE updates == [rev |-> Raised(w)]
  <2>1. /\ \A r \in Record : Updated(r, updates) \in Record
        /\ DOMAIN updates = {"rev"} /\ Persist(w, updates) /\ "apply" \in Attempt
    BY <1>0, <1>4 DEF Updated, Record, Attempt
  <2> HIDE DEF updates
  <2>2. mem[w].type = job.type
    BY <1>0, <2>1, OwnerRuns DEF Persist
  <2>3. job.type = "report" => applied = 0
    BY <1>4, <2>2 DEF Inspected, TypeOK
  <2>4. QED BY <1>0, <1>4, <2>1, <2>3, ProgressSafe
<1>5. QED BY <1>1, <1>2, <1>3, <1>4 DEF Check

\* The commit, reported or not, leaves the worker in its attempt.
LEMMA ReportedLabel ==
  ASSUME NEW w \in Workers, Reported(w)
  PROVE  \E label \in {"complete", "retry", "fail"} : GoTo(w, label)
BY DEF Reported, HandleError

\* The fenced change: the owner of a running job applies it, and autofill stores
\* its receipt with it.
LEMMA ApplyFencedSafe ==
  ASSUME TypeOK, Sound, NEW w \in Workers, ApplyFenced(w)
  PROVE  Sound' /\ Final
<1> USE Names
<1>0. pc[w] = "apply" /\ pc[w] \in Attempt /\ mem[w].type \in {"autofill", "report"}
  BY DEF ApplyFenced, Attempt
<1>1. CASE ClaimLost(w) /\ UNCHANGED <<applied, late, faults>>
  BY <1>1, ClaimLostSafe
<1>2. CASE Erred(w) /\ UNCHANGED <<applied, late, faults>>
  BY <1>0, <1>2, ErredSafe
<1>3. CASE Owns(w) /\ GoTo(w, "complete") /\ UNCHANGED <<mem, applied, late>> /\ NoWrite
  BY <1>0, <1>3, OwnerRuns, WorkSafe DEF Attempt, NoWrite
<1> DEFINE receipt == mem[w].type = "autofill"
<1>4. CASE /\ Fence(w) /\ Mutate(w) /\ Reported(w)
           /\ job' = [job EXCEPT !.receipt = receipt]
           /\ mem' = [mem EXCEPT ![w].receipt = receipt]
  <2>1. job \in Record /\ mem[w] \in Record /\ receipt \in BOOLEAN
    BY DEF TypeOK
  <2>2. /\ job.status = "running" /\ job.token = w /\ mem[w].token = w
        /\ mem[w].type = job.type /\ ~ job.receipt
        /\ job.type = "report" => applied = 0
    BY <1>0, <1>4, OwnerRuns DEF Fence
  <2>3. receipt <=> job.type = "autofill"
    BY <2>2
  <2>4. job.type \in {"autofill", "report"} /\ ~ late /\ applied = 0
    <3>1. applied \in 0..2
      BY DEF TypeOK
    <3>2. job.type \in {"autofill", "report"}
      BY <1>0, <2>2
    <3>3. QED BY <2>2, <3>1, <3>2 DEF Sound, Changed
  <2>5. applied' = 1 /\ ~ late'
    <3>1. applied' = 1
      BY <1>4, <2>4 DEF Mutate
    <3>2. late' = (late \/ ~ (Owns(w) /\ job.status = "running"))
      BY <1>4 DEF Mutate
    <3>3. Owns(w)
      BY <1>4 DEF Fence
    <3>4. QED BY <2>2, <2>4, <3>1, <3>2, <3>3
  <2> HIDE DEF receipt
  <2>6. /\ job'.status = "running" /\ job'.token = w /\ job'.type = job.type
        /\ job'.receipt = receipt
    BY <1>4, <2>1, <2>2 DEF Record
  <2>7. /\ mem'[w].token = w /\ mem'[w].type = job.type /\ mem'[w].receipt = receipt
        /\ \A q \in Actors : q # w => mem'[q] = mem[q]
    BY <1>4, <2>1, <2>2 DEF TypeOK, Record
  <2>8. PICK label \in {"complete", "retry", "fail"} : GoTo(w, label)
    BY <1>4, ReportedLabel
  <2>9. pc'[w] = label /\ \A q \in Actors : q # w => pc'[q] = pc[q]
    BY <2>8 DEF GoTo, TypeOK
  <2>10. Fits(w)'
    BY <2>6, <2>7, <2>9 DEF Fits, Deliver
  <2>11. ASSUME NEW q \in Actors, q # w PROVE Fits(q)'
    BY <2>2, <2>6, <2>7, <2>9, <2>11 DEF Sound, Fits, Working, Terminal
  <2>12. Uncreated'
    BY <2>2, <2>6, <2>9 DEF Sound, Uncreated
  <2>13. Changed'
    BY <2>3, <2>4, <2>5, <2>6 DEF Changed, Withdrawn
  <2>14. QED BY <2>2, <2>10, <2>11, <2>12, <2>13 DEF Sound, Final, Terminal
<1>5. QED BY <1>1, <1>2, <1>3, <1>4, Zenon DEF ApplyFenced

\* Files and ledgers: nothing is promised of their change.
LEMMA ApplyUnfencedSafe ==
  ASSUME TypeOK, Sound, NEW w \in Workers, ApplyUnfenced(w)
  PROVE  Sound' /\ Final
<1> USE Names
<1>0. pc[w] = "apply" /\ pc[w] \in Attempt /\ mem[w].type \in {"file", "execution"}
  BY DEF ApplyUnfenced, Attempt
<1>1. CASE ClaimLost(w) /\ UNCHANGED <<applied, late, faults>>
  BY <1>1, ClaimLostSafe
<1>2. CASE Erred(w) /\ UNCHANGED <<applied, late, faults>>
  BY <1>0, <1>2, ErredSafe
<1>3. CASE (Reported(w) \/ GoTo(w, "wait")) /\ UNCHANGED <<mem, tasks>> /\ NoWrite
  <2>1. UNCHANGED <<job, mem>>
    BY <1>3 DEF NoWrite
  <2>2. PICK label \in {"complete", "retry", "fail", "wait"} : GoTo(w, label)
    BY <1>3, ReportedLabel
  <2>3. pc'[w] = label /\ \A q \in Actors : q # w => pc'[q] = pc[q]
    BY <2>2 DEF GoTo, TypeOK
  <2>4. /\ job.status # "absent" /\ job.type \notin {"autofill", "report"}
        /\ mem[w].token = w /\ mem[w].type = job.type
        /\ job.token = w => mem[w].receipt = job.receipt /\ job.status = "running"
    BY <1>0 DEF Sound, Fits, Working
  <2>5. Fits(w)'
    BY <2>1, <2>3, <2>4 DEF Fits, Deliver
  <2>6. ASSUME NEW q \in Actors, q # w PROVE Fits(q)'
    BY <2>1, <2>3, <2>4, <2>6 DEF Sound, Fits, Working
  <2>7. Uncreated' /\ Changed'
    BY <2>1, <2>3, <2>4 DEF Sound, Uncreated, Changed
  <2>8. QED BY <2>1, <2>5, <2>6, <2>7 DEF Sound, Final
<1>4. QED BY <1>1, <1>2, <1>3 DEF ApplyUnfenced

\* Success and failure are recorded by the owner of a running job.
LEMMA CompleteSafe ==
  ASSUME TypeOK, Sound, NEW w \in Workers, Complete(w) \/ Fail(w)
  PROVE  Sound' /\ Final
<1>0. /\ Raised(w) \in Nat /\ pc[w] \in Attempt \cup {"fail"} /\ w \in Actors
      /\ UNCHANGED <<applied, late>>
  BY Names DEF TypeOK, Record, Raised, Complete, Fail, Attempt, domain
<1> DEFINE success == [status |-> "succeeded", marks |-> {},
                       dispatch |-> "delivery_pending", rev |-> Raised(w)]
           failure == [status |-> "failed", marks |-> {"failure"},
                       dispatch |-> "delivery_pending", rev |-> Raised(w)]
<1>1. CASE ClaimLost(w)
  BY <1>0, <1>1, ClaimLostSafe
<1>2. CASE Persist(w, success) /\ GoTo(w, "cleanup")
  <2>1. /\ \A r \in Record : Updated(r, success) \in Record
        /\ DOMAIN success = {"status", "marks", "dispatch", "rev"}
        /\ success.status = "succeeded"
    BY <1>0 DEF Updated, Record, Terminal, Dispatches
  <2> HIDE DEF success
  <2>2. QED BY <1>0, <1>2, <2>1, OutcomeSafe
<1>3. CASE Persist(w, failure) /\ GoTo(w, "cleanup")
  <2>1. /\ \A r \in Record : Updated(r, failure) \in Record
        /\ DOMAIN failure = {"status", "marks", "dispatch", "rev"}
        /\ failure.status = "failed"
    BY <1>0 DEF Updated, Record, Terminal, Dispatches, Marks
  <2> HIDE DEF failure
  <2>2. QED BY <1>0, <1>3, <2>1, OutcomeSafe
<1>4. QED BY <1>1, <1>2, <1>3, Zenon DEF Complete, Fail

\* Putting the job off: the owner of a running job makes it wait.
LEMMA PostponeSafe ==
  ASSUME TypeOK, Sound, NEW w \in Workers, Postpone(w)
  PROVE  Sound' /\ Final
<1> USE Names
<1>0. /\ Raised(w) \in Nat /\ mem[w].waits \in Nat /\ pc[w] \in {"retry", "wait"}
      /\ UNCHANGED <<applied, late>>
  BY DEF TypeOK, Record, Raised, Postpone, domain
<1> DEFINE waits   == mem[w].waits + IF pc[w] = "wait" THEN 1 ELSE 0
           updates == [status |-> "retry_wait", dispatch |-> "pending", wait |-> "later",
                       lease |-> "lapsed", rev |-> Raised(w), waits |-> waits]
<1>1. CASE ClaimLost(w)
  BY <1>0, <1>1, ClaimLostSafe
<1>2. CASE Persist(w, updates) /\ GoTo(w, "enqueue")
  <2>1. waits \in Nat
    BY <1>0
  <2> HIDE DEF waits
  <2>2. /\ \A r \in Record : Updated(r, updates) \in Record
        /\ DOMAIN updates = {"status", "dispatch", "wait", "lease", "rev", "waits"}
        /\ updates.status = "retry_wait"
    BY <1>0, <2>1 DEF Updated, Record, Active, Dispatches
  <2> HIDE DEF updates
  <2>3. /\ job'.status = "retry_wait" /\ job'.token = job.token
        /\ job'.type = job.type /\ job'.receipt = job.receipt
        /\ mem'[w].token = mem[w].token /\ mem'[w].type = mem[w].type
        /\ mem'[w].receipt = mem[w].receipt
        /\ \A q \in Actors : q # w => mem'[q] = mem[q]
    BY <1>2, <2>2, PersistFields
  <2>4. job.status = "running" /\ job.token = w /\ Working(w)
    BY <1>0, <1>2, OwnerRuns DEF Persist
  <2>5. "enqueue" \in Requeue /\ "enqueue" \notin Attempt
    BY DEF Requeue, Attempt
  <2>6. Fits(w)' /\ Alone(w)
    BY <1>0, <1>2, <2>3, <2>4, <2>5, WorkFits
  <2>7. QED BY <1>0, <2>3, <2>4, <2>6, Decide DEF Terminal, Withdrawn
<1>3. QED BY <1>1, <1>2, Zenon DEF Postpone

\* A worker that moves on among the steps of putting the job off.
LEMMA RequeueFits ==
  ASSUME TypeOK, Sound, NEW w \in Workers, pc[w] \in Requeue,
         NEW label \in {"mark", "unsent", "renote"}, GoTo(w, label),
         Kept, job'.token = job.token, applied' = applied,
         mem'[w].token = mem[w].token, mem'[w].type = mem[w].type,
         mem'[w].receipt = mem[w].receipt,
         \A q \in Actors : q # w => mem'[q] = mem[q]
  PROVE  Fits(w)' /\ Alone(w)
<1>1. Working(w) /\ label \in Requeue /\ label \notin Attempt
  BY DEF Working, Requeue, Attempt
<1>2. /\ job.status # "absent"
      /\ job.token = w => job.status \in {"running", "retry_wait"}
  BY <1>1, Names DEF Sound, Fits
<1>3. QED BY <1>1, <1>2, WorkFits DEF Kept

\* The steps that put the job off leave its outcome.
LEMMA RequeueSafe ==
  ASSUME TypeOK, Sound, NEW w \in Workers,
         Enqueue(w) \/ MarkSent(w) \/ Unsent(w) \/ RetryNote(w)
  PROVE  Sound' /\ Final
<1> USE Names
<1>0. /\ Raised(w) \in Nat /\ pc[w] \in Requeue /\ job \in Record
      /\ UNCHANGED <<applied, late>>
  BY DEF TypeOK, Record, Raised, Enqueue, MarkSent, Unsent, RetryNote, Requeue, domain
<1>1. CASE ClaimLost(w)
  BY <1>0, <1>1, ClaimLostSafe
<1>2. CASE (GoTo(w, "mark") \/ GoTo(w, "unsent")) /\ UNCHANGED mem /\ NoWrite
  BY <1>0, <1>2, RequeueFits, Keep DEF Kept, NoWrite
<1>3. CASE Persist(w, [dispatch |-> "dispatched", sent |-> "fresh", rev |-> Raised(w)])
           /\ GoTo(w, "renote")
  <2> DEFINE updates == [dispatch |-> "dispatched", sent |-> "fresh", rev |-> Raised(w)]
  <2>1. /\ \A r \in Record : Updated(r, updates) \in Record
        /\ DOMAIN updates = {"dispatch", "sent", "rev"}
        /\ Persist(w, updates)
    BY <1>0, <1>3 DEF Updated, Record, Dispatches
  <2> HIDE DEF updates
  <2>2. /\ job'.status = job.status /\ job'.token = job.token
        /\ job'.type = job.type /\ job'.receipt = job.receipt
        /\ mem'[w].token = mem[w].token /\ mem'[w].type = mem[w].type
        /\ mem'[w].receipt = mem[w].receipt
        /\ \A q \in Actors : q # w => mem'[q] = mem[q]
    BY <2>1, PersistFields
  <2>3. QED BY <1>0, <1>3, <2>2, RequeueFits, Keep DEF Kept
<1>4. CASE Leave(w) /\ job' = [job EXCEPT !.wait = "due", !.lease = "lapsed"]
  <2>1. Kept
    BY <1>0, <1>4 DEF Kept, Record
  <2>2. QED BY <1>0, <1>4, <2>1, LeaveFits, Keep
<1>5. CASE Leave(w) /\ NoWrite
  BY <1>0, <1>5, LeaveFits, Keep DEF Kept, NoWrite
<1>6. QED BY <1>1, <1>2, <1>3, <1>4, <1>5, Zenon DEF Enqueue, MarkSent, Unsent, RetryNote

\* Every step of a worker's run keeps the invariant and a terminal status.
LEMMA RunSafe ==
  ASSUME TypeOK, Sound, NEW w \in Workers, Run(w)
  PROVE  Sound' /\ Final
BY BeginSafe, PrepareSafe, CheckSafe, ApplyFencedSafe, ApplyUnfencedSafe, CompleteSafe,
   PostponeSafe, RequeueSafe DEF Run

-----------------------------------------------------------------------------
\* A heartbeat and an aborted attempt move the lease only.
LEMMA WorkerFaultSafe ==
  ASSUME TypeOK, Sound, NEW w \in Workers, Heartbeat(w) \/ Abort(w)
  PROVE  Sound' /\ Final
<1> USE Names
<1>0. job \in Record /\ UNCHANGED <<applied, late>>
  BY DEF TypeOK, Heartbeat, Abort, domain
<1>1. Agree(job, job')
  <2>1. job' = [job EXCEPT !.lease = "live"] \/ job' = [job EXCEPT !.lease = "lapsed"]
    BY DEF Heartbeat, Abort
  <2>2. QED BY <1>0, <2>1 DEF Agree, Record
<1>2. CASE Heartbeat(w)
  BY <1>0, <1>1, <1>2, Still DEF Heartbeat
<1>3. CASE Abort(w)
  BY <1>0, <1>1, <1>3, LeaveFits, Keep, AgreeIsKept DEF Abort
<1>4. QED BY <1>2, <1>3

\* A process that dies forgets its entity and writes nothing.
LEMMA CrashSafe ==
  ASSUME TypeOK, Sound, NEW p \in Actors, Crash(p)
  PROVE  Sound' /\ Final
BY LeaveFits, Keep DEF Crash, NoWrite, Kept, domain

\* A cancellation decides an active job without a receipt, and takes its token.
LEMMA CancelSafe ==
  ASSUME TypeOK, Sound, Cancel
  PROVE  Sound' /\ Final
<1> "cancel" \in Actors
  BY DEF Cancel, Actors
<1>0. job \in Record /\ UNCHANGED <<applied, late>>
  BY DEF TypeOK, Cancel, domain
<1>1. CASE Cancellable(job)
  <2>1. PICK outcome \in Withdrawn :
          job' = Tombstone(job, outcome) /\ Touch("cancel", Tombstone(job, outcome))
    BY <1>1 DEF Cancel
  <2>2. outcome \in Terminal /\ "stale" \in Deliver /\ GoTo("cancel", "stale")
    BY <1>1 DEF Withdrawn, Terminal, Deliver, Cancel
  <2> DEFINE r == Tombstone(job, outcome)
  <2>3. /\ r \in Record /\ r.status = outcome /\ r.token = NoToken
        /\ r.type = job.type /\ r.receipt = job.receipt
    BY <1>0, <2>2, TombstoneFields
  <2> HIDE DEF r
  <2>4. job' = r /\ Touch("cancel", r)
    BY <2>1 DEF r
  <2>5. Fits("cancel")' /\ Alone("cancel")
    BY <2>2, <2>3, <2>4, TakeUpFits
  <2>6. /\ job.status \notin Terminal /\ job.status # "absent" /\ ~ job.receipt
        /\ outcome # "absent"
    BY <1>1 DEF Cancellable, Active, Terminal, Withdrawn
  <2>7. QED BY <1>0, <2>3, <2>4, <2>5, <2>6, Decide
<1>2. CASE ~ Cancellable(job)
  BY <1>0, <1>2, LeaveFits, Keep DEF Cancel, Kept
<1>3. QED BY <1>1, <1>2

\* A scan reads the record and repairs the membership.
LEMMA ScanSafe ==
  ASSUME TypeOK, Sound, Scan
  PROVE  Sound' /\ Final
<1> "reconcile" \in Actors
  BY DEF Scan, Actors
<1>0. job \in Record /\ job' = job /\ UNCHANGED <<applied, late>>
  BY DEF TypeOK, Scan, domain
<1>1. CASE \E r : Touch("reconcile", r) /\ GoTo("reconcile", "recover")
  <2>1. /\ pc'["reconcile"] = "recover"
        /\ \A q \in Actors : q # "reconcile" => pc'[q] = pc[q] /\ mem'[q] = mem[q]
    BY <1>1 DEF Touch, GoTo, TypeOK
  <2>2. "recover" \notin Attempt \cup Requeue \cup Deliver \cup {"fail", "create"}
    BY DEF Attempt, Requeue, Deliver
  <2>3. Fits("reconcile")' /\ Alone("reconcile")
    BY <2>1, <2>2, RestFits, Names DEF Alone
  <2>4. QED BY <1>0, <2>3, Keep DEF Kept
<1>2. CASE job.status \in Terminal /\ Touch("reconcile", job) /\ GoTo("reconcile", "stale")
  <2>1. "stale" \in Deliver
    BY DEF Deliver
  <2>2. QED BY <1>0, <1>2, <2>1, TakeUpFits, Keep DEF Kept
<1>3. CASE UNCHANGED <<mem, pc>>
  BY <1>0, <1>3, Still DEF Agree
<1>4. QED BY <1>1, <1>2, <1>3, Zenon DEF Scan

\* Recovery fails a job that is over-age and has no receipt, or dispatches it again.
LEMMA RecoverSafe ==
  ASSUME TypeOK, Sound, Recover
  PROVE  Sound' /\ Final
<1> "reconcile" \in Actors
  BY DEF Recover, Actors
<1>0. job \in Record /\ UNCHANGED <<applied, late>>
  BY DEF TypeOK, Recover, domain
<1>a. \/ /\ job.status \in Active /\ ~ job.receipt
         /\ job' = Tombstone(job, "failed") /\ Touch("reconcile", Tombstone(job, "failed"))
         /\ GoTo("reconcile", "stale")
      \/ /\ job' = Redispatched(job) /\ Touch("reconcile", Redispatched(job))
         /\ GoTo("reconcile", "send")
      \/ Leave("reconcile") /\ job' = job
  BY Zenon DEF Recover
<1>1. CASE /\ job.status \in Active /\ ~ job.receipt
           /\ job' = Tombstone(job, "failed") /\ Touch("reconcile", Tombstone(job, "failed"))
           /\ GoTo("reconcile", "stale")
  <2> DEFINE r == Tombstone(job, "failed")
  <2>1. "failed" \in Terminal /\ "stale" \in Deliver
    BY DEF Terminal, Deliver
  <2>2. /\ r \in Record /\ r.status = "failed" /\ r.token = NoToken
        /\ r.type = job.type /\ r.receipt = job.receipt
    BY <1>0, <2>1, TombstoneFields
  <2>3. job' = r /\ Touch("reconcile", r) /\ GoTo("reconcile", "stale")
    BY <1>1
  <2> HIDE DEF r
  <2>4. Fits("reconcile")' /\ Alone("reconcile")
    BY <2>1, <2>2, <2>3, TakeUpFits
  <2>5. job.status \notin Terminal /\ job.status # "absent"
    BY <1>1 DEF Active, Terminal
  <2>6. QED BY <1>0, <2>2, <2>3, <2>4, <2>5, Decide DEF Withdrawn
<1>2. CASE /\ job' = Redispatched(job) /\ Touch("reconcile", Redispatched(job))
           /\ GoTo("reconcile", "send")
  <2>1. Agree(job, job')
    BY <1>0, <1>2, RedispatchedFields
  <2>2. /\ pc'["reconcile"] = "send"
        /\ \A q \in Actors : q # "reconcile" => pc'[q] = pc[q] /\ mem'[q] = mem[q]
    BY <1>2 DEF Touch, GoTo, TypeOK
  <2>3. "send" \notin Attempt \cup Requeue \cup Deliver \cup {"fail", "create"}
    BY DEF Attempt, Requeue, Deliver
  <2>4. Fits("reconcile")' /\ Alone("reconcile")
    BY <2>2, <2>3, RestFits, Names DEF Alone
  <2>5. QED BY <1>0, <2>1, <2>4, Keep, AgreeIsKept
<1>3. CASE Leave("reconcile") /\ job' = job
  BY <1>0, <1>3, LeaveFits, Keep DEF Kept
<1>4. QED BY <1>a, <1>1, <1>2, <1>3

\* The delayed message writes the notification only.
LEMMA FeedbackSafe ==
  ASSUME TypeOK, Sound, FeedbackRead \/ FeedbackWrite
  PROVE  Sound' /\ Final
<1>0. "feedback" \in Actors
  BY DEF FeedbackRead, FeedbackWrite, Actors
<1>1. UNCHANGED <<job, mem, applied, late>>
  BY DEF FeedbackRead, FeedbackWrite, NoWrite, domain
<1>2. PICK label \in {"remind", "done"} : GoTo("feedback", label)
  BY DEF FeedbackRead, FeedbackWrite
<1>3. pc'["feedback"] = label /\ \A q \in Actors : q # "feedback" => pc'[q] = pc[q]
  BY <1>0, <1>2 DEF GoTo, TypeOK
<1>4. label \notin Attempt \cup Requeue \cup Deliver \cup {"fail", "create"}
  BY DEF Attempt, Requeue, Deliver
<1>5. Fits("feedback")' /\ Alone("feedback")
  BY <1>0, <1>1, <1>3, <1>4, RestFits, Names DEF Alone
<1>6. QED BY <1>0, <1>1, <1>5, Keep DEF Kept

\* A repeated delivery and the passing of times leave the outcome and the owner.
LEMMA TimeSafe ==
  ASSUME TypeOK, Sound, Duplicate \/ Time
  PROVE  Sound' /\ Final
<1>1. UNCHANGED <<pc, mem, applied, late>>
  BY DEF Duplicate, Time, LeasePasses, WaitPasses, SentPasses, GracePasses, AgePasses,
         domain
<1>2. Agree(job, job')
  <2>1. job \in Record
    BY DEF TypeOK
  <2>2. CASE job' = job
    BY <2>2 DEF Agree
  <2>3. CASE LeasePasses
    BY <2>1, <2>3 DEF LeasePasses, Agree, Record
  <2>4. CASE WaitPasses
    BY <2>1, <2>4 DEF WaitPasses, Agree, Record
  <2>5. CASE SentPasses
    BY <2>1, <2>5 DEF SentPasses, Agree, Record
  <2>6. QED BY <2>2, <2>3, <2>4, <2>5
            DEF Duplicate, Time, GracePasses, AgePasses, NoWrite
<1>3. QED BY <1>1, <1>2, Still

-----------------------------------------------------------------------------
\* A save that replaced an unseen record is never forgotten.
LEMMA LostGrows == ASSUME Next PROVE lost \subseteq lost'
<1>1. CASE Start
  <2>1. \/ UNCHANGED lost
        \/ \E r : BlindSave("start", r)
    BY <1>1, Zenon DEF Start, StartCreate, StartSave, StartStarted, StartDispatching,
                       StartFail, StartFailNote, NoWrite
  <2>2. QED BY <2>1 DEF BlindSave
<1>2. CASE \E p \in Actors : Delivery(p)
  <2>1. PICK p \in Actors : Delivery(p)
    BY <1>2
  <2>2. \/ UNCHANGED lost
        \/ \E updates : SaveTerminal(p, updates)
    BY <2>1, Zenon DEF Delivery, DeliverFailure, Cleanup, MarkCleanup, Notify,
                       LinkNotification, MarkNotification, Release, SaveMark, MarksLost,
                       ClaimLost, NoWrite
  <2>3. QED BY <2>2 DEF SaveTerminal, BlindSave, Persist
<1>3. CASE UNCHANGED lost
  BY <1>3
<1>4. ASSUME NEW w \in Workers, Run(w) PROVE UNCHANGED lost
  <2>1. \/ UNCHANGED lost
        \/ \E updates : Persist(w, updates)
    BY <1>4, Zenon DEF Run, Begin, Prepare, Check, ApplyFenced, ApplyUnfenced, Complete,
                       Fail, Postpone, Enqueue, MarkSent, Unsent, RetryNote, Erred,
                       ClaimLost, NoWrite
  <2>2. QED BY <2>1 DEF Persist
<1>5. CASE \E p \in Dispatchers : Dispatch(p)
  BY <1>5 DEF Dispatch, Send, Confirm, Unconfirm, NoWrite
<1>6. CASE \E w \in Workers : Claim(w) \/ Run(w) \/ Heartbeat(w) \/ Abort(w)
  BY <1>4, <1>6 DEF Claim, Heartbeat, Abort
<1>7. CASE \E p \in Actors : Crash(p)
  BY <1>7 DEF Crash, NoWrite
<1>8. CASE Cancel \/ Scan \/ Recover \/ FeedbackRead \/ FeedbackWrite \/ Duplicate \/ Time
  BY <1>8 DEF Cancel, Scan, Recover, FeedbackRead, FeedbackWrite, Duplicate, Time, NoWrite,
              LeasePasses, WaitPasses, SentPasses, GracePasses, AgePasses
<1>9. QED BY <1>1, <1>2, <1>3, <1>5, <1>6, <1>7, <1>8 DEF Next

\* The invariant holds before the job exists.
LEMMA InitSafe == Init => IInv
<1> SUFFICES ASSUME Init PROVE IInv
  OBVIOUS
<1>1. job = Blank /\ applied = 0 /\ ~ late
  BY Zenon DEF Init
<1>2. ASSUME NEW p \in Actors PROVE pc[p] \notin Deliver \cup Attempt \cup Requeue \cup {"fail"}
  BY <1>2 DEF Init, Rest, Deliver, Attempt, Requeue
<1>3. \A p \in Actors : Fits(p)
  BY <1>2 DEF Fits, Working
<1>4. Uncreated /\ Changed
  BY <1>1, BlankFields DEF Uncreated, Changed
<1>5. QED BY <1>3, <1>4, InitType DEF IInv, Sound

\* Every step keeps Sound and a terminal status, unless start() replaces a record.
LEMMA NextSafe ==
  ASSUME TypeOK, Sound, "start" \notin lost', Next
  PROVE  Sound' /\ Final
BY StartSafe, DispatchSafe, DeliverySafe, CrashSafe, ClaimSafe, RunSafe, WorkerFaultSafe,
   CancelSafe, ScanSafe, RecoverSafe, FeedbackSafe, TimeSafe DEF Next

\* The invariant is inductive, and its steps leave a terminal status.
LEMMA StepSafe ==
  ASSUME IInv, [Next]_vars
  PROVE  IInv' /\ ("start" \notin lost' => Final)
<1>1. TypeOK /\ TypeOK'
  BY StepType DEF IInv
<1>2. CASE Next
  <2>1. "start" \notin lost' => Sound
    BY <1>2, LostGrows DEF IInv
  <2>2. QED BY <1>1, <1>2, <2>1, NextSafe DEF IInv
<1>3. CASE UNCHANGED vars
  <2>1. UNCHANGED <<job, pc, mem, applied, late, lost>>
    BY <1>3 DEF vars, domain
  <2>2. QED BY <1>1, <2>1, Still DEF IInv, Agree, Final
<1>4. QED BY <1>2, <1>3

\* However leases lapse, tasks repeat and cancellations race: a fenced change is
\* made at most once and only by the owner of a running job; autofill's exactly when
\* its receipt is stored, and never for a cancelled or superseded job.
THEOREM Arbitrated == Spec => []Arbitration
<1>1. Init => IInv
  BY InitSafe
<1>2. IInv /\ [Next]_vars => IInv'
  BY StepSafe
<1>3. IInv => Arbitration
  BY DEF IInv, Sound, Changed, Arbitration
<1>4. QED BY <1>1, <1>2, <1>3, PTL DEF Spec

\* No claim, late worker write, recovery or second cancellation replaces a
\* terminal status; only start()'s unconditional saves can.
THEOREM TerminalStays == Spec => TerminalIsFinal
<1>1. Init => IInv
  BY InitSafe
<1>2. IInv /\ [Next]_vars => IInv'
  BY StepSafe
<1>3. IInv /\ [Next]_vars =>
        [job.status \in Terminal /\ "start" \notin lost' => job'.status = job.status]_vars
  BY StepSafe DEF Final
<1>4. QED BY <1>1, <1>2, <1>3, PTL DEF Spec, TerminalIsFinal
=============================================================================
