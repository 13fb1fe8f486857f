------------------------- MODULE DeferredJobDelivery -------------------------
(***************************************************************************)
(* What is kept beside the record of a job: the listing in the control       *)
(* record, the cleanup and the notification.                                 *)
(*                                                                         *)
(* The listing is exact as long as no unconditional save replaced a record    *)
(* it had not seen: every other write recomputes it, or leaves alone what it   *)
(* is computed from.  A delivery may be interrupted, repeated and shared by    *)
(* several actors: Staged says what each marker, and each step of a           *)
(* deliverer, has already been through, and Informs that whoever says that    *)
(* the user was told is right.                                               *)
(***************************************************************************)
EXTENDS DeferredJobRefinement

\* The job is listed exactly while it needs recovery.
Listed == tracked <=> RequiresRecovery(job)

\* The step recomputes the listing, repairs it, or leaves what it depends on.
Relists == \/ tracked' = Tracking(tracked, job, job')
           \/ tracked' = RequiresRecovery(job')
           \/ tracked' = tracked /\ RequiresRecovery(job') = RequiresRecovery(job)

\* A recomputed listing is exact if it was.
LEMMA RelistsKeeps ==
  ASSUME tracked \in BOOLEAN, Listed, Relists PROVE Listed'
<1>1. CASE tracked' = Tracking(tracked, job, job')
  BY <1>1 DEF Listed, Tracking
<1>2. CASE ~ (tracked' = Tracking(tracked, job, job'))
  BY <1>2 DEF Listed, Relists
<1>3. QED BY <1>1, <1>2

\* A guarded write recomputes the listing.
LEMMA PersistRelists ==
  ASSUME NEW p \in Actors, NEW updates, Persist(p, updates) PROVE Relists
BY DEF Persist, Relists

\* A step of a worker recomputes the listing, or moves a time or the receipt.
LEMMA WorkerRelists ==
  ASSUME TypeOK, NEW w \in Workers, Claim(w) \/ Run(w) \/ Heartbeat(w) \/ Abort(w)
  PROVE  Relists
<1> w \in Actors /\ job \in Record
  BY Names DEF TypeOK
<1>1. \/ UNCHANGED <<job, tracked>>
      \/ \E updates : Persist(w, updates)
      \/ \E receipt : job' = [job EXCEPT !.receipt = receipt] /\ UNCHANGED tracked
      \/ \E lease : job' = [job EXCEPT !.lease = lease] /\ UNCHANGED tracked
      \/ tracked' = Tracking(tracked, job, job')
  BY Zenon DEF Claim, Run, Begin, Prepare, Check, ApplyFenced, ApplyUnfenced, Complete, Fail,
               Postpone, Enqueue, MarkSent, Unsent, RetryNote, Erred, ClaimLost, NoWrite,
               Heartbeat, Abort
<1>2. CASE \E receipt : job' = [job EXCEPT !.receipt = receipt] /\ UNCHANGED tracked
  BY <1>2 DEF Relists, RequiresRecovery, Record
<1>3. CASE \E lease : job' = [job EXCEPT !.lease = lease] /\ UNCHANGED tracked
  BY <1>3 DEF Relists, RequiresRecovery, Record
<1>4. CASE UNCHANGED <<job, tracked>>
  BY <1>4 DEF Relists
<1>5. QED BY <1>1, <1>2, <1>3, <1>4, PersistRelists DEF Relists

\* A save of what was seen leaves what the listing depends on.
LEMMA SeenRelists ==
  ASSUME TypeOK, NEW p \in Actors, NEW r \in Record, BlindSave(p, r), lost' = {},
         r.status = mem[p].status, r.dispatch = mem[p].dispatch \/ r.status \in Active
  PROVE  Relists
<1>1. Seen(job) = mem[p] /\ job' = r /\ tracked' = tracked
  BY DEF BlindSave
<1>2. job.status = mem[p].status /\ job.dispatch = mem[p].dispatch
  BY <1>1 DEF Seen, Updated, TypeOK, Record
<1>3. QED BY <1>1, <1>2 DEF Relists, RequiresRecovery

\* So does a save of the delivery.
LEMMA SaveTerminalRelists ==
  ASSUME TypeOK, NEW p \in Actors, NEW updates, SaveTerminal(p, updates), lost' = {},
         \A r \in Record : Updated(r, updates) \in Record,
         {"status", "dispatch"} \cap DOMAIN updates = {}
  PROVE  Relists
<1>1. /\ Updated(mem[p], updates).status = mem[p].status
      /\ Updated(mem[p], updates).dispatch = mem[p].dispatch
      /\ Updated(mem[p], updates) \in Record
  BY DEF Updated, TypeOK, Record
<1>2. QED BY <1>1, SeenRelists, PersistRelists DEF SaveTerminal

\* The steps of a delivery.
LEMMA DeliveryRelists ==
  ASSUME TypeOK, NEW p \in Actors, Delivery(p), lost' = {} PROVE Relists
<1>1. \/ UNCHANGED <<job, tracked>>
      \/ \E mark \in Marks : SaveMark(p, mark)
      \/ SaveTerminal(p, [noted |-> TRUE])
      \/ tracked' = Tracking(tracked, job, job')
  <2>1. "failure" \in Marks /\ "cleanup" \in Marks /\ "notification" \in Marks
    BY DEF Marks
  <2>2. QED
    BY <2>1, Zenon DEF Delivery, DeliverFailure, Cleanup, MarkCleanup, Notify,
       LinkNotification, MarkNotification, Release, MarksLost, ClaimLost, NoWrite
<1>2. ASSUME NEW mark \in Marks, SaveMark(p, mark) PROVE Relists
  <2> DEFINE updates == [marks |-> mem[p].marks \cup {mark}]
  <2>1. mem[p].marks \cup {mark} \in SUBSET Marks
    BY DEF TypeOK, Record
  <2>2. \A r \in Record : Updated(r, updates) \in Record
    BY <2>1 DEF Updated, Record
  <2>3. SaveTerminal(p, updates) /\ DOMAIN updates = {"marks"}
    BY <1>2 DEF SaveMark
  <2> HIDE DEF updates
  <2>4. QED BY <2>2, <2>3, SaveTerminalRelists
<1>3. CASE SaveTerminal(p, [noted |-> TRUE])
  <2> DEFINE updates == [noted |-> TRUE]
  <2>1. (\A r \in Record : Updated(r, updates) \in Record) /\ DOMAIN updates = {"noted"}
    BY FlagTypes
  <2>2. SaveTerminal(p, updates)
    BY <1>3
  <2> HIDE DEF updates
  <2>3. QED BY <2>1, <2>2, SaveTerminalRelists
<1>4. QED BY <1>1, <1>2, <1>3 DEF Relists

\* The steps of start: what it saves is active, as what it read.
LEMMA StartRelists ==
  ASSUME TypeOK, Opening, Start, lost' = {} PROVE Relists
<1> "start" \in Actors /\ mem["start"] \in Record
  BY Names DEF TypeOK
<1>1. CASE StartSave
  BY <1>1, SeenRelists DEF StartSave
<1>2. CASE StartStarted
  <2> DEFINE r == [mem["start"] EXCEPT !.started = TRUE, !.rev = @ + 1]
  <2>1. r \in Record /\ r.status = mem["start"].status /\ r.dispatch = mem["start"].dispatch
    BY StartRecords DEF Agree
  <2> HIDE DEF r
  <2>2. CASE BlindSave("start", r)
    BY <2>1, <2>2, SeenRelists
  <2>3. CASE NoWrite
    BY <2>3 DEF NoWrite, Relists
  <2>4. QED BY <1>2, <2>2, <2>3, Zenon DEF StartStarted, r
<1>3. CASE StartDispatching
  <2> DEFINE r == [mem["start"] EXCEPT !.dispatch = "dispatching", !.sent = "fresh",
                                       !.rev = @ + 1]
  <2>1. r \in Record /\ r.status = mem["start"].status
    BY StartRecords DEF Agree
  <2>2. BlindSave("start", r) /\ mem["start"].status \in Active
    BY <1>3 DEF StartDispatching, Opening, Opens, Active
  <2> HIDE DEF r
  <2>3. QED BY <2>1, <2>2, SeenRelists
<1>4. CASE StartCreate \/ StartFail \/ StartFailNote
  BY <1>4 DEF StartCreate, StartFail, StartFailNote, Relists, NoWrite
<1>5. QED BY <1>1, <1>2, <1>3, <1>4 DEF Start

\* Every step.
LEMMA NextRelists ==
  ASSUME TypeOK, Opening, Next, lost' = {} PROVE Relists
<1>0. job \in Record
  BY DEF TypeOK
<1>1. CASE \E p \in Dispatchers : Dispatch(p)
  <2>1. \/ UNCHANGED <<job, tracked>>
        \/ /\ job.dispatch = "dispatching" /\ UNCHANGED tracked
           /\ \/ job' = [job EXCEPT !.dispatch = "dispatched"]
              \/ job' = [job EXCEPT !.dispatch = "pending", !.sent = "none"]
    BY <1>1, Zenon DEF Dispatch, Send, Confirm, Unconfirm, Unclaimed, NoWrite
  <2>2. QED BY <1>0, <2>1 DEF Relists, RequiresRecovery, Record
<1>2. CASE \E p \in Actors : Crash(p)
  BY <1>2 DEF Crash, NoWrite, Relists
<1>3. CASE Cancel \/ Recover \/ FeedbackRead \/ FeedbackWrite \/ Duplicate
  BY <1>3 DEF Cancel, Recover, FeedbackRead, FeedbackWrite, Duplicate, NoWrite, Relists
<1>4. CASE Scan
  BY <1>4 DEF Scan, Relists
<1>5. CASE Time
  BY <1>0, <1>5 DEF Time, LeasePasses, WaitPasses, SentPasses, GracePasses, AgePasses,
                    Relists, RequiresRecovery, Record
<1>6. QED
  BY <1>1, <1>2, <1>3, <1>4, <1>5, StartRelists, DeliveryRelists, WorkerRelists DEF Next

\* The control record lists the job exactly while it needs recovery, so the
\* reconciler neither misses a job nor is kept awake by one that is over, as long
\* as no unconditional save replaced a record its writer had not seen.
THEOREM ListingIsExact == Spec => []TrackedWhileRequired
<1> DEFINE Inv == TypeOK /\ Opening /\ (lost = {} => Listed)
<1>1. Init => Inv
  <2> SUFFICES ASSUME Init PROVE Inv
    OBVIOUS
  <2>1. job = Blank /\ tracked = FALSE /\ pc["start"] = "create"
    BY DEF Init, Actors
  <2>2. ~ RequiresRecovery(Blank)
    BY DEF RequiresRecovery, Blank, Active
  <2>3. QED BY <2>1, <2>2, InitType DEF Listed, Opening, Opens
<1>2. Inv /\ [Next]_vars => Inv'
  <2> SUFFICES ASSUME Inv, [Next]_vars PROVE Inv'
    OBVIOUS
  <2>1. TypeOK'
    BY StepType
  <2>2. CASE Next
    <3>1. lost' = {} => Listed'
      BY <2>2, LostGrows, NextRelists, RelistsKeeps DEF TypeOK
    <3>2. QED BY <2>1, <2>2, <3>1, OpeningStep
  <2>3. CASE UNCHANGED vars
    BY <2>1, <2>3 DEF vars, Opening, Listed
  <2>4. QED BY <2>2, <2>3
<1>3. Inv => TrackedWhileRequired
  BY DEF Listed, TrackedWhileRequired
<1>4. QED BY <1>1, <1>2, <1>3, PTL DEF Spec

-----------------------------------------------------------------------------
(* Delivery *)

\* Whoever is told of a job at all has a notification.
Told == job.type # "execution" => note # "absent"

\* What an entity says was done is done.
Done(r) == /\ "cleanup" \in r.marks => cleaned
           /\ "notification" \in r.marks => Told
           /\ r.dispatch = "complete" => cleaned /\ Told

\* The steps at which an actor holds an entity of the job.
Holding == Attempt \cup Requeue \cup {"fail"} \cup Deliver

\* What the step of an actor has already been through.
Stage(p) ==
    /\ pc[p] \in Holding => mem[p].type = job.type /\ Done(mem[p])
    /\ mem[p].noted => job.type # "execution"
    /\ pc[p] \in {"cleaned", "notify", "link", "notified", "release"} => cleaned
    /\ pc[p] \in {"link", "notified", "release"} => Told
    /\ pc[p] \in {"link", "remind"} => job.type # "execution"

\* Before the job is created nobody holds an entity.
Unborn ==
    /\ job.status = "absent" /\ note = "absent" /\ job.marks = {}
    /\ job.dispatch = "pending" /\ ~ job.noted
    /\ \A p \in Actors : /\ mem[p] = Blank
                         /\ pc[p] \in {"idle", "scan", "done", "create", "cancel", "feedback"}

\* start() remembers an entity that was not delivered.
Fresh == pc["start"] \in Opens =>
           /\ mem["start"].type = job.type /\ job.type # "none"
           /\ mem["start"].marks = {} /\ mem["start"].dispatch # "complete"

Staged ==
    /\ \A p \in Actors : Stage(p)
    /\ Done(job) /\ (job.noted => job.type # "execution")
    /\ job.type \in {"autofill", "report"} => note # "absent"
    /\ job.type = "execution" => note = "absent"
    /\ Fresh
    /\ pc["start"] = "create" => job.type = "none"
    /\ job.type = "none" => Unborn

\* s says no more than r of what was done.
Alike(r, s) == /\ s.type = r.type /\ s.noted = r.noted
               /\ s.marks = r.marks \/ s.marks \subseteq {"failure"}
               /\ s.dispatch = r.dispatch \/ s.dispatch # "complete"

\* An entity that says its user was told.
Says(r) == "notification" \in r.marks \/ r.dispatch = "complete"

\* A step outside the delivery: record and memory say no more than before, and
\* an actor that comes to a delivery takes up what the record says, or nothing.
Carries(p) ==
    /\ OnlyMoves(p) /\ Alike(job, job')
    /\ Alike(job, mem'[p]) \/ Alike(mem[p], mem'[p]) \/ mem'[p].type = "none"
    /\ \/ pc'[p] = pc[p] /\ mem'[p] = mem[p]
       \/ /\ pc'[p] \in Deliver => Alike(job, mem'[p]) \/ ~ Says(mem'[p])
          /\ pc'[p] \in {"link", "notified", "release"} => Says(job)

\* What is done stays done, and the type of the job is fixed.
Onward == /\ job.type # "none" /\ job'.type = job.type
          /\ cleaned => cleaned'
          /\ note # "absent" => note' # "absent"
          /\ job.type = "execution" => note' = note

\* A step of one actor keeps what it does not touch.
LEMMA StagedStep ==
  ASSUME TypeOK, Staged, NEW p \in Actors, OnlyMoves(p), Onward,
         Done(job)', job'.noted => job.type # "execution", Stage(p)',
         pc'["start"] = "create" => pc["start"] = "create",
         p = "start" => Fresh'
  PROVE  Staged'
<1>1. ASSUME NEW q \in Actors PROVE Stage(q)'
  <2>1. CASE q = p
    BY <2>1
  <2>2. CASE q # p
    <3>1. pc'[q] = pc[q] /\ mem'[q] = mem[q]
      BY <2>2 DEF OnlyMoves
    <3>2. Stage(q)
      BY DEF Staged
    <3>3. Told => Told'
      BY DEF Told, Onward
    <3>4. QED BY <3>1, <3>2, <3>3 DEF Stage, Done, Onward
  <2>3. QED BY <2>1, <2>2
<1>2. Fresh'
  BY Names DEF Staged, Fresh, OnlyMoves, Onward
<1>3. QED BY <1>1, <1>2 DEF Staged, Onward

\* The record goes on saying no more than what was done.
LEMMA DoneOn ==
  ASSUME TypeOK, Staged, Onward, Alike(job, job')
  PROVE  Done(job)' /\ (job'.noted => job.type # "execution")
<1>1. Told => Told'
  BY DEF Told, Onward
<1>2. QED BY <1>1 DEF Staged, Done, Alike, Onward

\* An actor that leaves has been through nothing.
LEMMA LeaveStage ==
  ASSUME TypeOK, NEW p \in Actors, Leave(p)
  PROVE  /\ Stage(p)' /\ OnlyMoves(p) /\ pc'[p] \in {"idle", "scan", "done"}
         /\ Alike(job, job') => Carries(p)
<1>1. pc'[p] \in {"idle", "scan", "done"} /\ mem'[p] = Blank /\ OnlyMoves(p)
  BY DEF TypeOK, Leave, GoTo, Rest, OnlyMoves
<1>2. pc'[p] \notin Holding
  BY <1>1 DEF Holding, Attempt, Requeue, Deliver
<1>3. ~ mem'[p].noted /\ mem'[p].type = "none"
  BY <1>1 DEF Blank
<1>4. QED BY <1>1, <1>2, <1>3 DEF Stage, Holding, Carries, Deliver

\* An actor that only leaves.
LEMMA LeaveStaged ==
  ASSUME TypeOK, Staged, NEW p \in Actors, Leave(p), Onward, Alike(job, job')
  PROVE  Staged'
<1>1. Done(job)' /\ (job'.noted => job.type # "execution")
  BY DoneOn
<1>2. Stage(p)' /\ OnlyMoves(p) /\ pc'[p] \in {"idle", "scan", "done"}
  BY LeaveStage
<1>3. (p = "start" => Fresh') /\ (pc'["start"] = "create" => pc["start"] = "create")
  BY <1>2, Names DEF Fresh, Opens, OnlyMoves
<1>4. QED BY <1>1, <1>2, <1>3, StagedStep

-----------------------------------------------------------------------------
\* A write that marks no step of the delivery.
Mild(updates) ==
    /\ {"type", "noted"} \cap DOMAIN updates = {}
    /\ "marks" \in DOMAIN updates => updates.marks \subseteq {"failure"}
    /\ "dispatch" \in DOMAIN updates => updates.dispatch # "complete"

\* Such a write, under the token.
LEMMA PersistAlike ==
  ASSUME TypeOK, NEW p \in Actors, NEW updates, Persist(p, updates), Mild(updates)
  PROVE  Alike(job, job') /\ Alike(mem[p], mem'[p])
<1> DEFINE m == Updated(mem[p], updates)
<1>1. job \in Record /\ mem[p] \in Record
  BY DEF TypeOK
<1>2. \A r \in Record : Alike(r, Updated(r, updates)) /\ DOMAIN Updated(r, updates) = DOMAIN r
  BY DEF Updated, Record, Alike, Mild
<1>3. mem'[p] = Seen(m) /\ job' = Updated(job, updates)
  BY DEF Persist, Touch, TypeOK
<1>4. DOMAIN m = DOMAIN mem[p] /\ Alike(mem[p], m)
  BY <1>1, <1>2
<1> HIDE DEF m
<1>5. /\ Seen(m).type = m.type /\ Seen(m).noted = m.noted
      /\ Seen(m).marks = m.marks /\ Seen(m).dispatch = m.dispatch
  BY <1>1, <1>4 DEF Seen, Updated, Record
<1>6. QED BY <1>1, <1>2, <1>3, <1>4, <1>5 DEF Alike

\* The writes of a worker's run are of that kind.
LEMMA MildWrites ==
  ASSUME NEW rev, NEW waits
  PROVE  /\ Mild([dispatch |-> "claimed"])
         /\ Mild([dispatch |-> "claimed", lease |-> "live"])
         /\ Mild([dispatch |-> "claimed", lease |-> "live", started |-> TRUE, rev |-> rev])
         /\ Mild([ready |-> TRUE, rev |-> rev])
         /\ Mild([rev |-> rev])
         /\ Mild([status |-> "succeeded", marks |-> {},
                  dispatch |-> "delivery_pending", rev |-> rev])
         /\ Mild([status |-> "failed", marks |-> {"failure"},
                  dispatch |-> "delivery_pending", rev |-> rev])
         /\ Mild([status |-> "retry_wait", dispatch |-> "pending", wait |-> "later",
                  lease |-> "lapsed", rev |-> rev, waits |-> waits])
         /\ Mild([dispatch |-> "dispatched", sent |-> "fresh", rev |-> rev])
BY DEF Mild

\* A worker that goes on, or begins, with an entity like the one it held.
LEMMA WorkStaged ==
  ASSUME TypeOK, Staged, NEW w \in Workers, OnlyMoves(w), Onward, Alike(job, job'),
         pc'[w] \in Holding =>
           (Alike(mem[w], mem'[w]) /\ pc[w] \in Holding) \/ Alike(job, mem'[w]),
         mem'[w].noted => mem[w].noted \/ job.noted,
         pc'[w] \notin {"cleaned", "notify", "link", "notified", "release", "create", "remind"}
  PROVE  Staged'
<1> USE Names
<1>1. Done(job)' /\ (job'.noted => job.type # "execution")
  BY DoneOn
<1>2. Stage(w) /\ Done(job) /\ (job.noted => job.type # "execution")
  BY DEF Staged
<1>3. Told => Told'
  BY DEF Told, Onward
<1>4. Stage(w)'
  BY <1>2, <1>3 DEF Stage, Done, Alike, Onward
<1>5. pc'["start"] = pc["start"]
  BY DEF OnlyMoves
<1>6. QED BY <1>1, <1>4, <1>5, StagedStep

\* A worker's run marks no step of the delivery.
LEMMA RunStaged ==
  ASSUME TypeOK, Staged, NEW w \in Workers, Run(w)
  PROVE  Carries(w) /\ Staged'
<1> USE Names
<1>0. job \in Record /\ mem[w] \in Record /\ pc[w] \in Holding
  BY DEF TypeOK, Run, Begin, Prepare, Check, ApplyFenced, ApplyUnfenced, Complete, Fail,
         Postpone, Enqueue, MarkSent, Unsent, RetryNote, Holding, Attempt, Requeue
<1>1. Stage(w) /\ job.type # "none"
  <2>1. pc[w] \notin {"idle", "scan", "done", "create", "cancel", "feedback"}
    BY <1>0 DEF Holding, Attempt, Requeue, Deliver
  <2>2. QED BY <2>1 DEF Staged, Unborn
<1>2. cleaned' = cleaned /\ note' \in {note, IF mem[w].noted THEN "pending" ELSE note}
  BY Zenon DEF Run, Begin, Prepare, Check, ApplyFenced, ApplyUnfenced, Complete, Fail,
               Postpone, Enqueue, MarkSent, Unsent, RetryNote, domain
<1>3. \/ Leave(w)
      \/ \E label \in Attempt \cup Requeue \cup {"fail", "cleanup"} : GoTo(w, label)
  <2>1. /\ {"complete", "prepare", "check", "apply"} \subseteq Attempt
        /\ {"retry", "wait", "enqueue", "mark", "unsent", "renote"} \subseteq Requeue
    BY DEF Attempt, Requeue
  <2>2. (mem[w].receipt /\ (IF mem[w].receipt THEN "complete" ELSE "fail") = "complete")
        \/ (IF mem[w].receipt THEN "complete" ELSE "fail") = "fail"
    OBVIOUS
  <2>3. QED
    BY <2>1, <2>2, Zenon
       DEF Run, Begin, Prepare, Check, ApplyFenced, ApplyUnfenced, Complete, Fail, Postpone,
           Enqueue, MarkSent, Unsent, RetryNote, Erred, HandleError, Reported, ClaimLost
<1>4. \/ \E updates : Persist(w, updates) /\ Mild(updates)
      \/ UNCHANGED <<job, mem>>
      \/ \E receipt : /\ job' = [job EXCEPT !.receipt = receipt]
                      /\ mem' = [mem EXCEPT ![w].receipt = receipt]
      \/ Leave(w) /\ (job' = job \/ job' = [job EXCEPT !.wait = "due", !.lease = "lapsed"])
  <2>1. CASE Begin(w)
    <3>1. CASE ~ ClaimLost(w)
      <4>1. \/ Persist(w, [dispatch |-> "claimed"])
            \/ Persist(w, [dispatch |-> "claimed", lease |-> "live"])
            \/ Persist(w, [dispatch |-> "claimed", lease |-> "live",
                           started |-> TRUE, rev |-> Raised(w)])
        BY <2>1, <3>1 DEF Begin
      <4>2. QED BY <4>1, MildWrites
    <3>2. QED BY <3>1 DEF ClaimLost
  <2>2. CASE Prepare(w) \/ Check(w) \/ Complete(w) \/ Fail(w) \/ MarkSent(w)
    BY <2>2, MildWrites, Zenon
       DEF Prepare, Check, Complete, Fail, MarkSent, ClaimLost, Erred, NoWrite
  <2>3. CASE Postpone(w)
    BY <2>3, MildWrites, Zenon DEF Postpone, ClaimLost
  <2>4. CASE ApplyFenced(w) \/ ApplyUnfenced(w)
    BY <2>4, Zenon DEF ApplyFenced, ApplyUnfenced, ClaimLost, Erred, NoWrite
  <2>5. CASE Enqueue(w) \/ Unsent(w) \/ RetryNote(w)
    BY <2>5, Zenon DEF Enqueue, Unsent, RetryNote, ClaimLost, NoWrite
  <2>6. QED BY <2>1, <2>2, <2>3, <2>4, <2>5 DEF Run
<1>5. Alike(job, job') /\ (Alike(mem[w], mem'[w]) \/ Leave(w))
  <2>1. CASE \E updates : Persist(w, updates) /\ Mild(updates)
    BY <2>1, PersistAlike
  <2>2. CASE \E receipt : /\ job' = [job EXCEPT !.receipt = receipt]
                         /\ mem' = [mem EXCEPT ![w].receipt = receipt]
    BY <1>0, <2>2 DEF Alike, Record, TypeOK
  <2>3. CASE Leave(w) /\ (job' = job \/ job' = [job EXCEPT !.wait = "due", !.lease = "lapsed"])
    BY <1>0, <2>3 DEF Alike, Record
  <2>4. CASE UNCHANGED <<job, mem>>
    BY <2>4 DEF Alike
  <2>5. QED BY <1>4, <2>1, <2>2, <2>3, <2>4
<1>6. Onward
  BY <1>1, <1>2, <1>5 DEF Onward, Alike, Stage
<1>7. CASE Leave(w)
  BY <1>5, <1>6, <1>7, LeaveStaged, LeaveStage
<1>8. CASE ~ Leave(w)
  <2>1. Alike(mem[w], mem'[w]) /\ OnlyMoves(w)
    BY <1>5, <1>8, WorkerMoves
  <2>2. pc'[w] \in Attempt \cup Requeue \cup {"fail", "cleanup"}
    BY <1>3, <1>8, GoToPc
  <2>3. pc'[w] \notin {"cleaned", "notify", "link", "notified", "release", "create", "remind"}
    BY <2>2 DEF Attempt, Requeue
  <2>4. Staged'
    BY <1>0, <1>5, <1>6, <2>1, <2>3, WorkStaged DEF Alike
  <2>5. pc'[w] \in Deliver => ~ Says(mem'[w])
    <3>1. CASE Complete(w) \/ Fail(w)
      <4>1. \E updates : /\ Persist(w, updates) /\ {"marks", "dispatch"} \subseteq DOMAIN updates
                        /\ updates.marks \in {{}, {"failure"}}
                        /\ updates.dispatch = "delivery_pending"
        BY <1>8, <3>1 DEF Complete, Fail, ClaimLost
      <4>2. PICK updates : /\ Persist(w, updates) /\ {"marks", "dispatch"} \subseteq DOMAIN updates
                           /\ updates.marks \in {{}, {"failure"}}
                           /\ updates.dispatch = "delivery_pending"
        BY <4>1
      <4>3. mem'[w] = Seen(Updated(mem[w], updates))
        BY <4>2 DEF Persist, Touch, TypeOK
      <4>4. /\ Seen(Updated(mem[w], updates)).marks = updates.marks
            /\ Seen(Updated(mem[w], updates)).dispatch = updates.dispatch
        BY <1>0, <4>2 DEF Seen, Updated, Record
      <4>5. QED BY <4>2, <4>3, <4>4 DEF Says
    <3>2. CASE ~ (Complete(w) \/ Fail(w))
      <4>1. \E label \in Attempt \cup Requeue \cup {"fail"} : GoTo(w, label)
        <5>1. /\ {"complete", "prepare", "check", "apply"} \subseteq Attempt
              /\ {"retry", "wait", "enqueue", "mark", "unsent", "renote"} \subseteq Requeue
          BY DEF Attempt, Requeue
        <5>2. \/ (IF mem[w].receipt THEN "complete" ELSE "fail") = "complete"
              \/ (IF mem[w].receipt THEN "complete" ELSE "fail") = "fail"
          OBVIOUS
        <5>3. QED
          BY <1>8, <3>2, <5>1, <5>2, Zenon
             DEF Run, Begin, Prepare, Check, ApplyFenced, ApplyUnfenced, Postpone, Enqueue,
                 MarkSent, Unsent, RetryNote, Erred, HandleError, Reported, ClaimLost
      <4>2. pc'[w] \in Attempt \cup Requeue \cup {"fail"}
        BY <4>1, GoToPc
      <4>3. QED BY <4>2 DEF Attempt, Requeue, Deliver
    <3>3. QED BY <3>1, <3>2
  <2>6. QED BY <1>5, <2>1, <2>3, <2>4, <2>5, <1>8 DEF Carries
<1>9. QED BY <1>7, <1>8

\* Nothing but its creation happens to a job that does not exist.
LEMMA UnbornStays ==
  ASSUME TypeOK, Staged, job.type = "none", Next, ~ StartCreate
  PROVE  /\ UNCHANGED <<job, note, cleaned>>
         /\ \A p \in Actors :
              mem'[p] = Blank
              /\ pc'[p] \in {"idle", "scan", "done", "create", "cancel", "feedback"}
         /\ pc'["start"] = "create" => pc["start"] = "create"
<1> DEFINE outside == {"idle", "scan", "done", "create", "cancel", "feedback"}
<1>0. Unborn
  BY DEF Staged
<1>1. job.status \notin Active \cup Terminal /\ job.status = "absent"
  BY <1>0 DEF Unborn, Active, Terminal
<1>2. \A p \in Actors : /\ pc[p] \in outside /\ pc[p] \notin Holding
                       /\ pc[p] \notin Opens \cup {"send", "confirm", "unconfirm", "disabled",
                                              "failstart", "failnote", "recover", "remind"}
  BY <1>0 DEF Unborn, Holding, Attempt, Requeue, Deliver, Opens
<1>3. /\ UNCHANGED <<job, note, cleaned>>
      /\ \A p \in Actors : mem'[p] = Blank /\ pc'[p] \in outside
      /\ pc'["start"] = "create" => pc["start"] = "create"
  <2>1. CASE Start
    BY <1>2, <2>1, Names DEF Start, StartSave, StartStarted, StartDispatching, StartFail,
                             StartFailNote, Opens
  <2>2. CASE \E p \in Dispatchers : Dispatch(p)
    BY <1>2, <2>2 DEF Dispatchers, Dispatch, Send, Confirm, Unconfirm
  <2>3. CASE \E p \in Actors : Delivery(p)
    BY <1>2, <2>3 DEF Delivery, DeliverFailure, Cleanup, MarkCleanup, Notify,
                      LinkNotification, MarkNotification, Release, Holding, Deliver
  <2>4. CASE \E p \in Actors : Crash(p)
    <3>1. PICK p \in Actors : Crash(p)
      BY <2>4
    <3>2. UNCHANGED <<job, note, cleaned>> /\ Leave(p)
      BY <3>1 DEF Crash, NoWrite, domain
    <3>3. \A q \in Actors : mem'[q] = Blank
      BY <1>0, <3>2 DEF Unborn, Leave, TypeOK
    <3>4. \A q \in Actors : pc'[q] \in outside /\ (pc'[q] = "create" => pc[q] = "create")
      BY <1>2, <3>2 DEF Leave, GoTo, Rest, TypeOK
    <3>5. QED BY <3>2, <3>3, <3>4, Names
  <2>5. CASE \E w \in Workers : Claim(w) \/ Run(w) \/ Heartbeat(w) \/ Abort(w)
    <3>1. PICK w \in Workers : Claim(w) \/ Run(w) \/ Heartbeat(w) \/ Abort(w)
      BY <2>5
    <3>2. ~ Claim(w)
      BY <1>1 DEF Claim, Claimable
    <3>3. pc[w] \in Attempt \cup Requeue \cup {"fail"}
      BY <3>1, <3>2 DEF Run, Begin, Prepare, Check, ApplyFenced, ApplyUnfenced, Complete, Fail,
         Postpone, Enqueue, MarkSent, Unsent, RetryNote, Attempt, Requeue, Heartbeat, Abort,
         Working
    <3>4. QED BY <1>2, <3>3, Names DEF Holding
  <2>6. CASE FeedbackRead
    <3>1. GoTo("feedback", "done") /\ UNCHANGED <<mem, job, note, cleaned>>
      BY <1>1, <2>6 DEF FeedbackRead, NoWrite, domain
    <3>2. \A q \in Actors : mem'[q] = Blank
      BY <1>0, <3>1 DEF Unborn
    <3>3. \A q \in Actors : pc'[q] \in outside /\ (pc'[q] = "create" => pc[q] = "create")
      BY <1>2, <3>1 DEF GoTo, TypeOK
    <3>4. QED BY <3>1, <3>2, <3>3, Names
  <2>7. CASE Cancel \/ Scan \/ Recover \/ FeedbackWrite
    BY <1>1, <1>2, <2>7 DEF Cancel, Scan, Recover, FeedbackWrite, Actors
  <2>8. CASE Duplicate \/ Time
    <3>1. UNCHANGED <<pc, mem, job, note, cleaned>>
      BY <1>1, <2>8 DEF Duplicate, Time, LeasePasses, WaitPasses, SentPasses, GracePasses,
                        AgePasses, NoWrite, domain, Active
    <3>2. QED BY <1>0, <1>2, <3>1 DEF Unborn
  <2>9. QED BY <2>1, <2>2, <2>3, <2>4, <2>5, <2>6, <2>7, <2>8 DEF Next
<1>4. QED BY <1>3

\* So the invariant holds until then.
LEMMA UnbornStaged ==
  ASSUME TypeOK, Staged, job.type = "none", Next, ~ StartCreate
  PROVE  Staged'
<1> DEFINE outside == {"idle", "scan", "done", "create", "cancel", "feedback"}
<1>1. Unborn
  BY DEF Staged
<1>2. /\ UNCHANGED <<job, note, cleaned>>
      /\ \A p \in Actors : mem'[p] = Blank /\ pc'[p] \in outside
      /\ pc'["start"] = "create" => pc["start"] = "create"
  BY UnbornStays
<1>3. Unborn'
  BY <1>1, <1>2 DEF Unborn
<1>4. \A p \in Actors : Stage(p)'
  BY <1>2, Zenon DEF Stage, Holding, Attempt, Requeue, Deliver, Blank
<1>5. Done(job)' /\ ~ job'.noted /\ Fresh'
  BY <1>2, <1>3, Names DEF Unborn, Done, Fresh, Opens
<1>6. QED BY <1>2, <1>3, <1>4, <1>5 DEF Staged, Unborn

-----------------------------------------------------------------------------
\* The updates of a whole record mark no step of the delivery.
LEMMA RecordsAlike ==
  ASSUME NEW r \in Record
  PROVE  /\ Seen(r).type = r.type /\ Seen(r).noted = r.noted
         /\ Seen(r).marks = r.marks /\ Seen(r).dispatch = r.dispatch
         /\ Alike(r, r) /\ Alike(r, Seen(r)) /\ Alike(r, FailedStart(r))
         /\ Alike(r, Redispatched(r)) /\ Alike(r, Seen(Redispatched(r)))
         /\ \A w, bound : /\ Alike(r, Claimed(r, w, bound))
                         /\ Alike(r, Seen(Claimed(r, w, bound)))
         /\ \A outcome : /\ Alike(r, Tombstone(r, outcome))
                        /\ Alike(r, Seen(Tombstone(r, outcome)))
<1>1. /\ Seen(r).type = r.type /\ Seen(r).noted = r.noted
      /\ Seen(r).marks = r.marks /\ Seen(r).dispatch = r.dispatch
  BY DEF Seen, Updated, Record
<1>2. Alike(r, r) /\ Alike(r, Seen(r))
  BY <1>1 DEF Alike
<1>3. Alike(r, FailedStart(r))
  BY DEF Alike, FailedStart, Revoked, Updated, Record
<1>4. Alike(r, Redispatched(r)) /\ Alike(r, Seen(Redispatched(r)))
  BY DEF Alike, Redispatched, Seen, Updated, Record
<1>5. ASSUME NEW w, NEW bound
      PROVE  Alike(r, Claimed(r, w, bound)) /\ Alike(r, Seen(Claimed(r, w, bound)))
  BY DEF Alike, Claimed, Seen, Updated, Record
<1>6. ASSUME NEW outcome
      PROVE  Alike(r, Tombstone(r, outcome)) /\ Alike(r, Seen(Tombstone(r, outcome)))
  BY DEF Alike, Tombstone, Revoked, Seen, Updated, Record
<1>7. QED BY <1>1, <1>2, <1>3, <1>4, <1>5, <1>6

\* An actor that goes on with an entity like the stored one.
LEMMA HoldStaged ==
  ASSUME TypeOK, Staged, NEW p \in Actors, OnlyMoves(p), Onward, Alike(job, job'),
         pc'[p] \notin Opens \cup {"create"},
         pc'[p] \in Holding => Alike(job, mem'[p]),
         mem'[p].noted => job.type # "execution",
         pc'[p] \in {"cleaned", "notify", "link", "notified", "release"} => cleaned',
         pc'[p] \in {"link", "notified", "release"} => Told',
         pc'[p] \notin {"link", "remind"}
  PROVE  Staged'
<1>1. Done(job)' /\ (job'.noted => job.type # "execution")
  BY DoneOn
<1>2. Done(job)
  BY DEF Staged
<1>3. Told => Told'
  BY DEF Told, Onward
<1>4. Stage(p)'
  BY <1>2, <1>3 DEF Stage, Done, Alike, Onward
<1>5. p = "start" => Fresh'
  BY DEF Fresh
<1>6. pc'["start"] = "create" => pc["start"] = "create"
  BY Names DEF OnlyMoves
<1>7. QED BY <1>1, <1>4, <1>5, <1>6, StagedStep

\* Nobody moves, and the record says no more.
LEMMA StillStaged ==
  ASSUME TypeOK, Staged, Onward, Alike(job, job'), UNCHANGED <<pc, mem>>
  PROVE  Staged'
<1>1. Done(job)' /\ (job'.noted => job.type # "execution")
  BY DoneOn
<1>2. "start" \in Actors /\ OnlyMoves("start")
  BY Names DEF OnlyMoves
<1>3. Told => Told'
  BY DEF Told, Onward
<1>4. Stage("start")' /\ Fresh'
  BY <1>2, <1>3 DEF Staged, Stage, Fresh, Done, Onward
<1>5. QED BY <1>1, <1>2, <1>4, StagedStep

\* A claim hands the stored record to a worker, to run it or to deliver it.
LEMMA ClaimStaged ==
  ASSUME TypeOK, Staged, NEW w \in Workers, job.type # "none", Claim(w)
  PROVE  Carries(w) /\ Staged'
<1> USE Names
<1>0. job \in Record /\ UNCHANGED <<cleaned, note>> /\ OnlyMoves(w)
  BY WorkerMoves DEF TypeOK, Claim, domain
<1>1. CASE /\ job' = Claimed(job, w, MaxAttempts) /\ Touch(w, Claimed(job, w, MaxAttempts))
           /\ GoTo(w, "begin")
  <2>1. mem'[w] = Seen(Claimed(job, w, MaxAttempts)) /\ pc'[w] = "begin"
    BY <1>1 DEF Touch, GoTo, TypeOK
  <2>2. Alike(job, job') /\ Alike(job, mem'[w])
    BY <1>0, <1>1, <2>1, RecordsAlike
  <2>3. Onward
    BY <1>0, <2>2 DEF Onward, Alike
  <2>4. Staged'
    BY <1>0, <2>1, <2>2, <2>3, WorkStaged DEF Alike
  <2>5. QED BY <1>0, <2>1, <2>2, <2>4 DEF Carries, Deliver
<1>2. CASE Touch(w, job) /\ GoTo(w, Entry(job)) /\ job' = job
  <2>1. mem'[w] = Seen(job) /\ pc'[w] = Entry(job)
    BY <1>2 DEF Touch, GoTo, TypeOK
  <2>2. Alike(job, job') /\ Alike(job, mem'[w]) /\ mem'[w].marks = job.marks
    BY <1>0, <1>2, <2>1, RecordsAlike
  <2>3. Onward
    BY <1>0, <1>2 DEF Onward
  <2>4. /\ pc'[w] \in {"cleanup", "notify", "release"}
        /\ pc'[w] \in {"notify", "release"} => cleaned'
        /\ pc'[w] = "release" => Told'
    BY <1>0, <1>2, <2>1 DEF Entry, Staged, Done, Told
  <2>5. mem'[w].noted => job.type # "execution"
    BY <2>2 DEF Staged, Alike
  <2>6. Staged'
    BY <1>0, <2>2, <2>3, <2>4, <2>5, HoldStaged DEF Opens
  <2>7. pc'[w] = "release" => Says(job)
    BY <2>1 DEF Entry, Says
  <2>8. QED BY <1>0, <2>2, <2>4, <2>6, <2>7 DEF Carries
<1>3. CASE UNCHANGED <<job, pc, mem>>
  <2>1. Staged' /\ Alike(job, job') /\ Alike(mem[w], mem'[w])
    BY <1>0, <1>3, StillStaged, RecordsAlike DEF Onward, Alike
  <2>2. QED BY <1>0, <1>3, <2>1 DEF Carries
<1>4. QED BY <1>1, <1>2, <1>3, Zenon DEF Claim

\* A heartbeat, an aborted attempt and a crash mark nothing.
LEMMA FaultStaged ==
  ASSUME TypeOK, Staged, NEW p \in Actors, job.type # "none",
         Crash(p) \/ (p \in Workers /\ (Heartbeat(p) \/ Abort(p)))
  PROVE  Carries(p) /\ Staged'
<1>0. job \in Record /\ UNCHANGED <<note, cleaned>>
  BY DEF TypeOK, Crash, Heartbeat, Abort, domain
<1>1. Alike(job, job')
  <2>1. \/ job' = job \/ job' = [job EXCEPT !.lease = "live"]
        \/ job' = [job EXCEPT !.lease = "lapsed"]
    BY DEF Crash, Heartbeat, Abort, NoWrite
  <2>2. QED BY <1>0, <2>1 DEF Alike, Record
<1>2. Onward
  BY <1>0, <1>1 DEF Onward, Alike
<1>3. CASE Heartbeat(p)
  <2>1. Staged' /\ UNCHANGED <<pc, mem>>
    BY <1>1, <1>2, <1>3, StillStaged DEF Heartbeat
  <2>2. OnlyMoves(p) /\ Alike(mem[p], mem'[p])
    BY <2>1 DEF OnlyMoves, Alike
  <2>3. QED BY <1>1, <2>1, <2>2 DEF Carries
<1>4. CASE Crash(p) \/ Abort(p)
  BY <1>1, <1>2, <1>4, LeaveStaged, LeaveStage DEF Crash, Abort
<1>5. QED BY <1>3, <1>4

-----------------------------------------------------------------------------
\* A delivery write puts its field on the stored record, or on the entity in memory.
LEMMA TerminalBase ==
  ASSUME TypeOK, NEW p \in Actors, NEW updates, SaveTerminal(p, updates)
  PROVE  /\ \E base \in {job, mem[p]} : job' = Updated(base, updates)
         /\ mem'[p] = Seen(Updated(mem[p], updates))
BY DEF SaveTerminal, BlindSave, Persist, Touch, TypeOK

\* A deliverer's next step and entity, when the record shows no more than was done.
LEMMA DeliverStaged ==
  ASSUME TypeOK, Staged, NEW p \in Actors, OnlyMoves(p), pc[p] \in Deliver,
         Onward, Done(job)', Done(mem[p])',
         job'.noted \/ mem'[p].noted => job.type # "execution", mem'[p].type = job.type,
         pc'[p] \in Deliver,
         pc'[p] \in {"cleaned", "notify", "link", "notified", "release"} => cleaned',
         pc'[p] \in {"link", "notified", "release"} => Told',
         pc'[p] = "link" => job.type # "execution"
  PROVE  Staged'
<1>1. pc'[p] \notin Opens \cup {"create", "remind"}
  BY DEF Opens, Deliver
<1>2. Stage(p)'
  BY <1>1 DEF Stage, Onward
<1>3. p = "start" => Fresh'
  BY <1>1 DEF Fresh
<1>4. pc'["start"] = "create" => pc["start"] = "create"
  BY <1>1, Names DEF OnlyMoves
<1>5. QED BY <1>2, <1>3, <1>4, StagedStep

\* A job that is being delivered was created.
LEMMA DeliverBorn ==
  ASSUME Staged, NEW p \in Actors, pc[p] \in Deliver
  PROVE  job.type # "none" /\ mem[p].type = job.type /\ Done(mem[p])
<1>1. pc[p] \notin {"idle", "scan", "done", "create", "cancel", "feedback"}
      /\ pc[p] \in Holding
  BY DEF Deliver, Holding
<1>2. QED BY <1>1 DEF Staged, Unborn, Stage

\* Storing a marker puts it beside the ones the deliverer remembers, and otherwise
\* keeps the stored record or restores what the deliverer remembers.
LEMMA MarkFields ==
  ASSUME TypeOK, Staged, NEW p \in Actors, pc[p] \in Deliver, NEW mark \in Marks,
         SaveMark(p, mark)
  PROVE  /\ \E base \in {job, mem[p]} :
              /\ base.type = job.type
              /\ job'.type = job.type /\ job'.noted = base.noted
              /\ job'.dispatch = base.dispatch /\ job'.marks = mem[p].marks \cup {mark}
         /\ mem'[p].type = job.type /\ mem'[p].noted = mem[p].noted
         /\ mem'[p].dispatch = mem[p].dispatch /\ mem'[p].marks = mem[p].marks \cup {mark}
<1> DEFINE updates == [marks |-> mem[p].marks \cup {mark}]
<1>0. job \in Record /\ mem[p] \in Record /\ mem[p].type = job.type
  BY DeliverBorn DEF TypeOK
<1>1. \A r \in Record : /\ Updated(r, updates).type = r.type
                        /\ Updated(r, updates).noted = r.noted
                        /\ Updated(r, updates).dispatch = r.dispatch
                        /\ Updated(r, updates).marks = mem[p].marks \cup {mark}
                        /\ Seen(Updated(r, updates)).type = r.type
                        /\ Seen(Updated(r, updates)).noted = r.noted
                        /\ Seen(Updated(r, updates)).dispatch = r.dispatch
                        /\ Seen(Updated(r, updates)).marks = mem[p].marks \cup {mark}
  BY DEF Seen, Updated, Record
<1>2. SaveTerminal(p, updates)
  BY DEF SaveMark
<1> HIDE DEF updates
<1>3. PICK base \in {job, mem[p]} : job' = Updated(base, updates)
  BY <1>2, TerminalBase
<1>4. mem'[p] = Seen(Updated(mem[p], updates))
  BY <1>2, TerminalBase
<1>5. base \in Record /\ base.type = job.type
  BY <1>0, <1>3
<1>6. QED BY <1>0, <1>1, <1>3, <1>4, <1>5

\* Linking a notification sets that reference and nothing else.
LEMMA LinkFields ==
  ASSUME TypeOK, Staged, NEW p \in Actors, pc[p] \in Deliver,
         SaveTerminal(p, [noted |-> TRUE])
  PROVE  /\ \E base \in {job, mem[p]} :
              /\ job'.type = job.type /\ job'.noted
              /\ job'.dispatch = base.dispatch /\ job'.marks = base.marks
         /\ mem'[p].type = job.type /\ mem'[p].noted
         /\ mem'[p].dispatch = mem[p].dispatch /\ mem'[p].marks = mem[p].marks
<1> DEFINE updates == [noted |-> TRUE]
<1>0. job \in Record /\ mem[p] \in Record /\ mem[p].type = job.type
  BY DeliverBorn DEF TypeOK
<1>1. \A r \in Record : /\ Updated(r, updates).type = r.type
                        /\ Updated(r, updates).noted
                        /\ Updated(r, updates).dispatch = r.dispatch
                        /\ Updated(r, updates).marks = r.marks
                        /\ Seen(Updated(r, updates)).type = r.type
                        /\ Seen(Updated(r, updates)).noted
                        /\ Seen(Updated(r, updates)).dispatch = r.dispatch
                        /\ Seen(Updated(r, updates)).marks = r.marks
  BY DEF Seen, Updated, Record
<1>2. SaveTerminal(p, updates)
  OBVIOUS
<1> HIDE DEF updates
<1>3. PICK base \in {job, mem[p]} : job' = Updated(base, updates)
  BY <1>2, TerminalBase
<1>4. mem'[p] = Seen(Updated(mem[p], updates))
  BY <1>2, TerminalBase
<1>5. base \in Record /\ base.type = job.type
  BY <1>0, <1>3
<1>6. QED BY <1>0, <1>1, <1>3, <1>4, <1>5

\* Storing a marker of what was done.
LEMMA MarkStaged ==
  ASSUME TypeOK, Staged, NEW p \in Actors, OnlyMoves(p), pc[p] \in Deliver,
         NEW mark \in Marks, SaveMark(p, mark), UNCHANGED <<note, cleaned>>,
         mark = "cleanup" => cleaned, mark = "notification" => Told,
         pc'[p] \in {"cleanup", "notify", "release"},
         pc'[p] \in {"notify", "release"} => cleaned, pc'[p] = "release" => Told
  PROVE  Staged'
<1>1. job.type # "none" /\ mem[p].type = job.type /\ Done(mem[p]) /\ Done(job)
  BY DeliverBorn DEF Staged
<1>2. PICK base \in {job, mem[p]} :
        /\ job'.type = job.type /\ job'.noted = base.noted
        /\ job'.dispatch = base.dispatch /\ job'.marks = mem[p].marks \cup {mark}
  BY MarkFields
<1>3. /\ mem'[p].type = job.type /\ mem'[p].noted = mem[p].noted
      /\ mem'[p].dispatch = mem[p].dispatch /\ mem'[p].marks = mem[p].marks \cup {mark}
  BY MarkFields
<1>4. Done(base) /\ (base.noted => job.type # "execution")
  BY <1>1, <1>2 DEF Staged, Stage
<1>5. Onward /\ (Told => Told')
  BY <1>1, <1>2 DEF Onward, Told
<1>6. Done(job)' /\ Done(mem[p])'
  BY <1>1, <1>2, <1>3, <1>4, <1>5 DEF Done
<1>7. job'.noted \/ mem'[p].noted => job.type # "execution"
  BY <1>2, <1>3, <1>4 DEF Staged, Stage
<1>8. pc'[p] \in Deliver
  BY DEF Deliver
<1>9. QED BY <1>3, <1>5, <1>6, <1>7, <1>8, DeliverStaged

\* A step of a deliverer that writes nothing to the record.
LEMMA PassStaged ==
  ASSUME TypeOK, Staged, NEW p \in Actors, OnlyMoves(p), pc[p] \in Deliver,
         UNCHANGED <<job, mem>>, cleaned => cleaned', note # "absent" => note' # "absent",
         job.type = "execution" => note' = note,
         pc'[p] \in Deliver,
         pc'[p] \in {"cleaned", "notify", "link", "notified", "release"} => cleaned',
         pc'[p] \in {"link", "notified", "release"} => Told',
         pc'[p] = "link" => job.type # "execution"
  PROVE  Staged'
<1>1. job.type # "none" /\ mem[p].type = job.type /\ Done(mem[p]) /\ Done(job)
  BY DeliverBorn DEF Staged
<1>2. Onward /\ (Told => Told')
  BY <1>1 DEF Onward, Told
<1>3. Done(job)' /\ Done(mem[p])'
  BY <1>1, <1>2 DEF Done
<1>4. job'.noted \/ mem'[p].noted => job.type # "execution"
  BY DEF Staged, Stage
<1>5. QED BY <1>1, <1>2, <1>3, <1>4, DeliverStaged

\* The steps of a delivery.
LEMMA DeliveryStaged ==
  ASSUME TypeOK, Staged, NEW p \in Actors, Delivery(p)
  PROVE  Staged'
<1>0. /\ OnlyMoves(p) /\ pc[p] \in Deliver /\ job \in Record /\ mem[p] \in Record
      /\ {"failure", "cleanup", "notification"} \subseteq Marks
  BY DelivererMoves DEF Delivery, DeliverFailure, Cleanup, MarkCleanup, Notify,
     LinkNotification, MarkNotification, Release, Deliver, TypeOK, Marks
<1>1. job.type # "none" /\ mem[p].type = job.type /\ Done(mem[p]) /\ Stage(p)
  BY <1>0, DeliverBorn DEF Staged
<1>2. ASSUME Leave(p), UNCHANGED <<job, note, cleaned>> PROVE Staged'
  <2>1. Onward /\ Alike(job, job')
    BY <1>1, <1>2 DEF Onward, Alike
  <2>2. QED BY <1>2, <2>1, LeaveStaged
<1>3. ASSUME NEW label, GoTo(p, label) PROVE pc'[p] = label
  BY <1>3, GoToPc
<1>4. CASE DeliverFailure(p)
  <2>1. /\ Entry(mem[p]) \in {"cleanup", "notify", "release"}
        /\ Entry(mem[p]) \in {"notify", "release"} => cleaned
        /\ Entry(mem[p]) = "release" => Told
    BY <1>1 DEF Entry, Done
  <2>2. CASE SaveMark(p, "failure") /\ GoTo(p, Entry(mem[p]))
    <3>1. UNCHANGED <<note, cleaned>> /\ pc'[p] = Entry(mem[p])
      BY <1>3, <1>4, <2>2 DEF DeliverFailure, domain
    <3>2. QED BY <1>0, <2>1, <2>2, <3>1, MarkStaged
  <2>3. CASE GoTo(p, Entry(mem[p])) /\ UNCHANGED <<mem, tasks>> /\ NoWrite
    <3>1. UNCHANGED <<job, mem, note, cleaned>> /\ pc'[p] = Entry(mem[p])
      BY <1>3, <1>4, <2>3 DEF DeliverFailure, domain, NoWrite
    <3>2. QED BY <1>0, <2>1, <3>1, PassStaged DEF Deliver, Told
  <2>4. CASE MarksLost(p)
    BY <1>2, <1>4, <2>4 DEF MarksLost, ClaimLost, DeliverFailure, domain
  <2>5. QED BY <1>4, <2>2, <2>3, <2>4 DEF DeliverFailure
<1>5. CASE Cleanup(p)
  <2>1. UNCHANGED <<job, mem, note>> /\ cleaned' /\ pc'[p] = "cleaned"
    BY <1>3, <1>5 DEF Cleanup, NoWrite
  <2>2. QED BY <1>0, <2>1, PassStaged DEF Deliver
<1>6. CASE MarkCleanup(p)
  <2>1. UNCHANGED <<note, cleaned>> /\ cleaned
    BY <1>1, <1>6 DEF MarkCleanup, domain, Stage
  <2>2. CASE MarksLost(p)
    BY <1>2, <2>1, <2>2 DEF MarksLost, ClaimLost
  <2>3. CASE ~ MarksLost(p)
    <3>1. /\ SaveMark(p, "cleanup")
          /\ pc'[p] = IF "notification" \in mem[p].marks THEN "release" ELSE "notify"
      BY <1>3, <1>6, <2>3 DEF MarkCleanup
    <3>2. pc'[p] = "release" => Told
      BY <1>1, <3>1 DEF Done
    <3>3. QED BY <1>0, <2>1, <3>1, <3>2, MarkStaged
  <2>4. QED BY <2>2, <2>3
<1>7. CASE Notify(p)
  <2>1. /\ UNCHANGED <<job, mem, cleaned>> /\ cleaned
        /\ note' = IF mem[p].noted \/ NotifiedAtEnd(mem[p]) THEN "final" ELSE note
        /\ pc'[p] = IF ~ mem[p].noted /\ NotifiedAtEnd(mem[p]) THEN "link" ELSE "notified"
    BY <1>1, <1>3, <1>7 DEF Notify, NoWrite, Stage
  <2>2. mem[p].noted \/ NotifiedAtEnd(mem[p]) => job.type # "execution"
    BY <1>1 DEF Stage, NotifiedAtEnd
  <2>3. Told'
    <3>1. job.type \in {"autofill", "report", "file", "execution"}
      BY <1>0, <1>1 DEF Record, JobTypes
    <3>2. QED BY <1>1, <2>1, <3>1 DEF Told, NotifiedAtEnd, Staged
  <2>4. QED BY <1>0, <2>1, <2>2, <2>3, PassStaged DEF Deliver
<1>8. CASE LinkNotification(p)
  <2>1. UNCHANGED <<note, cleaned>> /\ cleaned /\ Told /\ job.type # "execution"
    BY <1>1, <1>8 DEF LinkNotification, domain, Stage
  <2>2. CASE MarksLost(p)
    BY <1>2, <2>1, <2>2 DEF MarksLost, ClaimLost
  <2>3. CASE ~ MarksLost(p)
    <3>1. SaveTerminal(p, [noted |-> TRUE]) /\ pc'[p] = "notified"
      BY <1>3, <1>8, <2>3 DEF LinkNotification
    <3>2. PICK base \in {job, mem[p]} :
            /\ job'.type = job.type /\ job'.dispatch = base.dispatch /\ job'.marks = base.marks
      BY <1>0, <3>1, LinkFields
    <3>3. /\ mem'[p].type = job.type /\ mem'[p].dispatch = mem[p].dispatch
          /\ mem'[p].marks = mem[p].marks
      BY <1>0, <3>1, LinkFields
    <3>4. Onward /\ Told'
      BY <1>1, <2>1, <3>2 DEF Onward, Told
    <3>5. Done(job)' /\ Done(mem[p])'
      BY <1>1, <2>1, <3>2, <3>3, <3>4 DEF Staged, Done
    <3>6. QED BY <1>0, <2>1, <3>1, <3>3, <3>4, <3>5, DeliverStaged DEF Deliver
  <2>4. QED BY <2>2, <2>3
<1>9. CASE MarkNotification(p)
  <2>1. UNCHANGED <<note, cleaned>> /\ cleaned /\ Told
    BY <1>1, <1>9 DEF MarkNotification, domain, Stage
  <2>2. CASE MarksLost(p)
    BY <1>2, <2>1, <2>2 DEF MarksLost, ClaimLost
  <2>3. CASE ~ MarksLost(p)
    <3>1. SaveMark(p, "notification") /\ pc'[p] = "release"
      BY <1>3, <1>9, <2>3 DEF MarkNotification
    <3>2. QED BY <1>0, <2>1, <3>1, MarkStaged
  <2>4. QED BY <2>2, <2>3
<1>10. CASE Release(p)
  <2>1. UNCHANGED <<note, cleaned>> /\ cleaned /\ Told
    BY <1>1, <1>10 DEF Release, domain, Stage
  <2>2. CASE ClaimLost(p)
    BY <1>2, <2>1, <2>2 DEF ClaimLost
  <2>3. CASE ~ ClaimLost(p)
    <3>1. job' = [Revoked(job) EXCEPT !.dispatch = "complete"] /\ Leave(p)
      BY <1>10, <2>3 DEF Release
    <3>2. job'.type = job.type /\ job'.noted = job.noted /\ job'.marks = job.marks
      BY <1>0, <3>1 DEF Revoked, Updated, Record
    <3>3. Onward /\ Told'
      BY <1>1, <2>1, <3>2 DEF Onward, Told
    <3>4. Done(job)' /\ (job'.noted => job.type # "execution")
      BY <2>1, <3>2, <3>3 DEF Staged, Done
    <3>5. Stage(p)' /\ OnlyMoves(p) /\ pc'[p] \in {"idle", "scan", "done"}
      BY <3>1, LeaveStage
    <3>6. (p = "start" => Fresh') /\ (pc'["start"] = "create" => pc["start"] = "create")
      BY <3>5, Names DEF Fresh, Opens, OnlyMoves
    <3>7. QED BY <3>3, <3>4, <3>5, <3>6, StagedStep
  <2>4. QED BY <2>2, <2>3
<1>11. QED BY <1>4, <1>5, <1>6, <1>7, <1>8, <1>9, <1>10 DEF Delivery

-----------------------------------------------------------------------------
\* What start() stores before the delivery of the job says nothing was delivered.
LEMMA SaveStaged ==
  ASSUME TypeOK, Staged, pc["start"] \in Opens, OnlyMoves("start"),
         NEW r \in Record, BlindSave("start", r),
         r.type = mem["start"].type, r.noted = mem["start"].noted, r.marks = mem["start"].marks,
         r.dispatch # "complete", cleaned' = cleaned,
         note' \in {note, IF mem["start"].noted THEN "pending" ELSE note},
         pc'["start"] \in {"started", "dispatching", "send"}
  PROVE  Staged'
<1> "start" \in Actors
  BY Names
<1>0. mem["start"] \in Record
  BY DEF TypeOK
<1>1. /\ r.type = job.type /\ job.type # "none" /\ r.marks = {}
      /\ r.noted => job.type # "execution"
  BY DEF Staged, Stage, Fresh
<1>2. job' = r /\ mem'["start"] = Seen(r)
  BY DEF BlindSave, Touch, TypeOK
<1>3. /\ mem'["start"].type = r.type /\ mem'["start"].noted = r.noted
      /\ mem'["start"].marks = r.marks /\ mem'["start"].dispatch = r.dispatch
  BY <1>2, RecordsAlike
<1>4. Onward
  BY <1>1, <1>2 DEF Onward
<1>5. Done(job)' /\ (job'.noted => job.type # "execution")
  BY <1>1, <1>2 DEF Done
<1>6. Stage("start")'
  BY <1>1, <1>2, <1>3 DEF Stage, Holding, Attempt, Requeue, Deliver
<1>7. Fresh'
  BY <1>1, <1>2, <1>3 DEF Fresh
<1>8. QED BY <1>4, <1>5, <1>6, <1>7, StagedStep

\* The creation of the job, with its notification if it has one at the start.
LEMMA CreateStaged ==
  ASSUME TypeOK, Staged, StartCreate
  PROVE  Staged'
<1> "start" \in Actors
  BY Names
<1>0. OnlyMoves("start") /\ Unborn /\ job.type = "none"
  BY OthersMove DEF Start, StartCreate, Staged
<1>1. PICK type \in Types : /\ job' = Submitted(type) /\ Touch("start", job')
                            /\ note' = IF NotifiedAtStart(job') THEN "pending" ELSE note
  BY DEF StartCreate
<1>2. type \in JobTypes
  BY RecordAssumption
<1>3. /\ job' \in Record /\ job'.type = type /\ type # "none"
      /\ job'.marks = {} /\ job'.dispatch = "pending"
      /\ job'.noted = (type \in {"autofill", "report"})
  <2> DEFINE r == Updated(Blank, [type |-> type, status |-> "queued", rev |-> 1])
  <2>1. r \in Record /\ r.type = type /\ r.marks = {} /\ r.dispatch = "pending"
    BY <1>2 DEF Updated, Blank, Record, Active, Dispatches
  <2>2. job' = Updated(r, [noted |-> NotifiedAtStart(r)])
    BY <1>1 DEF Submitted
  <2>3. NotifiedAtStart(r) = (type \in {"autofill", "report"})
    BY <2>1 DEF NotifiedAtStart
  <2> HIDE DEF r
  <2>4. job' \in Record
    BY <1>1, <1>2, SubmittedFields
  <2>5. QED BY <1>2, <2>1, <2>2, <2>3, <2>4 DEF Updated, Record, JobTypes
<1>4. pc'["start"] = "save" /\ mem'["start"] = Seen(job')
  BY <1>1, GoToPc DEF StartCreate, Touch, TypeOK
<1>5. /\ mem'["start"].type = type /\ mem'["start"].noted = job'.noted
      /\ mem'["start"].marks = {} /\ mem'["start"].dispatch = "pending"
  BY <1>3, <1>4, RecordsAlike
<1>6. note' = IF type \in {"autofill", "report"} THEN "pending" ELSE "absent"
  BY <1>0, <1>1, <1>3 DEF Unborn, NotifiedAtStart
<1>7. ASSUME NEW q \in Actors PROVE Stage(q)'
  <2>1. CASE q = "start"
    BY <1>3, <1>4, <1>5, <2>1 DEF Stage, Holding, Attempt, Requeue, Deliver
  <2>2. CASE q # "start"
    <3>1. mem'[q] = Blank
          /\ pc'[q] \in {"idle", "scan", "done", "create", "cancel", "feedback"}
      BY <1>0, <2>2 DEF OnlyMoves, Unborn
    <3>2. pc'[q] \notin Holding \cup {"remind"}
      BY <3>1 DEF Holding, Attempt, Requeue, Deliver
    <3>3. ~ mem'[q].noted
      BY <3>1 DEF Blank
    <3>4. QED BY <3>2, <3>3 DEF Stage, Holding, Deliver
  <2>3. QED BY <2>1, <2>2
<1>8. Done(job)' /\ Fresh'
  BY <1>3, <1>5 DEF Done, Fresh
<1>9. QED BY <1>3, <1>4, <1>6, <1>7, <1>8 DEF Staged

\* The steps of start.
LEMMA StartStaged ==
  ASSUME TypeOK, Staged, job.type # "none", Start
  PROVE  Staged'
<1> "start" \in Actors
  BY Names
<1>0. OnlyMoves("start") /\ mem["start"] \in Record /\ job \in Record /\ Stage("start")
  BY OthersMove DEF TypeOK, Staged
<1>1. ASSUME NEW label, GoTo("start", label) PROVE pc'["start"] = label
  BY <1>1, GoToPc
<1>2. ~ StartCreate
  BY DEF StartCreate, Staged
<1>3. CASE StartSave
  <2>1. /\ pc["start"] \in Opens /\ BlindSave("start", mem["start"]) /\ cleaned' = cleaned
        /\ note' \in {note, IF mem["start"].noted THEN "pending" ELSE note}
        /\ pc'["start"] = "started"
    BY <1>1, <1>3 DEF StartSave, Opens
  <2>2. mem["start"].dispatch # "complete"
    BY <2>1 DEF Staged, Fresh
  <2>3. QED BY <1>0, <2>1, <2>2, SaveStaged
<1>4. CASE StartStarted
  <2> DEFINE r == [mem["start"] EXCEPT !.started = TRUE, !.rev = @ + 1]
  <2>1. /\ r \in Record /\ r.type = mem["start"].type /\ r.noted = mem["start"].noted
        /\ r.marks = mem["start"].marks /\ r.dispatch = mem["start"].dispatch
    BY <1>0, StartRecords DEF Agree
  <2>2. /\ pc["start"] \in Opens /\ UNCHANGED <<note, cleaned>>
        /\ \/ BlindSave("start", r) /\ pc'["start"] = "dispatching"
           \/ pc'["start"] = "failstart" /\ UNCHANGED <<job, mem>>
    BY <1>1, <1>4, Zenon DEF StartStarted, Opens, NoWrite, domain
  <2> HIDE DEF r
  <2>3. CASE BlindSave("start", r) /\ pc'["start"] = "dispatching"
    <3>1. r.dispatch # "complete"
      BY <2>1, <2>2 DEF Staged, Fresh
    <3>2. QED BY <1>0, <2>1, <2>2, <2>3, <3>1, SaveStaged
  <2>4. CASE pc'["start"] = "failstart" /\ UNCHANGED <<job, mem>>
    <3>1. Onward /\ Alike(job, job')
      BY <2>2, <2>4 DEF Onward, Alike
    <3>2. QED BY <1>0, <2>4, <3>1, HoldStaged
              DEF Stage, Opens, Holding, Attempt, Requeue, Deliver
  <2>5. QED BY <2>2, <2>3, <2>4
<1>5. CASE StartDispatching
  <2> DEFINE r == [mem["start"] EXCEPT !.dispatch = "dispatching", !.sent = "fresh",
                                       !.rev = @ + 1]
  <2>1. /\ r \in Record /\ r.type = mem["start"].type /\ r.noted = mem["start"].noted
        /\ r.marks = mem["start"].marks /\ r.dispatch = "dispatching"
    BY <1>0, StartRecords DEF Agree
  <2>2. /\ pc["start"] \in Opens /\ UNCHANGED <<note, cleaned>>
        /\ BlindSave("start", r) /\ pc'["start"] = "send"
    BY <1>1, <1>5 DEF StartDispatching, Opens, domain
  <2> HIDE DEF r
  <2>3. QED BY <1>0, <2>1, <2>2, SaveStaged
<1>6. CASE StartFail
  <2>1. note' = note /\ cleaned'
        /\ \/ job' = FailedStart(job) /\ UNCHANGED mem /\ pc'["start"] = "failnote"
           \/ Leave("start") /\ UNCHANGED job
    BY <1>1, <1>6 DEF StartFail
  <2>2. Alike(job, job')
    BY <1>0, <2>1, RecordsAlike
  <2>3. Onward
    BY <2>1, <2>2 DEF Onward, Alike
  <2>4. CASE Leave("start")
    BY <2>2, <2>3, <2>4, LeaveStaged
  <2>5. CASE UNCHANGED mem /\ pc'["start"] = "failnote"
    BY <1>0, <2>2, <2>3, <2>5, HoldStaged
       DEF Stage, Opens, Holding, Attempt, Requeue, Deliver
  <2>6. QED BY <2>1, <2>4, <2>5
<1>7. CASE StartFailNote
  <2>1. UNCHANGED <<job, cleaned>> /\ Leave("start")
        /\ note' = IF mem["start"].noted THEN "final" ELSE note
    BY <1>7 DEF StartFailNote, NoWrite
  <2>2. Onward /\ Alike(job, job')
    BY <1>0, <2>1 DEF Onward, Alike, Stage
  <2>3. QED BY <2>1, <2>2, LeaveStaged
<1>8. QED BY <1>2, <1>3, <1>4, <1>5, <1>6, <1>7 DEF Start

\* Sending and confirming a task deliver nothing.
LEMMA DispatchStaged ==
  ASSUME TypeOK, Staged, job.type # "none", NEW p \in Dispatchers, Dispatch(p)
  PROVE  p \in Actors /\ Carries(p) /\ Staged'
<1>0. /\ p \in Actors /\ OnlyMoves(p) /\ job \in Record /\ UNCHANGED <<note, cleaned>>
      /\ Stage(p)
  BY OthersMove DEF Dispatchers, TypeOK, Dispatch, Send, Confirm, Unconfirm, domain, Staged
<1>1. Alike(job, job')
  <2>1. /\ Alike(job, [job EXCEPT !.dispatch = "dispatched"])
        /\ Alike(job, [job EXCEPT !.dispatch = "pending", !.sent = "none"])
    BY <1>0 DEF Alike, Record
  <2>2. \/ job' = job \/ job' = [job EXCEPT !.dispatch = "dispatched"]
        \/ job' = [job EXCEPT !.dispatch = "pending", !.sent = "none"]
    BY Zenon DEF Dispatch, Send, Confirm, Unconfirm, NoWrite
  <2>3. QED BY <2>1, <2>2 DEF Alike
<1>2. Onward
  BY <1>0, <1>1 DEF Onward, Alike
<1>3. CASE Leave(p)
  BY <1>0, <1>1, <1>2, <1>3, LeaveStaged, LeaveStage
<1>4. CASE ~ Leave(p)
  <2>1. PICK label \in {"confirm", "unconfirm", "disabled", "failstart"} :
          GoTo(p, label) /\ UNCHANGED mem
    BY <1>4 DEF Dispatch, Send, Confirm, Unconfirm
  <2>2. pc'[p] = label
    BY <1>0, <2>1, GoToPc
  <2>3. Staged'
    BY <1>0, <1>1, <1>2, <2>1, <2>2, HoldStaged
       DEF Stage, Opens, Holding, Attempt, Requeue, Deliver
  <2>4. Alike(mem[p], mem'[p])
    BY <2>1 DEF Alike
  <2>5. QED BY <1>0, <1>1, <2>2, <2>3, <2>4 DEF Carries, Deliver
<1>5. QED BY <1>3, <1>4

\* A caller that takes up a withdrawn or finished job starts its delivery anew.
LEMMA CallerStaged ==
  ASSUME TypeOK, Staged, job.type # "none", Cancel \/ Scan \/ Recover
  PROVE  (\E p \in Actors : Carries(p)) /\ Staged'
<1>0. job \in Record /\ UNCHANGED <<note, cleaned>>
  BY DEF TypeOK, Cancel, Scan, Recover, domain
<1>1. ASSUME NEW p \in Actors, OnlyMoves(p), Alike(job, job'),
             pc'[p] \in {"stale", "recover", "send"},
             \/ Alike(job, mem'[p])
             \/ pc'[p] = "recover" /\ ~ mem'[p].noted /\ mem'[p].type = "none"
      PROVE  Carries(p) /\ Staged'
  <2>1. Onward
    BY <1>0, <1>1 DEF Onward, Alike
  <2>2. mem'[p].noted => job.type # "execution"
    BY <1>1 DEF Staged, Alike
  <2>3. Staged'
    BY <1>1, <2>1, <2>2, HoldStaged DEF Opens, Holding, Attempt, Requeue, Deliver
  <2>4. QED BY <1>1, <2>3 DEF Carries, Deliver
<1>2. ASSUME NEW p \in Actors, Leave(p), UNCHANGED job PROVE Carries(p) /\ Staged'
  <2>1. Onward /\ Alike(job, job')
    BY <1>0, <1>2 DEF Onward, Alike
  <2>2. QED BY <1>2, <2>1, LeaveStaged, LeaveStage
<1>3. CASE Cancel
  <2>1. "cancel" \in Actors /\ OnlyMoves("cancel")
    BY <1>3, OthersMove DEF Cancel, Actors
  <2>2. CASE Cancellable(job)
    <3>1. PICK outcome \in Withdrawn :
            job' = Tombstone(job, outcome) /\ Touch("cancel", Tombstone(job, outcome))
      BY <1>3, <2>2 DEF Cancel
    <3>2. pc'["cancel"] = "stale"
      BY <1>3, <2>1, <2>2, GoToPc DEF Cancel
    <3>3. mem'["cancel"] = Seen(Tombstone(job, outcome))
      BY <2>1, <3>1 DEF Touch, TypeOK
    <3>4. QED BY <1>0, <1>1, <2>1, <3>1, <3>2, <3>3, RecordsAlike
  <2>3. CASE Leave("cancel") /\ UNCHANGED job
    BY <1>2, <2>1, <2>3
  <2>4. QED BY <1>3, <2>2, <2>3 DEF Cancel
<1>4. CASE Scan
  <2>1. "reconcile" \in Actors /\ OnlyMoves("reconcile") /\ UNCHANGED job
    BY <1>4, OthersMove DEF Scan, Actors
  <2>2. Alike(job, job')
    BY <2>1 DEF Alike
  <2>3. CASE /\ Touch("reconcile", [Blank EXCEPT !.rev = job.rev])
             /\ GoTo("reconcile", "recover")
    <3>1. [Blank EXCEPT !.rev = job.rev] \in Record
          /\ ~ [Blank EXCEPT !.rev = job.rev].noted
          /\ [Blank EXCEPT !.rev = job.rev].type = "none"
      BY <1>0 DEF Blank, Record, Dispatches
    <3>2. mem'["reconcile"] = Seen([Blank EXCEPT !.rev = job.rev])
      BY <2>1, <2>3 DEF Touch, TypeOK
    <3>3. ~ mem'["reconcile"].noted /\ mem'["reconcile"].type = "none"
      BY <3>1, <3>2, RecordsAlike
    <3>4. pc'["reconcile"] = "recover"
      BY <2>1, <2>3, GoToPc
    <3>5. QED BY <1>1, <2>1, <2>2, <3>3, <3>4
  <2>4. CASE Touch("reconcile", job) /\ GoTo("reconcile", "stale")
    <3>1. mem'["reconcile"] = Seen(job) /\ pc'["reconcile"] = "stale"
      BY <2>1, <2>4, GoToPc DEF Touch, TypeOK
    <3>2. QED BY <1>0, <1>1, <2>1, <2>2, <3>1, RecordsAlike
  <2>5. CASE UNCHANGED <<mem, pc>>
    <3>1. Staged' /\ Alike(mem["reconcile"], mem'["reconcile"])
      BY <1>0, <2>1, <2>2, <2>5, StillStaged DEF Onward, Alike
    <3>2. QED BY <2>1, <2>2, <2>5, <3>1 DEF Carries
  <2>6. QED BY <1>4, <2>3, <2>4, <2>5 DEF Scan
<1>5. CASE Recover
  <2>1. "reconcile" \in Actors /\ OnlyMoves("reconcile")
    BY <1>5, OthersMove DEF Recover, Actors
  <2>2. \/ \E next \in {Tombstone(job, "failed"), Redispatched(job)} :
             \E label \in {"stale", "send"} :
               /\ job' = next /\ Touch("reconcile", next) /\ GoTo("reconcile", label)
        \/ Leave("reconcile") /\ UNCHANGED job
    BY <1>5 DEF Recover
  <2>3. CASE Leave("reconcile") /\ UNCHANGED job
    BY <1>2, <2>1, <2>3
  <2>4. ASSUME NEW next \in {Tombstone(job, "failed"), Redispatched(job)},
               NEW label \in {"stale", "send"},
               job' = next, Touch("reconcile", next), GoTo("reconcile", label)
        PROVE  Carries("reconcile") /\ Staged'
    <3>1. mem'["reconcile"] = Seen(next) /\ pc'["reconcile"] = label
      BY <2>1, <2>4, GoToPc DEF Touch, TypeOK
    <3>2. QED BY <1>0, <1>1, <2>1, <2>4, <3>1, RecordsAlike
  <2>5. QED BY <2>1, <2>2, <2>3, <2>4
<1>6. QED BY <1>3, <1>4, <1>5

\* The feedback message is written only for a job that has a notification.
LEMMA FeedbackStaged ==
  ASSUME TypeOK, Staged, job.type # "none", FeedbackRead \/ FeedbackWrite
  PROVE  (\E p \in Actors : Carries(p)) /\ Staged'
<1>0. /\ "feedback" \in Actors /\ OnlyMoves("feedback") /\ UNCHANGED <<job, mem, cleaned>>
      /\ Stage("feedback")
  BY OthersMove DEF FeedbackRead, FeedbackWrite, Actors, domain, NoWrite, Staged
<1>1. /\ pc'["feedback"] \in {"remind", "done"}
      /\ pc'["feedback"] = "remind" => job.noted
      /\ note' = note \/ (job.type # "execution" /\ note' = "pending")
  BY <1>0, GoToPc DEF FeedbackRead, FeedbackWrite, domain, Stage
<1>2. Onward /\ Alike(job, job')
  BY <1>0, <1>1 DEF Onward, Alike
<1>3. Done(job)' /\ (job'.noted => job.type # "execution")
  BY <1>2, DoneOn
<1>4. Stage("feedback")'
  BY <1>0, <1>1, <1>3 DEF Stage, Holding, Attempt, Requeue, Deliver
<1>5. pc'["start"] = "create" => pc["start"] = "create"
  BY <1>0, <1>1, Names DEF OnlyMoves
<1>6. Staged'
  BY <1>0, <1>2, <1>3, <1>4, <1>5, StagedStep
<1>7. Alike(mem["feedback"], mem'["feedback"])
  BY <1>0 DEF Alike
<1>8. QED BY <1>0, <1>1, <1>2, <1>6, <1>7 DEF Carries, Deliver

\* A repeated task and the passing of time deliver nothing.
LEMMA TimeStaged ==
  ASSUME TypeOK, Staged, job.type # "none", Duplicate \/ Time
  PROVE  (\E p \in Actors : Carries(p)) /\ Staged'
<1>0. job \in Record /\ UNCHANGED <<note, cleaned, pc, mem>>
  BY OthersMove DEF TypeOK, Duplicate, Time, LeasePasses, WaitPasses, SentPasses,
                    GracePasses, AgePasses, domain
<1>1. Alike(job, job')
  <2>1. \/ job' = job
        \/ \E lease : job' = [job EXCEPT !.lease = lease]
        \/ \E wait : job' = [job EXCEPT !.wait = wait]
        \/ \E sent : job' = [job EXCEPT !.sent = sent]
    BY Zenon DEF Duplicate, Time, LeasePasses, WaitPasses, SentPasses, GracePasses,
                 AgePasses, NoWrite
  <2>2. QED BY <1>0, <2>1 DEF Alike, Record
<1>2. Onward
  BY <1>0, <1>1 DEF Onward, Alike
<1>3. Staged'
  BY <1>0, <1>1, <1>2, StillStaged
<1>4. OnlyMoves("start") /\ Alike(mem["start"], mem'["start"])
  BY <1>0 DEF OnlyMoves, Alike
<1>5. QED BY <1>0, <1>1, <1>3, <1>4, Names DEF Carries

\* Before the job exists, nothing was delivered.
LEMMA InitStaged == Init => Staged
<1> SUFFICES ASSUME Init PROVE Staged
  OBVIOUS
<1>1. /\ job = Blank /\ note = "absent" /\ pc["start"] = "create"
      /\ \A p \in Actors :
           /\ mem[p] = Blank
           /\ pc[p] \in {"idle", "scan", "done", "create", "cancel", "feedback"}
  BY Names DEF Init, Rest
<1>2. /\ Blank.status = "absent" /\ Blank.marks = {} /\ Blank.dispatch = "pending"
      /\ Blank.noted = FALSE /\ Blank.type = "none"
  BY DEF Blank
<1>3. \A p \in Actors : pc[p] \notin Holding \cup {"remind"}
  BY <1>1 DEF Holding, Attempt, Requeue, Deliver
<1>4. \A p \in Actors : Stage(p)
  BY <1>1, <1>2, <1>3 DEF Stage, Holding, Deliver
<1>5. Done(job) /\ Fresh /\ Unborn
  BY <1>1, <1>2 DEF Done, Fresh, Unborn, Opens
<1>6. QED BY <1>1, <1>2, <1>4, <1>5 DEF Staged

\* Every step keeps what each marker and each step of a deliverer says.
LEMMA NextStaged == ASSUME TypeOK, Staged, Next PROVE Staged'
<1>1. CASE StartCreate
  BY <1>1, CreateStaged
<1>2. CASE ~ StartCreate /\ job.type = "none"
  BY <1>2, UnbornStaged
<1>3. CASE job.type # "none"
  BY <1>3, Names, StartStaged, DispatchStaged, DeliveryStaged, FaultStaged, ClaimStaged,
     RunStaged, CallerStaged, FeedbackStaged, TimeStaged DEF Next
<1>4. QED BY <1>1, <1>2, <1>3

\* A delivery that is recorded as complete was made: the cleanup ran, and a
\* notification was stored for every job that has one, and for no other.  No
\* crash, repetition or unconditional save of start() undoes that.
THEOREM CompleteIsCleaned ==
  Spec => [](job.dispatch = "complete" =>
               cleaned /\ (note = "absent" <=> job.type = "execution"))
<1> DEFINE Goal == job.dispatch = "complete" =>
                     cleaned /\ (note = "absent" <=> job.type = "execution")
<1>1. Init => TypeOK /\ Staged
  BY InitType, InitStaged
<1>2. TypeOK /\ Staged /\ [Next]_vars => (TypeOK /\ Staged)'
  <2> SUFFICES ASSUME TypeOK, Staged, [Next]_vars PROVE TypeOK' /\ Staged'
    OBVIOUS
  <2>1. TypeOK'
    BY StepType
  <2>2. CASE Next
    BY <2>1, <2>2, NextStaged
  <2>3. CASE UNCHANGED vars
    BY <2>1, <2>3 DEF vars, domain, Staged, Stage, Done, Told, Fresh, Unborn
  <2>4. QED BY <2>2, <2>3
<1>3. Staged => Goal
  BY DEF Staged, Done, Told
<1>4. QED BY <1>1, <1>2, <1>3, PTL DEF Spec

-----------------------------------------------------------------------------
(* The last word to the user *)

\* Whoever is told of the job has its final notification.
Informed == job.type # "execution" => note = "final"

\* An autofill or a report refers to its notification from the start.
Noted(r) == r.type \in {"autofill", "report"} => r.noted

\* Whoever says that the user was told is right.
Informs ==
    /\ Noted(job) /\ (Says(job) => Informed)
    /\ \A p \in Actors : /\ Noted(mem[p])
                         /\ pc[p] \in Deliver /\ Says(mem[p]) => Informed
                         /\ pc[p] \in {"link", "notified", "release"} => Informed

\* The two messages that are written without a test of the job: the delayed feedback
\* and the one of a retry.
LateMessage == FeedbackWrite \/ \E w \in Workers : RetryNote(w)

\* Neither replaces a final notification.
Timely == LateMessage => note # "final"

\* A step of one actor keeps what it does not touch.
LEMMA InformsStep ==
  ASSUME TypeOK, Informs, NEW p \in Actors, OnlyMoves(p), Informed => Informed',
         Noted(job)', Noted(mem[p])', Says(job)' => Informed',
         pc'[p] \in Deliver /\ Says(mem[p])' => Informed',
         pc'[p] \in {"link", "notified", "release"} => Informed'
  PROVE  Informs'
<1>1. ASSUME NEW q \in Actors, q # p
      PROVE  /\ Noted(mem[q])'
             /\ pc'[q] \in Deliver /\ Says(mem[q])' => Informed'
             /\ pc'[q] \in {"link", "notified", "release"} => Informed'
  BY <1>1 DEF Informs, OnlyMoves, Noted, Says
<1>2. QED BY <1>1 DEF Informs

\* The steps outside the delivery.
LEMMA CarriesInforms ==
  ASSUME TypeOK, Informs, NEW p \in Actors, Carries(p), Informed => Informed'
  PROVE  Informs'
<1>1. /\ Noted(job)' /\ (Says(job)' => Says(job))
      /\ Alike(job, mem'[p]) => (Says(mem[p])' => Says(job))
  BY DEF Carries, Informs, Alike, Noted, Says
<1>2. Noted(mem[p])'
  BY DEF Carries, Informs, Alike, Noted
<1>3. CASE pc'[p] = pc[p] /\ mem'[p] = mem[p]
  BY <1>1, <1>2, <1>3, InformsStep DEF Carries, Informs, Says
<1>4. CASE ~ (pc'[p] = pc[p] /\ mem'[p] = mem[p])
  <2>1. /\ pc'[p] \in Deliver => Alike(job, mem'[p]) \/ ~ Says(mem'[p])
        /\ pc'[p] \in {"link", "notified", "release"} => Says(job)
    BY <1>4 DEF Carries
  <2>2. pc'[p] \in Deliver /\ Says(mem[p])' => Informed'
    BY <1>1, <2>1 DEF Informs, Says
  <2>3. QED BY <1>1, <1>2, <2>1, <2>2, InformsStep DEF Carries, Informs
<1>5. QED BY <1>3, <1>4

\* Before its first dispatch nobody delivers the job, so what start() stores may
\* call its notification pending again.
LEMMA SaveInforms ==
  ASSUME TypeOK, Sound, Staged, Opening, Informs, "start" \notin lost',
         pc["start"] \in Opens, OnlyMoves("start"), NEW r \in Record, BlindSave("start", r),
         r.type = mem["start"].type, r.noted = mem["start"].noted, r.marks = mem["start"].marks,
         r.dispatch # "complete", pc'["start"] \in {"started", "dispatching", "send"}
  PROVE  Informs'
<1> "start" \in Actors
  BY Names
<1>0. mem["start"] \in Record /\ job \in Record
  BY DEF TypeOK
<1>1. Seen(job) = mem["start"] /\ job' = r /\ mem'["start"] = Seen(r)
  BY DEF BlindSave, Touch, TypeOK
<1>2. job.status = "queued"
  BY <1>0, <1>1, SeenFields DEF Opening, Agree
<1>3. \A p \in Actors : pc[p] \notin Deliver
  BY <1>2 DEF Sound, Fits, Terminal
<1>4. r.marks = {} /\ Noted(r)
  BY DEF Staged, Fresh, Informs, Noted
<1>5. Noted(job)' /\ ~ Says(job')
  BY <1>1, <1>4 DEF Noted, Says
<1>6. Noted(mem'["start"])
  BY <1>1, <1>4, RecordsAlike DEF Noted
<1>7. ASSUME NEW p \in Actors
      PROVE  /\ Noted(mem[p])'
             /\ pc'[p] \notin Deliver /\ pc'[p] \notin {"link", "notified", "release"}
  <2>1. CASE p = "start"
    BY <1>6, <2>1 DEF Deliver, Noted
  <2>2. CASE p # "start"
    BY <1>3, <2>2 DEF OnlyMoves, Informs, Noted, Deliver
  <2>3. QED BY <2>1, <2>2
<1>8. QED BY <1>5, <1>7 DEF Informs

\* The steps of start.
LEMMA StartInforms ==
  ASSUME TypeOK, Sound, Staged, Opening, Informs, "start" \notin lost', Start
  PROVE  Informs'
<1> "start" \in Actors
  BY Names
<1>0. OnlyMoves("start") /\ mem["start"] \in Record /\ job \in Record
  BY OthersMove DEF TypeOK
<1>1. ASSUME NEW label, GoTo("start", label) PROVE pc'["start"] = label
  BY <1>1, GoToPc
<1>2. CASE StartCreate
  <2>1. Unborn
    BY <1>2 DEF StartCreate, Staged
  <2>2. PICK type \in Types : job' = Submitted(type) /\ Touch("start", job')
    BY <1>2 DEF StartCreate
  <2>3. job' \in Record /\ Noted(job') /\ ~ Says(job')
    <3> DEFINE r == Updated(Blank, [type |-> type, status |-> "queued", rev |-> 1])
    <3>1. r \in Record /\ r.type = type /\ r.marks = {} /\ r.dispatch = "pending"
      BY RecordAssumption DEF Updated, Blank, Record, Active, Dispatches
    <3>2. job' = Updated(r, [noted |-> NotifiedAtStart(r)]) /\ NotifiedAtStart(r) \in BOOLEAN
      BY <2>2 DEF Submitted, NotifiedAtStart
    <3>3. NotifiedAtStart(r) = (r.type \in {"autofill", "report"})
      BY DEF NotifiedAtStart
    <3> HIDE DEF r
    <3>4. job' \in Record
      BY <2>2, RecordAssumption, SubmittedFields
    <3>5. QED BY <3>1, <3>2, <3>3, <3>4 DEF Updated, Record, Noted, Says
  <2>4. mem'["start"] = Seen(job') /\ pc'["start"] = "save"
    BY <1>1, <1>2, <2>2 DEF StartCreate, Touch, TypeOK
  <2>5. Noted(mem'["start"])
    BY <2>3, <2>4, RecordsAlike DEF Noted
  <2>6. ASSUME NEW p \in Actors
        PROVE  Noted(mem[p])' /\ pc'[p] \notin Deliver
    <3>1. CASE p = "start"
      BY <2>4, <2>5, <3>1 DEF Deliver, Noted
    <3>2. CASE p # "start"
      <4>1. mem'[p] = Blank
            /\ pc'[p] \in {"idle", "scan", "done", "create", "cancel", "feedback"}
        BY <1>0, <2>1, <3>2 DEF OnlyMoves, Unborn
      <4>2. QED BY <4>1 DEF Deliver, Noted, Blank
    <3>3. QED BY <3>1, <3>2
  <2>7. QED BY <2>3, <2>6 DEF Informs, Noted, Deliver
<1>3. CASE StartSave
  <2>1. /\ pc["start"] \in Opens /\ BlindSave("start", mem["start"])
        /\ pc'["start"] = "started"
    BY <1>1, <1>3 DEF StartSave, Opens
  <2>2. mem["start"].dispatch # "complete"
    BY <2>1 DEF Staged, Fresh
  <2>3. QED BY <1>0, <2>1, <2>2, SaveInforms
<1>4. CASE StartStarted
  <2> DEFINE r == [mem["start"] EXCEPT !.started = TRUE, !.rev = @ + 1]
  <2>1. /\ r \in Record /\ r.type = mem["start"].type /\ r.noted = mem["start"].noted
        /\ r.marks = mem["start"].marks /\ r.dispatch = mem["start"].dispatch
    BY <1>0, StartRecords DEF Agree
  <2>2. /\ pc["start"] \in Opens /\ UNCHANGED note
        /\ \/ BlindSave("start", r) /\ pc'["start"] = "dispatching"
           \/ pc'["start"] = "failstart" /\ UNCHANGED <<job, mem>>
    BY <1>1, <1>4, Zenon DEF StartStarted, Opens, NoWrite, domain
  <2> HIDE DEF r
  <2>3. CASE BlindSave("start", r) /\ pc'["start"] = "dispatching"
    <3>1. r.dispatch # "complete"
      BY <2>1, <2>2 DEF Staged, Fresh
    <3>2. QED BY <1>0, <2>1, <2>2, <2>3, <3>1, SaveInforms
  <2>4. CASE pc'["start"] = "failstart" /\ UNCHANGED <<job, mem>>
    BY <1>0, <2>2, <2>4, InformsStep DEF Informs, Informed, Noted, Says, Deliver
  <2>5. QED BY <2>2, <2>3, <2>4
<1>5. CASE StartDispatching
  <2> DEFINE r == [mem["start"] EXCEPT !.dispatch = "dispatching", !.sent = "fresh",
                                       !.rev = @ + 1]
  <2>1. /\ r \in Record /\ r.type = mem["start"].type /\ r.noted = mem["start"].noted
        /\ r.marks = mem["start"].marks /\ r.dispatch = "dispatching"
    BY <1>0, StartRecords DEF Agree
  <2>2. /\ pc["start"] \in Opens /\ BlindSave("start", r) /\ pc'["start"] = "send"
    BY <1>1, <1>5 DEF StartDispatching, Opens
  <2> HIDE DEF r
  <2>3. QED BY <1>0, <2>1, <2>2, SaveInforms
<1>6. CASE StartFail \/ StartFailNote
  <2>1. /\ note' \in {note, "final"}
        /\ \/ job' = FailedStart(job) /\ UNCHANGED mem /\ pc'["start"] = "failnote"
           \/ Leave("start") /\ UNCHANGED job
    BY <1>1, <1>6 DEF StartFail, StartFailNote, NoWrite
  <2>2. Alike(job, job')
    BY <1>0, <2>1, RecordsAlike
  <2>3. Informed => Informed'
    BY <2>1, <2>2 DEF Informed, Alike
  <2>4. Carries("start")
    <3>1. CASE Leave("start")
      BY <2>2, <3>1, LeaveStage
    <3>2. CASE UNCHANGED mem /\ pc'["start"] = "failnote"
      <4>1. Alike(mem["start"], mem'["start"])
        BY <3>2 DEF Alike
      <4>2. QED BY <1>0, <2>2, <3>2, <4>1 DEF Carries, Deliver
    <3>3. QED BY <2>1, <3>1, <3>2
  <2>5. QED BY <2>3, <2>4, CarriesInforms
<1>7. QED BY <1>2, <1>3, <1>4, <1>5, <1>6 DEF Start

\* The steps of a delivery: the notification is final before its marker is stored.
LEMMA DeliveryInforms ==
  ASSUME TypeOK, Staged, Informs, NEW p \in Actors, Delivery(p)
  PROVE  Informs'
<1>0. /\ OnlyMoves(p) /\ pc[p] \in Deliver /\ job \in Record /\ mem[p] \in Record
      /\ {"failure", "cleanup", "notification"} \subseteq Marks
  BY DelivererMoves DEF Delivery, DeliverFailure, Cleanup, MarkCleanup, Notify,
     LinkNotification, MarkNotification, Release, Deliver, TypeOK, Marks
<1>1. /\ mem[p].type = job.type /\ Noted(mem[p]) /\ Noted(job)
      /\ Says(mem[p]) \/ Says(job) => Informed
      /\ pc[p] \in {"link", "notified", "release"} => Informed
  BY <1>0, DeliverBorn DEF Informs
<1>2. ASSUME NEW label, GoTo(p, label) PROVE pc'[p] = label
  BY <1>2, GoToPc
<1>3. ASSUME Leave(p), UNCHANGED <<job, note>> PROVE Informs'
  <2>1. Alike(job, job') /\ (Informed => Informed')
    BY <1>3 DEF Alike, Informed
  <2>2. QED BY <1>3, <2>1, LeaveStage, CarriesInforms
<1>4. ASSUME NEW mark \in Marks, SaveMark(p, mark), UNCHANGED note,
             mark = "notification" => Informed,
             pc'[p] \in {"link", "notified", "release"} => Informed
      PROVE  Informs'
  <2>1. PICK base \in {job, mem[p]} :
          /\ base.type = job.type /\ job'.type = job.type /\ job'.noted = base.noted
          /\ job'.dispatch = base.dispatch /\ job'.marks = mem[p].marks \cup {mark}
    BY <1>0, <1>4, MarkFields
  <2>2. /\ mem'[p].type = job.type /\ mem'[p].noted = mem[p].noted
        /\ mem'[p].dispatch = mem[p].dispatch /\ mem'[p].marks = mem[p].marks \cup {mark}
    BY <1>0, <1>4, MarkFields
  <2>3. Informed => Informed'
    BY <1>4, <2>1 DEF Informed
  <2>4. Noted(job)' /\ Noted(mem[p])'
    BY <1>1, <2>1, <2>2 DEF Noted
  <2>5. Says(job)' \/ Says(mem[p])' => Informed
    BY <1>1, <1>4, <2>1, <2>2 DEF Says
  <2>6. QED BY <1>0, <1>4, <2>3, <2>4, <2>5, InformsStep
<1>5. ASSUME UNCHANGED <<job, mem>>, Informed => Informed',
             pc'[p] \in {"link", "notified", "release"} => Informed'
      PROVE  Informs'
  BY <1>0, <1>1, <1>5, InformsStep DEF Noted, Says
<1>6. CASE DeliverFailure(p)
  <2>1. note' = note /\ (Entry(mem[p]) = "release" => Informed)
        /\ Entry(mem[p]) \notin {"link", "notified"}
    BY <1>1, <1>6 DEF DeliverFailure, domain, Entry, Says
  <2>2. CASE SaveMark(p, "failure") /\ GoTo(p, Entry(mem[p]))
    BY <1>0, <1>2, <1>4, <2>1, <2>2
  <2>3. CASE GoTo(p, Entry(mem[p])) /\ UNCHANGED <<mem, tasks>> /\ NoWrite
    BY <1>2, <1>5, <2>1, <2>3 DEF NoWrite, Informed
  <2>4. CASE MarksLost(p)
    BY <1>3, <2>1, <2>4 DEF MarksLost, ClaimLost
  <2>5. QED BY <1>6, <2>2, <2>3, <2>4 DEF DeliverFailure
<1>7. CASE Cleanup(p)
  BY <1>2, <1>5, <1>7 DEF Cleanup, NoWrite, Informed
<1>8. CASE MarkCleanup(p)
  <2>1. note' = note
    BY <1>8 DEF MarkCleanup, domain
  <2>2. CASE MarksLost(p)
    BY <1>3, <2>1, <2>2 DEF MarksLost, ClaimLost
  <2>3. CASE ~ MarksLost(p)
    <3>1. /\ SaveMark(p, "cleanup")
          /\ pc'[p] = IF "notification" \in mem[p].marks THEN "release" ELSE "notify"
      BY <1>2, <1>8, <2>3 DEF MarkCleanup
    <3>2. pc'[p] \in {"link", "notified", "release"} => Informed
      BY <1>1, <3>1 DEF Says
    <3>3. QED BY <1>0, <1>4, <2>1, <3>1, <3>2
  <2>4. QED BY <2>2, <2>3
<1>9. CASE Notify(p)
  <2>1. /\ UNCHANGED <<job, mem>>
        /\ note' = IF mem[p].noted \/ NotifiedAtEnd(mem[p]) THEN "final" ELSE note
    BY <1>9 DEF Notify, NoWrite
  <2>2. job.type \in {"none", "autofill", "report", "file", "execution"}
    BY <1>0 DEF Record, JobTypes
  <2>3. job.type # "none"
    BY <1>0, DeliverBorn
  <2>4. Informed'
    BY <1>1, <2>1, <2>2, <2>3 DEF Informed, NotifiedAtEnd, Noted
  <2>5. QED BY <1>5, <2>1, <2>4
<1>10. CASE LinkNotification(p)
  <2>1. note' = note /\ Informed
    BY <1>1, <1>10 DEF LinkNotification, domain
  <2>2. CASE MarksLost(p)
    BY <1>3, <2>1, <2>2 DEF MarksLost, ClaimLost
  <2>3. CASE ~ MarksLost(p)
    <3>1. SaveTerminal(p, [noted |-> TRUE])
      BY <1>10, <2>3 DEF LinkNotification
    <3>2. job'.type = job.type /\ job'.noted /\ mem'[p].type = job.type /\ mem'[p].noted
      BY <1>0, <3>1, LinkFields
    <3>3. Informed' /\ Noted(job)' /\ Noted(mem[p])'
      BY <2>1, <3>2 DEF Informed, Noted
    <3>4. QED BY <1>0, <3>3, InformsStep
  <2>4. QED BY <2>2, <2>3
<1>11. CASE MarkNotification(p)
  <2>1. note' = note /\ Informed
    BY <1>1, <1>11 DEF MarkNotification, domain
  <2>2. CASE MarksLost(p)
    BY <1>3, <2>1, <2>2 DEF MarksLost, ClaimLost
  <2>3. CASE ~ MarksLost(p)
    BY <1>0, <1>4, <1>11, <2>1, <2>3 DEF MarkNotification
  <2>4. QED BY <2>2, <2>3
<1>12. CASE Release(p)
  <2>1. note' = note /\ Informed
    BY <1>1, <1>12 DEF Release, domain
  <2>2. CASE ClaimLost(p)
    BY <1>3, <2>1, <2>2 DEF ClaimLost
  <2>3. CASE ~ ClaimLost(p)
    <3>1. job' = [Revoked(job) EXCEPT !.dispatch = "complete"] /\ Leave(p)
      BY <1>12, <2>3 DEF Release
    <3>2. job'.type = job.type /\ job'.noted = job.noted
      BY <1>0, <3>1 DEF Revoked, Updated, Record
    <3>3. Informed' /\ Noted(job)'
      BY <1>1, <2>1, <3>2 DEF Informed, Noted
    <3>4. Noted(mem[p])'
      BY <3>1 DEF Leave, TypeOK, Blank, Noted
    <3>5. QED BY <1>0, <3>3, <3>4, InformsStep
  <2>4. QED BY <2>2, <2>3
<1>13. QED BY <1>6, <1>7, <1>8, <1>9, <1>10, <1>11, <1>12 DEF Delivery

\* No other step takes a final notification back, if the late messages do not.
LEMMA OthersInform ==
  ASSUME TypeOK, Staged, Next, Timely,
         ~ Start, ~ \E p \in Actors : Delivery(p), job'.type = job.type
  PROVE  Informed => Informed'
<1>1. CASE \E w \in Workers : RetryNote(w)
  <2>1. PICK w \in Workers : RetryNote(w)
    BY <1>1
  <2>2. w \in Actors
    BY Names
  <2>3. mem[w].noted => job.type # "execution"
    BY <2>2 DEF Staged, Stage
  <2>4. QED BY <2>1, <2>3 DEF RetryNote, Timely, LateMessage, Informed
<1>2. CASE FeedbackWrite
  BY <1>2 DEF Timely, LateMessage, Informed
<1>3. CASE ~ (FeedbackWrite \/ \E w \in Workers : RetryNote(w))
  <2>1. note' = note
    BY <1>3, Zenon DEF Next, Dispatchers, Dispatch, Send, Confirm, Unconfirm, Crash, Claim, Run,
       Begin, Prepare, Check, ApplyFenced, ApplyUnfenced, Complete, Fail, Postpone, Enqueue,
       MarkSent, Unsent, Heartbeat, Abort, Cancel, Scan, Recover, FeedbackRead, Duplicate,
       Time, LeasePasses, WaitPasses, SentPasses, GracePasses, AgePasses, domain
  <2>2. QED BY <2>1 DEF Informed
<1>4. QED BY <1>1, <1>2, <1>3

\* Every step.
LEMMA NextInforms ==
  ASSUME TypeOK, Sound, Staged, Opening, Informs, "start" \notin lost', Next, Timely
  PROVE  Informs'
<1>1. CASE Start
  BY <1>1, StartInforms
<1>2. CASE \E p \in Actors : Delivery(p)
  BY <1>2, DeliveryInforms
<1>3. CASE ~ Start /\ ~ (\E p \in Actors : Delivery(p)) /\ job.type # "none"
  <2>1. \E p \in Actors : Carries(p)
    BY <1>3, Names, DispatchStaged, FaultStaged, ClaimStaged, RunStaged, CallerStaged,
       FeedbackStaged, TimeStaged DEF Next
  <2>2. job'.type = job.type
    BY <2>1 DEF Carries, Alike
  <2>3. Informed => Informed'
    BY <1>3, <2>2, OthersInform
  <2>4. QED BY <2>1, <2>3, CarriesInforms
<1>4. CASE ~ Start /\ job.type = "none"
  <2>1. ~ StartCreate
    BY <1>4 DEF Start
  <2>2. Unborn /\ Staged'
    BY <1>4, <2>1, UnbornStaged DEF Staged
  <2>3. UNCHANGED job /\ \A p \in Actors : mem'[p] = Blank /\ pc'[p] \notin Deliver
    BY <1>4, <2>1, <2>2, UnbornStays DEF Deliver
  <2>4. Noted(Blank)
    BY DEF Noted, Blank
  <2>5. ~ Says(job)
    BY <2>2 DEF Unborn, Says
  <2>6. Noted(job)' /\ ~ Says(job') /\ \A p \in Actors : Noted(mem[p])'
    BY <2>3, <2>4, <2>5 DEF Informs, Noted, Says
  <2>7. QED BY <2>3, <2>6 DEF Informs, Deliver
<1>5. QED BY <1>1, <1>2, <1>3, <1>4

\* A job whose delivery is recorded as complete was cleaned up, and its notification
\* is the final one: for every interleaving and fault in which neither the delayed
\* feedback nor a retry's message is saved over a final notification, and no save of
\* start() replaces a record it had not seen.  Those two messages test nothing of the
\* job when they are saved, and nothing else can take the last word back.
THEOREM CompleteInforms == Spec /\ [][Timely]_vars => []CompleteIsDelivered
<1> DEFINE Inv == /\ IInv /\ Opening /\ Staged
                  /\ "start" \notin lost => Informs
<1>1. Init => Inv
  <2> SUFFICES ASSUME Init PROVE Inv
    OBVIOUS
  <2>1. IInv /\ Staged
    BY InitSafe, InitStaged
  <2>2. job = Blank /\ pc["start"] = "create" /\ \A p \in Actors : mem[p] = Blank
    BY Names DEF Init
  <2>3. Unborn
    BY <2>1, <2>2 DEF Staged, Blank
  <2>4. Noted(Blank) /\ ~ Says(Blank)
    BY DEF Noted, Says, Blank
  <2>5. \A p \in Actors : pc[p] \notin Deliver
    BY <2>3 DEF Unborn, Deliver
  <2>6. Informs
    BY <2>2, <2>4, <2>5 DEF Informs, Deliver
  <2>7. QED BY <2>1, <2>2, <2>6 DEF Opening, Opens
<1>2. Inv /\ [Next]_vars /\ [Timely]_vars => Inv'
  <2> SUFFICES ASSUME Inv, [Next]_vars, [Timely]_vars PROVE Inv'
    OBVIOUS
  <2>1. IInv' /\ TypeOK
    BY StepSafe DEF IInv
  <2>2. CASE Next /\ Timely
    <3>1. Opening' /\ Staged'
      BY <2>1, <2>2, OpeningStep, NextStaged
    <3>2. "start" \notin lost' => Informs'
      BY <2>1, <2>2, LostGrows, NextInforms DEF IInv
    <3>3. QED BY <2>1, <3>1, <3>2
  <2>3. CASE UNCHANGED vars
    BY <2>1, <2>3 DEF vars, domain, Opening, Staged, Stage, Done, Told, Fresh, Unborn,
                      Informs, Informed, Noted, Says
  <2>4. QED BY <2>2, <2>3 DEF vars
<1>3. Inv => CompleteIsDelivered
  BY DEF Staged, Done, Told, Informs, Informed, Says, CompleteIsDelivered
<1>4. QED BY <1>1, <1>2, <1>3, PTL DEF Spec
=============================================================================
