------------------------ MODULE DeferredJobRefinement ------------------------
(***************************************************************************)
(* A job with a fenced change implements JobLifecycle, and success is        *)
(* recorded only for a change that was made.  Every step is one of four      *)
(* routes as the lifecycle sees them: the job is submitted, its change is    *)
(* committed, its outcome is decided, or the job rests, a step that may at    *)
(* most close a delivery.  Earned is what the invariant of Arbitrated lacks:  *)
(* whoever is about to record success, and still owns the job, has seen the   *)
(* change made.                                                             *)
(***************************************************************************)
EXTENDS DeferredJobProofs

\* A receipt, a recorded success and a step that will record it follow the change.
Earned ==
    /\ job.receipt => applied > 0
    /\ job.status = "succeeded" => applied > 0
    /\ \A w \in Workers : pc[w] = "complete" /\ job.token = w => applied > 0

\* Until it dispatches the job, start() remembers a queued one.
Opens   == {"save", "started", "dispatching"}
Opening == pc["start"] \in Opens => mem["start"].status = "queued"

\* A record that was never created has no type.
Untyped == job.status = "absent" => job.type = "none"

EInv == IInv /\ Opening /\ ("start" \notin lost => Earned /\ Untyped)

Submits == /\ job.status = "absent" /\ job'.status = "queued"
           /\ ~ job.receipt /\ ~ job'.receipt /\ applied = 0 /\ applied' = 0

Commits == /\ job'.status = job.status /\ job'.type = job.type /\ job.type # "none"
           /\ job.type \in {"autofill", "report"} => job.status = "running" /\ applied = 0
           /\ applied' > 0

Decides == /\ job.status \in Active /\ job'.status \in Terminal
           /\ job'.type = job.type /\ job'.receipt = job.receipt /\ applied' = applied
           /\ job'.status \in Withdrawn => ~ job.receipt
           /\ job'.status = "succeeded" => applied > 0
           /\ Delivered' => job'.status = "failed"

Rests == /\ job'.status = job.status \/ {job.status, job'.status} \subseteq Active
         /\ job'.type = job.type /\ job'.receipt = job.receipt /\ applied' = applied
         /\ Delivered => Delivered' \/ lost' # {}

Route == Submits \/ Commits \/ Decides \/ Rests

-----------------------------------------------------------------------------
\* No actor but p moves.
OnlyMoves(p) == \A q \in Actors : q # p => pc'[q] = pc[q] /\ mem'[q] = mem[q]

\* A worker's step moves that worker.
LEMMA WorkerMoves ==
  ASSUME TypeOK, NEW w \in Workers, Claim(w) \/ Run(w) \/ Heartbeat(w) \/ Abort(w)
  PROVE  OnlyMoves(w)
<1>1. pc' = pc \/ \E label : pc' = [pc EXCEPT ![w] = label]
  BY Zenon DEF Claim, Run, Begin, Prepare, Check, ApplyFenced, ApplyUnfenced, Complete, Fail,
               Postpone, Enqueue, MarkSent, Unsent, RetryNote, Erred, HandleError, Reported,
               ClaimLost, NoWrite, GoTo, Leave, Heartbeat, Abort
<1>2. \/ mem' = mem \/ \E m : mem' = [mem EXCEPT ![w] = m]
      \/ \E receipt : mem' = [mem EXCEPT ![w].receipt = receipt]
  BY Zenon DEF Claim, Run, Begin, Prepare, Check, ApplyFenced, ApplyUnfenced, Complete, Fail,
               Postpone, Enqueue, MarkSent, Unsent, RetryNote, Erred, ClaimLost, NoWrite,
               Leave, Touch, Persist, Heartbeat, Abort
<1>3. QED BY <1>1, <1>2 DEF OnlyMoves, TypeOK

\* A step of a delivery, or a crash, moves one actor.
LEMMA DelivererMoves ==
  ASSUME TypeOK, NEW p \in Actors, Delivery(p) \/ Crash(p)
  PROVE  OnlyMoves(p)
<1>1. pc' = pc \/ \E label : pc' = [pc EXCEPT ![p] = label]
  BY Zenon DEF Delivery, DeliverFailure, Cleanup, MarkCleanup, Notify, LinkNotification,
               MarkNotification, Release, MarksLost, ClaimLost, GoTo, Leave, Crash
<1>2. mem' = mem \/ \E m : mem' = [mem EXCEPT ![p] = m]
  BY Zenon DEF Delivery, DeliverFailure, Cleanup, MarkCleanup, Notify, LinkNotification,
               MarkNotification, Release, MarksLost, ClaimLost, GoTo, Leave, Crash,
               SaveMark, SaveTerminal, BlindSave, Persist, Touch
<1>3. QED BY <1>1, <1>2 DEF OnlyMoves, TypeOK

\* What start, a dispatch, a caller and the clock move.
LEMMA OthersMove ==
  ASSUME TypeOK
  PROVE  /\ Start => OnlyMoves("start")
         /\ \A p \in Dispatchers : Dispatch(p) => OnlyMoves(p) /\ p \in {"start", "reconcile"}
         /\ Cancel => OnlyMoves("cancel")
         /\ Scan \/ Recover => OnlyMoves("reconcile")
         /\ FeedbackRead \/ FeedbackWrite => OnlyMoves("feedback")
         /\ Duplicate \/ Time => UNCHANGED <<pc, mem>>
<1>a. ASSUME NEW p, pc' = pc \/ \E label : pc' = [pc EXCEPT ![p] = label],
             mem' = mem \/ \E m : mem' = [mem EXCEPT ![p] = m]
      PROVE  OnlyMoves(p)
  BY <1>a DEF OnlyMoves, TypeOK
<1>1. ASSUME Start PROVE OnlyMoves("start")
  <2>1. pc' = pc \/ \E label : pc' = [pc EXCEPT !["start"] = label]
    BY <1>1, Zenon DEF Start, StartCreate, StartSave, StartStarted, StartDispatching,
                       StartFail, StartFailNote, GoTo, Leave
  <2>2. mem' = mem \/ \E m : mem' = [mem EXCEPT !["start"] = m]
    BY <1>1, Zenon DEF Start, StartCreate, StartSave, StartStarted, StartDispatching,
                       StartFail, StartFailNote, Leave, BlindSave, Touch
  <2>3. QED BY <1>a, <2>1, <2>2
<1>2. ASSUME NEW p \in Dispatchers, Dispatch(p)
      PROVE  OnlyMoves(p) /\ p \in {"start", "reconcile"}
  <2>1. pc' = pc \/ \E label : pc' = [pc EXCEPT ![p] = label]
    BY <1>2, Zenon DEF Dispatch, Send, Confirm, Unconfirm, GoTo, Leave
  <2>2. mem' = mem \/ \E m : mem' = [mem EXCEPT ![p] = m]
    BY <1>2, Zenon DEF Dispatch, Send, Confirm, Unconfirm, Leave
  <2>3. QED BY <1>a, <2>1, <2>2 DEF Dispatchers
<1>3. ASSUME Cancel PROVE OnlyMoves("cancel")
  <2>1. pc' = pc \/ \E label : pc' = [pc EXCEPT !["cancel"] = label]
    BY <1>3, Zenon DEF Cancel, GoTo, Leave
  <2>2. mem' = mem \/ \E m : mem' = [mem EXCEPT !["cancel"] = m]
    BY <1>3, Zenon DEF Cancel, Leave, Touch
  <2>3. QED BY <1>a, <2>1, <2>2
<1>4. ASSUME Scan \/ Recover PROVE OnlyMoves("reconcile")
  <2>1. pc' = pc \/ \E label : pc' = [pc EXCEPT !["reconcile"] = label]
    BY <1>4, Zenon DEF Scan, Recover, GoTo, Leave
  <2>2. mem' = mem \/ \E m : mem' = [mem EXCEPT !["reconcile"] = m]
    BY <1>4, Zenon DEF Scan, Recover, Leave, Touch
  <2>3. QED BY <1>a, <2>1, <2>2
<1>5. ASSUME FeedbackRead \/ FeedbackWrite PROVE OnlyMoves("feedback")
  BY <1>5 DEF FeedbackRead, FeedbackWrite, GoTo, OnlyMoves, TypeOK
<1>6. ASSUME Duplicate \/ Time PROVE UNCHANGED <<pc, mem>>
  BY <1>6 DEF Duplicate, Time, LeasePasses, WaitPasses, SentPasses, GracePasses, AgePasses
<1>7. QED BY <1>1, <1>2, <1>3, <1>4, <1>5, <1>6

-----------------------------------------------------------------------------
\* A step of one actor that does not bring it to record success.
LEMMA EarnsOn ==
  ASSUME TypeOK, Earned, NEW p \in Actors,
         \A q \in Actors : q # p => pc'[q] = pc[q],
         pc'[p] = "complete" => applied' > 0,
         job'.token \in {job.token, NoToken, p}, applied > 0 => applied' > 0,
         job'.receipt => job.receipt \/ applied' > 0,
         job'.status = "succeeded" => job.status = "succeeded" \/ applied' > 0
  PROVE  Earned'
<1>1. ASSUME NEW w \in Workers, pc'[w] = "complete", job'.token = w PROVE applied' > 0
  <2>1. CASE w = p
    BY <1>1, <2>1
  <2>2. CASE w # p
    BY <1>1, <2>2, Names DEF Earned
  <2>3. QED BY <2>1, <2>2
<1>2. QED BY <1>1 DEF Earned

\* A step that keeps the outcome, the receipt and the change.
LEMMA KeptRests ==
  ASSUME TypeOK, Earned, NEW p \in Actors,
         \A q \in Actors : q # p => pc'[q] = pc[q], pc'[p] = "complete" => applied > 0,
         Kept, applied' = applied, Delivered => Delivered' \/ lost' # {}
  PROVE  Route /\ Earned'
<1>1. Rests
  BY DEF Rests, Kept
<1>2. Earned'
  BY EarnsOn DEF Kept
<1>3. QED BY <1>1, <1>2 DEF Route

\* A step that leaves every actor where it is.
LEMMA StillRests ==
  ASSUME TypeOK, Earned, Agree(job, job'), job'.dispatch = job.dispatch,
         UNCHANGED <<pc, applied>>
  PROVE  Route /\ Earned'
BY DEF Route, Rests, Earned, Agree, Delivered

\* An actor that leaves is not about to record anything.
LEMMA LeavePc ==
  ASSUME TypeOK, NEW p \in Actors, Leave(p)
  PROVE  pc'[p] # "complete" /\ \A q \in Actors : q # p => pc'[q] = pc[q]
BY DEF TypeOK, Leave, GoTo, Rest

\* An actor that gives up leaves the record alone.
LEMMA ClaimLostRests ==
  ASSUME TypeOK, Earned, NEW p \in Actors, ClaimLost(p), applied' = applied
  PROVE  Route /\ Earned'
<1>1. job' = job
  BY DEF ClaimLost
<1>2. QED BY <1>1, LeavePc, KeptRests DEF ClaimLost, Kept, Delivered

\* Where a step of one actor leads.
LEMMA GoToPc ==
  ASSUME TypeOK, NEW p \in Actors, NEW label, GoTo(p, label)
  PROVE  pc'[p] = label /\ \A q \in Actors : q # p => pc'[q] = pc[q]
BY DEF GoTo, TypeOK

\* The entities that start() saves after it stored the job.
LEMMA StartRecords ==
  ASSUME NEW r \in Record
  PROVE  LET begun == [r EXCEPT !.started = TRUE, !.rev = @ + 1]
             sent  == [r EXCEPT !.dispatch = "dispatching", !.sent = "fresh", !.rev = @ + 1]
         IN  /\ begun \in Record /\ Agree(r, begun) /\ begun.dispatch = r.dispatch
             /\ begun.marks = r.marks /\ begun.noted = r.noted
             /\ sent \in Record /\ Agree(r, sent) /\ sent.dispatch = "dispatching"
             /\ sent.marks = r.marks /\ sent.noted = r.noted
<1>1. r.rev + 1 \in Nat
  BY DEF Record
<1>2. [r EXCEPT !.started = TRUE, !.rev = @ + 1] \in Record
  BY <1>1 DEF Record
<1>3. [r EXCEPT !.dispatch = "dispatching", !.sent = "fresh", !.rev = @ + 1] \in Record
  BY <1>1 DEF Record, Dispatches
<1>4. QED BY <1>2, <1>3 DEF Record, Agree

-----------------------------------------------------------------------------
\* start: a save that replaces nothing unseen keeps the record, and a failed start
\* decides an undecided job at once.
LEMMA StartRoute ==
  ASSUME TypeOK, Sound, Earned, Opening, "start" \notin lost', Start
  PROVE  Route /\ Earned'
<1> "start" \in Actors
  BY Names
<1>0. job \in Record /\ mem["start"] \in Record
  BY DEF TypeOK
<1>a. ASSUME NEW r \in Record, BlindSave("start", r), Agree(mem["start"], r),
             pc["start"] \in Opens, NEW label, GoTo("start", label),
             label # "complete", applied' = applied
      PROVE  Route /\ Earned'
  <2>1. Seen(job) = mem["start"] /\ job' = r
    BY <1>a DEF BlindSave
  <2>2. Agree(job, mem["start"])
    BY <1>0, <2>1, SeenFields
  <2>3. Kept /\ job.status = "queued"
    BY <1>a, <2>1, <2>2 DEF Kept, Agree, Opening
  <2>4. QED BY <1>a, <2>3, GoToPc, KeptRests DEF Delivered, Terminal
<1>1. CASE StartCreate
  <2>1. PICK type \in Types : job' = Submitted(type)
    BY <1>1 DEF StartCreate
  <2>2. /\ job'.status = "queued" /\ job'.token = NoToken
        /\ job'.receipt = FALSE
    BY <2>1, RecordAssumption, SubmittedFields
  <2>3. job.status = "absent" /\ applied = 0 /\ applied' = 0 /\ ~ job.receipt
    BY <1>1 DEF StartCreate, Sound, Uncreated
  <2>4. pc'["start"] = "save" /\ \A q \in Actors : q # "start" => pc'[q] = pc[q]
    BY <1>1, GoToPc DEF StartCreate
  <2>5. Submits /\ Earned'
    BY <2>2, <2>3, <2>4, EarnsOn DEF Submits
  <2>6. QED BY <2>5 DEF Route
<1>2. CASE StartSave
  <2>1. Agree(mem["start"], mem["start"])
    BY DEF Agree
  <2>2. QED BY <1>0, <1>2, <1>a, <2>1 DEF StartSave, Opens
<1>3. CASE StartStarted
  <2> DEFINE r == [mem["start"] EXCEPT !.started = TRUE, !.rev = @ + 1]
  <2>1. r \in Record /\ Agree(mem["start"], r)
    BY <1>0, StartRecords
  <2> HIDE DEF r
  <2>3. pc["start"] \in Opens /\ UNCHANGED applied
    BY <1>3 DEF StartStarted, domain, Opens
  <2>4. CASE BlindSave("start", r) /\ GoTo("start", "dispatching")
    BY <1>a, <2>1, <2>3, <2>4
  <2>5. CASE GoTo("start", "failstart") /\ UNCHANGED <<mem, job>>
    BY <2>3, <2>5, GoToPc, KeptRests DEF Kept, Delivered
  <2>6. QED BY <1>3, <2>4, <2>5, Zenon DEF StartStarted, NoWrite, r
<1>4. CASE StartDispatching
  <2> DEFINE r == [mem["start"] EXCEPT !.dispatch = "dispatching", !.sent = "fresh",
                                       !.rev = @ + 1]
  <2>1. r \in Record /\ Agree(mem["start"], r)
    BY <1>0, StartRecords
  <2>3. BlindSave("start", r) /\ GoTo("start", "send") /\ UNCHANGED applied
        /\ pc["start"] \in Opens
    BY <1>4 DEF StartDispatching, domain, Opens
  <2> HIDE DEF r
  <2>4. QED BY <1>a, <2>1, <2>3
<1>5. CASE StartFail
  <2>1. UNCHANGED applied
    BY <1>5 DEF StartFail
  <2>2. CASE Cancellable(job)
    <3>1. job' = FailedStart(job) /\ GoTo("start", "failnote")
      BY <1>5, <2>2 DEF StartFail
    <3>2. /\ job'.status = "failed" /\ job'.token = NoToken
          /\ job'.type = job.type /\ job'.receipt = job.receipt
      BY <1>0, <3>1, FailedStartFields
    <3>3. Decides
      BY <2>1, <2>2, <3>2 DEF Decides, Cancellable, Terminal, Withdrawn
    <3>4. Earned'
      BY <2>1, <3>1, <3>2, GoToPc, EarnsOn
    <3>5. QED BY <3>3, <3>4 DEF Route
  <2>3. CASE Leave("start") /\ UNCHANGED job
    BY <2>1, <2>3, LeavePc, KeptRests DEF Kept, Delivered
  <2>4. QED BY <1>5, <2>2, <2>3 DEF StartFail
<1>6. CASE StartFailNote
  BY <1>6, LeavePc, KeptRests DEF StartFailNote, NoWrite, Kept, Delivered
<1>7. QED BY <1>1, <1>2, <1>3, <1>4, <1>5, <1>6 DEF Start

\* Sending and confirming a task touch the dispatch state of an undelivered job.
LEMMA DispatchRoute ==
  ASSUME TypeOK, Earned, NEW p \in Dispatchers, Dispatch(p)
  PROVE  Route /\ Earned'
<1>0. p \in Actors /\ job \in Record /\ UNCHANGED applied
  BY DEF Dispatchers, TypeOK, Dispatch, Send, Confirm, Unconfirm, domain
<1>1. Agree(job, job') /\ (job' = job \/ job.dispatch = "dispatching")
  <2>1. /\ Agree(job, [job EXCEPT !.dispatch = "dispatched"])
        /\ Agree(job, [job EXCEPT !.dispatch = "pending", !.sent = "none"])
    BY <1>0 DEF Agree, Record
  <2>2. \/ job' = job
        \/ /\ Unclaimed(p)
           /\ \/ job' = [job EXCEPT !.dispatch = "dispatched"]
              \/ job' = [job EXCEPT !.dispatch = "pending", !.sent = "none"]
    BY Zenon DEF Dispatch, Send, Confirm, Unconfirm, NoWrite
  <2>3. QED BY <2>1, <2>2 DEF Agree, Unclaimed
<1>2. pc'[p] # "complete" /\ \A q \in Actors : q # p => pc'[q] = pc[q]
  <2>1. CASE Leave(p)
    BY <1>0, <2>1, LeavePc
  <2>2. CASE ~ Leave(p)
    <3>1. PICK label \in {"confirm", "unconfirm", "disabled", "failstart"} : GoTo(p, label)
      BY <2>2 DEF Dispatch, Send, Confirm, Unconfirm
    <3>2. QED BY <1>0, <3>1, GoToPc
  <2>3. QED BY <2>1, <2>2
<1>3. Kept /\ (Delivered => job' = job)
  BY <1>1, AgreeIsKept DEF Delivered
<1>4. QED BY <1>0, <1>2, <1>3, KeptRests DEF Delivered

\* A delivery's save leaves the end of the delivery as it is, unless it replaces a
\* record that it had not seen.
LEMMA SaveTerminalDispatch ==
  ASSUME TypeOK, NEW p \in Actors, NEW updates, SaveTerminal(p, updates),
         "dispatch" \notin DOMAIN updates
  PROVE  job'.dispatch = job.dispatch \/ lost' # {}
<1> mem[p] \in Record /\ job \in Record
  BY DEF TypeOK
<1>1. \A r \in Record : Updated(r, updates).dispatch = r.dispatch
  BY DEF Updated, Record
<1>2. CASE mem[p].token = NoToken /\ Seen(job) = mem[p]
  <2>1. job' = Updated(mem[p], updates)
    BY <1>2 DEF SaveTerminal, BlindSave
  <2>2. mem[p].dispatch = job.dispatch
    BY <1>2 DEF Seen, Updated, Record
  <2>3. QED BY <1>1, <2>1, <2>2
<1>3. CASE mem[p].token = NoToken /\ Seen(job) # mem[p]
  BY <1>3 DEF SaveTerminal, BlindSave
<1>4. CASE mem[p].token # NoToken
  BY <1>1, <1>4 DEF SaveTerminal, Persist
<1>5. QED BY <1>2, <1>3, <1>4

\* A delivery leaves the outcome; its release closes it.
LEMMA DeliveryRoute ==
  ASSUME TypeOK, Sound, Earned, NEW p \in Actors, Delivery(p)
  PROVE  Route /\ Earned'
<1>0. job \in Record /\ pc[p] \in Deliver /\ UNCHANGED applied
  BY DEF TypeOK, Delivery, DeliverFailure, Cleanup, MarkCleanup, Notify, LinkNotification,
         MarkNotification, Release, Deliver, domain
<1>1. CASE ClaimLost(p)
  BY <1>0, <1>1, ClaimLostRests
<1>a. ASSUME NEW label \in Deliver, GoTo(p, label)
      PROVE  pc'[p] # "complete" /\ \A q \in Actors : q # p => pc'[q] = pc[q]
  BY <1>a, GoToPc DEF Deliver
<1>2. CASE job' = job /\ \E label \in Deliver : GoTo(p, label)
  BY <1>0, <1>2, <1>a, KeptRests DEF Kept, Delivered
<1>3. ASSUME NEW updates, SaveTerminal(p, updates), \E label \in Deliver : GoTo(p, label),
             \A r \in Record : Updated(r, updates) \in Record,
             {"status", "token", "type", "receipt", "dispatch"} \cap DOMAIN updates = {}
      PROVE  Route /\ Earned'
  <2>1. Agree(job, job') /\ (job'.dispatch = job.dispatch \/ lost' # {})
    BY <1>0, <1>3, SaveTerminalFields, SaveTerminalDispatch
  <2>2. QED BY <1>0, <1>3, <1>a, <2>1, AgreeIsKept, KeptRests DEF Delivered, Agree
<1>4. ASSUME NEW mark \in Marks, SaveMark(p, mark), \E label \in Deliver : GoTo(p, label)
      PROVE  Route /\ Earned'
  <2> DEFINE updates == [marks |-> mem[p].marks \cup {mark}]
  <2>1. mem[p].marks \cup {mark} \in SUBSET Marks
    BY DEF TypeOK, Record
  <2>2. \A r \in Record : Updated(r, updates) \in Record
    BY <2>1 DEF Updated, Record
  <2>3. SaveTerminal(p, updates) /\ DOMAIN updates = {"marks"}
    BY <1>4 DEF SaveMark
  <2> HIDE DEF updates
  <2>4. QED BY <1>3, <1>4, <2>2, <2>3
<1>5. CASE SaveTerminal(p, [noted |-> TRUE]) /\ GoTo(p, "notified")
  <2> DEFINE updates == [noted |-> TRUE]
  <2>1. (\A r \in Record : Updated(r, updates) \in Record) /\ DOMAIN updates = {"noted"}
    BY FlagTypes
  <2>2. SaveTerminal(p, updates) /\ "notified" \in Deliver
    BY <1>5 DEF Deliver
  <2> HIDE DEF updates
  <2>3. QED BY <1>3, <1>5, <2>1, <2>2
<1>6. CASE job' = [Revoked(job) EXCEPT !.dispatch = "complete"] /\ Leave(p)
  <2>1. Kept /\ job'.dispatch = "complete"
    BY <1>0, <1>6, RevokedFields DEF Kept, Record
  <2>2. QED BY <1>0, <1>6, <2>1, LeavePc, KeptRests DEF Delivered, Kept
<1>7. \/ ClaimLost(p)
      \/ job' = job /\ \E label \in Deliver : GoTo(p, label)
      \/ \E mark \in Marks, label \in Deliver : SaveMark(p, mark) /\ GoTo(p, label)
      \/ SaveTerminal(p, [noted |-> TRUE]) /\ GoTo(p, "notified")
      \/ job' = [Revoked(job) EXCEPT !.dispatch = "complete"] /\ Leave(p)
  <2>1. Marks = {"failure", "cleanup", "notification"} /\ Entry(mem[p]) \in Deliver
        /\ {"cleaned", "notify", "link", "notified", "release"} \subseteq Deliver
    BY EntryType DEF Marks, Deliver
  <2>2. CASE DeliverFailure(p)
    BY <2>1, <2>2, Zenon DEF DeliverFailure, MarksLost, NoWrite
  <2>3. CASE Cleanup(p)
    BY <2>1, <2>3 DEF Cleanup, NoWrite
  <2>4. CASE MarkCleanup(p)
    BY <2>1, <2>4 DEF MarkCleanup, MarksLost
  <2>5. CASE Notify(p)
    BY <2>1, <2>5 DEF Notify, NoWrite
  <2>6. CASE LinkNotification(p)
    BY <2>6 DEF LinkNotification, MarksLost
  <2>7. CASE MarkNotification(p)
    BY <2>1, <2>7 DEF MarkNotification, MarksLost
  <2>8. CASE Release(p)
    BY <2>8, Zenon DEF Release
  <2>9. QED BY <2>2, <2>3, <2>4, <2>5, <2>6, <2>7, <2>8 DEF Delivery
<1>8. QED BY <1>1, <1>2, <1>4, <1>5, <1>6, <1>7

-----------------------------------------------------------------------------
\* A claim passes an undecided job to a worker that has yet to begin.
LEMMA ClaimRoute ==
  ASSUME TypeOK, Earned, NEW w \in Workers, Claim(w)
  PROVE  Route /\ Earned'
<1> USE Names
<1>0. job \in Record /\ UNCHANGED applied
  BY DEF TypeOK, Claim, domain
<1>1. CASE Claimable(job) /\ job' = Claimed(job, w, MaxAttempts) /\ GoTo(w, "begin")
  <2>1. MaxAttempts \in Nat
    BY ParametersAssumption
  <2>2. /\ job'.status = "running" /\ job'.token = w
        /\ job'.type = job.type /\ job'.receipt = job.receipt
    BY <1>0, <1>1, <2>1, ClaimedFields
  <2>3. Rests
    BY <1>0, <1>1, <2>2 DEF Rests, Claimable, Active, Delivered, Terminal
  <2>4. Earned'
    BY <1>0, <1>1, <2>2, GoToPc, EarnsOn
  <2>5. QED BY <2>3, <2>4 DEF Route
<1>2. CASE GoTo(w, Entry(job)) /\ job' = job
  <2>1. Entry(job) # "complete"
    BY DEF Entry
  <2>2. QED BY <1>0, <1>2, <2>1, GoToPc, KeptRests DEF Kept, Delivered
<1>3. CASE UNCHANGED <<job, pc>>
  BY <1>0, <1>3, StillRests DEF Agree
<1>4. QED BY <1>1, <1>2, <1>3, Zenon DEF Claim

\* A worker that goes on with an undecided job, or that writes nothing.
LEMMA WorkRests ==
  ASSUME TypeOK, Sound, Earned, NEW w \in Workers, Working(w),
         NEW label, GoTo(w, label), label = "complete" => applied > 0,
         Owns(w) \/ job' = job, Kept, applied' = applied
  PROVE  Route /\ Earned'
<1>1. w \in Actors
  BY Names
<1>2. Owns(w) => ~ Delivered
  BY Names DEF Sound, Fits, Owns, Delivered, Terminal
<1>3. QED BY <1>1, <1>2, GoToPc, KeptRests DEF Delivered

\* An error leads to a retry or to a failure.
LEMMA ErredRests ==
  ASSUME TypeOK, Sound, Earned, NEW w \in Workers, pc[w] \in Attempt, Erred(w),
         applied' = applied
  PROVE  Route /\ Earned'
<1>1. PICK label \in {"retry", "fail"} : GoTo(w, label)
  BY DEF Erred, HandleError
<1>2. Working(w) /\ job' = job
  BY DEF Erred, NoWrite, Working
<1>3. QED BY <1>1, <1>2, WorkRests DEF Kept

\* A guarded write by a worker that names no outcome.
LEMMA PersistRests ==
  ASSUME TypeOK, Sound, Earned, NEW w \in Workers, Working(w), NEW updates, Persist(w, updates),
         \A r \in Record : Updated(r, updates) \in Record,
         {"status", "token", "type", "receipt"} \cap DOMAIN updates = {},
         NEW label, GoTo(w, label), label = "complete" => applied > 0, applied' = applied
  PROVE  Route /\ Earned'
<1>1. w \in Actors /\ Owns(w)
  BY Names DEF Persist
<1>2. Kept
  BY <1>1, PersistFields DEF Kept
<1>3. QED BY <1>1, <1>2, WorkRests

\* A worker with the receipt in memory goes on to record success.
LEMMA BeginRoute ==
  ASSUME TypeOK, Sound, Earned, NEW w \in Workers, Begin(w)
  PROVE  Route /\ Earned'
<1>0. /\ Raised(w) \in Nat /\ pc[w] \in Attempt /\ Working(w) /\ w \in Actors
      /\ UNCHANGED applied
  BY Names DEF TypeOK, Record, Raised, Begin, Working, Attempt, domain
<1>1. CASE ClaimLost(w)
  BY <1>0, <1>1, ClaimLostRests
<1>2. CASE ~ ClaimLost(w)
  <2> DEFINE plain  == [dispatch |-> "claimed"]
             beat   == [dispatch |-> "claimed", lease |-> "live"]
             opened == [dispatch |-> "claimed", lease |-> "live",
                        started |-> TRUE, rev |-> Raised(w)]
             Names4 == {"status", "token", "type", "receipt"}
  <2>1. /\ \A r \in Record : Updated(r, plain) \in Record
        /\ Names4 \cap DOMAIN plain = {}
    BY DEF Updated, Record, Dispatches
  <2>2. /\ \A r \in Record : Updated(r, beat) \in Record
        /\ Names4 \cap DOMAIN beat = {}
    BY DEF Updated, Record, Dispatches
  <2>3. /\ \A r \in Record : Updated(r, opened) \in Record
        /\ Names4 \cap DOMAIN opened = {}
    BY <1>0, FlagTypes
  <2>a. Persist(w, plain) \/ Persist(w, IF mem[w].started THEN beat ELSE opened)
    BY <1>2, Zenon DEF Begin
  <2> HIDE DEF plain, beat, opened
  <2>4. PICK updates : /\ Persist(w, updates)
                       /\ \A r \in Record : Updated(r, updates) \in Record
                       /\ Names4 \cap DOMAIN updates = {}
    BY <2>1, <2>2, <2>3, <2>a
  <2>5. PICK label \in {"complete", "fail", "prepare"} :
          GoTo(w, label) /\ (label = "complete" => mem[w].receipt)
    BY <1>2 DEF Begin
  <2>6. mem[w].receipt = job.receipt
    BY <1>0, <2>4, OwnerRuns DEF Persist
  <2>7. QED BY <1>0, <2>4, <2>5, <2>6, PersistRests DEF Earned
<1>3. QED BY <1>1, <1>2

\* Preparation does not lead to completion.
LEMMA PrepareRoute ==
  ASSUME TypeOK, Sound, Earned, NEW w \in Workers, Prepare(w)
  PROVE  Route /\ Earned'
<1>0. /\ Raised(w) \in Nat /\ pc[w] \in Attempt /\ Working(w) /\ w \in Actors
      /\ UNCHANGED applied
  BY Names DEF TypeOK, Record, Raised, Prepare, Working, Attempt, domain
<1>1. CASE ClaimLost(w)
  BY <1>0, <1>1, ClaimLostRests
<1>2. CASE Erred(w)
  BY <1>0, <1>2, ErredRests
<1>3. CASE Persist(w, [ready |-> TRUE, rev |-> Raised(w)]) /\ GoTo(w, "check")
  <2> DEFINE updates == [ready |-> TRUE, rev |-> Raised(w)]
  <2>1. /\ \A r \in Record : Updated(r, updates) \in Record
        /\ DOMAIN updates = {"ready", "rev"} /\ Persist(w, updates)
    BY <1>0, <1>3, FlagTypes
  <2> HIDE DEF updates
  <2>2. QED BY <1>0, <1>3, <2>1, PersistRests
<1>4. CASE GoTo(w, "check") /\ UNCHANGED <<mem, tasks>> /\ NoWrite
  BY <1>0, <1>4, WorkRests DEF NoWrite, Kept
<1>5. QED BY <1>1, <1>2, <1>3, <1>4 DEF Prepare

\* A worker that finds the change made goes on to record success.
LEMMA CheckRoute ==
  ASSUME TypeOK, Sound, Earned, NEW w \in Workers, Check(w)
  PROVE  Route /\ Earned'
<1>0. /\ Raised(w) \in Nat /\ pc[w] \in Attempt /\ Working(w) /\ w \in Actors
      /\ UNCHANGED applied
  BY Names DEF TypeOK, Record, Raised, Check, Working, Attempt, domain
<1>1. CASE ClaimLost(w)
  BY <1>0, <1>1, ClaimLostRests
<1>2. CASE Erred(w)
  BY <1>0, <1>2, ErredRests
<1>3. CASE Inspected(w) /\ Owns(w) /\ GoTo(w, "complete") /\ UNCHANGED mem /\ NoWrite
  <2>1. mem[w].receipt = job.receipt
    BY <1>0, <1>3, OwnerRuns
  <2>2. applied > 0
    BY <1>3, <2>1 DEF Inspected, Earned
  <2>3. QED BY <1>0, <1>3, <2>2, WorkRests DEF NoWrite, Kept
<1>4. CASE Persist(w, [rev |-> Raised(w)]) /\ GoTo(w, "apply")
  <2> DEFINE updates == [rev |-> Raised(w)]
  <2>1. /\ \A r \in Record : Updated(r, updates) \in Record
        /\ DOMAIN updates = {"rev"} /\ Persist(w, updates)
    BY <1>0, <1>4 DEF Updated, Record
  <2> HIDE DEF updates
  <2>2. QED BY <1>0, <1>4, <2>1, PersistRests
<1>5. QED BY <1>1, <1>2, <1>3, <1>4 DEF Check

\* The fenced change is the lifecycle's commit.
LEMMA ApplyFencedRoute ==
  ASSUME TypeOK, Sound, Earned, NEW w \in Workers, ApplyFenced(w)
  PROVE  Route /\ Earned'
<1>0. /\ pc[w] = "apply" /\ pc[w] \in Attempt /\ Working(w) /\ w \in Actors
      /\ mem[w].type \in {"autofill", "report"} /\ job \in Record /\ applied \in 0..2
  BY Names DEF TypeOK, ApplyFenced, Working, Attempt
<1>1. CASE ClaimLost(w) /\ UNCHANGED <<applied, late, faults>>
  BY <1>0, <1>1, ClaimLostRests
<1>2. CASE Erred(w) /\ UNCHANGED <<applied, late, faults>>
  BY <1>0, <1>2, ErredRests
<1>3. CASE Owns(w) /\ job.receipt /\ GoTo(w, "complete") /\ UNCHANGED <<mem, applied, late>> /\ NoWrite
  BY <1>0, <1>3, WorkRests DEF NoWrite, Kept, Earned
<1> DEFINE receipt == mem[w].type = "autofill"
<1>4. CASE Fence(w) /\ Mutate(w) /\ Reported(w) /\ job' = [job EXCEPT !.receipt = receipt]
  <2>1. /\ job.status = "running" /\ job.token = w /\ ~ job.receipt
        /\ mem[w].type = job.type /\ (job.type = "report" => applied = 0)
    BY <1>0, <1>4, OwnerRuns DEF Fence
  <2>2. applied = 0 /\ applied' = 1
    <3>1. applied = 0
      BY <1>0, <2>1 DEF Sound, Changed
    <3>2. QED BY <1>4, <3>1 DEF Mutate
  <2>3. /\ job'.status = job.status /\ job'.type = job.type
        /\ job'.token = job.token
    BY <1>0, <1>4 DEF Record
  <2>4. Commits
    BY <1>0, <2>1, <2>2, <2>3 DEF Commits
  <2>5. PICK label : GoTo(w, label)
    BY <1>4, ReportedLabel
  <2>6. Earned'
    BY <1>0, <2>2, <2>3, <2>5, GoToPc, EarnsOn
  <2>7. QED BY <2>4, <2>6 DEF Route
<1>5. QED BY <1>1, <1>2, <1>3, <1>4, Zenon DEF ApplyFenced

\* The unfenced change of a file or a ledger.
LEMMA ApplyUnfencedRoute ==
  ASSUME TypeOK, Sound, Earned, NEW w \in Workers, ApplyUnfenced(w)
  PROVE  Route /\ Earned'
<1>0. /\ pc[w] = "apply" /\ pc[w] \in Attempt /\ Working(w) /\ w \in Actors
      /\ mem[w].type \in {"file", "execution"} /\ job \in Record /\ applied \in 0..2
  BY Names DEF TypeOK, ApplyUnfenced, Working, Attempt
<1>1. CASE ClaimLost(w) /\ UNCHANGED <<applied, late, faults>>
  BY <1>0, <1>1, ClaimLostRests
<1>2. CASE Erred(w) /\ UNCHANGED <<applied, late, faults>>
  BY <1>0, <1>2, ErredRests
<1>3. CASE GoTo(w, "wait") /\ UNCHANGED <<mem, tasks, applied, late, faults>> /\ NoWrite
  BY <1>0, <1>3, WorkRests DEF NoWrite, Kept
<1>4. CASE Mutate(w) /\ Reported(w) /\ NoWrite
  <2>1. applied' > 0 /\ job' = job
    BY <1>0, <1>4 DEF Mutate, NoWrite
  <2>2. job.type \in {"file", "execution"}
    BY <1>0 DEF Sound, Fits
  <2>3. PICK label : GoTo(w, label)
    BY <1>4, ReportedLabel
  <2>4. Earned'
    BY <1>0, <2>1, <2>3, GoToPc, EarnsOn
  <2>5. QED BY <2>1, <2>2, <2>4 DEF Route, Commits
<1>5. QED BY <1>1, <1>2, <1>3, <1>4 DEF ApplyUnfenced

\* The owner of a running job decides it; success follows the change.
LEMMA OutcomeRoute ==
  ASSUME TypeOK, Sound, Earned, NEW w \in Workers, Complete(w) \/ Fail(w)
  PROVE  Route /\ Earned'
<1>0. /\ Raised(w) \in Nat /\ pc[w] \in Attempt \cup {"fail"} /\ w \in Actors
      /\ job \in Record /\ UNCHANGED applied
  BY Names DEF TypeOK, Record, Raised, Complete, Fail, Attempt, domain
<1>1. CASE ClaimLost(w)
  BY <1>0, <1>1, ClaimLostRests
<1>a. ASSUME NEW updates, Persist(w, updates), GoTo(w, "cleanup"),
             \A r \in Record : Updated(r, updates) \in Record,
             {"token", "type", "receipt"} \cap DOMAIN updates = {},
             {"status", "dispatch"} \subseteq DOMAIN updates,
             updates.status \in {"succeeded", "failed"},
             updates.dispatch = "delivery_pending",
             updates.status = "succeeded" => pc[w] = "complete"
      PROVE  Route /\ Earned'
  <2>1. job.status = "running" /\ job.token = w
    BY <1>0, <1>a, OwnerRuns DEF Persist
  <2>2. /\ job'.status = updates.status /\ job'.token = job.token
        /\ job'.type = job.type /\ job'.receipt = job.receipt
    BY <1>0, <1>a, PersistFields
  <2>3. job'.dispatch = "delivery_pending"
    BY <1>0, <1>a DEF Persist, Updated, Record
  <2>4. job'.status = "succeeded" => applied > 0
    BY <1>a, <2>1, <2>2 DEF Earned
  <2>5. Decides
    BY <1>0, <1>a, <2>1, <2>2, <2>3, <2>4
       DEF Decides, Active, Terminal, Withdrawn, Delivered
  <2>6. Earned'
    BY <1>0, <1>a, <2>2, <2>4, GoToPc, EarnsOn
  <2>7. QED BY <2>5, <2>6 DEF Route
<1> DEFINE success == [status |-> "succeeded", marks |-> {},
                       dispatch |-> "delivery_pending", rev |-> Raised(w)]
           failure == [status |-> "failed", marks |-> {"failure"},
                       dispatch |-> "delivery_pending", rev |-> Raised(w)]
<1>2. CASE pc[w] = "complete" /\ Persist(w, success) /\ GoTo(w, "cleanup")
  <2>1. /\ \A r \in Record : Updated(r, success) \in Record
        /\ DOMAIN success = {"status", "marks", "dispatch", "rev"}
        /\ success.status = "succeeded" /\ success.dispatch = "delivery_pending"
    BY <1>0 DEF Updated, Record, Terminal, Dispatches
  <2> HIDE DEF success
  <2>2. QED BY <1>2, <1>a, <2>1
<1>3. CASE Persist(w, failure) /\ GoTo(w, "cleanup")
  <2>1. /\ \A r \in Record : Updated(r, failure) \in Record
        /\ DOMAIN failure = {"status", "marks", "dispatch", "rev"}
        /\ failure.status = "failed" /\ failure.dispatch = "delivery_pending"
    BY <1>0 DEF Updated, Record, Terminal, Dispatches, Marks
  <2> HIDE DEF failure
  <2>2. QED BY <1>3, <1>a, <2>1
<1>4. QED BY <1>1, <1>2, <1>3, Zenon DEF Complete, Fail

\* A job that is put off stays open.
LEMMA PostponeRoute ==
  ASSUME TypeOK, Sound, Earned, NEW w \in Workers, Postpone(w)
  PROVE  Route /\ Earned'
<1>0. /\ Raised(w) \in Nat /\ mem[w].waits \in Nat /\ pc[w] \in {"retry", "wait"}
      /\ w \in Actors /\ UNCHANGED applied
  BY Names DEF TypeOK, Record, Raised, Postpone, domain
<1> DEFINE waits   == mem[w].waits + IF pc[w] = "wait" THEN 1 ELSE 0
           updates == [status |-> "retry_wait", dispatch |-> "pending", wait |-> "later",
                       lease |-> "lapsed", rev |-> Raised(w), waits |-> waits]
<1>1. CASE ClaimLost(w)
  BY <1>0, <1>1, ClaimLostRests
<1>2. CASE Persist(w, updates) /\ GoTo(w, "enqueue")
  <2>1. waits \in Nat
    BY <1>0
  <2> HIDE DEF waits
  <2>2. /\ \A r \in Record : Updated(r, updates) \in Record
        /\ DOMAIN updates = {"status", "dispatch", "wait", "lease", "rev", "waits"}
        /\ updates.status = "retry_wait"
    BY <1>0, <2>1 DEF Updated, Record, Active, Dispatches
  <2> HIDE DEF updates
  <2>3. /\ job'.status = "retry_wait" /\ job'.token = job.token
        /\ job'.type = job.type /\ job'.receipt = job.receipt
    BY <1>0, <1>2, <2>2, PersistFields
  <2>4. job.status = "running"
    BY <1>0, <1>2, OwnerRuns DEF Persist
  <2>5. Rests
    BY <1>0, <2>3, <2>4 DEF Rests, Active, Delivered, Terminal
  <2>6. Earned'
    BY <1>0, <1>2, <2>3, GoToPc, EarnsOn
  <2>7. QED BY <2>5, <2>6 DEF Route
<1>3. QED BY <1>1, <1>2, Zenon DEF Postpone

\* The steps that put the job off leave it open.
LEMMA RequeueRoute ==
  ASSUME TypeOK, Sound, Earned, NEW w \in Workers,
         Enqueue(w) \/ MarkSent(w) \/ Unsent(w) \/ RetryNote(w)
  PROVE  Route /\ Earned'
<1>0. /\ Raised(w) \in Nat /\ pc[w] \in Requeue /\ Working(w) /\ job \in Record
      /\ w \in Actors /\ UNCHANGED applied
  BY Names DEF TypeOK, Record, Raised, Working, Enqueue, MarkSent, Unsent, RetryNote,
               Requeue, domain
<1>1. CASE ClaimLost(w)
  BY <1>0, <1>1, ClaimLostRests
<1>2. CASE (GoTo(w, "mark") \/ GoTo(w, "unsent")) /\ UNCHANGED mem /\ NoWrite
  BY <1>0, <1>2, WorkRests DEF Kept, NoWrite
<1>3. CASE Persist(w, [dispatch |-> "dispatched", sent |-> "fresh", rev |-> Raised(w)])
           /\ GoTo(w, "renote")
  <2> DEFINE updates == [dispatch |-> "dispatched", sent |-> "fresh", rev |-> Raised(w)]
  <2>1. /\ \A r \in Record : Updated(r, updates) \in Record
        /\ DOMAIN updates = {"dispatch", "sent", "rev"} /\ Persist(w, updates)
    BY <1>0, <1>3 DEF Updated, Record, Dispatches
  <2> HIDE DEF updates
  <2>2. QED BY <1>0, <1>3, <2>1, PersistRests
<1>4. CASE Leave(w) /\ job' = [job EXCEPT !.wait = "due", !.lease = "lapsed"]
  <2>1. Kept /\ job'.dispatch = job.dispatch
    BY <1>0, <1>4 DEF Kept, Record
  <2>2. QED BY <1>0, <1>4, <2>1, LeavePc, KeptRests DEF Delivered, Kept
<1>5. CASE Leave(w) /\ NoWrite
  BY <1>0, <1>5, LeavePc, KeptRests DEF Kept, Delivered, NoWrite
<1>6. QED BY <1>1, <1>2, <1>3, <1>4, <1>5, Zenon DEF Enqueue, MarkSent, Unsent, RetryNote

\* Every step of a worker's run is a route.
LEMMA RunRoute ==
  ASSUME TypeOK, Sound, Earned, NEW w \in Workers, Run(w)
  PROVE  Route /\ Earned'
BY BeginRoute, PrepareRoute, CheckRoute, ApplyFencedRoute, ApplyUnfencedRoute,
   OutcomeRoute, PostponeRoute, RequeueRoute DEF Run

-----------------------------------------------------------------------------
\* A heartbeat, an aborted attempt and a crash leave the outcome.
LEMMA FaultRoute ==
  ASSUME TypeOK, Earned, NEW p \in Actors,
         Crash(p) \/ (p \in Workers /\ (Heartbeat(p) \/ Abort(p)))
  PROVE  Route /\ Earned'
<1>0. job \in Record /\ UNCHANGED applied
  BY DEF TypeOK, Crash, Heartbeat, Abort, domain
<1>1. CASE Crash(p)
  BY <1>0, <1>1, LeavePc, KeptRests DEF Crash, NoWrite, Kept, Delivered
<1>2. CASE Heartbeat(p)
  <2>1. Agree(job, job') /\ job'.dispatch = job.dispatch
    BY <1>0, <1>2 DEF Heartbeat, Agree, Record
  <2>2. QED BY <1>0, <1>2, <2>1, StillRests DEF Heartbeat
<1>3. CASE Abort(p)
  <2>1. Kept /\ job'.dispatch = job.dispatch
    BY <1>0, <1>3 DEF Abort, Kept, Record
  <2>2. QED BY <1>0, <1>3, <2>1, LeavePc, KeptRests DEF Abort, Kept, Delivered
<1>4. QED BY <1>1, <1>2, <1>3

\* A tombstone decides an active job that has no receipt.
LEMMA TombstoneDecides ==
  ASSUME TypeOK, Earned, NEW p \in Actors, NEW outcome \in Terminal \ {"succeeded"},
         Cancellable(job), job' = Tombstone(job, outcome), GoTo(p, "stale"),
         applied' = applied
  PROVE  Route /\ Earned'
<1>1. /\ job'.status = outcome /\ job'.token = NoToken
      /\ job'.type = job.type /\ job'.receipt = job.receipt
  BY TombstoneFields DEF TypeOK
<1>2. job'.dispatch = "delivery_pending"
  BY DEF Tombstone, Revoked, Updated, TypeOK, Record
<1>3. Decides
  BY <1>1, <1>2 DEF Decides, Cancellable, Delivered
<1>4. Earned'
  BY <1>1, GoToPc, EarnsOn
<1>5. QED BY <1>3, <1>4 DEF Route

\* A cancellation withdraws the job or finds it decided.
LEMMA CancelRoute == ASSUME TypeOK, Earned, Cancel PROVE Route /\ Earned'
<1>0. "cancel" \in Actors /\ UNCHANGED applied
  BY DEF Cancel, Actors, domain
<1>1. CASE Cancellable(job)
  <2>1. PICK outcome \in Withdrawn : job' = Tombstone(job, outcome)
    BY <1>1 DEF Cancel
  <2>2. outcome \in Terminal \ {"succeeded"} /\ GoTo("cancel", "stale")
    BY <1>1 DEF Withdrawn, Terminal, Cancel
  <2>3. QED BY <1>0, <1>1, <2>1, <2>2, TombstoneDecides
<1>2. CASE ~ Cancellable(job)
  BY <1>0, <1>2, LeavePc, KeptRests DEF Cancel, Kept, Delivered
<1>3. QED BY <1>1, <1>2

\* The reconciler fails an over-age job, or leaves every outcome.
LEMMA ReconcileRoute == ASSUME TypeOK, Earned, Scan \/ Recover PROVE Route /\ Earned'
<1>0. "reconcile" \in Actors /\ job \in Record /\ UNCHANGED applied
  BY DEF Scan, Recover, Actors, TypeOK, domain
<1>1. CASE Scan
  <2>1. job' = job /\ (pc' = pc \/ GoTo("reconcile", "recover") \/ GoTo("reconcile", "stale"))
    BY <1>1 DEF Scan
  <2>2. CASE pc' = pc
    BY <1>0, <2>1, <2>2, StillRests DEF Agree
  <2>3. QED BY <1>0, <2>1, <2>2, GoToPc, KeptRests DEF Kept, Delivered
<1>2. CASE Recover
  <2>1. \/ /\ Cancellable(job) /\ job' = Tombstone(job, "failed")
           /\ GoTo("reconcile", "stale")
        \/ /\ job.status \in Active
           /\ job' = Redispatched(job) /\ GoTo("reconcile", "send")
        \/ Leave("reconcile") /\ job' = job
    BY <1>2, Zenon DEF Recover, Cancellable
  <2>2. CASE Cancellable(job) /\ job' = Tombstone(job, "failed") /\ GoTo("reconcile", "stale")
    <3>1. "failed" \in Terminal \ {"succeeded"}
      BY DEF Terminal
    <3>2. QED BY <1>0, <2>2, <3>1, TombstoneDecides
  <2>3. CASE job.status \in Active /\ job' = Redispatched(job) /\ GoTo("reconcile", "send")
    <3>1. Kept
      BY <1>0, <2>3, RedispatchedFields, AgreeIsKept
    <3>2. ~ Delivered
      BY <2>3 DEF Delivered, Active, Terminal
    <3>3. QED BY <1>0, <2>3, <3>1, <3>2, GoToPc, KeptRests
  <2>4. CASE Leave("reconcile") /\ job' = job
    BY <1>0, <2>4, LeavePc, KeptRests DEF Kept, Delivered
  <2>5. QED BY <2>1, <2>2, <2>3, <2>4
<1>3. QED BY <1>1, <1>2

\* The delayed message leaves the record.
LEMMA FeedbackRoute ==
  ASSUME TypeOK, Earned, FeedbackRead \/ FeedbackWrite PROVE Route /\ Earned'
<1>1. "feedback" \in Actors /\ UNCHANGED <<job, applied>>
  BY DEF FeedbackRead, FeedbackWrite, Actors, NoWrite, domain
<1>2. PICK label \in {"remind", "done"} : GoTo("feedback", label)
  BY DEF FeedbackRead, FeedbackWrite
<1>3. QED BY <1>1, <1>2, GoToPc, KeptRests DEF Kept, Delivered

\* A repeated delivery and the clock leave the outcome and every actor.
LEMMA TimeRoute == ASSUME TypeOK, Earned, Duplicate \/ Time PROVE Route /\ Earned'
<1>1. UNCHANGED <<pc, applied>> /\ job \in Record
  BY DEF Duplicate, Time, LeasePasses, WaitPasses, SentPasses, GracePasses, AgePasses,
         domain, TypeOK
<1>2. Agree(job, job') /\ job'.dispatch = job.dispatch
  <2>1. CASE UNCHANGED job
    BY <2>1 DEF Agree
  <2>2. CASE LeasePasses
    BY <1>1, <2>2 DEF LeasePasses, Agree, Record
  <2>3. CASE WaitPasses
    BY <1>1, <2>3 DEF WaitPasses, Agree, Record
  <2>4. CASE SentPasses
    BY <1>1, <2>4 DEF SentPasses, Agree, Record
  <2>5. QED BY <2>1, <2>2, <2>3, <2>4
            DEF Duplicate, Time, GracePasses, AgePasses, NoWrite
<1>3. QED BY <1>1, <1>2, StillRests

\* Every step is a route, until start() replaces a record it had not seen.
LEMMA NextRoute ==
  ASSUME TypeOK, Sound, Earned, Opening, "start" \notin lost', Next
  PROVE  Route /\ Earned'
<1>1. \A w \in Workers : w \in Actors
  BY Names
<1>2. QED
  BY <1>1, StartRoute, DispatchRoute, DeliveryRoute, FaultRoute, ClaimRoute, RunRoute,
     CancelRoute, ReconcileRoute, FeedbackRoute, TimeRoute DEF Next

\* start() keeps its entity to itself.
LEMMA OpeningStep == ASSUME TypeOK, Opening, Next PROVE Opening'
<1> "start" \in Actors /\ "start" \notin Workers
  BY Names
<1>0. mem["start"] \in Record
  BY DEF TypeOK
<1>1. CASE Start
  <2>1. CASE StartCreate
    <3>1. PICK type \in Types : job' = Submitted(type) /\ Touch("start", job')
      BY <2>1 DEF StartCreate
    <3>2. job' \in Record /\ job'.status = "queued"
      BY <3>1, RecordAssumption, SubmittedFields
    <3>3. mem'["start"].status = "queued"
      BY <3>1, <3>2, SeenFields DEF Touch, TypeOK, Agree
    <3>4. QED BY <3>3 DEF Opening
  <2>2. CASE StartSave
    <3>1. pc["start"] \in Opens /\ Touch("start", mem["start"])
      BY <2>2 DEF StartSave, Opens, BlindSave
    <3>2. mem'["start"].status = mem["start"].status
      BY <1>0, <3>1, SeenFields DEF Touch, TypeOK, Agree
    <3>3. QED BY <3>1, <3>2 DEF Opening
  <2>3. CASE StartStarted
    <3> DEFINE r == [mem["start"] EXCEPT !.started = TRUE, !.rev = @ + 1]
    <3>1. r \in Record /\ Agree(mem["start"], r) /\ pc["start"] \in Opens
      BY <1>0, <2>3, StartRecords DEF StartStarted, Opens
    <3> HIDE DEF r
    <3>2. CASE Touch("start", r)
      <4>1. mem'["start"].status = mem["start"].status
        BY <3>1, <3>2, SeenFields DEF Touch, TypeOK, Agree
      <4>2. QED BY <3>1, <4>1 DEF Opening
    <3>3. CASE GoTo("start", "failstart")
      BY <3>3, GoToPc DEF Opening, Opens
    <3>4. QED BY <2>3, <3>2, <3>3, Zenon DEF StartStarted, BlindSave, r
  <2>4. CASE StartDispatching \/ StartFail \/ StartFailNote
    <3>1. Leave("start") \/ \E label \in {"send", "failnote"} : GoTo("start", label)
      BY <2>4 DEF StartDispatching, StartFail, StartFailNote
    <3>2. pc'["start"] \notin Opens
      BY <3>1, GoToPc DEF Leave, GoTo, Rest, Opens, TypeOK
    <3>3. QED BY <3>2 DEF Opening
  <2>5. QED BY <1>1, <2>1, <2>2, <2>3, <2>4 DEF Start
<1>2. ASSUME Dispatch("start") \/ Delivery("start") \/ Crash("start") PROVE Opening'
  <2>1. \/ Leave("start")
        \/ \E label \in Deliver \cup {"confirm", "unconfirm", "disabled", "failstart"} :
             GoTo("start", label)
    <3>1. Entry(mem["start"]) \in Deliver
          /\ {"cleaned", "notify", "link", "notified", "release"} \subseteq Deliver
      BY EntryType DEF Deliver
    <3>2. QED
      BY <1>2, <3>1, Zenon
         DEF Dispatch, Send, Confirm, Unconfirm, Crash, Delivery, DeliverFailure, Cleanup,
             MarkCleanup, Notify, LinkNotification, MarkNotification, Release, MarksLost,
             ClaimLost
  <2>2. pc'["start"] \notin Opens
    BY <2>1, GoToPc DEF Leave, GoTo, Rest, Opens, TypeOK, Deliver
  <2>3. QED BY <2>2 DEF Opening
<1>3. CASE \E p \in Actors : p # "start" /\ OnlyMoves(p)
  BY <1>3 DEF OnlyMoves, Opening
<1>4. CASE UNCHANGED <<pc, mem>>
  BY <1>4 DEF Opening
<1>5. QED
  <2>1. CASE \E p \in Dispatchers : Dispatch(p)
    BY <1>2, <1>3, <2>1, OthersMove DEF Dispatchers
  <2>2. CASE \E p \in Actors : Delivery(p) \/ Crash(p)
    BY <1>2, <1>3, <2>2, DelivererMoves
  <2>3. CASE \E w \in Workers : Claim(w) \/ Run(w) \/ Heartbeat(w) \/ Abort(w)
    BY <1>3, <2>3, WorkerMoves, Names
  <2>4. CASE Cancel \/ Scan \/ Recover \/ FeedbackRead \/ FeedbackWrite
    <3>1. /\ Cancel => "cancel" \in Actors
          /\ Scan \/ Recover => "reconcile" \in Actors
          /\ FeedbackRead \/ FeedbackWrite => "feedback" \in Actors
      BY DEF Cancel, Scan, Recover, FeedbackRead, FeedbackWrite, Actors
    <3>2. QED BY <1>3, <2>4, <3>1, OthersMove
  <2>5. CASE Duplicate \/ Time
    BY <1>4, <2>5, OthersMove
  <2>6. QED BY <1>1, <2>1, <2>2, <2>3, <2>4, <2>5 DEF Next

-----------------------------------------------------------------------------
\* Before the job exists nothing was earned.
LEMMA InitEarned == Init => EInv
<1> SUFFICES ASSUME Init PROVE EInv
  OBVIOUS
<1>1. job = Blank /\ applied = 0 /\ pc["start"] = "create"
  BY DEF Init, Actors
<1>2. \A w \in Workers : pc[w] # "complete"
  BY Names DEF Init, Rest
<1>3. Earned /\ Untyped /\ Opening
  BY <1>1, <1>2, BlankFields DEF Earned, Untyped, Opening, Opens
<1>4. QED BY <1>3, InitSafe DEF EInv

\* The strengthened invariant is inductive, and its steps are routes.
LEMMA StepEarned ==
  ASSUME EInv, [Next]_vars
  PROVE  EInv' /\ ("start" \notin lost' => Route)
<1>1. IInv' /\ TypeOK
  BY StepSafe DEF EInv, IInv
<1>2. CASE Next
  <2>1. Opening'
    BY <1>1, <1>2, OpeningStep DEF EInv
  <2>2. ASSUME "start" \notin lost' PROVE Route /\ Earned' /\ Untyped'
    <3>1. "start" \notin lost /\ Sound /\ Earned /\ Untyped /\ Opening
      BY <1>2, <2>2, LostGrows DEF EInv, IInv
    <3>2. Route /\ Earned'
      BY <1>1, <1>2, <2>2, <3>1, NextRoute
    <3>3. Uncreated
      BY <3>1 DEF Sound
    <3>4. Untyped'
      BY <3>1, <3>2, <3>3 DEF Route, Submits, Commits, Decides, Rests, Untyped, Active, Terminal
    <3>5. QED BY <3>2, <3>4
  <2>3. QED BY <1>1, <2>1, <2>2 DEF EInv
<1>3. CASE UNCHANGED vars
  <2>1. UNCHANGED <<job, pc, mem, applied, lost>>
    BY <1>3 DEF vars, domain
  <2>2. Rests /\ EInv'
    BY <1>1, <2>1 DEF Rests, Delivered, EInv, Earned, Untyped, Opening
  <2>3. QED BY <2>2 DEF Route
<1>4. QED BY <1>2, <1>3

\* Success is recorded only when the domain change was made, whoever made it and
\* however its commit was reported.
THEOREM SuccessIsEarned == Spec => []SucceededIsApplied
<1>1. Init => EInv
  BY InitEarned
<1>2. EInv /\ [Next]_vars => EInv'
  BY StepEarned
<1>3. EInv => SucceededIsApplied
  BY DEF EInv, Earned, SucceededIsApplied
<1>4. QED BY <1>1, <1>2, <1>3, PTL DEF Spec

-----------------------------------------------------------------------------
\* A step that is excused, or a route, is a step of the lifecycle or a stutter.
LEMMA RouteRefines ==
  ASSUME TypeOK, TypeOK', lost \subseteq lost',
         lost' = {} => Route /\ Sound /\ Untyped
  PROVE  [Lifecycle!Next]_(Lifecycle!lifecycle)
<1> DEFINE phase     == IF ~ Created THEN "none" ELSE IF job.status \in Active THEN "open"
                        ELSE IF Delivered THEN "closed" ELSE "decided"
           outcome   == IF job.status \in Terminal THEN job.status ELSE "none"
           committed == applied > 0
           excused   == lost # {} \/ job.type \in {"file", "execution"}
<1>1. /\ job.status \in Active \cup Terminal \cup {"absent"} /\ job.receipt \in BOOLEAN
      /\ applied \in 0..2
  BY DEF TypeOK, Record
<1>2. /\ job'.status \in Active \cup Terminal \cup {"absent"} /\ job'.receipt \in BOOLEAN
      /\ applied' \in 0..2
  BY DEF TypeOK, Record
<1>3. CASE excused'
  <2>1. /\ excused' = TRUE /\ phase' \in {"none", "open", "decided", "closed"}
        /\ outcome' \in Terminal \cup {"none"} /\ committed' \in BOOLEAN
    BY <1>2, <1>3
  <2>2. Lifecycle!Excuse
    BY <1>2, <2>1 DEF Lifecycle!Excuse, Lifecycle!Phases, Lifecycle!Outcomes, Terminal
  <2>3. QED BY <2>2 DEF Lifecycle!Next
<1>4. CASE ~ excused'
  <2>0. lost' = {} /\ lost = {} /\ Route /\ Sound /\ Untyped
        /\ job'.type \notin {"file", "execution"}
    BY <1>4
  <2>1. CASE Submits
    <3>1. job.type = "none"
      BY <2>0, <2>1 DEF Submits, Untyped
    <3>2. phase = "none" /\ phase' = "open"
      BY <2>1 DEF Submits, Created, Active
    <3>3. outcome' = outcome /\ committed' = committed /\ job'.receipt = job.receipt
      BY <1>1, <1>2, <2>1 DEF Submits, Terminal
    <3>4. excused' = excused
      BY <2>0, <3>1
    <3>5. Lifecycle!Submit
      BY <3>2, <3>3, <3>4 DEF Lifecycle!Submit
    <3>6. QED BY <3>5 DEF Lifecycle!Next
  <2>2. job'.type = job.type => excused' = excused
    BY <2>0
  <2>3. CASE Commits
    <3>1. job.type \in {"autofill", "report"}
      BY <2>0, <2>3 DEF Commits, TypeOK, Record, JobTypes
    <3>2. job.status = "running" /\ job'.status = "running" /\ applied = 0 /\ applied' > 0
      BY <2>3, <3>1 DEF Commits
    <3>3. phase = "open" /\ phase' = phase /\ outcome' = outcome
      BY <3>2 DEF Created, Active, Terminal
    <3>4. ~ committed /\ committed'
      BY <3>2
    <3>5. Lifecycle!Commit
      BY <1>2, <2>2, <2>3, <3>3, <3>4 DEF Lifecycle!Commit, Commits
    <3>6. QED BY <3>5 DEF Lifecycle!Next
  <2>4. CASE Decides
    <3>1. phase = "open" /\ outcome' = job'.status /\ committed' = committed
      BY <2>4 DEF Decides, Created, Active
    <3>2. phase' \in IF job'.status = "failed" THEN {"decided", "closed"} ELSE {"decided"}
      BY <2>4 DEF Decides, Created, Active, Terminal
    <3>3. Lifecycle!Decide(job'.status)
      BY <2>2, <2>4, <3>1, <3>2 DEF Lifecycle!Decide, Decides, Withdrawn
    <3>4. job'.status \in Lifecycle!Outcomes
      BY <2>4 DEF Decides, Terminal, Lifecycle!Outcomes
    <3>5. QED BY <3>3, <3>4 DEF Lifecycle!Next
  <2>5. CASE Rests
    <3>1. outcome' = outcome /\ committed' = committed /\ job'.receipt = job.receipt
          /\ excused' = excused
      BY <2>2, <2>5 DEF Rests, Active, Terminal
    <3>2. phase' = phase \/ (phase = "decided" /\ phase' = "closed")
      BY <1>1, <2>0, <2>5 DEF Rests, Created, Active, Terminal, Delivered
    <3>3. CASE phase' = phase
      BY <3>1, <3>3 DEF Lifecycle!lifecycle
    <3>4. CASE phase = "decided" /\ phase' = "closed"
      <4>1. Lifecycle!Close
        BY <3>1, <3>4 DEF Lifecycle!Close
      <4>2. QED BY <4>1 DEF Lifecycle!Next
    <3>5. QED BY <3>2, <3>3, <3>4
  <2>6. QED BY <2>0, <2>1, <2>3, <2>4, <2>5 DEF Route
<1>5. QED BY <1>3, <1>4

\* A job with a fenced change implements the lifecycle its requester sees: its change
\* is committed at most once and while it is open, it is decided once, a sealed job
\* is not withdrawn, success needs the change, and only then delivery is closed.
THEOREM ImplementsLifecycle == Spec => LifecycleSpec
<1>1. Init => EInv
  BY InitEarned
<1>2. EInv /\ [Next]_vars => EInv'
  BY StepEarned
<1>3. Init => Lifecycle!Init
  <2> SUFFICES ASSUME Init PROVE Lifecycle!Init
    OBVIOUS
  <2>1. job = Blank /\ applied = 0 /\ lost = {}
    BY DEF Init
  <2>2. QED BY <2>1, BlankFields DEF Lifecycle!Init, Created, Active, Terminal
<1>4. EInv /\ EInv' /\ [Next]_vars => [Lifecycle!Next]_(Lifecycle!lifecycle)
  <2> SUFFICES ASSUME EInv, EInv', [Next]_vars
               PROVE  [Lifecycle!Next]_(Lifecycle!lifecycle)
    OBVIOUS
  <2>1. TypeOK /\ TypeOK'
    BY DEF EInv, IInv
  <2>2. lost \subseteq lost'
    BY LostGrows DEF vars
  <2>3. lost' = {} => Route /\ Sound /\ Untyped
    BY <2>2, StepEarned DEF EInv, IInv
  <2>4. QED BY <2>1, <2>2, <2>3, RouteRefines
<1>5. QED BY <1>1, <1>2, <1>3, <1>4, PTL DEF Spec, LifecycleSpec, Lifecycle!Spec
=============================================================================
