------------------------ MODULE AgentPlanClaimProofs ------------------------
(***************************************************************************)
(* A Plan, for any requests, owner's mutations, jobs, workers, proposals,    *)
(* files and faults: the types of its claim, its uploads and the actors that *)
(* change it, and what each step does to the actor that makes it; then its   *)
(* safety: the manifest and the files agree, no clean-up takes what is       *)
(* needed, a proposal under review stands but for the late save of an        *)
(* execution, and a dismissed notification stays so.                         *)
(***************************************************************************)
EXTENDS AgentPlanClaim, TLAPS

-----------------------------------------------------------------------------
(* Where an actor can be *)

\* A finalizer between its load and the end of its batch.
Working(r) == request[r].at \in {"loaded", "prepared", "checkpointed"}

\* Where the actors can be, and what they ask for there.
Shape ==
  /\ \A r \in Actors : request[r].at = "checkpointed" => r \in Finalizers
  /\ \A r \in Actors : request[r].at = "prepared" => r \in Creators \cup Finalizers
  /\ \A r \in Browsers : request[r].at \in {"idle", "loaded", "over"}
  /\ \A r \in Finalizers : request[r].at = "claimed" => request[r].next = 1
  /\ \A r \in Finalizers : request[r].at = "claimed" \/ Working(r) => request[r].batch \in Creators
  /\ \A r \in Finalizers : request[r].at \in {"prepared", "checkpointed"} => request[r].next \in Records
  /\ \A r \in Submitters : request[r].at \in {"claimed", "loaded"} => request[r].wish \in Proposals

USE PlanAssumption DEF PlanAssumption, executions

-----------------------------------------------------------------------------
(* Types *)

\* An empty report, and a worker that remembers it.
LEMMA DraftType ==
  /\ Draft \in Reports
  /\ \A at \in Phases : Unused(at) \in [at : Phases, job : Jobs \cup {None}, held : Reports]
<1>1. Draft \in Reports
  BY DEF Draft, Reports
<1>2. QED BY <1>1 DEF Unused

\* The initial state has the types, and nobody is at work in it.
LEMMA InitTypes == Init => TypeOK /\ Shape
<1> SUFFICES ASSUME Init PROVE TypeOK /\ Shape
  OBVIOUS
<1>1. report \in Reports /\ work \in [Workers -> [at : Phases, job : Jobs \cup {None}, held : Reports]]
  BY DraftType DEF Init, Phases
<1>2. request \in [Actors -> [at : Steps, batch : Creators \cup {None}, wish : Wishes,
                            expected : Reports, next : 1 .. FilesPerBatch + 1]]
  BY DraftType DEF Init, Idle, Steps, Wishes
<1>3. TypeOK
  <2>1. claim \in Claims /\ faults \in 0 .. MaxFaults
    BY DEF Init, NoClaim, Claims
  <2>2. QED BY <1>1, <1>2, <2>1 DEF Init, TypeOK
<1>4. Shape
  BY DEF Init, Shape, Working, Idle, Actors, Requests
<1>5. QED BY <1>3, <1>4

\* A request that has not started is a request.
LEMMA IdleType ==
  Idle \in [at : Steps, batch : Creators \cup {None}, wish : Wishes,
            expected : Reports, next : 1 .. FilesPerBatch + 1]
  BY DEF Idle, Steps, Wishes, Reports, Draft, Records

\* A request has one kind.
LEMMA Kinds ==
  ASSUME NEW r \in Actors
  PROVE  /\ r \in Creators => r \notin Finalizers /\ r \notin Submitters /\ r \notin Browsers
         /\ r \in Finalizers => r \notin Submitters /\ r \notin Browsers
         /\ r \in Submitters => r \notin Browsers
         /\ r \in Requests \/ r \in Browsers
         /\ r \notin Browsers => r \in Requests
         /\ r # None
  BY DEF Actors, Requests

\* The four things a request may write.
LEMMA NewIs ==
  ASSUME NEW r \in Actors
  PROVE  /\ Opening(r) => New(r) = Staged(r) /\ ~Submitting(r) /\ ~Attaching(r) /\ ~Closing(r)
         /\ Submitting(r) => New(r) = Submitted(r) /\ ~Attaching(r) /\ ~Closing(r)
         /\ Attaching(r) => New(r) = Attached(r) /\ ~Closing(r)
         /\ Closing(r) => New(r) = Closed(r)
<1>1. /\ ~(Opening(r) /\ Submitting(r)) /\ ~(Opening(r) /\ Attaching(r)) /\ ~(Opening(r) /\ Closing(r))
      /\ ~(Submitting(r) /\ Attaching(r)) /\ ~(Submitting(r) /\ Closing(r))
      /\ ~(Attaching(r) /\ Closing(r))
  BY Kinds DEF Opening, Submitting, Attaching, Closing, Here
<1>2. QED
  BY <1>1 DEF New

\* What each of them is, field by field.
LEMMA StagedIs ==
  ASSUME NEW e \in Reports, NEW c \in Creators, NEW f,
         f = [e EXCEPT !.batch = c, !.staged = TRUE, !.pending = Records]
  PROVE  /\ f \in Reports
         /\ f.batch = c /\ f.staged /\ f.pending = Records
         /\ f.status = e.status /\ f.attached = e.attached /\ f.proposal = e.proposal
         /\ f.skipped = e.skipped /\ f.announced = e.announced /\ f.link = e.link
  BY DEF Reports

\* A submission: the proposal is new, without skips, and announced.
LEMMA SubmittedIs ==
  ASSUME NEW e \in Reports, NEW p \in Proposals, NEW f,
         f = [e EXCEPT !.status = "ready", !.proposal = p, !.skipped = FALSE, !.announced = TRUE,
                       !.ledger = FALSE]
  PROVE  /\ f \in Reports
         /\ f.status = "ready" /\ f.proposal = p /\ ~f.skipped /\ f.announced
         /\ f.batch = e.batch /\ f.staged = e.staged /\ f.pending = e.pending
         /\ f.attached = e.attached /\ f.link = e.link
  BY DEF Reports

\* An attached record: its file is there and it is pending no more.
LEMMA AttachedIs ==
  ASSUME NEW e \in Reports, NEW x \in Uploads, NEW i \in Records, NEW f,
         f = [e EXCEPT !.attached = @ \cup {x}, !.pending = @ \ {i}]
  PROVE  /\ f \in Reports
         /\ f.attached = e.attached \cup {x} /\ f.pending = e.pending \ {i}
         /\ f.status = e.status /\ f.batch = e.batch /\ f.staged = e.staged
         /\ f.proposal = e.proposal /\ f.skipped = e.skipped /\ f.announced = e.announced
         /\ f.link = e.link
  BY DEF Reports

\* A closed manifest: nothing else changes.
LEMMA ClosedIs ==
  ASSUME NEW e \in Reports, NEW f, f = [e EXCEPT !.staged = FALSE]
  PROVE  /\ f \in Reports
         /\ ~f.staged
         /\ f.status = e.status /\ f.batch = e.batch /\ f.pending = e.pending
         /\ f.attached = e.attached /\ f.proposal = e.proposal
         /\ f.skipped = e.skipped /\ f.announced = e.announced /\ f.link = e.link
  BY DEF Reports

\* A skip: nothing else changes.
LEMMA SkippedIs ==
  ASSUME NEW e \in Reports, NEW f, f = [e EXCEPT !.skipped = ~@]
  PROVE  /\ f \in Reports
         /\ f.status = e.status /\ f.batch = e.batch /\ f.pending = e.pending
         /\ f.staged = e.staged /\ f.attached = e.attached /\ f.proposal = e.proposal
         /\ f.announced = e.announced /\ f.link = e.link
  BY DEF Reports

\* Two reports with the same batch and files; two with the same proposal and skips.
Alike(a, b) ==
  a.batch = b.batch /\ a.staged = b.staged /\ a.attached = b.attached /\ a.announced = b.announced

SamePlan(a, b) == a.proposal = b.proposal /\ a.skipped = b.skipped

\* A new status, or no job: nothing else changes.
LEMMA SettledIs ==
  ASSUME NEW e \in Reports, NEW f,
         \/ \E s \in {"ready", "failed"} : f = [e EXCEPT !.status = s]
         \/ f = [e EXCEPT !.link = None]
  PROVE  /\ f \in Reports /\ Alike(f, e) /\ SamePlan(f, e)
         /\ f.link \in {e.link, None} /\ f.status \in {e.status, "ready", "failed"}
  BY DEF Reports, Alike, SamePlan

\* A deleted report has neither batch nor files.
LEMMA GoneIs ==
  /\ Gone \in Reports /\ Gone.status = "gone" /\ Gone.batch = None /\ Gone.attached = {}
  /\ Gone.link = None
  BY DEF Gone, Draft, Reports

\* What a commit writes, of a request that may commit.
LEMMA WritesReport ==
  ASSUME TypeOK, Shape, NEW r \in Actors, Committing(r)
  PROVE  /\ New(r) \in Reports
         /\ r \in Requests
         /\ Attaching(r) => At(r) \in Uploads /\ r \in Finalizers /\ request[r].next \in Records
<1> DEFINE e == request[r].expected
<1>1. e \in Reports
  BY DEF TypeOK
<1>2. CASE Opening(r)
  BY NewIs, StagedIs, <1>1, <1>2 DEF Opening, Staged, Requests
<1>3. CASE Submitting(r)
  <2>1. request[r].wish \in Proposals
    BY <1>3 DEF Shape, Submitting
  <2> QED BY <2>1, NewIs, SubmittedIs, <1>1, <1>3 DEF Submitting, Submitted, Requests
<1>4. CASE Attaching(r)
  <2>1. At(r) \in Uploads /\ request[r].next \in Records
    BY <1>4 DEF Attaching, At, Uploads, Shape, Working
  <2> DEFINE x == At(r)
             i == request[r].next
  <2>2. [e EXCEPT !.attached = @ \cup {x}, !.pending = @ \ {i}] \in Reports
    BY <2>1, <1>1, AttachedIs
  <2>3. New(r) = [e EXCEPT !.attached = @ \cup {x}, !.pending = @ \ {i}]
    BY NewIs, <1>4 DEF Attached
  <2> QED BY <2>1, <2>2, <2>3, <1>4 DEF Attaching, Requests
<1>5. CASE Closing(r)
  BY NewIs, ClosedIs, <1>1, <1>5 DEF Closing, Closed, Here, Requests
<1> QED BY <1>2, <1>3, <1>4, <1>5 DEF Committing

\* The state of a request.
RequestType ==
  [at : Steps, batch : Creators \cup {None}, wish : Wishes, expected : Reports,
   next : 1 .. FilesPerBatch + 1]

\* The two ways in which an actor moves.
LEMMA StepIs ==
  ASSUME TypeOK, NEW r \in Actors, NEW at \in Steps, Step(r, at)
  PROVE  /\ request' \in [Actors -> RequestType]
         /\ request'[r].at = at
         /\ request'[r].batch = request[r].batch /\ request'[r].wish = request[r].wish
         /\ request'[r].expected = request[r].expected /\ request'[r].next = request[r].next
         /\ \A q \in Actors : q # r => request'[q] = request[q]
  BY DEF TypeOK, Step, RequestType

\* A request that ends forgets what it remembered.
LEMMA EndedIs ==
  ASSUME TypeOK, NEW r \in Actors, NEW at \in {"answered", "over"}, Ended(r, at)
  PROVE  /\ request' \in [Actors -> RequestType]
         /\ request'[r].at = at
         /\ \A q \in Actors : q # r => request'[q] = request[q]
<1>1. [Idle EXCEPT !.at = at] \in RequestType
  BY IdleType DEF RequestType, Steps
<1>2. [Idle EXCEPT !.at = at].at = at
  BY DEF Idle
<1>3. QED BY <1>1, <1>2 DEF TypeOK, Ended, RequestType

\* A step that leaves an actor where its kind of actor may be.
LEMMA ShapeMove ==
  ASSUME TypeOK, Shape, NEW r \in Actors,
         request' \in [Actors -> RequestType],
         \A q \in Actors : q # r => request'[q] = request[q],
         request'[r].at \in {"answering", "failing", "answered", "over"},
         r \in Browsers => request'[r].at = "over"
  PROVE  Shape'
  BY DEF Shape, Working, Actors, Requests

\* A request that is about to end is where its kind may be.
LEMMA StepFails ==
  ASSUME TypeOK, Shape, NEW r \in Requests, NEW at \in {"answering", "failing"}, Step(r, at)
  PROVE  Shape' /\ request' \in [Actors -> RequestType]
<1>1. r \in Actors /\ at \in Steps /\ r \notin Browsers
  BY Kinds DEF Steps, Actors, Requests
<1>2. QED BY <1>1, StepIs, ShapeMove

\* So is an actor that has ended.
LEMMA RequestEnds ==
  ASSUME TypeOK, Shape, NEW r \in Actors, NEW at \in {"answered", "over"}, Ended(r, at),
         r \in Browsers => at = "over"
  PROVE  Shape' /\ request' \in [Actors -> RequestType]
  BY EndedIs, ShapeMove

\* A claim names the request that took it and its operation.
LEMMA OpType ==
  ASSUME NEW r \in Requests, NEW b \in Creators \cup {None}
  PROVE  [op |-> OpOf(r, b), token |-> r, live |-> TRUE] \in Claims
  BY DEF OpOf, Claims, Actors, Requests

\* A renewed claim is a claim.
LEMMA RenewedType == TypeOK /\ Renewed => claim' \in Claims
  BY DEF TypeOK, Renewed, Claims

\* A claim starts a request; nothing but the claim row and the request changes.
LEMMA ClaimType ==
  ASSUME TypeOK, Shape, NEW r \in Requests,
         ClaimCreate(r) \/ ClaimFinalize(r) \/ ClaimSubmit(r)
  PROVE  /\ TypeOK' /\ Shape'
         /\ request'[r].at = "claimed"
         /\ r \notin Submitters => request[r].at = "idle"
         /\ \A q \in Actors : q # r => request'[q] = request[q]
         /\ UNCHANGED <<report, files, assets, sources, notice, revived>>
<1>1. PICK b \in Creators \cup {None}, w \in Proposals \cup {None} :
        /\ Claim(r, b, w)
        /\ r \in Finalizers => b \in Creators
        /\ r \in Submitters => w \in Proposals
  BY Kinds DEF ClaimCreate, ClaimFinalize, ClaimSubmit, Actors
<1>2. r \in Actors /\ w \in Wishes
  BY DEF Actors, Wishes
<1> DEFINE new == [Idle EXCEPT !.at = "claimed", !.batch = b, !.wish = w]
<1>3. new \in RequestType /\ new.at = "claimed" /\ new.batch = b /\ new.wish = w /\ new.next = 1
  <2>1. Idle \in RequestType /\ Idle.next = 1
    BY IdleType DEF RequestType, Idle
  <2>2. "claimed" \in Steps
    BY DEF Steps
  <2>3. QED BY <2>1, <2>2, <1>2 DEF RequestType
<1>4. /\ request' = [request EXCEPT ![r] = new]
      /\ claim' = [op |-> OpOf(r, b), token |-> r, live |-> TRUE]
      /\ UNCHANGED <<report, files, assets, sources, notice, executions, faults>>
  BY <1>1 DEF Claim, Kept
<1>5. request' \in [Actors -> RequestType] /\ request'[r] = new
  BY <1>2, <1>3, <1>4 DEF TypeOK, RequestType
<1>6. TypeOK'
  BY <1>4, <1>5, OpType DEF TypeOK, RequestType
<1>7. \A q \in Actors : q # r => request'[q] = request[q]
  BY <1>2, <1>4 DEF TypeOK
<1>8. Shape'
  <2> HIDE DEF new
  <2> QED BY <1>1, <1>2, <1>3, <1>5, <1>7, Kinds DEF Shape, Working, Actors, Requests
<1>9. r \notin Submitters => request[r].at = "idle"
  BY <1>1 DEF Claim, Fresh
<1>10. QED BY <1>3, <1>4, <1>5, <1>6, <1>7, <1>8, <1>9

\* The load under the claim: the request remembers the report, and goes on only when
\* the gate accepts it.
LEMMA LoadType ==
  ASSUME TypeOK, Shape, NEW r \in Requests, Load(r)
  PROVE  /\ TypeOK' /\ Shape'
         /\ request'[r].at \in {"loaded", "failing"}
         /\ request'[r].at = "loaded" => Acceptable(r)
         /\ request'[r].expected = report
         /\ request'[r].batch = request[r].batch /\ request'[r].next = request[r].next
         /\ \A q \in Actors : q # r => request'[q] = request[q]
<1> DEFINE at == IF Acceptable(r) THEN "loaded" ELSE "failing"
           new == [request[r] EXCEPT !.expected = report, !.at = at]
<1>1. r \in Actors /\ request[r] \in RequestType /\ report \in Reports /\ r \notin Browsers
  BY Kinds DEF TypeOK, RequestType, Actors, Requests
<1>2. at \in {"loaded", "failing"}
  OBVIOUS
<1>3. request' = [request EXCEPT ![r] = new] /\ request[r].at = "claimed"
  BY <1>1 DEF Load, TypeOK
<1>4. /\ new \in RequestType
      /\ new.at = at /\ new.batch = request[r].batch /\ new.wish = request[r].wish
      /\ new.next = request[r].next /\ new.expected = report
  <2> HIDE DEF at
  <2> QED BY <1>1, <1>2 DEF RequestType, Steps
<1>a. at = "loaded" => Acceptable(r)
  OBVIOUS
<1> HIDE DEF at, new
<1>5. request' \in [Actors -> RequestType] /\ request'[r] = new /\ \A q \in Actors : q # r => request'[q] = request[q]
  BY <1>1, <1>3, <1>4 DEF TypeOK, RequestType
<1>6. TypeOK'
  BY <1>5 DEF TypeOK, RequestType, Load, Kept
<1>7. Shape'
  BY <1>1, <1>2, <1>3, <1>4, <1>5, Kinds DEF Shape, Working, Actors, Requests
<1>8. QED BY <1>a, <1>2, <1>4, <1>5, <1>6, <1>7

\* The creation of the upload sessions.
LEMMA PrepareType ==
  ASSUME TypeOK, Shape, NEW r \in Requests, Prepare(r)
  PROVE  TypeOK' /\ Shape'
<1>1. r \in Actors /\ r \in Creators /\ r \notin Browsers /\ r \notin Finalizers /\ r \notin Submitters
  BY Kinds DEF Prepare, Actors, Requests
<1>2. PICK at \in {"prepared", "failing"} : Step(r, at)
  BY DEF Prepare
<1>3. at \in Steps
  BY DEF Steps
<1>4. claim' \in Claims
  BY RenewedType DEF Prepare, TypeOK
<1>5. TypeOK'
  BY <1>1, <1>2, <1>3, <1>4, StepIs DEF TypeOK, RequestType, Prepare, Kept
<1>6. Shape'
  BY <1>1, <1>2, <1>3, StepIs DEF Shape, Working, Actors, Requests
<1>7. QED BY <1>5, <1>6

\* A finalizer has cleaned up after its record and goes to the next one.
LEMMA CleanIs ==
  ASSUME TypeOK, Shape, NEW r \in Requests, CleanSource(r)
  PROVE  /\ r \in Finalizers /\ request[r].at = "checkpointed"
         /\ request[r].next \in Records /\ request[r].batch \in Creators
         /\ request' \in [Actors -> RequestType]
         /\ request'[r].at = "loaded" /\ request'[r].next = request[r].next + 1
         /\ request'[r].batch = request[r].batch /\ request'[r].expected = request[r].expected
         /\ \A q \in Actors : q # r => request'[q] = request[q]
<1>1. r \in Actors
  BY DEF Actors
<1>2. r \in Finalizers /\ request[r].at = "checkpointed" /\ request[r].next \in Records
      /\ request[r].batch \in Creators
  BY <1>1 DEF CleanSource, Shape, Working
<1> DEFINE new == [request[r] EXCEPT !.at = "loaded", !.next = @ + 1]
<1>3. /\ new \in RequestType
      /\ new.at = "loaded" /\ new.batch = request[r].batch
      /\ new.next = request[r].next + 1 /\ new.expected = request[r].expected
  <2>1. "loaded" \in Steps /\ request[r].next + 1 \in 1 .. FilesPerBatch + 1
    BY <1>2 DEF Steps, Records
  <2>2. request[r] \in RequestType
    BY <1>1 DEF TypeOK, RequestType
  <2>3. QED BY <2>1, <2>2 DEF RequestType
<1>4. request' = [request EXCEPT ![r] = new]
  BY <1>1 DEF CleanSource, TypeOK
<1> HIDE DEF new
<1>5. /\ request' \in [Actors -> RequestType] /\ request'[r] = new
      /\ \A q \in Actors : q # r => request'[q] = request[q]
  BY <1>1, <1>3, <1>4 DEF TypeOK, RequestType
<1>6. QED BY <1>2, <1>3, <1>5

\* The steps of a finalizer over a record.
LEMMA LoopType ==
  ASSUME TypeOK, Shape, NEW r \in Requests,
         Copy(r) \/ Resume(r) \/ Stop(r) \/ CleanSource(r)
  PROVE  TypeOK' /\ Shape'
<1>1. r \in Actors /\ r \notin Browsers
  BY Kinds DEF Actors, Requests
<1>2. CASE Copy(r) \/ Resume(r) \/ Stop(r)
  <2>1. /\ r \in Finalizers /\ request[r].at = "loaded"
        /\ request[r].batch \in Creators /\ request[r].next \in Records
    BY <1>1, <1>2 DEF Copy, Resume, Stop, Here, InBatch, Shape, Working, TypeOK, Records
  <2>2. PICK at \in {"prepared", "checkpointed", "failing"} : Step(r, at)
    BY <1>2 DEF Copy, Resume, Stop
  <2>3. at \in Steps
    BY DEF Steps
  <2>4. claim' \in Claims
    BY <1>2, RenewedType DEF Copy, Resume, Stop, TypeOK
  <2>5. /\ assets' \subseteq Creators \X Records \X Finalizers
        /\ UNCHANGED <<report, files, sources, notice, executions, faults>>
    BY <1>2, <2>1 DEF Copy, Resume, Stop, Kept, TypeOK
  <2>6. TypeOK'
    BY <1>1, <2>2, <2>3, <2>4, <2>5, StepIs DEF TypeOK, RequestType
  <2>7. Shape'
    BY <1>1, <2>1, <2>2, <2>3, StepIs, Kinds DEF Shape, Working, Actors, Requests
  <2>8. QED BY <2>6, <2>7
<1>3. CASE CleanSource(r)
  <2>1. sources' \in [Uploads -> {"none", "there", "gone"}]
    BY <1>3 DEF CleanSource, TypeOK
  <2>2. TypeOK'
    BY <1>3, <2>1, CleanIs DEF TypeOK, RequestType, CleanSource
  <2>3. Shape'
    BY <1>1, <1>3, CleanIs, Kinds DEF Shape, Working, Actors, Requests
  <2>4. QED BY <2>2, <2>3
<1>4. QED BY <1>2, <1>3

\* What a commit that happens does to the rows.
LEMMA WrittenType ==
  ASSUME TypeOK, Shape, NEW r \in Actors, Committing(r), Written(r)
  PROVE  /\ report' \in Reports /\ claim' \in Claims
         /\ files' \in [Uploads -> Finalizers \cup {None}]
         /\ notice' \in {"none", "unread", "dismissed"}
<1>1. report' \in Reports
  BY WritesReport DEF Written
<1>2. claim' \in Claims
  BY RenewedType DEF Written
<1>3. files' \in [Uploads -> Finalizers \cup {None}]
  BY WritesReport DEF Written, TypeOK
<1>4. notice' \in {"none", "unread", "dismissed"}
  BY DEF Written, TypeOK
<1>5. QED BY <1>1, <1>2, <1>3, <1>4

\* What a commit that is answered does to its request.
LEMMA CommitMoves ==
  ASSUME TypeOK, NEW r \in Actors, Commit(r), New(r) \in Reports
  PROVE  /\ request' \in [Actors -> RequestType]
         /\ request'[r].at = IF Attaching(r) THEN "checkpointed" ELSE "answering"
         /\ request'[r].expected = New(r)
         /\ request'[r].batch = request[r].batch /\ request'[r].wish = request[r].wish
         /\ request'[r].next = request[r].next
         /\ \A q \in Actors : q # r => request'[q] = request[q]
<1> DEFINE at == IF Attaching(r) THEN "checkpointed" ELSE "answering"
           e == New(r)
           new == [request[r] EXCEPT !.expected = e, !.at = at]
<1>1. request[r] \in RequestType
  BY DEF TypeOK, RequestType
<1>2. request' = [request EXCEPT ![r] = new]
  BY DEF Commit, TypeOK
<1>3. at \in Steps
  BY DEF Steps
<1> HIDE DEF at, e
<1>4. /\ new \in RequestType
      /\ new.at = at /\ new.expected = e /\ new.batch = request[r].batch
      /\ new.wish = request[r].wish /\ new.next = request[r].next
  <2>1. e \in Reports
    BY DEF e
  <2>2. QED BY <1>1, <1>3, <2>1 DEF RequestType
<1> HIDE DEF new
<1>5. request' \in [Actors -> RequestType] /\ request'[r] = new /\ \A q \in Actors : q # r => request'[q] = request[q]
  BY <1>1, <1>2, <1>4 DEF TypeOK, RequestType
<1>6. QED BY <1>4, <1>5 DEF at, e

\* A commit keeps the types.
LEMMA CommitType ==
  ASSUME TypeOK, Shape, NEW r \in Requests, Commit(r)
  PROVE  TypeOK' /\ Shape'
<1>1. r \in Actors /\ Committing(r) /\ Written(r) /\ r \notin Browsers
  BY Kinds DEF Commit, Actors, Requests
<1>2. New(r) \in Reports /\ (Attaching(r) => r \in Finalizers /\ request[r].next \in Records)
  BY <1>1, WritesReport
<1>3. TypeOK'
  BY <1>1, <1>2, WrittenType, CommitMoves DEF TypeOK, RequestType, Commit
<1>4. Attaching(r) => request[r].batch \in Creators
  BY <1>1 DEF Attaching, Shape, Working
<1>5. Shape'
  BY <1>1, <1>2, <1>4, CommitMoves, Kinds DEF Shape, Working, Actors, Requests
<1>6. QED BY <1>3, <1>5

\* The other steps of a request.
LEMMA RequestType0 ==
  ASSUME TypeOK, Shape, NEW r \in Requests,
         SubmitAgain(r) \/ Refuse(r) \/ Release(r) \/ Crash(r) \/ KeepSource(r) \/ LoseCommit(r)
  PROVE  TypeOK' /\ Shape'
<1>1. r \in Actors
  BY DEF Actors
<1>2. Shape' /\ request' \in [Actors -> RequestType]
  <2>1. \/ \E at \in {"answering", "failing"} : Step(r, at)
        \/ \E at \in {"answered", "over"} : Ended(r, at)
    BY DEF SubmitAgain, Refuse, Release, Crash, KeepSource, LoseCommit
  <2>2. QED BY <1>1, <2>1, StepFails, RequestEnds, Kinds
<1>3. CASE SubmitAgain(r) \/ Crash(r) \/ KeepSource(r)
  BY <1>2, <1>3 DEF TypeOK, RequestType, SubmitAgain, Crash, KeepSource, Kept, Faulty
<1>4. CASE Refuse(r)
  BY <1>2, <1>4 DEF TypeOK, RequestType, Refuse, Discarded
<1>5. CASE Release(r)
  <2>1. claim' \in Claims
    BY <1>5 DEF Release, TypeOK, NoClaim, Claims
  <2>2. QED BY <1>2, <1>5, <2>1 DEF TypeOK, RequestType, Release, Kept
<1>6. CASE LoseCommit(r)
  <2>1. /\ report' \in Reports /\ claim' \in Claims
        /\ files' \in [Uploads -> Finalizers \cup {None}]
        /\ notice' \in {"none", "unread", "dismissed"}
    BY <1>1, <1>6, WrittenType DEF LoseCommit, TypeOK
  <2>2. QED BY <1>2, <1>6, <2>1 DEF TypeOK, RequestType, LoseCommit, Uncertain, Faulty
<1>7. QED BY <1>2, <1>3, <1>4, <1>5, <1>6

\* An owner's request remembers the report that it read.
LEMMA ReadIs ==
  ASSUME TypeOK, NEW r \in Browsers, NEW w \in {"skip", "execute", "delete"}, Read(r, w)
  PROVE  /\ request' \in [Actors -> RequestType]
         /\ request'[r].at = "loaded" /\ request'[r].wish = w /\ request'[r].expected = report
         /\ \A q \in Actors : q # r => request'[q] = request[q]
<1> DEFINE new == [Idle EXCEPT !.at = "loaded", !.wish = w, !.expected = report]
<1>1. new \in RequestType /\ new.at = "loaded" /\ new.wish = w /\ new.expected = report
  <2>1. Idle \in RequestType /\ w \in Wishes /\ "loaded" \in Steps /\ report \in Reports
    BY IdleType DEF RequestType, Wishes, Steps, TypeOK
  <2>2. QED BY <2>1 DEF RequestType
<1>2. request' = [request EXCEPT ![r] = new] /\ r \in Actors
  BY DEF Read, Actors
<1> HIDE DEF new
<1>3. QED BY <1>1, <1>2 DEF TypeOK, RequestType

\* The steps of an owner's request.
LEMMA BrowserType ==
  ASSUME TypeOK, Shape, NEW r \in Browsers, Browser(r)
  PROVE  TypeOK' /\ Shape'
<1>1. r \in Actors /\ r \notin Finalizers /\ r \notin Submitters /\ r \notin Creators
  BY Kinds DEF Actors
<1>2. CASE \E wish \in {"skip", "execute", "delete"} : Read(r, wish)
  <2>1. PICK w \in {"skip", "execute", "delete"} : Read(r, w)
    BY <1>2
  <2>2. TypeOK'
    BY <2>1, ReadIs DEF TypeOK, RequestType, Read, Kept
  <2>3. Shape'
    BY <1>1, <2>1, ReadIs DEF Shape, Working, Actors, Requests
  <2>4. QED BY <2>2, <2>3
<1>3. CASE Mutate(r)
  <2>1. Shape' /\ request' \in [Actors -> RequestType]
    BY <1>1, <1>3, RequestEnds DEF Mutate
  <2>2. request[r].expected \in Reports
    BY <1>1 DEF TypeOK
  <2>3. claim' \in Claims /\ UNCHANGED <<notice, faults>>
    BY <1>3 DEF Mutate, NoClaim, Claims
  <2>a. UNCHANGED <<owner, work, revived>>
    BY <1>3 DEF Mutate
  <2>4. CASE Skip(r)
    <3>1. report' \in Reports
      BY <2>2, <2>4, SkippedIs DEF Skip
    <3>2. QED BY <2>1, <2>3, <2>a, <2>4, <3>1 DEF TypeOK, RequestType, Skip
  <2>5. CASE Execute(r)
    <3>1. PICK j \in Jobs :
            /\ report' = [request[r].expected EXCEPT !.status = "running", !.link = j]
            /\ job' = [i \in Jobs |-> IF i = j THEN "open"
                                     ELSE IF i = report.link THEN "over" ELSE job[i]]
      BY <2>5 DEF Execute
    <3>2. report' \in Reports
      BY <2>2, <3>1 DEF Reports
    <3>3. job' \in [Jobs -> {"none", "open", "over"}]
      BY <3>1 DEF TypeOK
    <3>4. QED BY <2>1, <2>3, <2>a, <2>5, <3>2, <3>3 DEF TypeOK, RequestType, Execute
  <2>6. CASE Delete(r)
    <3>1. report' \in Reports
      BY <2>6, GoneIs DEF Delete
    <3>2. files' \in [Uploads -> Finalizers \cup {None}]
      BY <2>6 DEF Delete, TypeOK
    <3>3. sources' \in [Uploads -> {"none", "there", "gone"}]
      BY <2>6 DEF Delete, TypeOK
    <3>4. assets' \subseteq assets
      BY <2>6 DEF Delete
    <3>5. UNCHANGED job
      BY <2>6 DEF Delete
    <3>6. QED BY <2>1, <2>3, <2>a, <3>1, <3>2, <3>3, <3>4, <3>5 DEF TypeOK, RequestType
  <2>7. QED BY <1>3, <2>4, <2>5, <2>6 DEF Mutate
<1>4. CASE Rejected(r)
  BY <1>1, <1>4, RequestEnds DEF Rejected, TypeOK, RequestType, Kept
<1>5. QED BY <1>2, <1>3, <1>4 DEF Browser

\* What a save does, of a worker that has its job.
LEMMA SaveIs ==
  ASSUME TypeOK, NEW k \in Workers, Start(k) \/ Wait(k) \/ Break(k) \/ Finish(k)
  PROVE  /\ report' \in Reports /\ report'.status \in {"running", "failed", "complete"}
         /\ report'.link = work[k].held.link
         /\ Alike(report', work[k].held) /\ SamePlan(report', work[k].held)
         /\ work[k].at \in {"starting", "acting"}
         /\ \/ work' = [work EXCEPT ![k] = Unused("over")]
            \/ work' = [work EXCEPT ![k] = [@ EXCEPT !.held = report', !.at = "working"]]
         /\ revived' = (revived \/ report.status = "gone")
         /\ UNCHANGED <<claim, files, assets, sources, notice, request, job, owner, faults>>
<1>1. work[k].held \in Reports
  BY DEF TypeOK
<1>2. PICK s \in {"running", "failed", "complete"} :
        \/ report' = [work[k].held EXCEPT !.status = s, !.ledger = TRUE]
        \/ report' = [[work[k].held EXCEPT !.status = s, !.ledger = TRUE] EXCEPT !.receipt = k]
  BY DEF Start, Wait, Break, Finish, Save, Ledger
<1>3. /\ report' \in Reports /\ report'.status = s /\ report'.link = work[k].held.link
      /\ Alike(report', work[k].held) /\ SamePlan(report', work[k].held)
  <2> DEFINE f == [work[k].held EXCEPT !.status = s, !.ledger = TRUE]
  <2>1. f \in Reports /\ f.status = s /\ f.link = work[k].held.link
        /\ Alike(f, work[k].held) /\ SamePlan(f, work[k].held)
    BY <1>1 DEF Reports, Alike, SamePlan
  <2>2. report' = f \/ report' = [f EXCEPT !.receipt = k]
    BY <1>2
  <2> HIDE DEF f
  <2>3. QED BY <2>1, <2>2 DEF Reports, Alike, SamePlan
<1>4. QED BY <1>3 DEF Start, Wait, Break, Finish, Save

\* The steps of a worker.
LEMMA WorkerType ==
  ASSUME TypeOK, Shape, NEW k \in Workers, Worker(k)
  PROVE  TypeOK' /\ Shape'
<1>1. UNCHANGED request
  BY DEF Worker, Begin, Check, Start, Wait, Break, Finish, Save
<1>2. Shape'
  BY <1>1 DEF Shape, Working
<1>3. CASE \E j \in Jobs : Begin(k, j)
  BY <1>1, <1>2, <1>3 DEF Begin, TypeOK, Phases
<1>4. Unused("over") \in [at : Phases, job : Jobs \cup {None}, held : Reports]
  BY DraftType DEF Phases
<1>5. CASE Check(k)
  BY <1>1, <1>2, <1>4, <1>5 DEF Check, TypeOK, Phases
<1>6. CASE Start(k) \/ Wait(k) \/ Break(k) \/ Finish(k)
  <2>1. work' \in [Workers -> [at : Phases, job : Jobs \cup {None}, held : Reports]]
    <3>1. CASE work' = [work EXCEPT ![k] = Unused("over")]
      BY <1>4, <3>1 DEF TypeOK
    <3>2. CASE work' = [work EXCEPT ![k] = [@ EXCEPT !.held = report', !.at = "working"]]
      <4> DEFINE new == [work[k] EXCEPT !.held = report', !.at = "working"]
      <4>1. report' \in Reports /\ "working" \in Phases
        BY <1>6, SaveIs DEF Phases
      <4>2. new \in [at : Phases, job : Jobs \cup {None}, held : Reports]
        BY <4>1 DEF TypeOK
      <4>3. QED BY <3>2, <4>2 DEF TypeOK
    <3>3. QED BY <1>6, <3>1, <3>2, SaveIs
  <2>2. QED BY <1>1, <1>2, <1>6, <2>1, SaveIs DEF TypeOK
<1>7. QED BY <1>3, <1>5, <1>6 DEF Worker

\* What settles the report of a job that ends.
LEMMA SettleIs ==
  ASSUME TypeOK, NEW j \in Jobs, Fail(j) \/ Clean(j)
  PROVE  /\ report' \in Reports /\ Alike(report', report) /\ SamePlan(report', report)
         /\ report'.link \in {report.link, None}
         /\ report'.status \in {report.status, "ready", "failed"}
         /\ report.link = j /\ report.status # "gone" /\ claim' = NoClaim
         /\ UNCHANGED <<files, assets, sources, notice, request, executions, faults>>
<1>1. \/ \E s \in {"ready", "failed"} : report' = [report EXCEPT !.status = s]
      \/ report' = [report EXCEPT !.link = None]
  BY DEF Fail, Clean, Settle
<1>2. report \in Reports
  BY DEF TypeOK
<1>3. QED BY <1>1, <1>2, SettledIs DEF Fail, Clean, Settle, Kept

\* The steps of a job.
LEMMA JobType ==
  ASSUME TypeOK, Shape, NEW j \in Jobs, Job(j)
  PROVE  TypeOK' /\ Shape'
<1>1. UNCHANGED request
  BY SettleIs DEF Job, End
<1>2. Shape'
  BY <1>1 DEF Shape, Working
<1>3. CASE End(j)
  BY <1>1, <1>2, <1>3 DEF End, TypeOK
<1>4. CASE Fail(j) \/ Clean(j)
  <2>1. NoClaim \in Claims
    BY DEF NoClaim, Claims
  <2>2. QED BY <1>1, <1>2, <1>4, <2>1, SettleIs DEF TypeOK
<1>5. QED BY <1>3, <1>4 DEF Job

\* The steps that nobody at work makes.
LEMMA OtherType ==
  ASSUME TypeOK, Shape,
         (\E x \in Uploads : Upload(x)) \/ Dismiss \/ Expire \/ UNCHANGED vars
  PROVE  TypeOK' /\ Shape'
<1>1. UNCHANGED request
  BY DEF Upload, Dismiss, Expire, vars
<1>2. Shape'
  BY <1>1 DEF Shape, Working
<1>3. CASE \E x \in Uploads : Upload(x)
  BY <1>1, <1>2, <1>3 DEF Upload, TypeOK
<1>4. CASE Dismiss
  BY <1>1, <1>2, <1>4 DEF Dismiss, TypeOK
<1>5. CASE Expire
  <2>1. claim' \in Claims
    BY <1>5 DEF Expire, TypeOK, Claims
  <2>2. QED BY <1>1, <1>2, <1>5, <2>1 DEF Expire, Kept, TypeOK
<1>6. CASE UNCHANGED vars
  BY <1>2, <1>6 DEF vars, TypeOK
<1>7. QED BY <1>2, <1>3, <1>4, <1>5, <1>6

\* Every step keeps the types and the places.
LEMMA NextType == TypeOK /\ Shape /\ [Next]_vars => TypeOK' /\ Shape'
<1> SUFFICES ASSUME TypeOK, Shape, [Next]_vars PROVE TypeOK' /\ Shape'
  OBVIOUS
<1>1. CASE \E r \in Requests : Request(r)
  <2>1. PICK r \in Requests : Request(r)
    BY <1>1
  <2>2. QED
    BY <2>1, ClaimType, LoadType, PrepareType, LoopType, CommitType, RequestType0 DEF Request
<1>2. CASE \E r \in Browsers : Browser(r)
  BY <1>2, BrowserType
<1>3. CASE \E k \in Workers : Worker(k)
  BY <1>3, WorkerType
<1>4. CASE \E j \in Jobs : Job(j)
  BY <1>4, JobType
<1>5. CASE (\E x \in Uploads : Upload(x)) \/ Dismiss \/ Expire \/ UNCHANGED vars
  BY <1>5, OtherType
<1>6. QED BY <1>1, <1>2, <1>3, <1>4, <1>5 DEF Next

\* Every variable keeps its shape, for any requests, proposals, files and faults; a
\* finalizer never passes the end of its batch.
THEOREM TypeCorrect == Spec => []TypeOK
<1>1. Init => TypeOK /\ Shape
  BY InitTypes
<1>2. QED BY <1>1, NextType, PTL DEF Spec

-----------------------------------------------------------------------------
(* The report, its files and the requests *)

\* A creator that may have committed its batch.
Begun(c) == request[c].at \in {"answering", "failing", "answered", "over"}

\* Nothing of a batch exists before its creator's commit.
BatchBegun ==
  /\ report.batch # None => Begun(report.batch)
  /\ report.staged => report.batch # None
AttachedBegun == \A x \in report.attached : Begun(x[1])
SourcesBegun == \A x \in Uploads : sources[x] # "none" => Begun(x[1])
WorkingBegun(r) == Working(r) => Begun(request[r].batch)

BatchesBegun ==
  BatchBegun /\ AttachedBegun /\ SourcesBegun /\ \A r \in Finalizers : WorkingBegun(r)

\* What a request still knows of the report it remembers.
CreatorKnows ==
  \A r \in Creators : request[r].at \in {"loaded", "prepared"} =>
    request[r].expected.status = "draft" /\ ~request[r].expected.staged

SubmitterKnows ==
  \A r \in Submitters : request[r].at = "loaded" =>
    request[r].expected.status \in {"draft", "ready"} /\ ~request[r].expected.staged

BrowserKnows ==
  \A r \in Browsers : request[r].at = "loaded" =>
    /\ request[r].wish = "skip" =>
         request[r].expected.status = "ready" /\ request[r].expected.link = None
    /\ request[r].wish = "execute" =>
         ~request[r].expected.staged /\ request[r].expected.status \in {"ready", "failed"}

FinalizerKnows ==
  \A r \in Finalizers : Working(r) =>
    /\ request[r].expected.status = "draft" /\ request[r].expected.staged
    /\ request[r].expected.batch = request[r].batch
    /\ \A i \in Records : i < request[r].next => i \notin request[r].expected.pending
    /\ request[r].at = "checkpointed" => request[r].next \notin request[r].expected.pending

\* The records a working finalizer saw complete are complete.
PendingShrinks ==
  \A r \in Finalizers :
    Working(r) /\ report.status # "gone" /\ report.staged /\ report.batch = request[r].batch
      => report.pending \subseteq request[r].expected.pending

\* A finalizer's copy is there until its commit, and no file names it before.
CopyKept ==
  \A r \in Finalizers : request[r].at = "prepared" /\ Standing =>
    <<request[r].batch, request[r].next, r>> \in assets

CopyNamed ==
  \A r \in Finalizers, x \in Uploads : files[x] = r =>
    \/ Begun(r)
    \/ Working(r) /\ x[2] < request[r].next
    \/ request[r].at = "checkpointed" /\ x[2] = request[r].next

Announced == notice # "none" => report.announced \/ report.status = "gone"

\* An execution stores no draft.
NotDraft == revived => report.status # "draft"

Knows == CreatorKnows /\ SubmitterKnows /\ BrowserKnows /\ FinalizerKnows

PlanInv ==
  /\ TypeOK /\ Shape /\ BatchesBegun /\ Knows
  /\ PendingShrinks /\ CopyKept /\ CopyNamed
  /\ UploadsAccounted /\ EvidenceKept /\ Announced /\ NotDraft

-----------------------------------------------------------------------------
\* The initial state satisfies it.
LEMMA InitPlanInv == Init => PlanInv
<1> SUFFICES ASSUME Init PROVE PlanInv
  OBVIOUS
<1>1. TypeOK /\ Shape
  BY InitTypes
<1>2. \A r \in Actors : request[r].at = "idle"
  BY DEF Init, Idle
<1>3. /\ report.status = "draft" /\ ~report.staged /\ report.batch = None /\ report.attached = {}
      /\ notice = "none" /\ \A x \in Uploads : sources[x] = "none" /\ files[x] = None
      /\ ~revived
  BY DEF Init, Draft
<1>4. \A r \in Finalizers : r \in Actors /\ r # None
  BY DEF Actors, Requests
<1>5. BatchesBegun /\ Knows /\ PendingShrinks /\ CopyKept /\ CopyNamed
  BY <1>2, <1>3, <1>4 DEF BatchesBegun, BatchBegun, AttachedBegun, SourcesBegun, WorkingBegun,
     Knows, CreatorKnows, SubmitterKnows, BrowserKnows, FinalizerKnows, PendingShrinks, CopyKept, Standing, CopyNamed, Working, Actors, Requests
<1>6. UploadsAccounted /\ EvidenceKept /\ Announced /\ NotDraft
  BY <1>3 DEF UploadsAccounted, EvidenceKept, Standing, Announced, NotDraft
<1>7. QED BY <1>1, <1>5, <1>6 DEF PlanInv

-----------------------------------------------------------------------------
(* An actor that ends changes nothing others rely on *)

\* Nothing relies on an actor that ends without a write, not even on the copy that a
\* refused commit takes back.
LEMMA QuietSafe ==
  ASSUME PlanInv, TypeOK', Shape', NEW r \in Actors,
         \A q \in Actors : q # r => request'[q] = request[q],
         Begun(r)',
         UNCHANGED <<report, files, sources, notice, revived>>,
         \/ assets' = assets
         \/ /\ r \in Finalizers /\ request[r].at = "prepared"
            /\ assets' = assets \ {<<request[r].batch, request[r].next, r>>}
  PROVE  PlanInv'
<1>1. /\ \A q \in Creators \cup Finalizers \cup Submitters \cup Browsers : q \in Actors
      /\ \A c \in Creators : Begun(c) => Begun(c)'
  BY DEF Actors, Requests, Begun
<1>2. ~Working(r)' /\ request'[r].at \notin {"loaded", "prepared", "checkpointed"}
  BY DEF Begun, Working
<1>3. BatchesBegun'
  <2>1. BatchBegun' /\ AttachedBegun' /\ SourcesBegun'
    <3>1. report.batch \in Creators \cup {None} /\ report.attached \subseteq Creators \X Records
      BY DEF PlanInv, TypeOK, Reports, Uploads
    <3>2. QED BY <1>1, <3>1 DEF PlanInv, BatchesBegun, BatchBegun, AttachedBegun, SourcesBegun,
       Uploads, Begun
  <2>2. \A q \in Finalizers : WorkingBegun(q)'
    <3>1. \A q \in Finalizers : Working(q)' =>
            Working(q) /\ request'[q].batch = request[q].batch /\ request[q].batch \in Creators
      BY <1>1, <1>2 DEF PlanInv, Working, Shape
    <3>2. QED BY <1>1, <3>1 DEF PlanInv, BatchesBegun, WorkingBegun, Begun
  <2>3. QED BY <2>1, <2>2 DEF BatchesBegun
<1>4. Knows'
  BY <1>1, <1>2 DEF PlanInv, Knows, CreatorKnows, SubmitterKnows, BrowserKnows, FinalizerKnows, Working
<1>5. PendingShrinks'
  BY <1>1, <1>2 DEF PlanInv, PendingShrinks, Working
<1>6. CopyKept'
  BY <1>1, <1>2 DEF PlanInv, CopyKept, Standing
<1>7. CopyNamed'
  BY <1>1, <1>2 DEF PlanInv, CopyNamed, Begun, Working
<1>8. UploadsAccounted'
  BY DEF PlanInv, UploadsAccounted
<1>9. EvidenceKept'
  <2>1. CASE assets' = assets
    BY <2>1 DEF PlanInv, EvidenceKept, Standing
  <2>2. CASE /\ r \in Finalizers /\ request[r].at = "prepared"
             /\ assets' = assets \ {<<request[r].batch, request[r].next, r>>}
    <3>1. request[r].next \in Nat /\ ~Begun(r)
      BY <2>2 DEF PlanInv, TypeOK, Begun
    <3>2. \A x \in Uploads : files[x] = r => x[2] < request[r].next
      BY <2>2, <3>1 DEF PlanInv, CopyNamed
    <3>3. \A x \in report.attached : <<x[1], x[2], files[x]>> # <<request[r].batch, request[r].next, r>>
      BY <3>1, <3>2 DEF PlanInv, TypeOK, Reports
    <3>4. QED BY <2>2, <3>3 DEF PlanInv, EvidenceKept, Standing
  <2>3. QED BY <2>1, <2>2
<1>10. Announced' /\ NotDraft'
  BY DEF PlanInv, Announced, NotDraft
<1>11. QED BY <1>3, <1>4, <1>5, <1>6, <1>7, <1>8, <1>9, <1>10 DEF PlanInv

\* The requests that end without a write of their own.
LEMMA EndSafe ==
  ASSUME PlanInv, TypeOK', Shape', NEW r \in Requests,
         \/ SubmitAgain(r) \/ Refuse(r) \/ Release(r) \/ Crash(r) \/ KeepSource(r) \/ Stop(r)
         \/ LoseCommit(r) /\ ~Written(r)
  PROVE  PlanInv'
<1>1. r \in Actors /\ TypeOK /\ Shape
  BY DEF Actors, PlanInv
<1>2. /\ \/ \E at \in {"answering", "failing"} : Step(r, at)
         \/ \E at \in {"answered", "over"} : Ended(r, at)
      /\ UNCHANGED <<report, files, sources, notice, revived>>
  BY DEF SubmitAgain, Refuse, Release, Crash, KeepSource, Stop, LoseCommit, Kept
<1>3. {"answering", "failing"} \subseteq Steps
  BY DEF Steps
<1>4. Begun(r)' /\ \A q \in Actors : q # r => request'[q] = request[q]
  BY <1>1, <1>2, <1>3, StepIs, EndedIs DEF Begun
<1>5. \/ assets' = assets
      \/ /\ r \in Finalizers /\ request[r].at = "prepared"
         /\ assets' = assets \ {<<request[r].batch, request[r].next, r>>}
  BY DEF SubmitAgain, Refuse, Discarded, Attaching, Release, Crash, KeepSource, Stop, Kept, LoseCommit, Uncertain
<1>6. QED BY <1>1, <1>2, <1>4, <1>5, QuietSafe

-----------------------------------------------------------------------------
(* An actor that goes on *)

\* What an actor's move leaves as it was: whatever holds of the report, the rows
\* and the other actors.
LEMMA OthersKeep ==
  ASSUME PlanInv, NEW r \in Actors,
         \A q \in Actors : q # r => request'[q] = request[q],
         r \in Creators /\ Begun(r) => Begun(r)',
         UNCHANGED <<report, sources>>
  PROVE  /\ \A c \in Creators : Begun(c) => Begun(c)'
         /\ BatchBegun' /\ AttachedBegun' /\ SourcesBegun'
         /\ \A q \in Finalizers : q # r => WorkingBegun(q)'
<1>1. \A q \in Creators \cup Finalizers : q \in Actors
  BY DEF Actors, Requests
<1>2. \A c \in Creators : Begun(c) => Begun(c)'
  BY <1>1 DEF Begun
<1>3. \A q \in Finalizers : q # r /\ Working(q)' =>
        Working(q) /\ request'[q].batch = request[q].batch /\ request[q].batch \in Creators
  BY <1>1 DEF Working, PlanInv, Shape
<1>4. report.batch \in Creators \cup {None} /\ report.attached \subseteq Creators \X Records
  BY DEF PlanInv, TypeOK, Reports, Uploads
<1>5. (\A q \in Finalizers : q # r => WorkingBegun(q)') /\ BatchBegun' /\ AttachedBegun' /\ SourcesBegun'
  BY <1>1, <1>2, <1>3, <1>4 DEF PlanInv, BatchesBegun, Uploads, Begun, BatchBegun, AttachedBegun,
     SourcesBegun, WorkingBegun
<1>6. QED BY <1>2, <1>5

\* A claim changes nothing the invariant speaks of but a request that starts.
LEMMA ClaimSafe ==
  ASSUME PlanInv, NEW r \in Requests,
         ClaimCreate(r) \/ ClaimFinalize(r) \/ ClaimSubmit(r)
  PROVE  PlanInv'
<1>1. r \in Actors /\ r \notin Browsers /\ TypeOK /\ Shape
  BY Kinds DEF Actors, PlanInv, Requests
<1>2. /\ TypeOK' /\ Shape'
      /\ request'[r].at = "claimed"
      /\ r \notin Submitters => request[r].at = "idle"
      /\ \A q \in Actors : q # r => request'[q] = request[q]
      /\ UNCHANGED <<report, files, assets, sources, notice, revived>>
  BY <1>1, ClaimType
<1>3. \A q \in Creators \cup Finalizers \cup Submitters \cup Browsers : q \in Actors
  BY DEF Actors, Requests
<1>4. r \in Creators => ~Begun(r)
  BY <1>1, <1>2, Kinds DEF Begun
<1>5. BatchesBegun'
  <2>1. ~Working(r)'
    BY <1>2 DEF Working
  <2>2. BatchBegun' /\ AttachedBegun' /\ SourcesBegun' /\ \A q \in Finalizers : q # r => WorkingBegun(q)'
    BY <1>1, <1>2, <1>4, OthersKeep
  <2>3. QED BY <2>1, <2>2 DEF BatchesBegun, WorkingBegun
<1>6. Knows'
  BY <1>2, <1>3 DEF PlanInv, Knows, CreatorKnows, SubmitterKnows, BrowserKnows, FinalizerKnows, Working
<1>7. PendingShrinks' /\ CopyKept'
  BY <1>2, <1>3 DEF PlanInv, PendingShrinks, CopyKept, Standing, Working
<1>8. CopyNamed'
  <2>1. r \in Finalizers => request[r].at = "idle"
    BY <1>1, <1>2, Kinds
  <2>2. QED BY <1>2, <1>3, <2>1 DEF PlanInv, CopyNamed, Begun, Working
<1>9. UploadsAccounted' /\ EvidenceKept' /\ Announced' /\ NotDraft'
  BY <1>2 DEF PlanInv, UploadsAccounted, EvidenceKept, Standing, Announced, NotDraft
<1>10. QED BY <1>2, <1>5, <1>6, <1>7, <1>8, <1>9 DEF PlanInv

\* What a request remembers is the stored report when it loads it.
LEMMA LoadSafe ==
  ASSUME PlanInv, NEW r \in Requests, Load(r)
  PROVE  PlanInv'
<1>1. r \in Actors /\ r \notin Browsers /\ TypeOK /\ Shape
  BY Kinds DEF Actors, PlanInv, Requests
<1>2. /\ TypeOK' /\ Shape'
      /\ request'[r].at \in {"loaded", "failing"}
      /\ request'[r].at = "loaded" => Acceptable(r)
      /\ request'[r].expected = report
      /\ request'[r].batch = request[r].batch /\ request'[r].next = request[r].next
      /\ \A q \in Actors : q # r => request'[q] = request[q]
  BY <1>1, LoadType
<1>3. /\ UNCHANGED <<report, files, assets, sources, notice, revived>>
      /\ request[r].at = "claimed"
  BY DEF Load, Kept
<1>4. CASE request'[r].at = "failing"
  BY <1>1, <1>2, <1>3, <1>4, QuietSafe DEF Begun
<1>5. CASE request'[r].at = "loaded"
  <2>1. \A q \in Creators \cup Finalizers \cup Submitters \cup Browsers : q \in Actors
    BY DEF Actors, Requests
  <2>2. /\ r \in Creators => report.status = "draft" /\ ~report.staged
        /\ r \in Submitters => report.status \in {"draft", "ready"} /\ ~report.staged
        /\ r \in Finalizers => /\ report.status = "draft" /\ report.staged
                               /\ report.batch = request[r].batch /\ request[r].next = 1
                               /\ request[r].batch \in Creators
    BY <1>1, <1>2, <1>3, <1>5, Kinds DEF Acceptable, Submittable, Eligible, Shape
  <2>3. r \in Creators => ~Begun(r)
    BY <1>3 DEF Begun
  <2>4. BatchesBegun'
    <3>1. r \in Finalizers => Begun(report.batch)
      <4>1. \A c \in Creators : c # None
        BY DEF Actors, Requests
      <4>2. QED BY <2>2, <4>1 DEF PlanInv, BatchesBegun, BatchBegun
    <3>2. /\ BatchBegun' /\ AttachedBegun' /\ SourcesBegun'
          /\ \A q \in Finalizers : q # r => WorkingBegun(q)'
          /\ \A c \in Creators : Begun(c) => Begun(c)'
      BY <1>1, <1>3, <1>2, <2>3, OthersKeep
    <3>3. r \in Finalizers => WorkingBegun(r)'
      BY <1>2, <2>2, <3>1, <3>2 DEF WorkingBegun, Begun
    <3>4. QED BY <3>2, <3>3 DEF BatchesBegun
  <2>5. CreatorKnows' /\ SubmitterKnows' /\ BrowserKnows'
    BY <1>1, <1>2, <2>1, <2>2, Kinds DEF PlanInv, Knows, CreatorKnows, SubmitterKnows, BrowserKnows
  <2>6. FinalizerKnows'
    BY <1>1, <1>2, <1>3, <1>5, <2>1, <2>2 DEF PlanInv, Knows, FinalizerKnows, Working, Records
  <2>7. PendingShrinks'
    BY <1>2, <1>3, <2>1, <2>2 DEF PlanInv, PendingShrinks, Working
  <2>8. CopyKept'
    BY <1>2, <1>3, <1>5, <2>1 DEF PlanInv, CopyKept, Standing
  <2>9. CopyNamed'
    BY <1>2, <1>3, <1>5, <2>1 DEF PlanInv, CopyNamed, Begun, Working
  <2>10. UploadsAccounted' /\ EvidenceKept' /\ Announced' /\ NotDraft'
    BY <1>3 DEF PlanInv, UploadsAccounted, EvidenceKept, Standing, Announced, NotDraft
  <2>11. QED BY <1>2, <2>4, <2>5, <2>6, <2>7, <2>8, <2>9, <2>10 DEF PlanInv, Knows
<1>6. QED BY <1>2, <1>4, <1>5

\* A creator prepares its sessions: nothing of its batch is stored yet.
LEMMA PrepareSafe ==
  ASSUME PlanInv, NEW r \in Requests, Prepare(r)
  PROVE  PlanInv'
<1>1. r \in Actors /\ r \in Creators /\ r \notin Finalizers /\ r \notin Submitters /\ r \notin Browsers
      /\ TypeOK /\ Shape
  BY Kinds DEF Prepare, Actors, PlanInv, Requests
<1>2. TypeOK' /\ Shape' /\ request[r].at = "loaded"
      /\ UNCHANGED <<report, files, assets, sources, notice, revived>>
  BY <1>1, PrepareType DEF Prepare, Kept
<1>3. PICK at \in {"prepared", "failing"} : Step(r, at)
  BY DEF Prepare
<1>4. at \in Steps
  BY DEF Steps
<1>5. /\ request'[r].at = at /\ request'[r].expected = request[r].expected
      /\ \A q \in Actors : q # r => request'[q] = request[q]
  BY <1>1, <1>3, <1>4, StepIs
<1>6. CASE at = "failing"
  BY <1>1, <1>2, <1>5, <1>6, QuietSafe DEF Begun
<1>7. CASE at = "prepared"
  <2>1. \A q \in Creators \cup Finalizers \cup Submitters \cup Browsers : q \in Actors
    BY DEF Actors, Requests
  <2>2. BatchesBegun'
    <3>1. ~Begun(r)
      BY <1>2 DEF Begun
    <3>2. BatchBegun' /\ AttachedBegun' /\ SourcesBegun' /\ \A q \in Finalizers : q # r => WorkingBegun(q)'
      BY <1>1, <1>2, <1>5, <3>1, OthersKeep
    <3>3. QED BY <1>1, <3>2 DEF BatchesBegun
  <2>3. Knows'
    BY <1>1, <1>2, <1>5, <2>1 DEF PlanInv, Knows, CreatorKnows, SubmitterKnows, BrowserKnows,
       FinalizerKnows, Working
  <2>4. PendingShrinks' /\ CopyKept' /\ CopyNamed'
    BY <1>1, <1>2, <1>5, <2>1 DEF PlanInv, PendingShrinks, CopyKept, Standing, CopyNamed, Begun, Working
  <2>5. UploadsAccounted' /\ EvidenceKept' /\ Announced' /\ NotDraft'
    BY <1>2 DEF PlanInv, UploadsAccounted, EvidenceKept, Standing, Announced, NotDraft
  <2>6. QED BY <1>2, <2>2, <2>3, <2>4, <2>5 DEF PlanInv
<1>8. QED BY <1>6, <1>7

\* A finalizer copies its record, or finds it complete.
LEMMA RecordSafe ==
  ASSUME PlanInv, NEW r \in Requests, Copy(r) \/ Resume(r)
  PROVE  PlanInv'
<1>1. r \in Actors /\ r \in Finalizers /\ r \notin Creators /\ r \notin Submitters /\ r \notin Browsers
      /\ TypeOK /\ Shape
  BY Kinds DEF Copy, Resume, Here, Actors, PlanInv, Requests
<1>2. TypeOK' /\ Shape' /\ request[r].at = "loaded"
      /\ UNCHANGED <<report, files, sources, notice, revived>>
  BY <1>1, LoopType DEF Copy, Resume, Here, Kept
<1>3. PICK at \in {"prepared", "checkpointed"} :
        /\ Step(r, at)
        /\ at = "checkpointed" => request[r].next \notin request[r].expected.pending
        /\ at = "prepared" => assets' = assets \cup {<<request[r].batch, request[r].next, r>>}
        /\ assets \subseteq assets'
  BY DEF Copy, Resume, IsPending, Kept
<1>4. at \in Steps
  BY DEF Steps
<1>5. /\ request'[r].at = at /\ request'[r].expected = request[r].expected
      /\ request'[r].batch = request[r].batch /\ request'[r].next = request[r].next
      /\ \A q \in Actors : q # r => request'[q] = request[q]
  BY <1>1, <1>3, <1>4, StepIs
<1>6. \A q \in Creators \cup Finalizers \cup Submitters \cup Browsers : q \in Actors
  BY DEF Actors, Requests
<1>7. BatchesBegun'
  <2>1. /\ BatchBegun' /\ AttachedBegun' /\ SourcesBegun'
        /\ \A q \in Finalizers : q # r => WorkingBegun(q)'
        /\ \A c \in Creators : Begun(c) => Begun(c)'
    BY <1>1, <1>2, <1>5, OthersKeep
  <2>2. Begun(request[r].batch) /\ request[r].batch \in Creators
    BY <1>1, <1>2 DEF PlanInv, BatchesBegun, WorkingBegun, Working, Shape
  <2>3. WorkingBegun(r)'
    BY <1>5, <2>1, <2>2 DEF WorkingBegun, Begun
  <2>4. QED BY <2>1, <2>3 DEF BatchesBegun
<1>8. CreatorKnows' /\ SubmitterKnows' /\ BrowserKnows'
  BY <1>1, <1>5, <1>6 DEF PlanInv, Knows, CreatorKnows, SubmitterKnows, BrowserKnows
<1>9. FinalizerKnows'
  BY <1>1, <1>2, <1>3, <1>5, <1>6 DEF PlanInv, Knows, FinalizerKnows, Working
<1>10. PendingShrinks'
  BY <1>1, <1>2, <1>5, <1>6 DEF PlanInv, PendingShrinks, Working
<1>11. CopyKept'
  BY <1>1, <1>2, <1>3, <1>5, <1>6 DEF PlanInv, CopyKept, Standing
<1>12. CopyNamed'
  BY <1>1, <1>2, <1>5, <1>6 DEF PlanInv, CopyNamed, Begun, Working
<1>13. UploadsAccounted' /\ EvidenceKept' /\ Announced' /\ NotDraft'
  BY <1>2, <1>3 DEF PlanInv, UploadsAccounted, EvidenceKept, Standing, Announced, NotDraft
<1>14. QED BY <1>2, <1>7, <1>8, <1>9, <1>10, <1>11, <1>12, <1>13 DEF PlanInv, Knows

\* A source goes only when its record is complete in the stored report.
LEMMA CleanSafe ==
  ASSUME PlanInv, NEW r \in Requests, CleanSource(r)
  PROVE  PlanInv'
<1>1. r \in Actors /\ TypeOK /\ Shape /\ r \notin Browsers
  BY Kinds DEF Actors, PlanInv, Requests
<1>2. /\ TypeOK' /\ Shape'
      /\ UNCHANGED <<report, files, assets, notice, revived>>
      /\ sources' = [sources EXCEPT ![At(r)] = "gone"]
  BY <1>1, LoopType DEF CleanSource
<1>3. /\ r \in Finalizers /\ request[r].at = "checkpointed"
      /\ request[r].next \in Records /\ request[r].batch \in Creators
      /\ request'[r].at = "loaded" /\ request'[r].next = request[r].next + 1
      /\ request'[r].batch = request[r].batch /\ request'[r].expected = request[r].expected
      /\ \A q \in Actors : q # r => request'[q] = request[q]
  BY <1>1, CleanIs
<1>4. r \notin Creators /\ r \notin Submitters
      /\ \A q \in Creators \cup Finalizers \cup Submitters \cup Browsers : q \in Actors
  BY <1>1, <1>3, Kinds DEF Actors, Requests
<1>5. \A c \in Creators : Begun(c) => Begun(c)'
  BY <1>3, <1>4 DEF Begun
<1>6. Begun(request[r].batch)
  BY <1>3 DEF PlanInv, BatchesBegun, WorkingBegun, Working
<1>7. BatchesBegun'
  <2>1. BatchBegun' /\ AttachedBegun'
    <3>1. report.batch \in Creators \cup {None} /\ report.attached \subseteq Creators \X Records
      BY <1>1 DEF TypeOK, Reports, Uploads
    <3>2. QED BY <1>2, <1>5, <3>1 DEF PlanInv, BatchesBegun, BatchBegun, AttachedBegun, Begun
  <2>2. SourcesBegun'
    <3>1. \A x \in Uploads : x[1] \in Creators
      BY DEF Uploads
    <3>2. \A x \in Uploads : sources'[x] # "none" => sources[x] # "none" \/ x[1] = request[r].batch
      BY <1>1, <1>2 DEF TypeOK, At
    <3>3. \A x \in Uploads : sources'[x] # "none" => Begun(x[1])
      BY <1>6, <3>2 DEF PlanInv, BatchesBegun, SourcesBegun
    <3>4. QED BY <1>5, <3>1, <3>3 DEF SourcesBegun, Begun
  <2>3. \A q \in Finalizers : WorkingBegun(q)'
    <3>1. \A q \in Finalizers : Working(q)' =>
            Working(q) /\ request'[q].batch = request[q].batch /\ request[q].batch \in Creators
      BY <1>1, <1>3, <1>4 DEF Working, Shape
    <3>2. QED BY <1>5, <3>1 DEF PlanInv, BatchesBegun, WorkingBegun, Begun
  <2>4. QED BY <2>1, <2>2, <2>3 DEF BatchesBegun
<1>8. CreatorKnows' /\ SubmitterKnows' /\ BrowserKnows'
  BY <1>1, <1>3, <1>4 DEF PlanInv, Knows, CreatorKnows, SubmitterKnows, BrowserKnows
<1>9. FinalizerKnows'
  <2>1. \A i \in Records : i < request[r].next + 1 => i < request[r].next \/ i = request[r].next
    BY <1>3 DEF Records
  <2>2. QED BY <1>3, <1>4, <2>1 DEF PlanInv, Knows, FinalizerKnows, Working
<1>10. PendingShrinks' /\ CopyKept'
  BY <1>2, <1>3, <1>4 DEF PlanInv, PendingShrinks, CopyKept, Standing, Working
<1>11. CopyNamed'
  <2>1. \A x \in Uploads : x[2] < request[r].next \/ x[2] = request[r].next => x[2] < request[r].next + 1
    BY <1>3 DEF Records, Uploads
  <2>2. QED BY <1>2, <1>3, <1>4, <2>1 DEF PlanInv, CopyNamed, Begun, Working
<1>12. EvidenceKept'
  <2>1. report.status # "gone" /\ report.staged /\ report.batch = request[r].batch =>
          request[r].next \notin report.pending
    BY <1>3 DEF PlanInv, Knows, FinalizerKnows, PendingShrinks, Working
  <2>2. Standing /\ report.staged =>
          \A i \in report.pending : sources'[<<report.batch, i>>] # "gone"
    <3>1. ASSUME Standing, report.staged, NEW i \in report.pending
          PROVE  sources'[<<report.batch, i>>] # "gone"
      <4>1. sources[<<report.batch, i>>] # "gone"
        BY <3>1 DEF PlanInv, EvidenceKept
      <4>2. <<report.batch, i>> # At(r)
        BY <2>1, <3>1 DEF At, Standing
      <4>3. sources'[<<report.batch, i>>] = sources[<<report.batch, i>>]
             \/ <<report.batch, i>> \notin Uploads
        BY <1>1, <1>2, <4>2 DEF TypeOK
      <4>4. <<report.batch, i>> \in Uploads
        <5>1. report.batch # None
          BY <3>1 DEF PlanInv, BatchesBegun, BatchBegun, Standing
        <5>2. QED BY <1>1, <5>1 DEF TypeOK, Reports, Uploads
      <4>5. QED BY <4>1, <4>3, <4>4
    <3>2. QED BY <3>1
  <2>3. QED BY <1>2, <2>2 DEF PlanInv, EvidenceKept, Standing
<1>13. UploadsAccounted' /\ Announced' /\ NotDraft'
  BY <1>2 DEF PlanInv, UploadsAccounted, Announced, NotDraft
<1>14. QED BY <1>2, <1>7, <1>8, <1>9, <1>10, <1>11, <1>12, <1>13 DEF PlanInv, Knows

-----------------------------------------------------------------------------
(* Commits *)

\* What a request that writes leaves behind: it is done, or a finalizer goes on to
\* clean up after its record.
Leaves(r) ==
  /\ \A q \in Actors : q # r => request'[q] = request[q]
  /\ \/ Begun(r)'
     \/ /\ Attaching(r)
        /\ request'[r].at = "checkpointed" /\ request'[r].expected = report'
        /\ request'[r].batch = request[r].batch /\ request'[r].next = request[r].next

\* A creator that writes has begun its batch, and batches stay begun.
LEMMA LeavesBegun ==
  ASSUME PlanInv, NEW r \in Requests, Leaves(r), Committing(r)
  PROVE  /\ \A c \in Creators : Begun(c) => Begun(c)'
         /\ r \in Creators => Begun(r)'
<1>1. Attaching(r) => r \in Finalizers /\ r \notin Creators
  BY Kinds DEF Attaching, Actors
<1>2. \A c \in Creators : c \in Actors
  BY DEF Actors, Requests
<1>3. QED BY <1>1, <1>2 DEF Leaves, Begun

\* A creator commits its batch.
LEMMA OpenSafe ==
  ASSUME PlanInv, TypeOK', Shape', NEW r \in Requests, Opening(r), Written(r), Leaves(r),
         UNCHANGED <<assets, sources, revived>>
  PROVE  PlanInv'
<1>1. /\ r \in Actors /\ r \in Creators /\ r \notin Finalizers /\ r \notin Submitters /\ r \notin Browsers
      /\ TypeOK /\ Shape /\ Committing(r) /\ r # None
  BY Kinds DEF Opening, Actors, PlanInv, Committing, Requests
<1>2. New(r) = Staged(r) /\ ~Attaching(r) /\ ~Submitting(r)
  BY <1>1, NewIs
<1>3. report = request[r].expected /\ report.status # "gone" /\ report \in Reports
      /\ files' = files /\ notice' = notice
  BY <1>1, <1>2 DEF Written, MayCommit, TypeOK
<1>4. /\ report'.batch = r /\ report'.staged /\ report'.pending = Records
      /\ report'.status = report.status /\ report'.attached = report.attached
      /\ report'.announced = report.announced
  <2>1. report' = [report EXCEPT !.batch = r, !.staged = TRUE, !.pending = Records]
    BY <1>2, <1>3 DEF Written, Staged
  <2>2. QED BY <1>1, <1>3, <2>1 DEF Reports
<1>5. report.status = "draft" /\ ~report.staged
  BY <1>1, <1>3 DEF PlanInv, Knows, CreatorKnows, Opening
<1>6. ~Begun(r) /\ (\A c \in Creators : Begun(c) => Begun(c)') /\ Begun(r)'
  BY <1>1, LeavesBegun DEF Begun, Opening
<1>7. /\ \A q \in Actors : q # r => request'[q] = request[q]
      /\ \A q \in Creators \cup Finalizers \cup Submitters \cup Browsers : q \in Actors
  BY DEF Leaves, Actors, Requests
<1>8. \A x \in report.attached : x \in Uploads /\ x[1] \in Creators /\ x[1] # r
  <2>1. report.attached \subseteq Uploads
    BY <1>3 DEF Reports
  <2>2. \A x \in report.attached : Begun(x[1])
    BY DEF PlanInv, BatchesBegun, AttachedBegun
  <2>3. QED BY <1>6, <2>1, <2>2 DEF Uploads
<1>9. BatchesBegun'
  <2>1. BatchBegun' /\ AttachedBegun'
    BY <1>1, <1>4, <1>6, <1>8 DEF PlanInv, BatchesBegun, BatchBegun, AttachedBegun, Begun
  <2>2. SourcesBegun'
    BY <1>6 DEF PlanInv, BatchesBegun, SourcesBegun, Uploads, Begun
  <2>3. \A q \in Finalizers : WorkingBegun(q)'
    BY <1>1, <1>6, <1>7 DEF PlanInv, BatchesBegun, WorkingBegun, Working, Begun, Shape
  <2>4. QED BY <2>1, <2>2, <2>3 DEF BatchesBegun
<1>10. Knows'
  BY <1>1, <1>6, <1>7 DEF PlanInv, Knows, CreatorKnows, SubmitterKnows, BrowserKnows,
     FinalizerKnows, Working, Begun
<1>11. PendingShrinks'
  <2>1. \A q \in Finalizers : Working(q)' => request'[q].batch # r
    <3>1. \A q \in Finalizers : Working(q) => Begun(request[q].batch)
      BY DEF PlanInv, BatchesBegun, WorkingBegun
    <3>2. QED BY <1>1, <1>6, <1>7, <3>1 DEF Working
  <2>2. QED BY <1>4, <2>1 DEF PendingShrinks
<1>12. CopyKept' /\ CopyNamed'
  BY <1>1, <1>3, <1>4, <1>7 DEF PlanInv, CopyKept, Standing, CopyNamed, Working, Begun
<1>13. UploadsAccounted'
  <2>1. \A i \in Records : <<r, i>> \notin report.attached
    BY <1>8
  <2>2. \A b \in Creators, i, j \in Records : <<b, i>> \in report.attached => <<b, j>> \in report.attached
    BY <1>3, <1>5 DEF PlanInv, UploadsAccounted
  <2>3. QED BY <1>4, <1>5, <2>1, <2>2 DEF UploadsAccounted
<1>14. EvidenceKept'
  <2>1. \A i \in Records : sources[<<r, i>>] = "none"
    BY <1>1, <1>6 DEF PlanInv, BatchesBegun, SourcesBegun, Uploads
  <2>2. QED BY <1>3, <1>4, <2>1 DEF PlanInv, EvidenceKept, Standing
<1>15. Announced' /\ NotDraft'
  BY <1>3, <1>4 DEF PlanInv, Announced, NotDraft
<1>16. QED BY <1>9, <1>10, <1>11, <1>12, <1>13, <1>14, <1>15 DEF PlanInv

\* A submitter commits its proposal.
LEMMA SubmitSafe ==
  ASSUME PlanInv, TypeOK', Shape', NEW r \in Requests, Submitting(r), Written(r), Leaves(r),
         UNCHANGED <<assets, sources, revived>>
  PROVE  PlanInv'
<1>1. /\ r \in Actors /\ r \in Submitters /\ r \notin Finalizers /\ r \notin Creators /\ r \notin Browsers
      /\ TypeOK /\ Shape /\ Committing(r)
  BY Kinds DEF Submitting, Actors, PlanInv, Committing, Requests
<1>2. New(r) = Submitted(r) /\ ~Attaching(r)
  BY <1>1, NewIs
<1>3. report = request[r].expected /\ report.status # "gone" /\ report \in Reports
      /\ files' = files /\ request[r].wish \in Proposals
  BY <1>1, <1>2 DEF Written, MayCommit, TypeOK, Shape, Submitting
<1>4. /\ report'.batch = report.batch /\ report'.staged = report.staged
      /\ report'.pending = report.pending /\ report'.attached = report.attached
      /\ report'.announced /\ report'.status = "ready"
  <2>1. report' = [report EXCEPT !.status = "ready", !.proposal = request[r].wish,
                                 !.skipped = FALSE, !.announced = TRUE, !.ledger = FALSE]
    BY <1>2, <1>3 DEF Written, Submitted
  <2>2. QED BY <1>3, <2>1 DEF Reports
<1>5. ~report.staged
  BY <1>1, <1>3 DEF PlanInv, Knows, SubmitterKnows, Submitting
<1>6. \A c \in Creators : Begun(c) => Begun(c)'
  BY <1>1, LeavesBegun
<1>7. /\ \A q \in Actors : q # r => request'[q] = request[q]
      /\ \A q \in Creators \cup Finalizers \cup Submitters \cup Browsers : q \in Actors
      /\ Begun(r)'
  BY <1>2 DEF Leaves, Actors, Requests
<1>8. BatchesBegun'
  <2>1. report.batch \in Creators \cup {None} /\ report.attached \subseteq Creators \X Records
    BY <1>3 DEF Reports, Uploads
  <2>2. BatchBegun' /\ AttachedBegun' /\ SourcesBegun'
    BY <1>4, <1>6, <2>1 DEF PlanInv, BatchesBegun, BatchBegun, AttachedBegun, SourcesBegun, Uploads, Begun
  <2>3. \A q \in Finalizers : WorkingBegun(q)'
    BY <1>1, <1>6, <1>7 DEF PlanInv, BatchesBegun, WorkingBegun, Working, Begun, Shape
  <2>4. QED BY <2>2, <2>3 DEF BatchesBegun
<1>9. Knows'
  BY <1>1, <1>7 DEF PlanInv, Knows, CreatorKnows, SubmitterKnows, BrowserKnows,
     FinalizerKnows, Working, Begun
<1>10. PendingShrinks' /\ CopyKept' /\ CopyNamed'
  BY <1>1, <1>3, <1>4, <1>5, <1>7 DEF PlanInv, PendingShrinks, CopyKept, Standing, CopyNamed, Working, Begun
<1>11. UploadsAccounted' /\ EvidenceKept'
  BY <1>3, <1>4, <1>5 DEF PlanInv, UploadsAccounted, EvidenceKept, Standing
<1>12. Announced' /\ NotDraft'
  BY <1>4 DEF Announced, NotDraft
<1>13. QED BY <1>8, <1>9, <1>10, <1>11, <1>12 DEF PlanInv

\* A finalizer attaches the file of its record.
LEMMA AttachSafe ==
  ASSUME PlanInv, TypeOK', Shape', NEW r \in Requests, Attaching(r), Written(r), Leaves(r),
         UNCHANGED <<assets, sources, revived>>
  PROVE  PlanInv'
<1> DEFINE b == request[r].batch
           n == request[r].next
<1>1. /\ r \in Actors /\ r \in Finalizers /\ r \notin Submitters /\ r \notin Creators /\ r \notin Browsers
      /\ TypeOK /\ Shape /\ Committing(r)
  BY Kinds DEF Attaching, Actors, PlanInv, Committing, Requests
<1>2. New(r) = Attached(r) /\ ~Submitting(r)
  BY <1>1, NewIs
<1>3. /\ report = request[r].expected /\ report.status # "gone" /\ report \in Reports
      /\ files' = [files EXCEPT ![At(r)] = r] /\ notice' = notice
      /\ request[r].at = "prepared"
  BY <1>1, <1>2 DEF Written, MayCommit, TypeOK, Attaching
<1>4. b \in Creators /\ n \in Records /\ At(r) = <<b, n>> /\ At(r) \in Uploads
  BY <1>1, <1>3 DEF Shape, Working, At, Uploads
<1>5. /\ report'.batch = report.batch /\ report'.staged = report.staged
      /\ report'.pending = report.pending \ {n} /\ report'.attached = report.attached \cup {<<b, n>>}
      /\ report'.announced = report.announced /\ report'.status = report.status
  <2>1. report' = [report EXCEPT !.attached = @ \cup {At(r)}, !.pending = @ \ {n}]
    BY <1>2, <1>3 DEF Written, Attached
  <2>2. QED BY <1>3, <1>4, <2>1 DEF Reports
<1>6. /\ report.staged /\ report.batch = b /\ report.status = "draft"
      /\ \A i \in Records : i < n => i \notin report.pending
  BY <1>1, <1>3 DEF PlanInv, Knows, FinalizerKnows, Working
<1>a. Standing
  BY <1>3, <1>6 DEF PlanInv, NotDraft, Standing
<1>7. /\ \A c \in Creators : Begun(c) => Begun(c)'
      /\ Begun(b)
  BY <1>1, <1>3, LeavesBegun DEF PlanInv, BatchesBegun, WorkingBegun, Working
<1>8. /\ \A q \in Actors : q # r => request'[q] = request[q]
      /\ \A q \in Creators \cup Finalizers \cup Submitters \cup Browsers : q \in Actors
      /\ \/ Begun(r)'
         \/ /\ request'[r].at = "checkpointed" /\ request'[r].expected = report'
            /\ request'[r].batch = b /\ request'[r].next = n
  BY DEF Leaves, Actors, Requests
<1>9. BatchesBegun'
  <2>1. report.batch \in Creators \cup {None} /\ report.attached \subseteq Creators \X Records
    BY <1>3 DEF Reports, Uploads
  <2>2. BatchBegun' /\ SourcesBegun'
    BY <1>5, <1>7, <2>1 DEF PlanInv, BatchesBegun, BatchBegun, SourcesBegun, Uploads, Begun
  <2>3. AttachedBegun'
    <3>1. \A x \in report'.attached : x[1] \in Creators /\ Begun(x[1])
      BY <1>4, <1>5, <1>7, <2>1 DEF PlanInv, BatchesBegun, AttachedBegun
    <3>2. QED BY <1>7, <3>1 DEF AttachedBegun, Begun
  <2>4. \A q \in Finalizers : WorkingBegun(q)'
    <3>1. \A q \in Finalizers : Working(q)' => Begun(request[q].batch)
            /\ request[q].batch \in Creators /\ request'[q].batch = request[q].batch
      BY <1>1, <1>3, <1>7, <1>8 DEF PlanInv, BatchesBegun, WorkingBegun, Working, Begun, Shape
    <3>2. QED BY <1>7, <3>1 DEF WorkingBegun, Begun
  <2>5. QED BY <2>2, <2>3, <2>4 DEF BatchesBegun
<1>10. CreatorKnows' /\ SubmitterKnows' /\ BrowserKnows'
  BY <1>1, <1>8 DEF PlanInv, Knows, CreatorKnows, SubmitterKnows, BrowserKnows
<1>11. FinalizerKnows'
  <2>1. CASE Begun(r)'
    BY <1>8, <2>1 DEF PlanInv, Knows, FinalizerKnows, Working, Begun
  <2>2. CASE /\ request'[r].at = "checkpointed" /\ request'[r].expected = report'
             /\ request'[r].batch = b /\ request'[r].next = n
    <3>1. ASSUME NEW q \in Finalizers, Working(q)'
          PROVE  /\ request'[q].expected.status = "draft" /\ request'[q].expected.staged
                 /\ request'[q].expected.batch = request'[q].batch
                 /\ \A i \in Records : i < request'[q].next => i \notin request'[q].expected.pending
                 /\ request'[q].at = "checkpointed" =>
                      request'[q].next \notin request'[q].expected.pending
      <4>1. CASE q = r
        BY <1>5, <1>6, <2>2, <4>1
      <4>2. CASE q # r
        BY <1>8, <3>1, <4>2 DEF PlanInv, Knows, FinalizerKnows, Working
      <4>3. QED BY <4>1, <4>2
    <3>2. QED BY <3>1 DEF FinalizerKnows
  <2>3. QED BY <1>8, <2>1, <2>2
<1>12. PendingShrinks'
  <2>1. \A q \in Finalizers : q # r /\ Working(q)' =>
          Working(q) /\ request'[q].batch = request[q].batch /\ request'[q].expected = request[q].expected
    BY <1>8 DEF Working
  <2>2. \A q \in Finalizers : q # r /\ Working(q) /\ report.batch = request[q].batch =>
          report.pending \subseteq request[q].expected.pending
    BY <1>3, <1>6 DEF PlanInv, PendingShrinks
  <2>3. Working(r)' => request'[r].expected = report'
    BY <1>8 DEF Working, Begun
  <2>4. QED BY <1>5, <2>1, <2>2, <2>3 DEF PendingShrinks
<1>13. CopyKept'
  BY <1>3, <1>5, <1>8 DEF PlanInv, CopyKept, Standing, Begun
<1>14. CopyNamed'
  <2>1. \A x \in Uploads : files'[x] = IF x = <<b, n>> THEN r ELSE files[x]
    BY <1>1, <1>3, <1>4 DEF TypeOK
  <2>2. \A x \in Uploads : x # <<b, n>> /\ files[x] = r => x[2] < n
    BY <1>1, <1>3 DEF PlanInv, CopyNamed, Begun
  <2>3. ASSUME NEW q \in Finalizers, NEW x \in Uploads, files'[x] = q, q # r
        PROVE  \/ Begun(q)'
               \/ Working(q)' /\ x[2] < request'[q].next
               \/ request'[q].at = "checkpointed" /\ x[2] = request'[q].next
    BY <1>8, <2>1, <2>3 DEF PlanInv, CopyNamed, Begun, Working
  <2>4. ASSUME NEW x \in Uploads, files'[x] = r
        PROVE  \/ Begun(r)'
               \/ Working(r)' /\ x[2] < request'[r].next
               \/ request'[r].at = "checkpointed" /\ x[2] = request'[r].next
    BY <1>8, <2>1, <2>2, <2>4 DEF Working
  <2>5. QED BY <2>3, <2>4 DEF CopyNamed
<1>15. UploadsAccounted'
  <2>1. \A i \in Records : i \in report.pending <=> <<b, i>> \notin report.attached
    BY <1>3, <1>6 DEF PlanInv, UploadsAccounted
  <2>2. \A i \in Records : i \in report'.pending <=> <<b, i>> \notin report'.attached
    BY <1>5, <2>1
  <2>3. \A c \in Creators \ {b}, i, j \in Records :
          <<c, i>> \in report'.attached => <<c, j>> \in report'.attached
    BY <1>3, <1>5, <1>6 DEF PlanInv, UploadsAccounted
  <2>4. QED BY <1>5, <1>6, <2>2, <2>3 DEF UploadsAccounted
<1>16. EvidenceKept'
  <2>1. \A x \in Uploads : files'[x] = IF x = <<b, n>> THEN r ELSE files[x]
    BY <1>1, <1>3, <1>4 DEF TypeOK
  <2>2. <<b, n, r>> \in assets
    BY <1>1, <1>3, <1>a DEF PlanInv, CopyKept
  <2>3. report.attached \subseteq Uploads
    BY <1>3 DEF Reports
  <2>4. \A x \in report'.attached : <<x[1], x[2], files'[x]>> \in assets
    BY <1>3, <1>4, <1>5, <1>a, <2>1, <2>2, <2>3 DEF PlanInv, EvidenceKept
  <2>5. \A i \in report'.pending : sources[<<report'.batch, i>>] # "gone"
    BY <1>3, <1>5, <1>6, <1>a DEF PlanInv, EvidenceKept
  <2>6. QED BY <2>4, <2>5 DEF EvidenceKept, Standing
<1>17. Announced' /\ NotDraft'
  BY <1>3, <1>5 DEF PlanInv, Announced, NotDraft
<1>18. QED BY <1>9, <1>10, <1>11, <1>12, <1>13, <1>14, <1>15, <1>16, <1>17 DEF PlanInv, Knows

\* A finalizer closes the manifest after the last record.
LEMMA CloseSafe ==
  ASSUME PlanInv, TypeOK', Shape', NEW r \in Requests, Closing(r), Written(r), Leaves(r),
         UNCHANGED <<assets, sources, revived>>
  PROVE  PlanInv'
<1>1. /\ r \in Actors /\ r \in Finalizers /\ r \notin Submitters /\ r \notin Creators /\ r \notin Browsers
      /\ TypeOK /\ Shape /\ Committing(r)
  BY Kinds DEF Closing, Here, Actors, PlanInv, Committing, Requests
<1>2. New(r) = Closed(r) /\ ~Attaching(r) /\ ~Submitting(r)
  BY <1>1, NewIs
<1>3. /\ report = request[r].expected /\ report.status # "gone" /\ report \in Reports
      /\ files' = files /\ notice' = notice
      /\ request[r].at = "loaded" /\ ~(request[r].next <= FilesPerBatch)
  BY <1>1, <1>2 DEF Written, MayCommit, TypeOK, Closing, Here, InBatch
<1>4. /\ report'.batch = report.batch /\ ~report'.staged
      /\ report'.attached = report.attached
      /\ report'.announced = report.announced /\ report'.status = report.status
  <2>1. report' = [report EXCEPT !.staged = FALSE]
    BY <1>2, <1>3 DEF Written, Closed
  <2>2. QED BY <1>3, <2>1, ClosedIs
<1>5. /\ report.staged /\ report.status = "draft"
      /\ \A i \in Records : i \notin report.pending
  <2>1. \A i \in Records : i < request[r].next
    BY <1>1, <1>3 DEF Records, TypeOK
  <2>2. QED BY <1>1, <1>3, <2>1 DEF PlanInv, Knows, FinalizerKnows, Working
<1>6. \A c \in Creators : Begun(c) => Begun(c)'
  BY <1>1, LeavesBegun
<1>7. /\ \A q \in Actors : q # r => request'[q] = request[q]
      /\ \A q \in Creators \cup Finalizers \cup Submitters \cup Browsers : q \in Actors
      /\ Begun(r)'
  BY <1>2 DEF Leaves, Actors, Requests
<1>8. BatchesBegun'
  <2>1. report.batch \in Creators \cup {None} /\ report.attached \subseteq Creators \X Records
    BY <1>3 DEF Reports, Uploads
  <2>2. BatchBegun' /\ AttachedBegun' /\ SourcesBegun'
    BY <1>4, <1>6, <2>1 DEF PlanInv, BatchesBegun, BatchBegun, AttachedBegun, SourcesBegun, Uploads, Begun
  <2>3. \A q \in Finalizers : WorkingBegun(q)'
    BY <1>1, <1>6, <1>7 DEF PlanInv, BatchesBegun, WorkingBegun, Working, Begun, Shape
  <2>4. QED BY <2>2, <2>3 DEF BatchesBegun
<1>9. Knows'
  BY <1>1, <1>7 DEF PlanInv, Knows, CreatorKnows, SubmitterKnows, BrowserKnows,
     FinalizerKnows, Working, Begun
<1>10. PendingShrinks' /\ CopyKept' /\ CopyNamed'
  BY <1>1, <1>3, <1>4, <1>7 DEF PlanInv, PendingShrinks, CopyKept, Standing, CopyNamed, Working, Begun
<1>11. UploadsAccounted'
  BY <1>3, <1>4, <1>5 DEF PlanInv, UploadsAccounted
<1>12. EvidenceKept' /\ Announced' /\ NotDraft'
  BY <1>3, <1>4 DEF PlanInv, EvidenceKept, Standing, Announced, NotDraft
<1>13. QED BY <1>8, <1>9, <1>10, <1>11, <1>12 DEF PlanInv

\* Every write of a request, whether its answer arrives or is lost.
LEMMA WriteSafe ==
  ASSUME PlanInv, NEW r \in Requests, Commit(r) \/ (LoseCommit(r) /\ Written(r))
  PROVE  PlanInv'
<1>1. r \in Actors /\ TypeOK /\ Shape
  BY DEF Actors, PlanInv
<1>2. TypeOK' /\ Shape'
  BY <1>1, CommitType, RequestType0
<1>3. Committing(r) /\ Written(r) /\ UNCHANGED <<assets, sources, revived>>
  BY DEF Commit, LoseCommit, Uncertain
<1>4. Leaves(r)
  <2>1. CASE Commit(r)
    <3>1. New(r) \in Reports
      BY <1>1, <1>3, WritesReport
    <3>2. report' = New(r)
      BY <1>3 DEF Written
    <3>3. QED BY <1>1, <2>1, <3>1, <3>2, CommitMoves DEF Leaves, Begun
  <2>2. CASE LoseCommit(r)
    <3>1. Step(r, "failing") /\ "failing" \in Steps
      BY <2>2 DEF LoseCommit, Steps
    <3>2. QED BY <1>1, <3>1, StepIs DEF Leaves, Begun
  <2>3. QED BY <2>1, <2>2
<1>5. QED BY <1>2, <1>3, <1>4, OpenSafe, SubmitSafe, AttachSafe, CloseSafe DEF Committing

\* Every step of a request.
LEMMA RequestSafe ==
  ASSUME PlanInv, NEW r \in Requests, Request(r)
  PROVE  PlanInv'
<1>1. TypeOK /\ Shape
  BY DEF PlanInv
<1>2. CASE ClaimCreate(r) \/ ClaimFinalize(r) \/ ClaimSubmit(r)
  BY <1>2, ClaimSafe
<1>3. CASE Load(r)
  BY <1>3, LoadSafe
<1>4. CASE Prepare(r)
  BY <1>4, PrepareSafe
<1>5. CASE Copy(r) \/ Resume(r)
  BY <1>5, RecordSafe
<1>6. CASE CleanSource(r)
  BY <1>6, CleanSafe
<1>7. CASE Commit(r) \/ (LoseCommit(r) /\ Written(r))
  BY <1>7, WriteSafe
<1>8. CASE \/ SubmitAgain(r) \/ Refuse(r) \/ Release(r) \/ Crash(r) \/ KeepSource(r) \/ Stop(r)
           \/ LoseCommit(r) /\ ~Written(r)
  <2>1. TypeOK' /\ Shape'
    BY <1>1, <1>8, RequestType0, LoopType
  <2>2. QED BY <1>8, <2>1, EndSafe
<1>9. QED BY <1>2, <1>3, <1>4, <1>5, <1>6, <1>7, <1>8 DEF Request

-----------------------------------------------------------------------------
(* The owner, the client and what is saved *)

\* An owner's request reads the report.
LEMMA ReadSafe ==
  ASSUME PlanInv, TypeOK', Shape', NEW r \in Browsers,
         NEW w \in {"skip", "execute", "delete"}, Read(r, w)
  PROVE  PlanInv'
<1>1. r \in Actors /\ r \notin Creators /\ r \notin Finalizers /\ r \notin Submitters /\ TypeOK
  BY Kinds DEF Actors, PlanInv
<1>2. /\ request'[r].at = "loaded" /\ request'[r].wish = w /\ request'[r].expected = report
      /\ \A q \in Actors : q # r => request'[q] = request[q]
  BY <1>1, ReadIs
<1>3. UNCHANGED <<report, files, assets, sources, notice, revived>> /\ Offers(w)
  BY DEF Read, Kept
<1>4. \A q \in Creators \cup Finalizers \cup Submitters \cup Browsers : q \in Actors
  BY DEF Actors, Requests
<1>5. BatchesBegun'
  BY <1>1, <1>2, <1>3, OthersKeep DEF BatchesBegun
<1>6. BrowserKnows'
  BY <1>2, <1>3, <1>4 DEF PlanInv, Knows, BrowserKnows, Offers
<1>7. CreatorKnows' /\ SubmitterKnows' /\ FinalizerKnows'
  BY <1>1, <1>2, <1>4 DEF PlanInv, Knows, CreatorKnows, SubmitterKnows, FinalizerKnows, Working
<1>8. PendingShrinks' /\ CopyKept' /\ CopyNamed'
  BY <1>1, <1>2, <1>3, <1>4 DEF PlanInv, PendingShrinks, CopyKept, Standing, CopyNamed, Begun, Working
<1>9. UploadsAccounted' /\ EvidenceKept' /\ Announced' /\ NotDraft'
  BY <1>3 DEF PlanInv, UploadsAccounted, EvidenceKept, Standing, Announced, NotDraft
<1>10. QED BY <1>5, <1>6, <1>7, <1>8, <1>9 DEF PlanInv, Knows

\* A change of a report without pending uploads that leaves its files alone.
LEMMA ReportSafe ==
  ASSUME PlanInv, TypeOK', Shape',
         \A q \in Requests : request'[q] = request[q],
         \A q \in Browsers : request'[q] = request[q] \/ request'[q].at # "loaded",
         Alike(report', report), report'.status # "draft", ~report.staged, report.status # "gone",
         UNCHANGED <<files, assets, sources, notice, revived>>
  PROVE  PlanInv'
<1>a. report'.batch = report.batch /\ ~report'.staged
      /\ report'.attached = report.attached /\ report'.announced = report.announced
  BY DEF Alike
<1>1. /\ \A q \in Creators \cup Finalizers \cup Submitters : q \in Requests /\ request'[q] = request[q]
      /\ report.batch \in Creators \cup {None} /\ report.attached \subseteq Creators \X Records
  BY DEF Requests, PlanInv, TypeOK, Reports, Uploads
<1>2. BatchesBegun'
  <2>1. BatchBegun' /\ AttachedBegun' /\ SourcesBegun'
    BY <1>1, <1>a DEF PlanInv, BatchesBegun, BatchBegun, AttachedBegun, SourcesBegun, Uploads, Begun
  <2>2. \A q \in Finalizers : WorkingBegun(q)'
    BY <1>1 DEF PlanInv, BatchesBegun, WorkingBegun, Working, Begun, Shape
  <2>3. QED BY <2>1, <2>2 DEF BatchesBegun
<1>3. Knows'
  BY <1>1 DEF PlanInv, Knows, CreatorKnows, SubmitterKnows, BrowserKnows, FinalizerKnows, Working
<1>4. PendingShrinks' /\ CopyKept' /\ CopyNamed'
  BY <1>1, <1>a DEF PlanInv, PendingShrinks, CopyKept, Standing, CopyNamed, Begun, Working
<1>5. UploadsAccounted' /\ EvidenceKept' /\ Announced' /\ NotDraft'
  BY <1>a DEF PlanInv, UploadsAccounted, EvidenceKept, Standing, Announced, NotDraft
<1>6. QED BY <1>2, <1>3, <1>4, <1>5 DEF PlanInv

\* A deleted report that an execution stores again: it names files that are not there, and
\* nothing waits for an upload.
LEMMA ReviveSafe ==
  ASSUME PlanInv, TypeOK', Shape',
         UNCHANGED <<files, assets, sources, notice, request>>,
         report'.batch # None => Begun(report'.batch),
         \A x \in report'.attached : Begun(x[1]),
         \A b \in Creators, i, j \in Records : <<b, i>> \in report'.attached => <<b, j>> \in report'.attached,
         ~report'.staged, report'.announced, report'.status # "draft", revived'
  PROVE  PlanInv'
<1>1. BatchesBegun'
  BY DEF PlanInv, BatchesBegun, BatchBegun, AttachedBegun, SourcesBegun, WorkingBegun, Working, Begun
<1>2. Knows' /\ CopyNamed'
  BY DEF PlanInv, Knows, CreatorKnows, SubmitterKnows, BrowserKnows, FinalizerKnows, CopyNamed,
     Working, Begun
<1>3. PendingShrinks' /\ CopyKept' /\ EvidenceKept' /\ Announced' /\ NotDraft'
  BY DEF PendingShrinks, CopyKept, EvidenceKept, Standing, Announced, NotDraft
<1>4. UploadsAccounted'
  BY DEF UploadsAccounted
<1>5. QED BY <1>1, <1>2, <1>3, <1>4 DEF PlanInv

\* The report goes with its files; what is left of its batch is only sources.
LEMMA DeleteSafe ==
  ASSUME PlanInv, TypeOK', Shape', NEW r \in Browsers, Delete(r), UNCHANGED revived,
         \A q \in Requests : request'[q] = request[q],
         \A q \in Browsers : request'[q] = request[q] \/ request'[q].at # "loaded"
  PROVE  PlanInv'
<1>1. \A q \in Creators \cup Finalizers \cup Submitters : q \in Requests /\ request'[q] = request[q]
  BY DEF Requests
<1>2. report'.status = "gone" /\ report'.batch = None /\ report'.attached = {} /\ ~report'.staged
  BY GoneIs DEF Delete, Gone, Draft
<1>3. \A x \in Uploads : /\ sources'[x] # "none" => sources[x] # "none"
                         /\ files'[x] \in {None, files[x]}
  BY DEF Delete
<1>4. BatchesBegun'
  <2>1. BatchBegun' /\ AttachedBegun'
    BY <1>2 DEF BatchBegun, AttachedBegun
  <2>2. SourcesBegun'
    BY <1>1, <1>3 DEF PlanInv, BatchesBegun, SourcesBegun, Uploads, Begun
  <2>3. \A q \in Finalizers : WorkingBegun(q)'
    BY <1>1 DEF PlanInv, BatchesBegun, WorkingBegun, Working, Begun, Shape
  <2>4. QED BY <2>1, <2>2, <2>3 DEF BatchesBegun
<1>5. Knows'
  BY <1>1 DEF PlanInv, Knows, CreatorKnows, SubmitterKnows, BrowserKnows, FinalizerKnows, Working
<1>6. PendingShrinks' /\ CopyKept'
  BY <1>2 DEF PendingShrinks, CopyKept, Standing
<1>7. CopyNamed'
  <2>1. \A q \in Finalizers : q # None
    BY DEF Actors, Requests
  <2>2. QED BY <1>1, <1>3, <2>1 DEF PlanInv, CopyNamed, Begun, Working
<1>8. UploadsAccounted' /\ EvidenceKept' /\ Announced' /\ NotDraft'
  BY <1>2 DEF UploadsAccounted, EvidenceKept, Standing, Announced, NotDraft
<1>9. QED BY <1>4, <1>5, <1>6, <1>7, <1>8 DEF PlanInv

\* Every step of an owner's request.
LEMMA BrowserSafe ==
  ASSUME PlanInv, NEW r \in Browsers, Browser(r)
  PROVE  PlanInv'
<1>1. TypeOK /\ Shape /\ r \in Actors /\ r \notin Requests
  BY DEF PlanInv, Actors
<1>2. TypeOK' /\ Shape'
  BY <1>1, BrowserType
<1>3. CASE \E wish \in {"skip", "execute", "delete"} : Read(r, wish)
  BY <1>2, <1>3, ReadSafe
<1>4. CASE Mutate(r)
  <2>1. /\ request'[r].at # "loaded"
        /\ \A q \in Actors : q # r => request'[q] = request[q]
    BY <1>1, <1>4, EndedIs DEF Mutate
  <2>2. /\ \A q \in Requests : request'[q] = request[q]
        /\ \A q \in Browsers : request'[q] = request[q] \/ request'[q].at # "loaded"
    BY <1>1, <2>1 DEF Actors
  <2>3. /\ report = request[r].expected /\ report.status # "gone" /\ report \in Reports
        /\ request[r].at = "loaded" /\ UNCHANGED <<notice, revived>>
    BY <1>1, <1>4 DEF Mutate, BrowserMay, TypeOK
  <2>4. CASE Skip(r)
    <3>1. report' = [report EXCEPT !.skipped = ~@] /\ UNCHANGED <<files, assets, sources>>
      BY <2>3, <2>4 DEF Skip
    <3>2. report.status = "ready"
      BY <2>3, <2>4 DEF Skip, PlanInv, Knows, BrowserKnows
    <3>3. ~report.staged
      BY <2>3, <3>2 DEF PlanInv, UploadsAccounted
    <3>4. Alike(report', report) /\ report'.status = "ready"
      BY <2>3, <3>1, <3>2, SkippedIs DEF Alike
    <3>5. QED BY <1>2, <2>2, <2>3, <3>1, <3>3, <3>4, ReportSafe
  <2>5. CASE Execute(r)
    <3>1. PICK j \in Jobs : report' = [report EXCEPT !.status = "running", !.link = j]
      BY <2>3, <2>5 DEF Execute
    <3>a. UNCHANGED <<files, assets, sources>>
      BY <2>5 DEF Execute
    <3>2. ~report.staged
      BY <2>3, <2>5 DEF Execute, PlanInv, Knows, BrowserKnows
    <3>3. Alike(report', report) /\ report'.status = "running"
      BY <2>3, <3>1 DEF Reports, Alike
    <3>4. QED BY <1>2, <2>2, <2>3, <3>a, <3>2, <3>3, ReportSafe
  <2>6. CASE Delete(r)
    BY <1>2, <2>2, <2>3, <2>6, DeleteSafe
  <2>7. QED BY <1>4, <2>4, <2>5, <2>6 DEF Mutate
<1>5. CASE Rejected(r)
  <2>1. /\ request'[r].at = "over"
        /\ \A q \in Actors : q # r => request'[q] = request[q]
    BY <1>1, <1>5, EndedIs DEF Rejected
  <2>2. UNCHANGED <<report, files, assets, sources, notice, revived>>
    BY <1>5 DEF Rejected, Kept
  <2>3. QED BY <1>1, <1>2, <2>1, <2>2, QuietSafe DEF Begun
<1>6. QED BY <1>3, <1>4, <1>5 DEF Browser

\* A client sends a file of a batch its creator answered with.
LEMMA UploadSafe ==
  ASSUME PlanInv, TypeOK', Shape', NEW x \in Uploads, Upload(x)
  PROVE  PlanInv'
<1>1. /\ Begun(x[1])
      /\ UNCHANGED <<report, files, assets, notice, request, revived>>
  BY DEF Upload, Begun
<1>2. \A y \in Uploads : sources'[y] = IF y = x THEN "there" ELSE sources[y]
  BY DEF Upload, PlanInv, TypeOK
<1>3. BatchesBegun'
  <2>1. SourcesBegun'
    BY <1>1, <1>2 DEF PlanInv, BatchesBegun, SourcesBegun, Begun
  <2>2. BatchBegun' /\ AttachedBegun' /\ \A q \in Finalizers : WorkingBegun(q)'
    BY <1>1 DEF PlanInv, BatchesBegun, BatchBegun, AttachedBegun, WorkingBegun, Working, Begun
  <2>3. QED BY <2>1, <2>2 DEF BatchesBegun
<1>4. Knows' /\ PendingShrinks' /\ CopyKept' /\ CopyNamed'
  BY <1>1 DEF PlanInv, Knows, CreatorKnows, SubmitterKnows, BrowserKnows, FinalizerKnows,
     PendingShrinks, CopyKept, Standing, CopyNamed, Working, Begun
<1>5. EvidenceKept'
  <2>1. report.status # "gone" /\ report.staged => \A i \in report.pending : <<report.batch, i>> \in Uploads
    BY DEF PlanInv, BatchesBegun, BatchBegun, TypeOK, Reports, Uploads
  <2>2. QED BY <1>1, <1>2, <2>1 DEF PlanInv, EvidenceKept, Standing
<1>6. UploadsAccounted' /\ Announced' /\ NotDraft'
  BY <1>1 DEF PlanInv, UploadsAccounted, Announced, NotDraft
<1>7. QED BY <1>3, <1>4, <1>5, <1>6 DEF PlanInv

\* The claim's lease, the owner's notification, and steps that change nothing here.
LEMMA UnmovedSafe ==
  ASSUME PlanInv, TypeOK', Shape',
         UNCHANGED <<report, files, assets, sources, request, revived>>,
         notice' # "none" => notice # "none"
  PROVE  PlanInv'
<1>1. BatchesBegun' /\ Knows'
  BY DEF PlanInv, BatchesBegun, BatchBegun, AttachedBegun, SourcesBegun, WorkingBegun, Knows,
     CreatorKnows, SubmitterKnows, BrowserKnows, FinalizerKnows, Working, Begun
<1>2. PendingShrinks' /\ CopyKept' /\ CopyNamed'
  BY DEF PlanInv, PendingShrinks, CopyKept, Standing, CopyNamed, Working, Begun
<1>3. UploadsAccounted' /\ EvidenceKept' /\ Announced' /\ NotDraft'
  BY DEF PlanInv, UploadsAccounted, EvidenceKept, Standing, Announced, NotDraft
<1>4. QED BY <1>1, <1>2, <1>3 DEF PlanInv

-----------------------------------------------------------------------------
(* What the executions remember *)

\* A worker that may still save.
Busy(k) == work[k].at \notin {"idle", "over"}

\* A batch is attached whole or not at all.
Whole(attached) ==
  \A b \in Creators, i, j \in Records : <<b, i>> \in attached => <<b, j>> \in attached

\* A worker remembers a Plan that was submitted, with its uploads, and that names its job.
HeldSound ==
  \A k \in Workers : Busy(k) =>
    /\ work[k].job \in Jobs /\ job[work[k].job] # "none" /\ work[k].held.link = work[k].job
    /\ ~work[k].held.staged /\ work[k].held.announced /\ Whole(work[k].held.attached)
    /\ work[k].held.batch # None => Begun(work[k].held.batch)
    /\ \A x \in work[k].held.attached : Begun(x[1])

\* Uploads end before the first execution, so that all workers and the stored report have
\* the same; the proposal and the skips are one job's.
HeldAlike ==
  \A k, l \in Workers : Busy(k) /\ Busy(l) =>
    /\ Alike(work[k].held, work[l].held)
    /\ work[k].job = work[l].job => SamePlan(work[k].held, work[l].held)

ReportAlike ==
  \A k \in Workers : Busy(k) /\ report.status # "gone" =>
    /\ Alike(report, work[k].held) /\ report.status # "draft"
    /\ report.link = work[k].job => SamePlan(report, work[k].held)

\* A job is named from its start by a Plan that is no draft.
Linked ==
  report.link # None => job[report.link] # "none" /\ report.status \notin {"draft", "gone"}

\* A Plan that was submitted was announced.
Reviewed == report.status \notin {"draft", "gone"} => report.announced

\* A submission that holds the claim of a Plan under review keeps executions away.
Claimed ==
  claim.token \in Submitters /\ report.status \in {"draft", "ready"} => report.link = None

WorkInv == HeldSound /\ HeldAlike /\ ReportAlike /\ Linked /\ Reviewed /\ Claimed

IInv == PlanInv /\ WorkInv

\* What a worker remembers is a report.
LEMMA HeldIs ==
  ASSUME TypeOK, NEW k \in Workers
  PROVE  /\ work[k].held \in Reports
         /\ work[k].held.batch \in Creators \cup {None}
         /\ work[k].held.attached \subseteq Creators \X Records
  BY DEF TypeOK, Reports, Uploads

\* Batches stay begun, whatever the requests do.
LEMMA BegunGrows ==
  ASSUME TypeOK, Shape, NEW r \in Requests, Request(r), NEW c \in Creators, Begun(c)
  PROVE  Begun(c)'
<1>1. c \in Actors /\ c \notin Finalizers /\ c \notin Submitters
  BY Kinds DEF Actors, Requests
<1>2. CASE c # r
  <2>1. request'[c] = request[c]
    BY <1>1, <1>2 DEF TypeOK, Request, ClaimCreate, ClaimFinalize, ClaimSubmit, Claim, Load, Prepare,
       SubmitAgain, Copy, Resume, Stop, CleanSource, Commit, Refuse, Release, Crash, KeepSource,
       LoseCommit, Step, Ended
  <2>2. QED BY <2>1 DEF Begun
<1>3. CASE c = r
  <2>1. Release(r) \/ Crash(r)
    BY <1>1, <1>3 DEF Begun, Request, ClaimCreate, ClaimFinalize, ClaimSubmit, Claim, Fresh, Load,
       Prepare, SubmitAgain, Copy, Resume, Stop, Here, CleanSource, Commit, Refuse, KeepSource,
       LoseCommit, Committing, Opening, Submitting, Attaching, Closing
  <2>2. PICK at \in {"answered", "over"} : Ended(r, at)
    BY <2>1 DEF Release, Crash
  <2>3. QED BY <1>1, <1>3, <2>2, EndedIs DEF Begun
<1>4. QED BY <1>2, <1>3

\* Nothing an execution relies on is in a request's own state.
LEMMA QuietWork ==
  ASSUME IInv, \A c \in Creators : Begun(c) => Begun(c)',
         UNCHANGED <<report, job, work>>,
         \/ claim'.token \in {claim.token, None}
         \/ claim'.token \notin Submitters
         \/ report.status \in {"draft", "ready"} => report.link = None
  PROVE  WorkInv'
<1>1. TypeOK /\ None \notin Submitters
  BY DEF IInv, PlanInv, Actors, Requests
<1>2. HeldSound'
  BY <1>1, HeldIs DEF IInv, WorkInv, HeldSound, Busy, Begun
<1>3. HeldAlike' /\ ReportAlike' /\ Linked' /\ Reviewed'
  BY DEF IInv, WorkInv, HeldAlike, ReportAlike, Linked, Reviewed, Busy
<1>4. Claimed'
  BY <1>1 DEF IInv, WorkInv, Claimed
<1>5. QED BY <1>2, <1>3, <1>4 DEF WorkInv

\* What a request writes: a submission of a Plan without a job, or the next draft.
LEMMA WrittenIs ==
  ASSUME PlanInv, NEW r \in Requests, Committing(r), Written(r)
  PROVE  /\ report.status # "gone" /\ report'.link = report.link
         /\ claim.token = r /\ claim'.token = r
         /\ \/ /\ Submitting(r) /\ report.status \in {"draft", "ready"}
               /\ report'.status = "ready" /\ report'.announced
               /\ report'.proposal = request[r].wish /\ ~report'.skipped
               /\ report'.batch = report.batch /\ report'.staged = report.staged
               /\ report'.attached = report.attached
            \/ /\ report.status = "draft" /\ report'.status = "draft"
               /\ SamePlan(report', report)
<1>1. r \in Actors /\ TypeOK /\ Shape
  BY DEF Actors, PlanInv
<1>2. /\ report' = New(r) /\ report = request[r].expected /\ report \in Reports
      /\ report.status # "gone" /\ claim.token = r /\ claim'.token = r
  BY <1>1 DEF Written, MayCommit, TypeOK, Owns, Renewed, Claims
<1>3. CASE Opening(r)
  <2>1. r \in Creators /\ report.status = "draft"
    BY <1>2, <1>3 DEF Opening, PlanInv, Knows, CreatorKnows
  <2>2. report' = [report EXCEPT !.batch = r, !.staged = TRUE, !.pending = Records]
    BY <1>1, <1>2, <1>3, NewIs DEF Staged
  <2>3. QED BY <1>2, <2>1, <2>2 DEF Reports, SamePlan
<1>4. CASE Submitting(r)
  <2>1. request[r].wish \in Proposals /\ report.status \in {"draft", "ready"}
    BY <1>1, <1>2, <1>4 DEF Submitting, PlanInv, Knows, SubmitterKnows, Shape
  <2>2. report' = [report EXCEPT !.status = "ready", !.proposal = request[r].wish,
                                 !.skipped = FALSE, !.announced = TRUE, !.ledger = FALSE]
    BY <1>1, <1>2, <1>4, NewIs DEF Submitted
  <2>3. QED BY <1>2, <1>4, <2>1, <2>2 DEF Reports
<1>5. CASE Attaching(r) \/ Closing(r)
  <2>1. r \in Finalizers /\ report.status = "draft"
    BY <1>2, <1>5 DEF Attaching, Closing, Here, PlanInv, Knows, FinalizerKnows, Working
  <2>2. CASE Attaching(r)
    <3>1. report' = [report EXCEPT !.attached = @ \cup {At(r)}, !.pending = @ \ {request[r].next}]
      BY <1>1, <1>2, <2>2, NewIs DEF Attached
    <3>2. QED BY <1>2, <2>1, <3>1 DEF Reports, SamePlan
  <2>3. CASE Closing(r)
    <3>1. report' = [report EXCEPT !.staged = FALSE]
      BY <1>1, <1>2, <2>3, NewIs DEF Closed
    <3>2. QED BY <1>2, <2>1, <3>1 DEF Reports, SamePlan
  <2>4. QED BY <1>5, <2>2, <2>3
<1>6. QED BY <1>3, <1>4, <1>5 DEF Committing

\* The requests keep what the executions rely on: they write to a Plan that no job has,
\* and to a draft before there are any.
LEMMA RequestWork ==
  ASSUME IInv, NEW r \in Requests, Request(r)
  PROVE  WorkInv'
<1>1. TypeOK /\ Shape /\ PlanInv /\ None \notin Submitters /\ None \notin Jobs
  BY DEF IInv, PlanInv, Actors, Requests
<1>2. \A c \in Creators : Begun(c) => Begun(c)'
  BY <1>1, BegunGrows
<1>3. CASE Committing(r) /\ Written(r) /\ UNCHANGED executions
  <2>1. CASE Submitting(r) /\ report.status \in {"draft", "ready"} /\ report'.status = "ready"
    <3>1. r \in Submitters /\ report.link = None /\ report'.link = None
          /\ report.status # "gone"
      BY <1>1, <1>3, <2>1, WrittenIs DEF Submitting, IInv, WorkInv, Claimed
    <3>2. /\ report'.announced /\ report'.batch = report.batch /\ report'.staged = report.staged
          /\ report'.attached = report.attached
      BY <1>1, <1>3, <2>1, WrittenIs
    <3>3. HeldSound'
      BY <1>1, <1>2, <1>3, HeldIs DEF IInv, WorkInv, HeldSound, Busy, Begun
    <3>4. HeldAlike'
      BY <1>3 DEF IInv, WorkInv, HeldAlike, Busy
    <3>5. ReportAlike'
      <4>1. ASSUME NEW k \in Workers, Busy(k)'
            PROVE  /\ Alike(report', work[k].held) /\ work[k].job # None
                   /\ work'[k] = work[k]
        <5>1. Busy(k) /\ work'[k] = work[k]
          BY <1>3, <4>1 DEF Busy
        <5>2. Alike(report, work[k].held) /\ work[k].held.announced /\ work[k].job \in Jobs
          BY <3>1, <5>1 DEF IInv, WorkInv, ReportAlike, HeldSound
        <5>3. report'.announced = work[k].held.announced
          BY <1>1, <1>3, <3>2, <5>2, WrittenType, HeldIs DEF Reports, Actors
        <5>4. QED BY <1>1, <3>2, <5>1, <5>2, <5>3 DEF Alike
      <4>2. QED BY <2>1, <3>1, <4>1 DEF ReportAlike
    <3>6. Linked' /\ Reviewed' /\ Claimed'
      BY <3>1, <3>2 DEF Linked, Reviewed, Claimed
    <3>7. QED BY <3>3, <3>4, <3>5, <3>6 DEF WorkInv
  <2>2. CASE report.status = "draft" /\ report'.status = "draft"
    <3>1. report.link = None /\ report'.link = None
      BY <1>1, <1>3, <2>2, WrittenIs DEF IInv, WorkInv, Linked
    <3>2. \A k \in Workers : ~Busy(k) /\ ~Busy(k)'
      BY <1>3, <2>2 DEF IInv, WorkInv, ReportAlike, Busy
    <3>3. QED BY <2>2, <3>1, <3>2 DEF WorkInv, HeldSound, HeldAlike, ReportAlike, Linked, Reviewed,
                 Claimed
  <2>3. QED BY <1>1, <1>3, <2>1, <2>2, WrittenIs
<1>4. CASE UNCHANGED <<report, executions>>
  <2>1. \/ claim'.token \in {claim.token, None}
        \/ claim'.token \notin Submitters
        \/ report.status \in {"draft", "ready"} => report.link = None
    <3>1. CASE ClaimCreate(r) \/ ClaimFinalize(r)
      <4>1. r \in Creators \cup Finalizers /\ \E b \in Creators : Claim(r, b, None)
        BY <3>1 DEF ClaimCreate, ClaimFinalize
      <4>2. PICK b \in Creators : Claim(r, b, None)
        BY <4>1
      <4>3. claim'.token = r
        BY <4>2 DEF Claim
      <4>4. QED BY <4>1, <4>3, Kinds DEF Actors
    <3>2. CASE ClaimSubmit(r)
      <4>1. r \in Submitters /\ Eligible(r, None)
        BY <3>2 DEF ClaimSubmit, Claim
      <4>2. QED BY <4>1, Kinds DEF Eligible, Actors, Requests
    <3>3. CASE ~(ClaimCreate(r) \/ ClaimFinalize(r) \/ ClaimSubmit(r))
      BY <1>1, <3>3 DEF Request, Load, Prepare, SubmitAgain, Copy, Resume, Stop, CleanSource, Commit,
         Refuse, Release, Crash, KeepSource, LoseCommit, Written, Renewed, Kept, NoClaim, TypeOK, Claims
    <3>4. QED BY <3>1, <3>2, <3>3
  <2>2. QED BY <1>2, <1>4, <2>1, QuietWork
<1>5. QED BY <1>3, <1>4 DEF Request, ClaimCreate, ClaimFinalize, ClaimSubmit, Claim, Load, Prepare,
             SubmitAgain, Copy, Resume, Stop, CleanSource, Commit, Refuse, Release, Crash, KeepSource,
             LoseCommit, Kept

\* A change of a submitted Plan that nothing of an execution's is lost by: it keeps the
\* uploads, and names no job, a new one, or the same with the same Plan.
LEMMA ReportWork ==
  ASSUME IInv, claim' = NoClaim, UNCHANGED work,
         \A c \in Creators : request'[c] = request[c],
         \A j \in Jobs : job[j] # "none" => job'[j] # "none",
         Alike(report', report), report.announced,
         report.status \notin {"draft", "gone"}, report'.status \notin {"draft", "gone"},
         report'.link # None => job'[report'.link] # "none",
         \/ report'.link = None
         \/ report'.link = report.link /\ SamePlan(report', report)
         \/ job[report'.link] = "none"
  PROVE  WorkInv'
<1>1. TypeOK /\ None \notin Submitters /\ None \notin Jobs
  BY DEF IInv, PlanInv, Actors, Requests
<1>2. HeldSound'
  BY <1>1, HeldIs DEF IInv, WorkInv, HeldSound, Busy, Begun
<1>3. HeldAlike'
  BY DEF IInv, WorkInv, HeldAlike, Busy
<1>4. ReportAlike'
  <2>1. ASSUME NEW k \in Workers, Busy(k)
        PROVE  /\ Alike(report', work[k].held)
               /\ report'.link = work[k].job => SamePlan(report', work[k].held)
    <3>1. /\ Alike(report, work[k].held) /\ work[k].job \in Jobs /\ job[work[k].job] # "none"
          /\ report.link = work[k].job => SamePlan(report, work[k].held)
      BY <2>1 DEF IInv, WorkInv, ReportAlike, HeldSound
    <3>2. QED BY <1>1, <3>1 DEF Alike, SamePlan
  <2>2. QED BY <2>1 DEF ReportAlike, Busy
<1>5. Linked' /\ Reviewed' /\ Claimed'
  BY <1>1 DEF Linked, Reviewed, Claimed, Alike, NoClaim
<1>6. QED BY <1>2, <1>3, <1>4, <1>5 DEF WorkInv

\* The owner's changes.
LEMMA BrowserWork ==
  ASSUME IInv, NEW r \in Browsers, Browser(r)
  PROVE  WorkInv'
<1>1. TypeOK /\ Shape /\ r \in Actors /\ r \notin Creators /\ None \notin Submitters
  BY Kinds DEF IInv, PlanInv, Actors, Requests
<1>2. \A c \in Creators : request'[c] = request[c]
  BY <1>1 DEF Browser, Read, Mutate, Rejected, Ended, TypeOK, Actors, Requests
<1>3. CASE (\E wish \in {"skip", "execute", "delete"} : Read(r, wish)) \/ Rejected(r)
  BY <1>2, <1>3, QuietWork DEF Read, Rejected, Kept, Begun
<1>4. CASE Mutate(r)
  <2>1. /\ report = request[r].expected /\ report.status # "gone" /\ report \in Reports
        /\ request[r].at = "loaded" /\ claim' = NoClaim /\ UNCHANGED work
    BY <1>1, <1>4 DEF Mutate, BrowserMay, TypeOK
  <2>2. CASE Skip(r)
    <3>1. report' = [report EXCEPT !.skipped = ~@] /\ UNCHANGED job
      BY <2>1, <2>2 DEF Skip
    <3>2. report.status = "ready" /\ report.link = None
      BY <2>1, <2>2 DEF Skip, IInv, PlanInv, Knows, BrowserKnows
    <3>3. Alike(report', report) /\ report'.status = "ready" /\ report'.link = None
      BY <2>1, <3>1, <3>2 DEF Reports, Alike
    <3>4. report.announced
      BY <3>2 DEF IInv, WorkInv, Reviewed
    <3>5. QED BY <1>2, <2>1, <3>1, <3>2, <3>3, <3>4, ReportWork
  <2>3. CASE Execute(r)
    <3>1. PICK j \in Jobs :
            /\ job[j] = "none"
            /\ report' = [report EXCEPT !.status = "running", !.link = j]
            /\ job' = [i \in Jobs |-> IF i = j THEN "open"
                                     ELSE IF i = report.link THEN "over" ELSE job[i]]
      BY <2>1, <2>3 DEF Execute
    <3>2. report.status \in {"ready", "failed"}
      BY <2>1, <2>3 DEF Execute, IInv, PlanInv, Knows, BrowserKnows
    <3>3. Alike(report', report) /\ report'.status = "running" /\ report'.link = j
      BY <2>1, <3>1 DEF Reports, Alike
    <3>4. report.announced
      BY <3>2 DEF IInv, WorkInv, Reviewed
    <3>5. job'[j] = "open" /\ \A i \in Jobs : job[i] # "none" => job'[i] # "none"
      BY <3>1
    <3>6. QED BY <1>2, <2>1, <3>1, <3>2, <3>3, <3>4, <3>5, ReportWork
  <2>4. CASE Delete(r)
    <3>1. report'.status = "gone" /\ report'.link = None /\ UNCHANGED job
      BY <2>4, GoneIs DEF Delete
    <3>2. HeldSound'
      BY <1>1, <1>2, <2>1, <3>1, HeldIs DEF IInv, WorkInv, HeldSound, Busy, Begun
    <3>3. HeldAlike' /\ ReportAlike' /\ Linked' /\ Reviewed' /\ Claimed'
      BY <2>1, <3>1 DEF IInv, WorkInv, HeldAlike, ReportAlike, Linked, Reviewed, Claimed, Busy
    <3>4. QED BY <3>2, <3>3 DEF WorkInv
  <2>5. QED BY <1>4, <2>2, <2>3, <2>4 DEF Mutate
<1>5. QED BY <1>3, <1>4 DEF Browser

\* A worker that begins remembers a Plan that is running, and so submitted.
LEMMA BeginSafe ==
  ASSUME IInv, NEW k \in Workers, NEW j \in Jobs, Begin(k, j)
  PROVE  IInv'
<1>1. TypeOK /\ Shape /\ PlanInv /\ report \in Reports
  BY DEF IInv, PlanInv, TypeOK
<1>2. TypeOK' /\ Shape'
  BY <1>1, WorkerType DEF Worker
<1>3. /\ UNCHANGED <<report, claim, files, assets, sources, notice, request, job, revived>>
      /\ report.link = j /\ report.status = "running" /\ job[j] = "open"
  BY DEF Begin
<1>4. PlanInv'
  BY <1>1, <1>2, <1>3, UnmovedSafe
<1>5. \A l \in Workers :
        /\ l # k => work'[l] = work[l]
        /\ l = k => /\ work'[l].at = "read" /\ work'[l].job = j
                    /\ work'[l].held = report
  BY <1>1 DEF Begin, TypeOK
<1>6. /\ ~report.staged /\ report.announced /\ Whole(report.attached)
      /\ report.batch # None => Begun(report.batch)
      /\ \A x \in report.attached : Begun(x[1])
  BY <1>1, <1>3 DEF IInv, PlanInv, WorkInv, Reviewed, UploadsAccounted, Whole, BatchesBegun,
     BatchBegun, AttachedBegun
<1>7. HeldSound'
  BY <1>3, <1>5, <1>6 DEF IInv, WorkInv, HeldSound, Busy, Begun
<1>8. HeldAlike' /\ ReportAlike'
  BY <1>3, <1>5 DEF IInv, WorkInv, HeldAlike, ReportAlike, Busy, Alike, SamePlan
<1>9. Linked' /\ Reviewed' /\ Claimed'
  BY <1>3 DEF IInv, WorkInv, Linked, Reviewed, Claimed
<1>10. QED BY <1>4, <1>7, <1>8, <1>9 DEF IInv, WorkInv

\* The check changes only where its worker is.
LEMMA CheckSafe ==
  ASSUME IInv, NEW k \in Workers, Check(k)
  PROVE  IInv'
<1>1. TypeOK /\ Shape /\ PlanInv
  BY DEF IInv, PlanInv
<1>2. TypeOK' /\ Shape'
  BY <1>1, WorkerType DEF Worker
<1>3. UNCHANGED <<report, claim, files, assets, sources, notice, request, job, revived>>
  BY DEF Check
<1>4. PlanInv'
  BY <1>1, <1>2, <1>3, UnmovedSafe
<1>5. \A l \in Workers : Busy(l)' =>
        Busy(l) /\ work'[l].job = work[l].job /\ work'[l].held = work[l].held
  BY <1>1 DEF Check, TypeOK, Busy, Unused
<1>6. HeldSound'
  BY <1>3, <1>5 DEF IInv, WorkInv, HeldSound, Begun
<1>7. HeldAlike' /\ ReportAlike'
  BY <1>3, <1>5 DEF IInv, WorkInv, HeldAlike, ReportAlike
<1>8. Linked' /\ Reviewed' /\ Claimed'
  BY <1>3 DEF IInv, WorkInv, Linked, Reviewed, Claimed
<1>9. QED BY <1>4, <1>6, <1>7, <1>8 DEF IInv, WorkInv

\* A save puts back a report with the uploads of the stored one, or of the deleted one.
LEMMA SaveSafe ==
  ASSUME IInv, NEW k \in Workers, Start(k) \/ Wait(k) \/ Break(k) \/ Finish(k)
  PROVE  IInv'
<1>1. TypeOK /\ Shape /\ PlanInv /\ None \notin Jobs
  BY DEF IInv, PlanInv
<1>2. TypeOK' /\ Shape'
  BY <1>1, WorkerType DEF Worker
<1>3. /\ report'.status \in {"running", "failed", "complete"} /\ report'.link = work[k].held.link
      /\ Alike(report', work[k].held) /\ SamePlan(report', work[k].held)
      /\ revived' = (revived \/ report.status = "gone")
      /\ UNCHANGED <<claim, files, assets, sources, notice, request, job, owner, faults>>
  BY <1>1, SaveIs
<1>4. Busy(k)
  BY <1>1, SaveIs DEF Busy
<1>5. \A l \in Workers :
        /\ l # k => work'[l] = work[l]
        /\ l = k /\ Busy(l)' => work'[l].job = work[l].job /\ work'[l].held = report'
  <2>1. CASE work' = [work EXCEPT ![k] = Unused("over")]
    BY <1>1, <2>1 DEF TypeOK, Busy, Unused
  <2>2. CASE work' = [work EXCEPT ![k] = [@ EXCEPT !.held = report', !.at = "working"]]
    BY <1>1, <2>2 DEF TypeOK
  <2>3. QED BY <1>1, <2>1, <2>2, SaveIs
<1>6. /\ work[k].job \in Jobs /\ job[work[k].job] # "none" /\ report'.link = work[k].job
      /\ ~report'.staged /\ report'.announced /\ Whole(report'.attached)
      /\ report'.batch # None => Begun(report'.batch)
      /\ \A x \in report'.attached : Begun(x[1])
  BY <1>3, <1>4 DEF IInv, WorkInv, HeldSound, Alike
<1>7. PlanInv'
  <2>1. CASE report.status = "gone"
    BY <1>1, <1>2, <1>3, <1>6, <2>1, ReviveSafe DEF Whole
  <2>2. CASE report.status # "gone"
    <3>1. Alike(report, work[k].held)
      BY <1>4, <2>2 DEF IInv, WorkInv, ReportAlike
    <3>2. Alike(report', report) /\ ~report.staged
      BY <1>3, <1>6, <3>1 DEF Alike
    <3>3. UNCHANGED revived
      BY <1>1, <1>3, <2>2 DEF TypeOK
    <3>4. QED BY <1>1, <1>2, <1>3, <2>2, <3>2, <3>3, ReportSafe
  <2>3. QED BY <2>1, <2>2
<1>8. HeldSound'
  <2>1. ASSUME NEW l \in Workers, Busy(l)'
        PROVE  /\ work'[l].job \in Jobs /\ job[work'[l].job] # "none"
               /\ work'[l].held.link = work'[l].job
               /\ ~work'[l].held.staged /\ work'[l].held.announced /\ Whole(work'[l].held.attached)
               /\ work'[l].held.batch # None => Begun(work'[l].held.batch)
               /\ \A x \in work'[l].held.attached : Begun(x[1])
    <3>1. CASE l = k
      BY <1>5, <1>6, <2>1, <3>1
    <3>2. CASE l # k
      BY <1>5, <2>1, <3>2 DEF IInv, WorkInv, HeldSound, Busy
    <3>3. QED BY <3>1, <3>2
  <2>2. \A c : Begun(c) => Begun(c)'
    BY <1>3 DEF Begun
  <2>3. QED BY <1>3, <2>1, <2>2 DEF HeldSound, Begun
<1>9. ASSUME NEW l \in Workers, Busy(l)'
      PROVE  /\ Alike(report', work'[l].held)
             /\ work[k].job = work'[l].job => SamePlan(report', work'[l].held)
  <2>1. CASE l = k
    BY <1>5, <1>9, <2>1 DEF Alike, SamePlan
  <2>2. CASE l # k
    <3>1. Busy(l) /\ work'[l] = work[l]
      BY <1>5, <1>9, <2>2 DEF Busy
    <3>2. /\ Alike(work[k].held, work[l].held)
          /\ work[k].job = work[l].job => SamePlan(work[k].held, work[l].held)
      BY <1>4, <3>1 DEF IInv, WorkInv, HeldAlike
    <3>3. QED BY <1>3, <3>1, <3>2 DEF Alike, SamePlan
  <2>3. QED BY <2>1, <2>2
<1>10. HeldAlike'
  <2>1. ASSUME NEW l \in Workers, NEW m \in Workers, Busy(l)', Busy(m)'
        PROVE  /\ Alike(work'[l].held, work'[m].held)
               /\ work'[l].job = work'[m].job => SamePlan(work'[l].held, work'[m].held)
    <3>1. Alike(work'[l].held, work'[m].held)
      BY <1>9, <2>1 DEF Alike
    <3>2. CASE l # k /\ m # k
      BY <1>5, <2>1, <3>1, <3>2 DEF IInv, WorkInv, HeldAlike, Busy
    <3>3. CASE l = k
      BY <1>5, <1>9, <2>1, <3>1, <3>3
    <3>4. CASE m = k
      BY <1>5, <1>9, <2>1, <3>1, <3>4 DEF SamePlan
    <3>5. QED BY <3>2, <3>3, <3>4
  <2>2. QED BY <2>1 DEF HeldAlike
<1>11. ReportAlike'
  BY <1>3, <1>6, <1>9 DEF ReportAlike
<1>12. Linked' /\ Reviewed' /\ Claimed'
  BY <1>1, <1>3, <1>6 DEF Linked, Reviewed, Claimed
<1>13. QED BY <1>7, <1>8, <1>10, <1>11, <1>12 DEF IInv, WorkInv

\* Every step of a worker.
LEMMA WorkerSafe == ASSUME IInv, NEW k \in Workers, Worker(k) PROVE IInv'
  BY BeginSafe, CheckSafe, SaveSafe DEF Worker

\* A job ends, and its report is settled: it has no pending uploads, because it names a job.
LEMMA JobSafe ==
  ASSUME IInv, NEW j \in Jobs, Job(j)
  PROVE  IInv'
<1>1. TypeOK /\ Shape /\ PlanInv /\ None \notin Jobs
  BY DEF IInv, PlanInv
<1>2. TypeOK' /\ Shape'
  BY <1>1, JobType
<1>3. CASE End(j)
  <2>1. UNCHANGED <<report, claim, files, assets, sources, notice, request, work, revived>>
    BY <1>3 DEF End
  <2>2. PlanInv'
    BY <1>1, <1>2, <2>1, UnmovedSafe
  <2>3. \A i \in Jobs : job[i] # "none" => job'[i] # "none"
    BY <1>1, <1>3 DEF End, TypeOK
  <2>4. HeldSound' /\ Linked'
    <3>1. report.link \in Jobs \cup {None}
      BY <1>1 DEF TypeOK, Reports
    <3>2. QED BY <2>1, <2>3, <3>1 DEF IInv, WorkInv, HeldSound, Linked, Busy, Begun
  <2>5. HeldAlike' /\ ReportAlike' /\ Reviewed' /\ Claimed'
    BY <2>1 DEF IInv, WorkInv, HeldAlike, ReportAlike, Reviewed, Claimed, Busy
  <2>6. QED BY <2>2, <2>4, <2>5 DEF IInv, WorkInv
<1>4. CASE Fail(j) \/ Clean(j)
  <2>1. /\ Alike(report', report) /\ SamePlan(report', report) /\ report'.link \in {report.link, None}
        /\ report'.status \in {report.status, "ready", "failed"}
        /\ report.link = j /\ report.status # "gone" /\ claim' = NoClaim
        /\ UNCHANGED <<files, assets, sources, notice, request, executions, faults>>
    BY <1>1, <1>4, SettleIs
  <2>2. report.status # "draft" /\ ~report.staged /\ report.announced /\ job[report.link] # "none"
    BY <1>1, <2>1 DEF IInv, PlanInv, WorkInv, Linked, Reviewed, UploadsAccounted
  <2>3. PlanInv'
    BY <1>1, <1>2, <2>1, <2>2, ReportSafe
  <2>4. WorkInv'
    <3>1. report'.status \notin {"draft", "gone"} /\ (report'.link # None => job'[report'.link] # "none")
          /\ (report'.link = None \/ (report'.link = report.link /\ SamePlan(report', report)))
      BY <2>1, <2>2
    <3>2. QED BY <2>1, <2>2, <3>1, ReportWork
  <2>5. QED BY <2>3, <2>4 DEF IInv
<1>5. QED BY <1>3, <1>4 DEF Job

-----------------------------------------------------------------------------
(* The theorems *)

\* Every step keeps the inductive invariant.
LEMMA NextIInv == IInv /\ [Next]_vars => IInv'
<1> SUFFICES ASSUME IInv, [Next]_vars PROVE IInv'
  OBVIOUS
<1>1. TypeOK' /\ Shape' /\ PlanInv
  BY NextType DEF IInv, PlanInv
<1>2. CASE \E r \in Requests : Request(r)
  BY <1>1, <1>2, RequestSafe, RequestWork DEF IInv
<1>3. CASE \E r \in Browsers : Browser(r)
  BY <1>1, <1>3, BrowserSafe, BrowserWork DEF IInv
<1>4. CASE \E k \in Workers : Worker(k)
  BY <1>4, WorkerSafe
<1>5. CASE \E j \in Jobs : Job(j)
  BY <1>5, JobSafe
<1>6. CASE (\E x \in Uploads : Upload(x)) \/ Dismiss \/ Expire \/ UNCHANGED vars
  <2>1. /\ UNCHANGED <<report, job, work, revived, request>>
        /\ claim'.token = claim.token
    BY <1>1, <1>6 DEF Upload, Dismiss, Expire, Kept, vars, PlanInv, TypeOK, Claims
  <2>2. WorkInv'
    BY <2>1, QuietWork DEF Begun
  <2>3. PlanInv'
    <3>1. CASE \E x \in Uploads : Upload(x)
      BY <1>1, <3>1, UploadSafe
    <3>2. CASE Dismiss \/ Expire \/ UNCHANGED vars
      BY <1>1, <2>1, <3>2, UnmovedSafe DEF Dismiss, Expire, Kept, vars
    <3>3. QED BY <1>6, <3>1, <3>2
  <2>4. QED BY <2>2, <2>3 DEF IInv
<1>7. QED BY <1>2, <1>3, <1>4, <1>5, <1>6 DEF Next

\* The initial state satisfies it: nobody is at work and nothing is stored.
LEMMA InitIInv == Init => IInv
<1> SUFFICES ASSUME Init PROVE IInv
  OBVIOUS
<1>1. \A k \in Workers : ~Busy(k)
  BY DEF Init, Busy, Unused
<1>2. report.link = None /\ report.status = "draft"
  BY DEF Init, Draft
<1>3. WorkInv
  BY <1>1, <1>2 DEF WorkInv, HeldSound, HeldAlike, ReportAlike, Linked, Reviewed, Claimed
<1>4. QED BY <1>3, InitPlanInv DEF IInv

\* The inductive invariant holds in every reachable state.
LEMMA Inductive == Spec => []IInv
<1>1. QED BY InitIInv, NextIInv, PTL DEF Spec

\* The manifest and the files agree, for any number of requests, mutations, executions,
\* files and faults, and whatever reports the executions save.
THEOREM UploadsHold == Spec => []UploadsAccounted
<1>1. IInv => UploadsAccounted
  BY DEF IInv, PlanInv
<1>2. QED BY <1>1, Inductive, PTL

\* No clean-up takes what a report that was never deleted still needs.
THEOREM EvidenceHolds == Spec => []EvidenceKept
<1>1. IInv => EvidenceKept
  BY DEF IInv, PlanInv
<1>2. QED BY <1>1, Inductive, PTL

-----------------------------------------------------------------------------
(* What a step may never do *)

\* Whatever writes the notification leaves a dismissed one alone: its marker is in
\* every report that a commit is compared with, those of the executions too.
LEMMA DismissedStep == IInv /\ [Next]_vars => (notice = "dismissed" => notice' = "dismissed")
<1> SUFFICES ASSUME IInv, [Next]_vars, notice = "dismissed" PROVE notice' = "dismissed"
  OBVIOUS
<1>1. TypeOK /\ (report.announced \/ report.status = "gone")
  BY DEF IInv, PlanInv, Announced
<1>2. ASSUME NEW r \in Requests, Request(r) PROVE notice' = notice
  <2>1. CASE Written(r)
    BY <1>1, <2>1 DEF Written, MayCommit
  <2>2. CASE ~Written(r)
    BY <1>2, <2>2 DEF Request, ClaimCreate, ClaimFinalize, ClaimSubmit, Claim, Load, Prepare,
       SubmitAgain, Copy, Resume, Stop, CleanSource, Commit, Refuse, Release, Crash, KeepSource,
       LoseCommit, Kept
  <2>3. QED BY <2>1, <2>2
<1>3. ASSUME NEW r \in Browsers, Browser(r) PROVE notice' = notice
  BY <1>3 DEF Browser, Read, Mutate, Rejected, Kept
<1>4. ASSUME NEW k \in Workers, Worker(k) PROVE notice' = notice
  BY <1>1, <1>4, SaveIs DEF Worker, Begin, Check
<1>5. ASSUME NEW j \in Jobs, Job(j) PROVE notice' = notice
  BY <1>1, <1>5, SettleIs DEF Job, End
<1>6. CASE (\E x \in Uploads : Upload(x)) \/ Dismiss \/ Expire \/ UNCHANGED vars
  BY <1>6 DEF Upload, Dismiss, Expire, Kept, vars
<1>7. QED BY <1>2, <1>3, <1>4, <1>5, <1>6 DEF Next

\* A step that leaves the proposal alone, shows no skip it did not have unless the
\* proposal is still the one that was read, and leaves an execution its Plan.
Stands ==
  report.status # "gone" /\ report'.status # "gone" =>
    /\ report'.proposal # report.proposal =>
         \E r \in Submitters : /\ request[r].at = "loaded" /\ request'[r].at # "loaded"
                               /\ request[r].wish = report'.proposal
    /\ report'.skipped /\ ~report.skipped => report'.proposal = report.proposal
    /\ report.status = "running" =>
         /\ report'.proposal = report.proposal
         /\ report'.skipped = report.skipped

\* Whatever leaves the proposal and its skips alone lets them stand.
LEMMA SameStands == SamePlan(report', report) => Stands
  BY DEF SamePlan, Stands

\* A request writes to a report that is not being executed, and only a submission
\* writes a proposal.
LEMMA WriteStands ==
  ASSUME IInv, NEW r \in Requests, Commit(r) \/ (LoseCommit(r) /\ Written(r))
  PROVE  Stands
<1>1. r \in Actors /\ TypeOK /\ Shape /\ PlanInv
  BY DEF Actors, IInv, PlanInv
<1>2. Committing(r) /\ Written(r)
  BY DEF Commit, LoseCommit
<1>3. CASE SamePlan(report', report)
  BY <1>3, SameStands
<1>4. CASE ~SamePlan(report', report)
  <2>1. /\ Submitting(r) /\ report.status \in {"draft", "ready"}
        /\ report'.proposal = request[r].wish /\ ~report'.skipped
    BY <1>1, <1>2, <1>4, WrittenIs
  <2>2. r \in Submitters /\ request[r].at = "loaded" /\ ~Attaching(r)
    BY <1>1, <2>1, NewIs DEF Submitting
  <2>3. request'[r].at # "loaded"
    <3>1. CASE Commit(r)
      <4>1. New(r) \in Reports
        BY <1>1, <1>2, WritesReport
      <4>2. QED BY <1>1, <3>1, <4>1, CommitMoves
    <3>2. CASE LoseCommit(r)
      <4>1. Step(r, "failing") /\ "failing" \in Steps
        BY <3>2 DEF LoseCommit, Steps
      <4>2. QED BY <1>1, <4>1, StepIs
    <3>3. QED BY <3>1, <3>2
  <2>4. QED BY <2>1, <2>2, <2>3 DEF Stands
<1>5. QED BY <1>3, <1>4

\* The owner changes the skips only of the Plan that the request read for review.
LEMMA MutateStands ==
  ASSUME IInv, NEW r \in Browsers, Mutate(r)
  PROVE  Stands
<1>1. /\ r \in Actors /\ report = request[r].expected /\ report \in Reports
      /\ request[r].at = "loaded"
  BY DEF Mutate, BrowserMay, IInv, PlanInv, TypeOK, Actors
<1>2. CASE Skip(r)
  <2>1. report.status = "ready" /\ report' = [report EXCEPT !.skipped = ~@]
    BY <1>1, <1>2 DEF Skip, IInv, PlanInv, Knows, BrowserKnows
  <2>2. report'.proposal = report.proposal
    BY <1>1, <2>1, SkippedIs
  <2>3. QED BY <2>1, <2>2 DEF Stands
<1>3. CASE Execute(r)
  <2>1. PICK j \in Jobs : report' = [report EXCEPT !.status = "running", !.link = j]
    BY <1>1, <1>3 DEF Execute
  <2>2. SamePlan(report', report)
    BY <1>1, <2>1 DEF Reports, SamePlan
  <2>3. QED BY <2>2, SameStands
<1>4. CASE Delete(r)
  BY <1>4, GoneIs DEF Delete, Stands
<1>5. QED BY <1>2, <1>3, <1>4 DEF Mutate

\* A worker that still has its job, and whose job the report still names, saves the
\* proposal and the skips that are stored; any other save is an overrun.
LEMMA SaveStands ==
  ASSUME IInv, NEW k \in Workers, Worker(k), ~Overruns
  PROVE  Stands
<1>1. TypeOK
  BY DEF IInv, PlanInv
<1>2. CASE UNCHANGED report
  BY <1>2 DEF Stands
<1>3. CASE Start(k) \/ Wait(k) \/ Break(k) \/ Finish(k)
  <2>1. work[k].at \in {"starting", "acting"} /\ SamePlan(report', work[k].held)
    BY <1>1, <1>3, SaveIs
  <2>2. work'[k].at # work[k].at
    <3>1. CASE work' = [work EXCEPT ![k] = Unused("over")]
      BY <1>1, <2>1, <3>1 DEF TypeOK, Unused
    <3>2. CASE work' = [work EXCEPT ![k] = [@ EXCEPT !.held = report', !.at = "working"]]
      BY <1>1, <2>1, <3>2 DEF TypeOK
    <3>3. QED BY <1>1, <1>3, <3>1, <3>2, SaveIs
  <2>3. report.link = work[k].job /\ Busy(k)
    BY <2>1, <2>2 DEF Overruns, Executes, Busy
  <2>4. CASE report.status # "gone"
    <3>1. SamePlan(report, work[k].held)
      BY <2>3, <2>4 DEF IInv, WorkInv, ReportAlike
    <3>2. QED BY <2>1, <3>1, SameStands DEF SamePlan
  <2>5. QED BY <2>4 DEF Stands
<1>4. QED BY <1>2, <1>3 DEF Worker, Begin, Check

\* Every step but an overrun lets the proposal under review stand.
LEMMA ReviewStep == IInv /\ [Next]_vars /\ ~Overruns => Stands
<1> SUFFICES ASSUME IInv, [Next]_vars, ~Overruns PROVE Stands
  OBVIOUS
<1>1. TypeOK /\ (report' = report => Stands)
  BY DEF IInv, PlanInv, Stands
<1>2. ASSUME NEW r \in Requests, Request(r) PROVE Stands
  <2>1. CASE Commit(r) \/ (LoseCommit(r) /\ Written(r))
    BY <2>1, WriteStands
  <2>2. CASE ~(Commit(r) \/ (LoseCommit(r) /\ Written(r)))
    BY <1>1, <1>2, <2>2 DEF Request, ClaimCreate, ClaimFinalize, ClaimSubmit, Claim, Load, Prepare,
       SubmitAgain, Copy, Resume, Stop, CleanSource, Refuse, Release, Crash, KeepSource,
       LoseCommit, Kept
  <2>3. QED BY <2>1, <2>2
<1>3. ASSUME NEW r \in Browsers, Browser(r) PROVE Stands
  BY <1>1, <1>3, MutateStands DEF Browser, Read, Rejected, Kept
<1>4. CASE \E k \in Workers : Worker(k)
  BY <1>4, SaveStands
<1>5. ASSUME NEW j \in Jobs, Job(j) PROVE Stands
  BY <1>1, <1>5, SettleIs, SameStands DEF Job, End
<1>6. CASE (\E x \in Uploads : Upload(x)) \/ Dismiss \/ Expire \/ UNCHANGED vars
  BY <1>1, <1>6 DEF Upload, Dismiss, Expire, Kept, vars
<1>7. QED BY <1>2, <1>3, <1>4, <1>5, <1>6 DEF Next

\* The owner is told of the Plan once, whatever is revised, retried, executed or lost.
THEOREM DismissedHolds == Spec => DismissedStays
<1>1. QED BY Inductive, DismissedStep, PTL DEF Spec, DismissedStays

\* A proposal under review changes only by the submission that carries the new one, a
\* skip never moves to another proposal, and an execution keeps its Plan, through every
\* step but the late save of an execution that lost its job or its report.
THEOREM ReviewHolds == Spec => ReviewStands
<1>1. IInv /\ [Next]_vars =>
        [report.status # "gone" /\ report'.status # "gone" /\ ~Overruns =>
          /\ report'.proposal # report.proposal =>
               \E r \in Submitters : /\ request[r].at = "loaded" /\ request'[r].at # "loaded"
                                     /\ request[r].wish = report'.proposal
          /\ report'.skipped /\ ~report.skipped => report'.proposal = report.proposal
          /\ report.status = "running" =>
               /\ report'.proposal = report.proposal
               /\ report'.skipped = report.skipped]_vars
  BY ReviewStep DEF Stands
<1>2. QED BY Inductive, <1>1, PTL DEF Spec, ReviewStands
=============================================================================
