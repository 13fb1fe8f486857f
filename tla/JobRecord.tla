------------------------------ MODULE JobRecord ------------------------------
(***************************************************************************)
(* The durable record of one deferred job, and the pure tests and updates  *)
(* that the Datastore transactions of                                       *)
(* core/tools/database/deferred_jobs.py apply to it.                        *)
(*                                                                         *)
(* Datetimes are kept as the stage of their passing that the code tells     *)
(* apart: a lease is live, lapsed (lease_expires <= now) or graced          *)
(* (lease_expires + grace <= now); a retry time is later, due or graced; a   *)
(* dispatch time is fresh or stale.  The clock that moves them is in        *)
(* DeferredJob.                                                             *)
(***************************************************************************)
EXTENDS Integers

CONSTANTS
    Workers,     \* the deliveries that may run at once; each is its own lease token
    NoToken,     \* no lease token is stored
    Types        \* the job types that may be started

\* autofill proposals, AI reports, file extraction, report execution
JobTypes == {"autofill", "report", "file", "execution"}

ASSUME RecordAssumption == NoToken \notin Workers /\ Types \subseteq JobTypes

Active    == {"queued", "running", "retry_wait"}
Terminal  == {"succeeded", "failed", "cancelled", "superseded"}
Withdrawn == {"cancelled", "superseded"}
Marks     == {"failure", "cleanup", "notification"}

Dispatches == {"pending", "dispatching", "dispatched", "claimed",
               "delivery_pending", "complete", "failed"}

Record == [type     : JobTypes \cup {"none"},                 \* job_type
           status   : Active \cup Terminal \cup {"absent"},
           attempt  : Nat,
           token    : Workers \cup {NoToken},
           lease    : {"none", "live", "lapsed", "graced"},
           wait     : {"none", "later", "due", "graced"},     \* next_attempt_at
           dispatch : Dispatches,                             \* dispatch_state
           sent     : {"none", "fresh", "stale"},             \* dispatched_at
           rev      : Nat,                                    \* status_revision
           started  : BOOLEAN,                                \* start_completed
           ready    : BOOLEAN,                                \* final checkpoint stored
           receipt  : BOOLEAN,                                \* atomic application receipt
           marks    : SUBSET Marks,                           \* delivery markers
           noted    : BOOLEAN,                                \* the job refers to a notification
           waits    : Nat]                                    \* _dependency_waits

\* No record: also what an actor that holds no entity remembers.
Blank == [type |-> "none", status |-> "absent", attempt |-> 0, token |-> NoToken, lease |-> "none",
          wait |-> "none", dispatch |-> "pending", sent |-> "none", rev |-> 0,
          started |-> FALSE, ready |-> FALSE, receipt |-> FALSE, marks |-> {},
          noted |-> FALSE, waits |-> 0]

\* The named fields are replaced, the others kept.
Updated(r, updates) ==
    [field \in DOMAIN r |-> IF field \in DOMAIN updates THEN updates[field] ELSE r[field]]

\* notification_policy "pending", or "completion"; report execution tells nobody.
NotifiedAtStart(r) == r.type \in {"autofill", "report"}
NotifiedAtEnd(r)   == r.type = "file"

\* What start() hands to the creation transaction.
Submitted(type) ==
    LET r == Updated(Blank, [type |-> type, status |-> "queued", rev |-> 1])
    IN  Updated(r, [noted |-> NotifiedAtStart(r)])

\* An entity in memory, without the three clock fields: no actor decides by its
\* copy of them, every test of a time is made inside a transaction.
Seen(r) == Updated(r, [lease |-> "none", wait |-> "none", sent |-> "none"])

-----------------------------------------------------------------------------
(* Tests *)

RequiresRecovery(r) == r.status \in Active \/ r.dispatch = "delivery_pending"

QueryState(r) == <<IF r.status \in Active THEN r.status ELSE "none",
                   r.dispatch = "delivery_pending">>

\* Mistake: a job that no longer needs recovery stays listed.
TrackingNeverDrops(member, before, after) == member \/ RequiresRecovery(after)

\* Membership of the job in the control record after a tracked boundary.
Tracking(member, before, after) ==
    IF /\ RequiresRecovery(before) = RequiresRecovery(after)
       /\ QueryState(before) = QueryState(after)
      THEN member
      ELSE IF RequiresRecovery(after) THEN TRUE
      ELSE IF RequiresRecovery(before) THEN FALSE
      ELSE member

Claimable(r) ==
    /\ r.status \in Active
    /\ ~ (r.status = "running" /\ r.lease = "live")
    /\ ~ (r.status = "retry_wait" /\ r.wait = "later")

\* Mistake: the receipt does not stop a cancellation.
CancellableByStatus(r) == r.status \in Active

\* transition_active_deferred_job: a stored receipt wins over cancellation.
Cancellable(r) == r.status \in Active /\ ~ r.receipt

\* Mistake: a queued job whose dispatch was never confirmed is left alone.
RecoveryDueIfSent(r, quiet) ==
    /\ ~ (r.dispatch = "dispatching" /\ r.sent = "fresh")
    /\ \/ r.status = "running"    /\ r.lease \in {"none", "graced"}
       \/ r.status = "retry_wait" /\ r.wait \in {"none", "graced"}
       \/ r.status = "queued" /\ r.dispatch = "dispatched" /\ r.sent \in {"none", "stale"}

\* quiet: modified + grace has passed
RecoveryDue(r, quiet) ==
    /\ ~ (r.dispatch = "dispatching" /\ r.sent = "fresh")
    /\ \/ r.status = "running"    /\ r.lease \in {"none", "graced"}
       \/ r.status = "retry_wait" /\ r.wait \in {"none", "graced"}
       \/ /\ r.status = "queued"
          /\ IF r.dispatch = "dispatched" THEN r.sent \in {"none", "stale"} ELSE quiet

\* checkpoint_ready: the report's ledger is the checkpoint of its execution.
CheckpointReady(r) == r.ready \/ r.type = "execution"

\* An interrupted report is not generated again.
ResumePreparation(r) == r.type # "report"

CancellableProvider(r) == r.type = "autofill"

ProviderAttempt(r) == IF r.attempt - r.waits < 1 THEN 1 ELSE r.attempt - r.waits

-----------------------------------------------------------------------------
(* Updates *)

\* attempt counts up to a bound; nothing distinguishes higher counts.
Claimed(r, w, bound) ==
    Updated(r, [status |-> "running", token |-> w, lease |-> "live", wait |-> "none",
                dispatch |-> "claimed", rev |-> r.rev + 1,
                attempt |-> IF r.attempt < bound THEN r.attempt + 1 ELSE r.attempt])

\* Mistake: the token survives the end of the claim.
RevokedKeepsToken(r) == Updated(r, [lease |-> "none", wait |-> "none"])

Revoked(r) == Updated(r, [token |-> NoToken, lease |-> "none", wait |-> "none"])

\* Mistake: the outcome is written to the dispatch state.
TombstoneSwapped(r, outcome) ==
    Updated(Revoked(r), [status |-> "failed", dispatch |-> outcome,
                         marks |-> {}, rev |-> r.rev + 1])

Tombstone(r, outcome) ==
    Updated(Revoked(r), [status |-> outcome, dispatch |-> "delivery_pending",
                         marks |-> {}, rev |-> r.rev + 1])

FailedStart(r) ==
    Updated(Revoked(r), [status |-> "failed", dispatch |-> "failed", rev |-> r.rev + 1])

Redispatched(r) ==
    Updated(r, [dispatch |-> "dispatching", sent |-> "fresh", rev |-> r.rev + 1,
                wait |-> IF r.status = "retry_wait" THEN "due" ELSE r.wait])
=============================================================================
