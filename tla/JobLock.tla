------------------------------- MODULE JobLock -------------------------------
(***************************************************************************)
(* The target-scoped lock of autofill jobs: created with the job, checked by  *)
(* its guarded apply, released by terminal cleanup and by readers that find   *)
(* it stale (create_deferred_job_if_absent, release_deferred_job_lock,        *)
(* deferred_job_lock_descriptors, AutofillAdapter).                           *)
(*                                                                         *)
(* An operation identifier names one job for good: a repeated request with   *)
(* the same identifier is the same operation.                                *)
(***************************************************************************)
EXTENDS Naturals

CONSTANTS
    Ops, Targets, TargetOf,   \* operations, forms, and the form of each operation
    NoOp,                     \* no lock is stored
    Requests, Readers         \* requests that start operations; status readers

ASSUME LockAssumption == NoOp \notin Ops /\ TargetOf \in [Ops -> Targets]

VARIABLES
    status,    \* the stored job of each operation: "absent", "active", "ended", "failed"
    lock,      \* the operation each target's lock names
    applied,   \* operations whose answers were written
    failing,   \* operations of which a start has failed
    request,   \* each request's step and its operation
    reader     \* each reader's step, the target and the lock it read

vars == <<status, lock, applied, failing, request, reader>>

Idle == [at |-> "idle", op |-> NoOp]

Init ==
    /\ status = [o \in Ops |-> "absent"]
    /\ lock = [t \in Targets |-> NoOp]
    /\ applied = {} /\ failing = {}
    /\ request = [q \in Requests |-> Idle]
    /\ reader = [d \in Readers |-> Idle]

\* Mistake: the lock is deleted without comparing its operation.
ReleaseAny(t, o) == [lock EXCEPT ![t] = NoOp]

Release(t, o) == IF lock[t] = o THEN [lock EXCEPT ![t] = NoOp] ELSE lock

-----------------------------------------------------------------------------
(* start *)

\* The operation is looked up first; an existing one is returned as it is.
LookUp(q, o) ==
    /\ request[q].at = "idle"
    /\ request' = [request EXCEPT ![q] = IF status[o] = "absent"
                                           THEN [at |-> "create", op |-> o] ELSE Idle]
    /\ UNCHANGED <<status, lock, applied, failing, reader>>

\* Mistake: an active holder does not refuse the creation.
LockedByNobody(o) == FALSE

LockedByAnother(o) ==
    LET holder == lock[TargetOf[o]]
    IN  holder \notin {NoOp, o} /\ status[holder] = "active"

\* create_deferred_job_if_absent: refused while another active operation holds the
\* target; an operation that exists by now gets its lock back or a stale one removed.
Create(q) ==
    LET o == request[q].op
        t == TargetOf[o]
    IN  /\ request[q].at = "create"
        /\ \/ /\ LockedByAnother(o)
              /\ request' = [request EXCEPT ![q] = Idle]
              /\ UNCHANGED <<status, lock>>
           \/ /\ ~ LockedByAnother(o) /\ status[o] # "absent"
              /\ lock' = [lock EXCEPT ![t] = IF status[o] = "active" THEN o ELSE NoOp]
              /\ request' = [request EXCEPT ![q] = Idle]
              /\ UNCHANGED status
           \/ /\ ~ LockedByAnother(o) /\ status[o] = "absent"
              /\ status' = [status EXCEPT ![o] = "active"]
              /\ lock' = [lock EXCEPT ![t] = o]
              /\ request' = [request EXCEPT ![q].at = "initialize"]
        /\ UNCHANGED <<applied, failing, reader>>

\* adapter.started may raise, or the task queue be disabled.
Initialize(q) ==
    /\ request[q].at = "initialize"
    /\ \/ request' = [request EXCEPT ![q] = Idle] /\ UNCHANGED failing
       \/ /\ request' = [request EXCEPT ![q].at = "cleanup"]
          /\ failing' = failing \cup {request[q].op}
    /\ UNCHANGED <<status, lock, applied, reader>>

\* _fail_unclaimed_start: the adapter's cleanup comes before the terminal status.
FailCleanup(q) ==
    LET o == request[q].op
    IN  /\ request[q].at = "cleanup"
        /\ lock' = Release(TargetOf[o], o)
        /\ request' = [request EXCEPT ![q].at = "fail"]
        /\ UNCHANGED <<status, applied, failing, reader>>

FailStart(q) ==
    LET o == request[q].op
    IN  /\ request[q].at = "fail"
        /\ status' = IF status[o] = "active" /\ o \notin applied
                       THEN [status EXCEPT ![o] = "failed"] ELSE status
        /\ request' = [request EXCEPT ![q] = Idle]
        /\ UNCHANGED <<lock, applied, failing, reader>>

\* The request's process dies.
Die(q) ==
    /\ request[q].at # "idle"
    /\ request' = [request EXCEPT ![q] = Idle]
    /\ UNCHANGED <<status, lock, applied, failing, reader>>

-----------------------------------------------------------------------------
(* The job *)

HoldsTarget(o) == lock[TargetOf[o]] = o

\* apply_proposal: the lock is one of the guards of the write.
Apply(o) ==
    /\ status[o] = "active" /\ o \notin applied /\ HoldsTarget(o)
    /\ applied' = applied \cup {o}
    /\ UNCHANGED <<status, lock, failing, request, reader>>

\* Success, failure, cancellation or over-age, whose delivery is then pending (in
\* detail: DeferredJob).
End(o) ==
    /\ status[o] = "active"
    /\ status' = [status EXCEPT ![o] = "ended"]
    /\ UNCHANGED <<lock, applied, failing, request, reader>>

\* Terminal delivery: AutofillAdapter.cleanup.  A failed start has none.
Cleanup(o) ==
    /\ status[o] = "ended" /\ HoldsTarget(o)
    /\ lock' = Release(TargetOf[o], o)
    /\ UNCHANGED <<status, applied, failing, request, reader>>

-----------------------------------------------------------------------------
(* deferred_job_lock_descriptors: read the lock, read its job, drop the lock if stale *)

\* Mistake: the reader keeps the target instead of the operation.
ReadLockTarget(d, t) ==
    /\ reader[d].at = "idle" /\ lock[t] # NoOp
    /\ reader' = [reader EXCEPT ![d] = [at |-> "job", op |-> t]]
    /\ UNCHANGED <<status, lock, applied, failing, request>>

ReadLock(d, t) ==
    /\ reader[d].at = "idle" /\ lock[t] # NoOp
    /\ reader' = [reader EXCEPT ![d] = [at |-> "job", op |-> lock[t]]]
    /\ UNCHANGED <<status, lock, applied, failing, request>>

\* Mistake: only the lock of an operation that ran to its end counts as stale.
ReadJobEnded(d) ==
    /\ reader[d].at = "job"
    /\ reader' = [reader EXCEPT ![d] = IF status[reader[d].op] # "ended" THEN Idle
                                       ELSE [@ EXCEPT !.at = "drop"]]
    /\ UNCHANGED <<status, lock, applied, failing, request>>

ReadJob(d) ==
    /\ reader[d].at = "job"
    /\ reader' = [reader EXCEPT ![d] = IF status[reader[d].op] = "active" THEN Idle
                                       ELSE [@ EXCEPT !.at = "drop"]]
    /\ UNCHANGED <<status, lock, applied, failing, request>>

DropLock(d) ==
    /\ reader[d].at = "drop"
    /\ lock' = Release(TargetOf[reader[d].op], reader[d].op)
    /\ reader' = [reader EXCEPT ![d] = Idle]
    /\ UNCHANGED <<status, applied, failing, request>>

Next ==
    \/ \E q \in Requests : \/ \E o \in Ops : LookUp(q, o)
                           \/ Create(q) \/ Initialize(q) \/ FailCleanup(q)
                           \/ FailStart(q) \/ Die(q)
    \/ \E o \in Ops : Apply(o) \/ End(o) \/ Cleanup(o)
    \/ \E d \in Readers : (\E t \in Targets : ReadLock(d, t)) \/ ReadJob(d) \/ DropLock(d)

Spec == Init /\ [][Next]_vars

\* A job whose start died or went through ends, and its terminal delivery goes on until
\* it is done (DeferredJob!Finishes).  The pages of a form poll its lock: a failed start
\* has no terminal delivery, so only they, or the next operation, remove its lock.
FairSpec ==
    /\ Spec
    /\ \A o \in Ops : WF_vars(End(o)) /\ WF_vars(Cleanup(o))
    /\ \A d \in Readers : /\ \A t \in Targets : SF_vars(ReadLock(d, t))
                          /\ WF_vars(ReadJob(d)) /\ WF_vars(DropLock(d))

-----------------------------------------------------------------------------
TypeOK ==
    /\ status \in [Ops -> {"absent", "active", "ended", "failed"}]
    /\ lock \in [Targets -> Ops \cup {NoOp}]
    /\ applied \subseteq Ops /\ failing \subseteq Ops
    /\ request \in [Requests -> [at : {"idle", "create", "initialize", "cleanup", "fail"},
                                 op : Ops \cup {NoOp}]]
    /\ reader \in [Readers -> [at : {"idle", "job", "drop"}, op : Ops \cup {NoOp}]]

\* An active operation keeps its target's lock, unless a start of it failed: no
\* repeated request, cleanup of another operation or stale reader takes it away.
ActiveHoldsLock ==
    \A o \in Ops \ failing : status[o] = "active" => HoldsTarget(o)

Exclusive(ops) ==
    \A o, p \in ops : /\ status[o] = "active" /\ status[p] = "active"
                      /\ TargetOf[o] = TargetOf[p]
                      => o = p

\* At most one operation runs on a target, operations of which a start failed aside.
OneActivePerTarget == Exclusive(Ops \ failing)

\* BACKEND_JOBS.md: autofill "reserves one AI run".
OneRunReserved == Exclusive(Ops)

\* No target stays locked, whoever locked it: an operation that runs, one whose start
\* died half way, one that ended, and one whose start failed and whose lock a repeated
\* request gave back between the cleanup and the failure.
LockGoes == \A o \in Ops : HoldsTarget(o) ~> ~ HoldsTarget(o)
=============================================================================
