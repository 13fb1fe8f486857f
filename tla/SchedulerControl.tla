--------------------------- MODULE SchedulerControl ---------------------------
(***************************************************************************)
(* The control record of the deferred-job reconciler and its convergence     *)
(* with Cloud Scheduler (deferred_jobs/scheduler.py and the control          *)
(* transactions of core/tools/database/deferred_jobs.py).                    *)
(*                                                                         *)
(* Requests open and close jobs and then synchronize; the reconciler, called *)
(* by the provider only while its schedule is enabled, repairs the           *)
(* membership against the durable jobs and synchronizes twice.               *)
(***************************************************************************)
EXTENDS Integers, FiniteSets

CONSTANTS
    Jobs, Requests,   \* durable jobs; processes that open or close a job
    NoOne,            \* no lease token is stored
    MaxGeneration,    \* bound: boundaries that change the control record
    MaxFaults         \* bound: faults, one of each kind

ASSUME SchedulerAssumption ==
    /\ {"reconciler", NoOne} \cap Requests = {} /\ NoOne # "reconciler"
    /\ IsFiniteSet(Jobs) /\ {MaxGeneration, MaxFaults} \subseteq Nat

Procs  == Requests \cup {"reconciler"}
States == {"enabled", "paused"}

\* a process that dies or gives up, a provider call reported as failed, a change
\* the provider applies after its caller gave up, a process that outlives its
\* synchronization lease, an unconditional save that changes a job past the tracking
Faults == {"crash", "error", "delay", "stall", "drift"}

VARIABLES
    required,   \* the jobs whose stored state needs recovery
    control,    \* the control record
    provider,   \* the Cloud Scheduler job's state
    delayed,    \* a change the provider has still to apply, or "none"
    pc, view,   \* each process's next step, and the control it last saw
    force,      \* the reconciler's synchronization ignores a converged record
    scanned,    \* the reconciler's query result
    faults      \* the kinds of fault that have happened

vars == <<required, control, provider, delayed, pc, view, force, scanned, faults>>

Control == [tracked : SUBSET Jobs, desired : States, generation : Nat,
            appliedGeneration : Nat, applied : States \cup {"none"},
            token : Procs \cup {NoOne}, lease : {"none", "live", "lapsed"}]

Fresh == [tracked |-> {}, desired |-> "paused", generation |-> 0,
          appliedGeneration |-> 0, applied |-> "none", token |-> NoOne, lease |-> "none"]

Init ==
    /\ required = {} /\ control = Fresh /\ provider \in States /\ delayed = "none"
    /\ pc = [p \in Procs |-> "rest"] /\ view = [p \in Procs |-> Fresh]
    /\ force = FALSE /\ scanned = {} /\ faults = {}

\* Mistake: an empty membership leaves no intent.
IntentUnset(jobs) == IF jobs = {} THEN "none" ELSE "enabled"

Intent(jobs) == IF jobs = {} THEN "paused" ELSE "enabled"

\* Mistake: an old answer of the provider counts for every later intent.
ConvergedEver(c) == c.applied # "none" /\ c.appliedGeneration <= c.generation

Converged(c) == c.applied = c.desired /\ c.appliedGeneration = c.generation

GoTo(p, label) == pc' = [pc EXCEPT ![p] = label]
See(p, c)      == view' = [view EXCEPT ![p] = c]
Fault(kind)    == /\ kind \notin faults /\ Cardinality(faults) < MaxFaults
                  /\ faults' = faults \cup {kind}
Forced(p)      == p = "reconciler" /\ force

\* The end of a synchronization, well or not: the reconciler's forced one is
\* followed by an unforced one after its jobs are handled.
Finish(p) ==
    /\ GoTo(p, IF Forced(p) THEN "reread" ELSE "rest")
    /\ force' = FALSE

-----------------------------------------------------------------------------
(* Boundaries: transactions on a job that maintain the membership *)

Member(c, jobs) == [c EXCEPT !.tracked = jobs, !.desired = Intent(jobs), !.generation = @ + 1]

\* create_deferred_job_if_absent, or a transition that starts recovery coverage.
Open(p, j) ==
    /\ pc[p] = "rest" /\ j \notin required /\ control.generation < MaxGeneration
    /\ required' = required \cup {j}
    /\ control' = Member(control, control.tracked \cup {j})
    /\ See(p, control') /\ GoTo(p, "sync")
    /\ UNCHANGED <<provider, delayed, force, scanned, faults>>

\* The release of a terminal job, or a start that failed.
Close(p, j) ==
    /\ pc[p] = "rest" /\ j \in required /\ control.generation < MaxGeneration
    /\ required' = required \ {j}
    /\ control' = Member(control, control.tracked \ {j})
    /\ See(p, control') /\ GoTo(p, "sync")
    /\ UNCHANGED <<provider, delayed, force, scanned, faults>>

\* A claim or a postponement: the job's query state changes, nobody synchronizes.
Shift(j) ==
    /\ j \in required /\ control.generation < MaxGeneration
    /\ control' = Member(control, control.tracked \cup {j})
    /\ UNCHANGED <<required, provider, delayed, pc, view, force, scanned, faults>>

\* An unconditional save of a whole job (DeferredJob!BlindSave) past the tracking.
Drift(j) ==
    /\ Fault("drift")
    /\ required' = IF j \in required THEN required \ {j} ELSE required \cup {j}
    /\ UNCHANGED <<control, provider, delayed, pc, view, force, scanned>>

-----------------------------------------------------------------------------
(* synchronize_deferred_job_reconciler *)

Begin(p) ==
    /\ pc[p] = "sync"
    /\ IF ~ Forced(p) /\ Converged(view[p])
         THEN Finish(p) ELSE GoTo(p, "acquire") /\ UNCHANGED force
    /\ UNCHANGED <<required, control, provider, delayed, view, scanned, faults>>

Reread(p) ==
    /\ pc[p] = "reread"
    /\ See(p, control) /\ GoTo(p, "sync")
    /\ UNCHANGED <<required, control, provider, delayed, force, scanned, faults>>

Busy(p) == control.token \notin {NoOne, p} /\ control.lease = "live"

\* Take the lease; wait while it is held, or leave if its holder has converged.
Acquire(p) ==
    /\ pc[p] = "acquire"
    /\ \/ /\ ~ Busy(p)
          /\ control' = [control EXCEPT !.token = p, !.lease = "live"]
          /\ See(p, control') /\ GoTo(p, "get")
          /\ UNCHANGED force
       \/ /\ Busy(p) /\ ~ Forced(p) /\ Converged(control)
          /\ Finish(p)
          /\ UNCHANGED <<control, view>>
    /\ UNCHANGED <<required, provider, delayed, scanned, faults>>

\* Every wait used up: the synchronization fails without the lease.
GiveUp(p) ==
    /\ pc[p] = "acquire" /\ Busy(p) /\ Fault("crash")
    /\ Finish(p)
    /\ UNCHANGED <<required, control, provider, delayed, view, scanned>>

\* set_scheduler_state: read, change if needed, and read again after an error.
Get(p) ==
    /\ pc[p] = "get"
    /\ \/ /\ GoTo(p, IF provider = view[p].desired THEN "record" ELSE "post")
          /\ UNCHANGED faults
       \/ Fault("error") /\ GoTo(p, "release")
    /\ UNCHANGED <<required, control, provider, delayed, view, force, scanned>>

Post(p) ==
    /\ pc[p] = "post"
    /\ \/ provider' = view[p].desired /\ GoTo(p, "record") /\ UNCHANGED <<delayed, faults>>
       \/ /\ GoTo(p, "confirm")
          /\ \/ /\ Fault("error") /\ UNCHANGED delayed
                /\ provider' \in {provider, view[p].desired}
             \/ /\ Fault("delay") /\ UNCHANGED provider
                /\ delayed' = view[p].desired
    /\ UNCHANGED <<required, control, view, force, scanned>>

Confirm(p) ==
    /\ pc[p] = "confirm"
    /\ GoTo(p, IF provider = view[p].desired THEN "record" ELSE "release")
    /\ UNCHANGED <<required, control, provider, delayed, view, force, scanned, faults>>

\* Mistake: the intent of the moment is recorded as applied.
RecordUnchecked(p) ==
    /\ pc[p] = "record"
    /\ control' = [control EXCEPT !.applied = control.desired,
                                  !.appliedGeneration = control.generation,
                                  !.token = NoOne, !.lease = "none"]
    /\ Finish(p)
    /\ UNCHANGED <<required, provider, delayed, view, scanned, faults>>

\* record_deferred_job_scheduler_sync: what was applied, and whether it is still wanted.
Record(p) ==
    /\ pc[p] = "record"
    /\ \/ /\ control.token = p /\ control.desired = view[p].desired
          /\ control' = [control EXCEPT !.applied = view[p].desired,
                                        !.appliedGeneration = control.generation,
                                        !.token = NoOne, !.lease = "none"]
          /\ Finish(p) /\ UNCHANGED view
       \/ /\ control.token = p /\ control.desired # view[p].desired
          /\ control' = [control EXCEPT !.applied = view[p].desired, !.lease = "live"]
          /\ See(p, control') /\ GoTo(p, "get") /\ UNCHANGED force
       \/ /\ control.token # p
          /\ GoTo(p, "release") /\ UNCHANGED <<control, view, force>>
    /\ UNCHANGED <<required, provider, delayed, scanned, faults>>

\* release_deferred_job_scheduler_sync after an error.
Release(p) ==
    /\ pc[p] = "release"
    /\ control' = IF control.token = p
                    THEN [control EXCEPT !.token = NoOne, !.lease = "none"] ELSE control
    /\ Finish(p)
    /\ UNCHANGED <<required, provider, delayed, view, scanned, faults>>

Synchronize(p) == \/ Begin(p) \/ Reread(p) \/ Acquire(p) \/ Get(p) \/ Post(p)
                  \/ Confirm(p) \/ Record(p) \/ Release(p)

-----------------------------------------------------------------------------
(* _repair_reconciler_control *)

Tick == /\ provider = "enabled" /\ pc["reconciler"] = "rest"
        /\ GoTo("reconciler", "scan") /\ See("reconciler", control)
        /\ UNCHANGED <<required, control, provider, delayed, force, scanned, faults>>

Scan == /\ pc["reconciler"] = "scan"
        /\ scanned' = required
        /\ GoTo("reconciler", "repair")
        /\ UNCHANGED <<required, control, provider, delayed, view, force, faults>>

\* Mistake: the scan is published whatever happened meanwhile.
UnracedAlways == TRUE

\* Publish the scan only if no boundary raced it.
Unraced == control.generation = view["reconciler"].generation

\* Mistake: the repair adds what is missing and drops nothing.
RepairedAdding == control.tracked \cup scanned

Repaired == scanned

Repair ==
    /\ pc["reconciler"] = "repair"
    /\ \/ /\ Unraced
          /\ control' = IF control.tracked = Repaired /\ control.desired = Intent(Repaired)
                          THEN control ELSE Member(control, Repaired)
          /\ See("reconciler", control')
          /\ GoTo("reconciler", "sync") /\ force' = TRUE
       \/ /\ ~ Unraced
          /\ See("reconciler", control) /\ GoTo("reconciler", "scan")
          /\ UNCHANGED <<control, force>>
    /\ scanned' = IF Unraced THEN {} ELSE scanned
    /\ UNCHANGED <<required, provider, delayed, faults>>

\* Four raced attempts: go on without a repair.
Unrepaired ==
    /\ pc["reconciler"] = "repair" /\ ~ Unraced
    /\ GoTo("reconciler", "sync") /\ force' = TRUE
    /\ UNCHANGED <<required, control, provider, delayed, view, scanned, faults>>

Reconcile == Tick \/ Scan \/ Repair \/ Unrepaired

-----------------------------------------------------------------------------
(* Faults and time *)

Holds(p) == pc[p] \in {"get", "post", "confirm", "record", "release"} /\ control.token = p

Crash(p) ==
    /\ pc[p] # "rest" /\ Fault("crash")
    /\ GoTo(p, "rest")
    /\ force' = (force /\ p # "reconciler")
    /\ UNCHANGED <<required, control, provider, delayed, view, scanned>>

Lapse ==
    /\ control.lease = "live"
    /\ IF \E p \in Procs : Holds(p) THEN Fault("stall") ELSE UNCHANGED faults
    /\ control' = [control EXCEPT !.lease = "lapsed"]
    /\ UNCHANGED <<required, provider, delayed, pc, view, force, scanned>>

Land ==
    /\ delayed # "none"
    /\ provider' = delayed /\ delayed' = "none"
    /\ UNCHANGED <<required, control, pc, view, force, scanned, faults>>

Next ==
    \/ \E p \in Requests, j \in Jobs : Open(p, j) \/ Close(p, j)
    \/ \E j \in Jobs : Shift(j) \/ Drift(j)
    \/ \E p \in Procs : Synchronize(p) \/ GiveUp(p) \/ Crash(p)
    \/ Reconcile
    \/ Lapse \/ Land

Spec == Init /\ [][Next]_vars

\* Processes run on, a lease passes, and an enabled schedule calls the reconciler.
Fairness == /\ \A p \in Procs : WF_vars(Synchronize(p))
            /\ WF_vars(Tick) /\ WF_vars(Scan) /\ WF_vars(Repair)
            /\ WF_vars(Lapse)

FairSpec == Spec /\ Fairness

-----------------------------------------------------------------------------
TypeOK ==
    /\ required \subseteq Jobs /\ control \in Control /\ provider \in States
    /\ delayed \in States \cup {"none"}
    /\ pc \in [Procs -> {"rest", "scan", "repair", "sync", "reread", "acquire", "get",
                         "post", "confirm", "record", "release"}]
    /\ view \in [Procs -> Control] /\ force \in BOOLEAN /\ scanned \subseteq Jobs
    /\ faults \subseteq Faults

\* The repair never loses a job that was opened or closed while it scanned: the
\* membership is exact unless an unconditional save changed a job past it.
MembershipIsExact == "drift" \notin faults => control.tracked = required

\* BACKEND_JOBS.md: "The control record's generation prevents a stale pause from
\* winning over a concurrent new job."  A converged record says what the provider
\* does, unless the provider applies a change late or a lease was outlived.
NoStalePause ==
    /\ {"delay", "stall"} \cap faults = {}
    /\ Converged(control) /\ control.desired = "enabled"
    => provider = "enabled"

\* BACKEND_JOBS.md: the reconciler runs "while recovery-required work exists",
\* unless a fault stopped the request that would have enabled it.
RunsWhileRequired ==
    [](required # {} => <>(provider = "enabled" \/ required = {} \/ faults # {}))

\* A clean empty reconciliation pauses the schedule, whatever happened before: it
\* is not left enabled when nothing needs recovery.
PausesWhenIdle == <>[](required = {}) => <>[](provider = "paused")

\* While the schedule runs, a membership that drifted is repaired.
DriftIsRepaired ==
    [](control.tracked # required =>
         <>(control.tracked = required \/ provider = "paused"))
=============================================================================
