------------------------ MODULE SchedulerControlProofs ------------------------
(***************************************************************************)
(* Type correctness of the control record, the exactness of its membership,   *)
(* and that a converged record tells the provider's state, for any number of  *)
(* jobs, requests, boundaries and faults.                                    *)
(***************************************************************************)
EXTENDS SchedulerControl, TLAPS

\* What makes MembershipIsExact inductive: a generation only grows, so a scan whose
\* generation still stands at its publication saw the jobs as they are.
ScanIsOld ==
    pc["reconciler"] \in {"scan", "repair"} =>
        view["reconciler"].generation <= control.generation

ScanStands ==
    pc["reconciler"] = "repair" /\ Unraced /\ "drift" \notin faults => scanned = required

IInv == TypeOK /\ MembershipIsExact /\ ScanIsOld /\ ScanStands

\* A boundary and a repair keep the control record's type.
LEMMA MemberType ==
  ASSUME NEW c \in Control, NEW jobs \in SUBSET Jobs
  PROVE  /\ Member(c, jobs) \in Control
         /\ Member(c, jobs).tracked = jobs
         /\ Member(c, jobs).generation = c.generation + 1
<1>1. Intent(jobs) \in States /\ c.generation + 1 \in Nat
  BY DEF Control, Intent, States
<1>2. Member(c, jobs) = [c EXCEPT !.tracked = jobs, !.desired = Intent(jobs),
                                 !.generation = c.generation + 1]
  BY DEF Member
<1>3. QED BY <1>1, <1>2 DEF Control

LEMMA InitIInv == Init => IInv
<1> SUFFICES ASSUME Init PROVE IInv
  OBVIOUS
<1>1. Fresh \in Control /\ Fresh.tracked = {}
  BY DEF Fresh, Control, States
<1>2. TypeOK
  BY <1>1 DEF Init, TypeOK, States, Faults
<1>3. QED BY <1>1, <1>2 DEF Init, IInv, MembershipIsExact, ScanIsOld, ScanStands, Procs

\* The transactions on jobs, and the saves past them.
LEMMA BoundaryStep ==
  ASSUME IInv, NEW j \in Jobs,
         \/ \E p \in Requests : Open(p, j) \/ Close(p, j)
         \/ Shift(j) \/ Drift(j)
  PROVE  IInv'
<1> USE DEF IInv, TypeOK, MembershipIsExact, ScanIsOld, ScanStands, Unraced
<1>0. control \in Control /\ control.generation \in Nat /\ control.tracked \subseteq Jobs
      /\ view["reconciler"].generation \in Nat
  BY DEF Control, Procs
<1>1. ASSUME NEW p \in Requests, Open(p, j) PROVE IInv'
  <2>1. control' \in Control /\ control'.tracked = control.tracked \cup {j}
        /\ control'.generation = control.generation + 1
    BY <1>0, <1>1, MemberType DEF Open
  <2>2. TypeOK'
    BY <1>1, <2>1 DEF Open, See, GoTo, Procs
  <2>3. view'["reconciler"] = view["reconciler"] /\ pc'["reconciler"] = pc["reconciler"]
    BY <1>1, SchedulerAssumption DEF Open, See, GoTo, Procs
  <2>4. MembershipIsExact'
    BY <1>1, <2>1 DEF Open
  <2>5. ScanIsOld' /\ ScanStands'
    <3>1. control'.generation \in Nat /\ control'.generation > control.generation
      BY <1>0, <2>1
    <3>2. QED BY <1>0, <2>1, <2>3, <3>1
  <2>6. QED BY <2>2, <2>4, <2>5
<1>2. ASSUME NEW p \in Requests, Close(p, j) PROVE IInv'
  <2>1. control' \in Control /\ control'.tracked = control.tracked \ {j}
        /\ control'.generation = control.generation + 1
    BY <1>0, <1>2, MemberType DEF Close
  <2>2. TypeOK'
    BY <1>2, <2>1 DEF Close, See, GoTo, Procs
  <2>3. view'["reconciler"] = view["reconciler"] /\ pc'["reconciler"] = pc["reconciler"]
    BY <1>2, SchedulerAssumption DEF Close, See, GoTo, Procs
  <2>4. MembershipIsExact'
    BY <1>2, <2>1 DEF Close
  <2>5. ScanIsOld' /\ ScanStands'
    <3>1. control'.generation \in Nat /\ control'.generation > control.generation
      BY <1>0, <2>1
    <3>2. QED BY <1>0, <2>1, <2>3, <3>1
  <2>6. QED BY <2>2, <2>4, <2>5
<1>3. CASE Shift(j)
  <2>1. control' \in Control /\ control'.tracked = control.tracked \cup {j}
        /\ control'.generation = control.generation + 1
    BY <1>0, <1>3, MemberType DEF Shift
  <2>2. QED BY <1>0, <1>3, <2>1 DEF Shift
<1>4. CASE Drift(j)
  BY <1>4 DEF Drift, Fault, Faults
<1>5. QED BY <1>1, <1>2, <1>3, <1>4

\* A step of a synchronization leaves the membership, the generation and the jobs
\* alone, and is not one of the reconciler's repair.
LEMMA SynchronizeStep ==
  ASSUME IInv, NEW p \in Procs, Synchronize(p) \/ GiveUp(p) \/ Crash(p)
  PROVE  IInv'
<1>1. /\ UNCHANGED <<required, scanned>>
      /\ control'.tracked = control.tracked /\ control'.generation = control.generation
      /\ pc' \in [Procs -> {"rest", "scan", "repair", "sync", "reread", "acquire", "get",
                            "post", "confirm", "record", "release"}]
      /\ pc'["reconciler"] \in {"scan", "repair"} =>
           pc'["reconciler"] = pc["reconciler"] /\ view'["reconciler"] = view["reconciler"]
      /\ control' \in Control /\ view' \in [Procs -> Control]
      /\ provider' \in States /\ delayed' \in States \cup {"none"} /\ force' \in BOOLEAN
      /\ faults' \subseteq Faults /\ faults \subseteq faults'
  <2> USE DEF IInv, TypeOK, GoTo, See, Finish, Forced, Fault
  <2>0. "reconciler" \in Procs
    BY DEF Procs
  <2>1. CASE Begin(p)
    BY <2>0, <2>1 DEF Begin
  <2>2. CASE Reread(p)
    BY <2>0, <2>2 DEF Reread
  <2>3. CASE Acquire(p)
    <3>1. [control EXCEPT !.token = p, !.lease = "live"] \in Control
      BY DEF Control
    <3>2. control' \in Control
      BY <2>3, <3>1 DEF Acquire
    <3>3. control'.tracked = control.tracked /\ control'.generation = control.generation
      BY <2>3 DEF Acquire, Control
    <3>4. QED BY <2>0, <2>3, <3>2, <3>3 DEF Acquire
  <2>4. CASE Get(p)
    BY <2>0, <2>4 DEF Get, Faults
  <2>5. CASE Post(p)
    <3>1. view[p].desired \in States
      BY DEF Control
    <3>2. provider' \in States /\ delayed' \in States \cup {"none"}
      BY <2>5, <3>1 DEF Post
    <3>3. faults' \subseteq Faults /\ faults \subseteq faults'
      BY <2>5 DEF Post, Faults
    <3>4. QED BY <2>0, <2>5, <3>2, <3>3 DEF Post
  <2>6. CASE Confirm(p)
    BY <2>0, <2>6 DEF Confirm
  <2>7. CASE Record(p)
    <3>1. view[p].desired \in States /\ control.generation \in Nat
      BY DEF Control
    <3>2. /\ [control EXCEPT !.applied = view[p].desired,
                             !.appliedGeneration = control.generation,
                             !.token = NoOne, !.lease = "none"] \in Control
          /\ [control EXCEPT !.applied = view[p].desired, !.lease = "live"] \in Control
      BY <3>1 DEF Control
    <3>3. control' \in Control
      BY <2>7, <3>2 DEF Record
    <3>4. control'.tracked = control.tracked /\ control'.generation = control.generation
      BY <2>7 DEF Record, Control
    <3>5. view' \in [Procs -> Control] /\ force' \in BOOLEAN
      <4>1. view' = view \/ view' = [view EXCEPT ![p] = control']
        BY <2>7, Zenon DEF Record
      <4>2. force' = force \/ force' = FALSE
        BY <2>7, Zenon DEF Record
      <4>3. QED BY <3>3, <4>1, <4>2
    <3>6. /\ pc' \in [Procs -> {"rest", "scan", "repair", "sync", "reread", "acquire", "get",
                                "post", "confirm", "record", "release"}]
          /\ pc'["reconciler"] \in {"scan", "repair"} =>
               pc'["reconciler"] = pc["reconciler"] /\ view'["reconciler"] = view["reconciler"]
      <4>1. \/ pc' = [pc EXCEPT ![p] = "release"]
            \/ pc' = [pc EXCEPT ![p] = "get"]
            \/ pc' = [pc EXCEPT ![p] = "reread"]
            \/ pc' = [pc EXCEPT ![p] = "rest"]
        BY <2>7 DEF Record
      <4>2. pc[p] = "record"
        BY <2>7 DEF Record
      <4>3. \A q \in Procs : q # p => view'[q] = view[q]
        BY <2>7 DEF Record
      <4>4. QED BY <2>0, <4>1, <4>2, <4>3
    <3>7. QED BY <2>7, <3>3, <3>4, <3>5, <3>6, Zenon DEF Record
  <2>8. CASE Release(p)
    BY <2>0, <2>8 DEF Release, Control
  <2>9. CASE GiveUp(p)
    BY <2>0, <2>9 DEF GiveUp, Faults
  <2>10. CASE Crash(p)
    BY <2>0, <2>10 DEF Crash, Faults
  <2>11. QED BY <2>1, <2>2, <2>3, <2>4, <2>5, <2>6, <2>7, <2>8, <2>9, <2>10 DEF Synchronize
<1>2. TypeOK' /\ MembershipIsExact'
  BY <1>1 DEF IInv, TypeOK, MembershipIsExact
<1>3. ScanIsOld' /\ ScanStands'
  BY <1>1 DEF IInv, ScanIsOld, ScanStands, Unraced
<1>4. QED BY <1>2, <1>3 DEF IInv

\* The reconciler's query and its publication, which is made only if no boundary
\* has raced it.
LEMMA ReconcileStep == IInv /\ Reconcile => IInv'
<1> SUFFICES ASSUME IInv, Reconcile PROVE IInv'
  OBVIOUS
<1> USE DEF IInv, TypeOK, MembershipIsExact, ScanIsOld, ScanStands, Unraced, GoTo, See
<1>0. "reconciler" \in Procs /\ control.generation \in Nat
  BY DEF Procs, Control
<1>1. CASE Tick
  BY <1>0, <1>1 DEF Tick
<1>2. CASE Scan
  BY <1>0, <1>2 DEF Scan
<1>3. CASE Repair
  <2>1. CASE ~ Unraced
    BY <1>0, <1>3, <2>1 DEF Repair
  <2>2. CASE Unraced
    <3>1. control' \in Control /\ control'.tracked = scanned
      BY <1>3, <2>2, MemberType DEF Repair, Repaired
    <3>2. QED BY <1>0, <1>3, <2>2, <3>1 DEF Repair
  <2>3. QED BY <2>1, <2>2
<1>4. CASE Unrepaired
  BY <1>0, <1>4 DEF Unrepaired
<1>5. QED BY <1>1, <1>2, <1>3, <1>4 DEF Reconcile

\* Time and the provider change neither the membership nor the jobs.
LEMMA TimeStep == IInv /\ (Lapse \/ Land \/ UNCHANGED vars) => IInv'
<1> SUFFICES ASSUME IInv, Lapse \/ Land \/ UNCHANGED vars PROVE IInv'
  OBVIOUS
<1> USE DEF IInv, TypeOK, MembershipIsExact, ScanIsOld, ScanStands, Unraced
<1>1. CASE Lapse
  BY <1>1 DEF Lapse, Fault, Faults, Control
<1>2. CASE Land
  BY <1>2 DEF Land, States
<1>3. CASE UNCHANGED vars
  BY <1>3 DEF vars
<1>4. QED BY <1>1, <1>2, <1>3

LEMMA Invariance == Spec => []IInv
<1>1. IInv /\ [Next]_vars => IInv'
  BY BoundaryStep, SynchronizeStep, ReconcileStep, TimeStep DEF Next
<1>2. QED BY InitIInv, <1>1, PTL DEF Spec

\* The control record and the processes keep their types.
THEOREM TypeCorrect == Spec => []TypeOK
  BY Invariance, PTL DEF IInv

\* However boundaries race the scan, synchronizations fail and processes stop, the
\* control record lists exactly the jobs that need recovery, unless an
\* unconditional save changed a job past it.
THEOREM MembershipExact == Spec => []MembershipIsExact
  BY Invariance, PTL DEF IInv

-----------------------------------------------------------------------------
(* The provider *)

\* A process that may call the provider, or release its lease.
Leased   == {"get", "post", "confirm", "record", "release"}
Applying == {"get", "post", "confirm", "record"}

\* Neither a late change nor an outlived lease has happened.
Undisturbed == {"delay", "stall"} \cap faults = {}

\* Whoever is in a synchronization holds the lease, and so is alone.
Alone == \A p \in Procs : pc[p] \in Leased => control.token = p /\ control.lease = "live"

\* Whoever applies an intent saw the record that is stored, but for boundaries
\* since, each of which raised the generation.
Seen == \A p \in Procs : pc[p] \in Applying =>
          /\ view[p].generation <= control.generation
          /\ view[p].appliedGeneration = control.appliedGeneration
          /\ view[p].generation = control.generation => view[p].desired = control.desired

\* What is about to be recorded as applied is what the provider does.
Applied == \A p \in Procs : pc[p] = "record" => provider = view[p].desired

Known(c) == c.appliedGeneration <= c.generation

PInv == /\ Known(control) /\ \A p \in Procs : Known(view[p])
        /\ Undisturbed => /\ delayed = "none" /\ Alone /\ Seen /\ Applied
                          /\ Converged(control) => provider = control.desired

\* The record's fields.
LEMMA ControlFields ==
  ASSUME NEW c \in Control
  PROVE  /\ c.generation \in Nat /\ c.appliedGeneration \in Nat
         /\ c.desired \in States /\ c.applied \in States \cup {"none"}
         /\ c.token \in Procs \cup {NoOne}
  BY DEF Control

\* Nothing is under way, and nothing was applied.
LEMMA InitPInv == Init => PInv
  BY DEF Init, PInv, Known, Alone, Seen, Applied, Leased, Applying, Converged, Fresh

\* A boundary raises the generation, so that the record has not converged, and
\* keeps the lease.
LEMMA MemberProvider ==
  ASSUME TypeOK, PInv, NEW jobs \in SUBSET Jobs, control' = Member(control, jobs),
         \/ UNCHANGED <<pc, view>>
         \/ \E p \in Procs : /\ pc[p] \notin Leased /\ pc' = [pc EXCEPT ![p] = "sync"]
                             /\ view' = [view EXCEPT ![p] = control'],
         UNCHANGED <<provider, delayed, faults>>
  PROVE  PInv'
<1>1. /\ control \in Control /\ view \in [Procs -> Control]
      /\ pc \in [Procs -> {"rest", "scan", "repair", "sync", "reread", "acquire", "get",
                           "post", "confirm", "record", "release"}]
  BY DEF TypeOK
<1>2. /\ control'.generation = control.generation + 1 /\ control'.token = control.token
      /\ control'.lease = control.lease /\ control'.appliedGeneration = control.appliedGeneration
  BY <1>1 DEF Member, Control
<1>3. Known(control') /\ \A q \in Procs : Known(view'[q])
  BY <1>1, <1>2, ControlFields DEF PInv, Known
<1>4. ~ Converged(control')
  BY <1>1, <1>2, ControlFields DEF PInv, Known, Converged
<1>5. \A q \in Procs : pc'[q] \in Leased => pc'[q] = pc[q] /\ view'[q] = view[q]
  BY <1>1 DEF Leased
<1>6. ASSUME Undisturbed
      PROVE  delayed = "none" /\ Alone' /\ Seen' /\ Applied'
  <2>1. delayed = "none" /\ Alone /\ Seen /\ Applied
    BY <1>6 DEF PInv
  <2>2. Alone' /\ Applied'
    BY <1>2, <1>5, <2>1 DEF Alone, Applied, Leased
  <2>3. Seen'
    <3> SUFFICES ASSUME NEW q \in Procs, pc'[q] \in Applying
                 PROVE  /\ view'[q].generation <= control'.generation
                        /\ view'[q].appliedGeneration = control'.appliedGeneration
                        /\ view'[q].generation # control'.generation
      BY DEF Seen
    <3>1. pc[q] \in Applying /\ view'[q] = view[q]
      BY <1>5 DEF Leased, Applying
    <3>2. view[q].generation \in Nat /\ control.generation \in Nat
      BY <1>1, ControlFields
    <3>3. QED BY <1>2, <2>1, <3>1, <3>2 DEF Seen
  <2>4. QED BY <2>1, <2>2, <2>3
<1>7. QED BY <1>3, <1>4, <1>6 DEF PInv, Undisturbed

\* A step of one process that leaves the record and the provider alone: it does not
\* begin to apply, and is about to record only what the provider does.
LEMMA QuietProvider ==
  ASSUME PInv, NEW p \in Procs,
         \A q \in Procs : q # p => pc'[q] = pc[q] /\ view'[q] = view[q],
         view'[p] = view[p] \/ (pc'[p] \notin Leased /\ view'[p] = control),
         pc'[p] \in Leased => pc[p] \in Leased,
         pc'[p] \in Applying => pc[p] \in Applying,
         pc'[p] = "record" => provider = view[p].desired,
         faults \subseteq faults', UNCHANGED <<control, provider, delayed>>
  PROVE  PInv'
<1>1. Applying \subseteq Leased /\ "record" \in Applying
  BY DEF Applying, Leased
<1>2. Known(control') /\ \A q \in Procs : Known(view'[q])
  BY DEF PInv
<1>3. ASSUME Undisturbed
      PROVE  delayed = "none" /\ Alone' /\ Seen' /\ Applied' /\ (Converged(control)' => provider' = control'.desired)
  <2>1. delayed = "none" /\ Alone /\ Seen /\ Applied /\ (Converged(control) => provider = control.desired)
    BY <1>3 DEF PInv
  <2>2. Alone'
    BY <2>1 DEF Alone
  <2>3. Seen'
    BY <1>1, <2>1 DEF Seen
  <2>4. Applied'
    BY <1>1, <2>1 DEF Applied
  <2>5. QED BY <2>1, <2>2, <2>3, <2>4 DEF Converged
<1>4. Undisturbed' => Undisturbed
  BY DEF Undisturbed
<1>5. QED BY <1>2, <1>3, <1>4 DEF PInv

\* Whoever takes the lease is alone, and sees the record that is stored.
LEMMA AcquireProvider ==
  ASSUME TypeOK, PInv, NEW p \in Procs, pc[p] = "acquire", ~ Busy(p),
         control' = [control EXCEPT !.token = p, !.lease = "live"],
         view' = [view EXCEPT ![p] = control'], pc' = [pc EXCEPT ![p] = "get"],
         UNCHANGED <<provider, delayed, faults>>
  PROVE  PInv'
<1>1. /\ control \in Control /\ view \in [Procs -> Control]
      /\ pc \in [Procs -> {"rest", "scan", "repair", "sync", "reread", "acquire", "get",
                           "post", "confirm", "record", "release"}]
  BY DEF TypeOK
<1>2. /\ control'.generation = control.generation /\ control'.token = p
      /\ control'.lease = "live" /\ control'.appliedGeneration = control.appliedGeneration
      /\ control'.desired = control.desired /\ control'.applied = control.applied
  BY <1>1 DEF Control
<1>3. pc'[p] = "get" /\ view'[p] = control' /\ \A q \in Procs : q # p => pc'[q] = pc[q] /\ view'[q] = view[q]
  BY <1>1
<1>4. Known(control') /\ \A q \in Procs : Known(view'[q])
  BY <1>1, <1>2, <1>3 DEF PInv, Known
<1>5. Converged(control)' = Converged(control)
  BY <1>2 DEF Converged
<1>6. ASSUME Undisturbed
      PROVE  delayed = "none" /\ Alone' /\ Seen' /\ Applied' /\ (Converged(control) => provider = control.desired)
  <2>1. delayed = "none" /\ Alone /\ Seen /\ Applied /\ (Converged(control) => provider = control.desired)
    BY <1>6 DEF PInv
  <2>2. ASSUME NEW q \in Procs, q # p PROVE pc'[q] \notin Leased
    <3>1. NoOne \notin Procs
      BY SchedulerAssumption DEF SchedulerAssumption, Procs
    <3>2. ~ (control.token = q /\ control.lease = "live")
      BY <2>2, <3>1 DEF Busy
    <3>3. QED BY <1>3, <2>1, <2>2, <3>2 DEF Alone
  <2>3. Alone'
    BY <1>2, <2>2 DEF Alone
  <2>4. Seen'
    <3>1. control'.generation <= control'.generation
      BY <1>1, <1>2, ControlFields
    <3>2. QED BY <1>3, <2>2, <3>1 DEF Seen, Applying, Leased
  <2>5. Applied'
    BY <1>3, <2>2 DEF Applied, Leased
  <2>6. QED BY <2>1, <2>3, <2>4, <2>5
<1>7. QED BY <1>2, <1>4, <1>5, <1>6 DEF PInv, Undisturbed

\* What the holder applied is recorded, and only for the intent it applied.
LEMMA RecordProvider ==
  ASSUME TypeOK, PInv, NEW p \in Procs, Record(p)
  PROVE  PInv'
<1>1. /\ control \in Control /\ view \in [Procs -> Control] /\ pc[p] = "record"
      /\ pc \in [Procs -> {"rest", "scan", "repair", "sync", "reread", "acquire", "get",
                           "post", "confirm", "record", "release"}]
      /\ UNCHANGED <<provider, delayed, faults>>
  BY DEF TypeOK, Record
<1>2. view[p] \in Control
  BY <1>1
<1>3. ASSUME Undisturbed
      PROVE  /\ delayed = "none" /\ Alone /\ Seen /\ Applied /\ provider = view[p].desired
             /\ control.token = p /\ \A q \in Procs : q # p => pc[q] \notin Leased
  <2>1. delayed = "none" /\ Alone /\ Seen /\ Applied
    BY <1>3 DEF PInv
  <2>2. QED BY <1>1, <2>1 DEF Alone, Applied, Leased
<1>4. CASE /\ control.token = p /\ control.desired = view[p].desired
           /\ control' = [control EXCEPT !.applied = view[p].desired,
                                         !.appliedGeneration = control.generation,
                                         !.token = NoOne, !.lease = "none"]
           /\ Finish(p) /\ UNCHANGED view
  <2>1. /\ control'.generation = control.generation /\ control'.appliedGeneration = control.generation
        /\ control'.desired = control.desired
    BY <1>1, <1>4 DEF Control
  <2>2. pc'[p] \notin Leased /\ \A q \in Procs : q # p => pc'[q] = pc[q]
    BY <1>1, <1>4 DEF Finish, GoTo, Leased
  <2>3. Known(control') /\ \A q \in Procs : Known(view'[q])
    BY <1>1, <1>4, <2>1, ControlFields DEF PInv, Known
  <2>4. ASSUME Undisturbed PROVE Alone' /\ Seen' /\ Applied' /\ provider' = control'.desired
    <3>1. \A q \in Procs : pc'[q] \notin Leased
      BY <1>3, <2>2, <2>4
    <3>2. QED BY <1>1, <1>3, <1>4, <2>1, <2>4, <3>1 DEF Alone, Seen, Applied, Leased, Applying
  <2>5. QED BY <1>1, <1>3, <2>3, <2>4 DEF PInv, Undisturbed
<1>5. CASE /\ control.token = p /\ control.desired # view[p].desired
           /\ control' = [control EXCEPT !.applied = view[p].desired, !.lease = "live"]
           /\ See(p, control') /\ GoTo(p, "get") /\ UNCHANGED force
  <2>1. /\ control'.generation = control.generation
        /\ control'.appliedGeneration = control.appliedGeneration
        /\ control'.desired = control.desired /\ control'.applied = view[p].desired
        /\ control'.token = control.token /\ control'.lease = "live"
    BY <1>1, <1>5 DEF Control
  <2>2. pc'[p] = "get" /\ view'[p] = control' /\ \A q \in Procs : q # p => pc'[q] = pc[q] /\ view'[q] = view[q]
    BY <1>1, <1>5 DEF See, GoTo
  <2>3. Known(control') /\ \A q \in Procs : Known(view'[q])
    BY <1>1, <2>1, <2>2 DEF PInv, Known
  <2>4. ~ Converged(control')
    BY <1>5, <2>1 DEF Converged
  <2>5. ASSUME Undisturbed PROVE Alone' /\ Seen' /\ Applied'
    <3>1. \A q \in Procs : q # p => pc'[q] \notin Leased
      BY <1>3, <2>2, <2>5
    <3>2. Alone' /\ Applied'
      BY <1>5, <2>1, <2>2, <3>1 DEF Alone, Applied, Leased
    <3>3. control'.generation <= control'.generation
      BY <1>1, <2>1, ControlFields
    <3>4. QED BY <2>2, <3>1, <3>2, <3>3 DEF Seen, Leased, Applying
  <2>6. QED BY <1>1, <1>3, <2>3, <2>4, <2>5 DEF PInv, Undisturbed
<1>6. CASE control.token # p /\ GoTo(p, "release") /\ UNCHANGED <<control, view, force>>
  <2>1. "release" \notin Applying /\ pc[p] \in Leased
    BY <1>1 DEF Applying, Leased
  <2>2. /\ pc'[p] = "release" /\ \A q \in Procs : q # p => pc'[q] = pc[q]
        /\ view' = view /\ UNCHANGED <<control, provider, delayed, faults>>
    BY <1>1, <1>6 DEF GoTo
  <2>3. QED BY <2>1, <2>2, QuietProvider
<1>7. QED BY <1>4, <1>5, <1>6 DEF Record

\* The holder gives the lease back.
LEMMA ReleaseProvider ==
  ASSUME TypeOK, PInv, NEW p \in Procs, Release(p)
  PROVE  PInv'
<1>1. /\ control \in Control /\ view \in [Procs -> Control] /\ pc[p] = "release"
      /\ pc \in [Procs -> {"rest", "scan", "repair", "sync", "reread", "acquire", "get",
                           "post", "confirm", "record", "release"}]
      /\ UNCHANGED <<provider, delayed, faults, view>>
  BY DEF TypeOK, Release
<1>2. /\ control'.generation = control.generation
      /\ control'.appliedGeneration = control.appliedGeneration
      /\ control'.desired = control.desired /\ control'.applied = control.applied
  BY <1>1 DEF Release, Control
<1>3. pc'[p] \notin Leased /\ \A q \in Procs : q # p => pc'[q] = pc[q]
  BY <1>1 DEF Release, Finish, GoTo, Leased
<1>4. Known(control') /\ \A q \in Procs : Known(view'[q])
  BY <1>1, <1>2 DEF PInv, Known
<1>5. ASSUME Undisturbed
      PROVE  /\ delayed = "none" /\ Alone' /\ Seen' /\ Applied'
             /\ Converged(control') => provider = control'.desired
  <2>1. delayed = "none" /\ Alone /\ (Converged(control) => provider = control.desired)
    BY <1>5 DEF PInv
  <2>2. \A q \in Procs : pc'[q] \notin Leased
    BY <1>1, <1>3, <2>1 DEF Alone, Leased
  <2>3. QED BY <1>2, <2>1, <2>2 DEF Alone, Seen, Applied, Leased, Applying, Converged
<1>6. QED BY <1>1, <1>4, <1>5 DEF PInv, Undisturbed

\* The holder changes the provider to the intent it saw: if the record has converged,
\* to what the provider does already.
LEMMA PostProvider ==
  ASSUME TypeOK, PInv, NEW p \in Procs, Post(p)
  PROVE  PInv'
<1>1. /\ control \in Control /\ view \in [Procs -> Control] /\ pc[p] = "post"
      /\ pc \in [Procs -> {"rest", "scan", "repair", "sync", "reread", "acquire", "get",
                           "post", "confirm", "record", "release"}]
      /\ UNCHANGED <<control, view>>
  BY DEF TypeOK, Post
<1>2. /\ pc'[p] \in {"record", "confirm"} /\ \A q \in Procs : q # p => pc'[q] = pc[q]
      /\ pc'[p] = "record" => provider' = view[p].desired
      /\ provider' \in {provider, view[p].desired}
      /\ faults \subseteq faults' /\ (Undisturbed' => delayed' = delayed)
  BY <1>1 DEF Post, GoTo, Fault, Undisturbed
<1>3. ASSUME Undisturbed
      PROVE  /\ delayed = "none" /\ Alone' /\ Seen' /\ Applied'
             /\ Converged(control') => provider' = control'.desired
  <2>1. delayed = "none" /\ Alone /\ Seen /\ (Converged(control) => provider = control.desired)
    BY <1>3 DEF PInv
  <2>2. \A q \in Procs : q # p => pc'[q] \notin Leased
    BY <1>1, <1>2, <2>1 DEF Alone, Leased
  <2>3. Alone' /\ Applied' /\ Seen'
    BY <1>1, <1>2, <2>1, <2>2 DEF Alone, Applied, Seen, Leased, Applying
  <2>4. Converged(control) => view[p].desired = control.desired
    <3>1. /\ view[p].generation \in Nat /\ control.generation \in Nat
          /\ view[p].appliedGeneration <= view[p].generation
      BY <1>1, ControlFields DEF PInv, Known
    <3>2. QED BY <1>1, <2>1, <3>1 DEF Seen, Applying, Converged
  <2>5. QED BY <1>1, <1>2, <2>1, <2>3, <2>4
<1>4. Undisturbed' => Undisturbed
  BY <1>2 DEF Undisturbed
<1>5. QED BY <1>1, <1>2, <1>3, <1>4 DEF PInv

\* A lease ends: under a process that holds it only as a fault.
LEMMA LapseProvider == TypeOK /\ PInv /\ Lapse => PInv'
<1> SUFFICES ASSUME TypeOK, PInv, Lapse PROVE PInv'
  OBVIOUS
<1>1. control \in Control /\ UNCHANGED <<provider, delayed, pc, view>>
  BY DEF TypeOK, Lapse
<1>2. /\ control'.generation = control.generation
      /\ control'.appliedGeneration = control.appliedGeneration
      /\ control'.desired = control.desired /\ control'.applied = control.applied
  BY <1>1 DEF Lapse, Control
<1>3. Known(control') /\ \A q \in Procs : Known(view'[q])
  BY <1>1, <1>2 DEF PInv, Known
<1>4. ASSUME Undisturbed'
      PROVE  /\ delayed = "none" /\ Alone' /\ Seen' /\ Applied'
             /\ Converged(control') => provider = control'.desired
  <2>1. faults' = faults /\ \A p \in Procs : ~ Holds(p)
    BY <1>4 DEF Lapse, Fault, Undisturbed
  <2>2. /\ delayed = "none" /\ Alone /\ Seen /\ Applied
        /\ Converged(control) => provider = control.desired
    BY <1>4, <2>1 DEF PInv, Undisturbed
  <2>3. \A p \in Procs : pc[p] \notin Leased
    BY <2>1, <2>2 DEF Alone, Leased, Holds
  <2>4. QED BY <1>1, <1>2, <2>2, <2>3 DEF Alone, Seen, Applied, Leased, Applying, Converged
<1>5. QED BY <1>1, <1>3, <1>4 DEF PInv

\* A synchronization, whatever becomes of it, keeps the provider's part.
LEMMA SynchronizeProvider ==
  ASSUME TypeOK, PInv, NEW p \in Procs, Synchronize(p) \/ GiveUp(p) \/ Crash(p)
  PROVE  PInv'
<1> USE DEF GoTo, See, Finish
<1>0. /\ view \in [Procs -> Control]
      /\ pc \in [Procs -> {"rest", "scan", "repair", "sync", "reread", "acquire", "get",
                           "post", "confirm", "record", "release"}]
      /\ {"rest", "reread", "acquire", "sync"} \cap (Leased \cup Applying \cup {"record"}) = {}
  BY DEF TypeOK, Leased, Applying
<1>1. CASE Begin(p) \/ GiveUp(p) \/ Crash(p) \/ (Acquire(p) /\ Busy(p))
  <2>1. /\ pc'[p] \in {"rest", "reread", "acquire"}
        /\ \A q \in Procs : q # p => pc'[q] = pc[q]
    BY <1>0, <1>1 DEF Begin, GiveUp, Crash, Acquire
  <2>2. /\ UNCHANGED <<control, view, provider, delayed>> /\ faults \subseteq faults'
    BY <1>1 DEF Begin, GiveUp, Crash, Acquire, Fault
  <2>3. QED BY <1>0, <2>1, <2>2, QuietProvider
<1>2. CASE Reread(p)
  <2>1. /\ pc'[p] = "sync" /\ view'[p] = control
        /\ \A q \in Procs : q # p => pc'[q] = pc[q] /\ view'[q] = view[q]
    BY <1>0, <1>2 DEF Reread
  <2>2. UNCHANGED <<control, provider, delayed, faults>>
    BY <1>2 DEF Reread
  <2>3. QED BY <1>0, <2>1, <2>2, QuietProvider
<1>3. CASE Acquire(p) /\ ~ Busy(p)
  BY <1>3, AcquireProvider DEF Acquire
<1>4. CASE Get(p) \/ Confirm(p)
  <2>1. /\ pc'[p] = "record" => provider = view[p].desired
        /\ \A q \in Procs : q # p => pc'[q] = pc[q]
    BY <1>0, <1>4 DEF Get, Confirm
  <2>2. pc[p] \in Leased /\ pc[p] \in Applying
    BY <1>4 DEF Get, Confirm, Leased, Applying
  <2>3. UNCHANGED <<control, view, provider, delayed>> /\ faults \subseteq faults'
    BY <1>4 DEF Get, Confirm, Fault
  <2>4. QED BY <2>1, <2>2, <2>3, QuietProvider
<1>5. CASE Post(p) \/ Record(p) \/ Release(p)
  BY <1>5, PostProvider, RecordProvider, ReleaseProvider
<1>6. QED BY <1>1, <1>2, <1>3, <1>4, <1>5 DEF Synchronize

\* So do the transactions on jobs, the repair and the saves past both.
LEMMA MembershipProvider ==
  ASSUME TypeOK, PInv,
         \/ \E p \in Requests, j \in Jobs : Open(p, j) \/ Close(p, j)
         \/ \E j \in Jobs : Shift(j) \/ Drift(j)
         \/ Reconcile
  PROVE  PInv'
<1> USE DEF GoTo, See
<1>1. /\ view \in [Procs -> Control]
      /\ pc \in [Procs -> {"rest", "scan", "repair", "sync", "reread", "acquire", "get",
                           "post", "confirm", "record", "release"}]
      /\ Requests \subseteq Procs /\ "reconciler" \in Procs /\ {"rest", "repair"} \cap Leased = {}
      /\ {"scan", "repair", "sync"} \cap (Leased \cup Applying \cup {"record"}) = {}
      /\ control.tracked \subseteq Jobs /\ scanned \subseteq Jobs
  BY DEF Procs, Leased, Applying, TypeOK, Control
<1>2. ASSUME NEW p \in Requests, NEW j \in Jobs, Open(p, j) \/ Close(p, j)
      PROVE  PInv'
  <2>1. PICK jobs \in SUBSET Jobs : control' = Member(control, jobs)
    BY <1>1, <1>2 DEF Open, Close
  <2>2. /\ pc[p] \notin Leased /\ view' = [view EXCEPT ![p] = control']
        /\ pc' = [pc EXCEPT ![p] = "sync"] /\ UNCHANGED <<provider, delayed, faults>>
    BY <1>1, <1>2 DEF Open, Close
  <2>3. QED BY <1>1, <2>1, <2>2, MemberProvider
<1>3. ASSUME NEW j \in Jobs, Shift(j)
      PROVE  PInv'
  <2>1. control.tracked \cup {j} \in SUBSET Jobs
    BY <1>1
  <2>2. QED BY <1>3, <2>1, MemberProvider DEF Shift
<1>4. ASSUME NEW j \in Jobs, Drift(j)
      PROVE  PInv'
  BY <1>4 DEF Drift, Fault, PInv, Undisturbed, Alone, Seen, Applied
<1>5. CASE Tick \/ Scan \/ Unrepaired
  <2>1. /\ pc'["reconciler"] \in {"scan", "repair", "sync"}
        /\ view'["reconciler"] \in {view["reconciler"], control}
        /\ \A q \in Procs : q # "reconciler" => pc'[q] = pc[q] /\ view'[q] = view[q]
    BY <1>1, <1>5 DEF Tick, Scan, Unrepaired
  <2>2. UNCHANGED <<control, provider, delayed, faults>>
    BY <1>5 DEF Tick, Scan, Unrepaired
  <2>3. QED BY <1>1, <2>1, <2>2, QuietProvider
<1>6. CASE Repair
  <2>1. UNCHANGED <<provider, delayed, faults>> /\ pc["reconciler"] \notin Leased
    BY <1>1, <1>6 DEF Repair
  <2>2. CASE control' = control
    <3>1. /\ pc'["reconciler"] \in {"scan", "sync"} /\ view'["reconciler"] = control
          /\ \A q \in Procs : q # "reconciler" => pc'[q] = pc[q] /\ view'[q] = view[q]
      BY <1>1, <1>6, <2>2 DEF Repair
    <3>2. QED BY <1>1, <2>1, <2>2, <3>1, QuietProvider
  <2>3. CASE control' # control
    <3>1. /\ control' = Member(control, scanned)
          /\ view' = [view EXCEPT !["reconciler"] = control']
          /\ pc' = [pc EXCEPT !["reconciler"] = "sync"]
      BY <1>6, <2>3 DEF Repair, Repaired
    <3>2. QED BY <1>1, <2>1, <3>1, MemberProvider
  <2>4. QED BY <2>2, <2>3
<1>7. QED BY <1>2, <1>3, <1>4, <1>5, <1>6 DEF Reconcile

\* Every step keeps the provider's part.
LEMMA NextPInv == TypeOK /\ PInv /\ [Next]_vars => PInv'
<1> SUFFICES ASSUME TypeOK, PInv, [Next]_vars PROVE PInv'
  OBVIOUS
<1>1. CASE Land
  BY <1>1 DEF Land, PInv, Undisturbed
<1>2. CASE UNCHANGED vars
  BY <1>2 DEF vars, PInv, Undisturbed, Alone, Seen, Applied, Converged
<1>3. QED
  BY <1>1, <1>2, MembershipProvider, SynchronizeProvider, LapseProvider DEF Next

\* However synchronizations race boundaries and each other, fail or stop, a converged
\* record says what the provider does: a stale pause does not win over a new job,
\* unless the provider applies a change late or a process outlives its lease.
THEOREM StalePauseLoses == Spec => []NoStalePause
<1>1. PInv => NoStalePause
  BY DEF PInv, Undisturbed, NoStalePause
<1>2. QED BY <1>1, InitPInv, NextPInv, TypeCorrect, PTL DEF Spec
=============================================================================
