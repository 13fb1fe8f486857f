---------------------------- MODULE JobLockProofs ----------------------------
(***************************************************************************)
(* An active operation no start of which has failed always holds its        *)
(* target's lock, for any number of operations, forms, requests and readers. *)
(***************************************************************************)
EXTENDS JobLock, TLAPS

\* What makes ActiveHoldsLock inductive: a stored lock names an operation of its
\* target that exists, a reader about to drop a lock read an operation that had
\* ended, and only a start that failed cleans up and fails its operation.
LockNamesJob == \A t \in Targets : lock[t] # NoOp =>
                    TargetOf[lock[t]] = t /\ status[lock[t]] # "absent"
ReaderSawEnd == \A d \in Readers :
    /\ reader[d].at # "idle" => reader[d].op \in Ops /\ status[reader[d].op] # "absent"
    /\ reader[d].at = "drop" => status[reader[d].op] \in {"ended", "failed"}
RequestNamesOp == \A q \in Requests :
    /\ request[q].at # "idle" => request[q].op \in Ops
    /\ request[q].at \in {"cleanup", "fail"} => request[q].op \in failing

IInv == TypeOK /\ LockNamesJob /\ ReaderSawEnd /\ RequestNamesOp /\ ActiveHoldsLock

USE LockAssumption

LEMMA InitIInv == Init => IInv
  BY DEF Init, IInv, TypeOK, LockNamesJob, ReaderSawEnd, RequestNamesOp,
         ActiveHoldsLock, Idle

\* One step of a request keeps the invariant.
LEMMA RequestStep ==
  ASSUME IInv, NEW q \in Requests,
         \/ \E o \in Ops : LookUp(q, o)
         \/ Create(q) \/ Initialize(q) \/ FailCleanup(q) \/ FailStart(q) \/ Die(q)
  PROVE  IInv'
<1> USE DEF IInv, TypeOK, LockNamesJob, ReaderSawEnd, RequestNamesOp,
            ActiveHoldsLock, HoldsTarget
<1>1. CASE \E o \in Ops : LookUp(q, o)
  BY <1>1 DEF LookUp, Idle
<1>2. CASE Create(q)
  <2> DEFINE o == request[q].op
             t == TargetOf[o]
  <2>1. o \in Ops /\ t \in Targets
    BY <1>2 DEF Create
  <2>2. CASE LockedByAnother(o)
    <3>1. /\ request' = [request EXCEPT ![q] = Idle]
          /\ UNCHANGED <<status, lock, applied, failing, reader>>
      BY <1>2, <2>2 DEF Create
    <3>2. QED BY <3>1 DEF Idle
  <2>3. CASE ~ LockedByAnother(o) /\ status[o] # "absent"
    BY <1>2, <2>1, <2>3 DEF Create, Idle, LockedByAnother
  <2>4. CASE ~ LockedByAnother(o) /\ status[o] = "absent"
    <3>1. /\ status' = [status EXCEPT ![o] = "active"]
          /\ lock' = [lock EXCEPT ![t] = o]
          /\ request' = [request EXCEPT ![q].at = "initialize"]
          /\ UNCHANGED <<applied, failing, reader>>
      BY <1>2, <2>4 DEF Create
    <3>2. TypeOK' /\ RequestNamesOp'
      BY <2>1, <3>1
    <3>3. LockNamesJob' /\ ReaderSawEnd'
      BY <2>1, <2>4, <3>1
    <3>4. ASSUME NEW p \in Ops \ failing, status'[p] = "active"
          PROVE  lock'[TargetOf[p]] = p
      <4>1. CASE p = o
        BY <2>1, <3>1, <4>1
      <4>2. CASE p # o
        <5>1. status[p] = "active" /\ lock[TargetOf[p]] = p
          BY <2>1, <3>1, <3>4, <4>2
        <5>2. TargetOf[p] # t   \* p would have refused the creation
          BY <2>4, <4>2, <5>1 DEF LockedByAnother
        <5>3. QED BY <2>1, <3>1, <5>1, <5>2
      <4>3. QED BY <4>1, <4>2
    <3>5. QED BY <3>1, <3>2, <3>3, <3>4
  <2>5. QED BY <2>2, <2>3, <2>4
<1>3. CASE Initialize(q)
  BY <1>3 DEF Initialize, Idle
<1>4. CASE FailCleanup(q)
  BY <1>4 DEF FailCleanup, Release
<1>5. CASE FailStart(q)
  BY <1>5 DEF FailStart, Idle
<1>6. CASE Die(q)
  BY <1>6 DEF Die, Idle
<1>7. QED BY <1>1, <1>2, <1>3, <1>4, <1>5, <1>6

\* One step of a job keeps the invariant.
LEMMA JobStep ==
  ASSUME IInv, NEW o \in Ops, Apply(o) \/ End(o) \/ Cleanup(o)
  PROVE  IInv'
<1> USE DEF IInv, TypeOK, LockNamesJob, ReaderSawEnd, RequestNamesOp,
            ActiveHoldsLock, HoldsTarget
<1>1. CASE Apply(o)
  BY <1>1 DEF Apply
<1>2. CASE End(o)
  BY <1>2 DEF End
<1>3. CASE Cleanup(o)
  BY <1>3 DEF Cleanup, Release
<1>4. QED BY <1>1, <1>2, <1>3

\* One step of a reader keeps the invariant.
LEMMA ReaderStep ==
  ASSUME IInv, NEW d \in Readers,
         (\E t \in Targets : ReadLock(d, t)) \/ ReadJob(d) \/ DropLock(d)
  PROVE  IInv'
<1> USE DEF IInv, TypeOK, LockNamesJob, ReaderSawEnd, RequestNamesOp,
            ActiveHoldsLock, HoldsTarget
<1>1. CASE \E t \in Targets : ReadLock(d, t)
  BY <1>1 DEF ReadLock
<1>2. CASE ReadJob(d)
  BY <1>2 DEF ReadJob, Idle
<1>3. CASE DropLock(d)
  BY <1>3 DEF DropLock, Release, Idle
<1>4. QED BY <1>1, <1>2, <1>3

\* Every step keeps the inductive invariant.
LEMMA NextIInv == IInv /\ [Next]_vars => IInv'
<1> SUFFICES ASSUME IInv, [Next]_vars PROVE IInv'
  OBVIOUS
<1>1. CASE UNCHANGED vars
  BY <1>1 DEF vars, IInv, TypeOK, LockNamesJob, ReaderSawEnd, RequestNamesOp,
              ActiveHoldsLock, HoldsTarget
<1>2. CASE Next
  BY <1>2, RequestStep, JobStep, ReaderStep DEF Next
<1>3. QED BY <1>1, <1>2

\* The locks, the operations, the requests and the readers keep their types.
THEOREM TypeCorrect == Spec => []TypeOK
<1>1. IInv => TypeOK
  BY DEF IInv
<1>2. QED BY InitIInv, NextIInv, <1>1, PTL DEF Spec

\* Lookups, races of repeated requests, crashes, terminal cleanups and stale
\* readers never take the lock from an active operation, unless its own start failed.
THEOREM ActiveHoldsLockHolds == Spec => []ActiveHoldsLock
<1>1. IInv => ActiveHoldsLock
  BY DEF IInv
<1>2. QED BY InitIInv, NextIInv, <1>1, PTL DEF Spec

\* So two active operations never share a target: at most one AI run is reserved.
THEOREM OneActive == Spec => []OneActivePerTarget
<1>1. ActiveHoldsLock => OneActivePerTarget
  BY DEF ActiveHoldsLock, OneActivePerTarget, Exclusive, HoldsTarget
<1>2. QED BY <1>1, ActiveHoldsLockHolds, PTL
=============================================================================
