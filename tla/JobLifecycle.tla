----------------------------- MODULE JobLifecycle -----------------------------
(***************************************************************************)
(* What a deferred job promises to whoever started it, without leases,      *)
(* tasks, retries or recovery: the job is open, its outcome is decided once,  *)
(* the domain change is committed at most once, while the job is open, and    *)
(* once it is sealed by a receipt the job cannot be withdrawn; the delivery   *)
(* of the outcome is then closed.                                            *)
(*                                                                         *)
(* excused records that an unconditional save replaced a record its writer   *)
(* had not seen; nothing is promised from then on.                          *)
(***************************************************************************)
VARIABLES phase, outcome, committed, sealed, excused

lifecycle == <<phase, outcome, committed, sealed, excused>>

Phases   == {"none", "open", "decided", "closed"}
Outcomes == {"succeeded", "failed", "cancelled", "superseded"}

Init == /\ phase = "none" /\ outcome = "none"
        /\ committed = FALSE /\ sealed = FALSE /\ excused = FALSE

Submit == /\ phase = "none" /\ phase' = "open"
          /\ UNCHANGED <<outcome, committed, sealed, excused>>

Commit == /\ phase = "open" /\ ~ committed /\ committed' = TRUE
          /\ sealed' \in BOOLEAN
          /\ UNCHANGED <<phase, outcome, excused>>

\* A withdrawal is refused once the change is sealed; success needs the change.
\* A failure to start is decided and closed at once.
Decide(o) == /\ phase = "open"
             /\ o \in {"cancelled", "superseded"} => ~ sealed
             /\ o = "succeeded" => committed
             /\ outcome' = o
             /\ phase' \in IF o = "failed" THEN {"decided", "closed"} ELSE {"decided"}
             /\ UNCHANGED <<committed, sealed, excused>>

Close == /\ phase = "decided" /\ phase' = "closed"
         /\ UNCHANGED <<outcome, committed, sealed, excused>>

Excuse == /\ excused' = TRUE
          /\ phase' \in Phases /\ outcome' \in Outcomes \cup {"none"}
          /\ committed' \in BOOLEAN /\ sealed' \in BOOLEAN

Next == Submit \/ Commit \/ (\E o \in Outcomes : Decide(o)) \/ Close \/ Excuse

Spec == Init /\ [][Next]_lifecycle
=============================================================================
