---------------------------- MODULE MessageEmail -----------------------------
(***************************************************************************)
(* Delayed email for direct messages: the candidate row of each recipient and *)
(* conversation, the Cloud Tasks that deliver it, the senders that capture    *)
(* their messages in it, and the workers that run the tasks.                 *)
(*                                                                         *)
(* A row is due when five minutes have passed since its last capture; a task  *)
(* is named after the row and a sequence and is ready when its delay is over. *)
(***************************************************************************)
EXTENDS Messaging

CONSTANTS
    Subscribers,       \* the users who may have asked for immediate email
    MaxMailed,         \* bound on the changes when somebody is mailed
    Workers,
    Nobody,            \* no worker holds the row
    MaxFaults,         \* bound on failures, stopped processes and expired leases
    Strands            \* a capture may end without a task after an earlier one was scheduled

ASSUME EmailAssumption ==
    /\ Subscribers \subseteq Users /\ Nobody \notin Workers /\ IsFiniteSet(Workers)
    /\ MaxMailed \in Nat /\ MaxFaults \in Nat /\ Strands \in BOOLEAN

VARIABLES
    asked,      \* the users who asked for immediate email
    row,        \* each candidate row
    task,       \* each named task
    capture,    \* the captures under way
    worker,     \* each worker's delivery
    mailed,     \* how often each message was mailed
    faults

email == <<row, task, capture, worker, mailed, faults>>
vars == <<messaging, asked, email>>

-----------------------------------------------------------------------------
Keys == {k \in Conversations \X Subscribers : k[2] \in k[1]}
Names == 1..MaxChanges

NoRow == [state |-> "none", sequence |-> 0, scheduled |-> 0, due |-> FALSE,
          holder |-> Nobody, lease |-> FALSE]

Idle == [at |-> "idle", key |-> <<>>, name |-> 0, sequence |-> 0, due |-> FALSE]

Ended(state) == [NoRow EXCEPT !.state = state]
Terminal(k) == row[k].state \in {"sent", "suppressed"}

\* message_is_actionable
Actionable(k, sequence) ==
    LET t == k[1]
        u == k[2]
    IN  /\ talk[t].sequence = sequence /\ talk[t].sender # {u}
        /\ talk[t].read[u] < sequence /\ talk[t].cleared[u] < sequence
        /\ \E m \in messages : m.talk = t /\ m.sequence = sequence /\ u \notin m.hidden

\* create_task: an existing name is left alone.
Enqueued(k, name) ==
    IF task[k][name] = "none" THEN [task EXCEPT ![k][name] = "delayed"] ELSE task

\* mark_message_scheduled
Scheduled(k, sequence) ==
    IF row[k].sequence = sequence THEN [row EXCEPT ![k].scheduled = sequence] ELSE row

-----------------------------------------------------------------------------
(* Capture *)

SendAndCapture(t, u, op) ==
    /\ Send(t, u, op)
    /\ capture' = capture \cup {[key |-> <<t, v>>, sequence |-> talk'[t].sequence,
                                 at |-> "committed"] : v \in (t \ {u}) \cap asked}
    /\ UNCHANGED <<row, task, worker, mailed, faults>>

\* Mistake: a row that is being delivered is not scheduled again.
UpsertPendingOnly(c) ==
    LET r == row[c.key]
    IN  /\ c \in capture /\ c.at = "committed"
        /\ row' = [row EXCEPT ![c.key] =
                     [r EXCEPT !.sequence = c.sequence, !.state = "pending", !.due = FALSE]]
        /\ capture' = (capture \ {c}) \cup
                        IF r.scheduled = 0 THEN {[c EXCEPT !.at = "upserted"]} ELSE {}
        /\ UNCHANGED <<messaging, task, worker, mailed, faults>>

\* upsert_message_candidate: the lease fields of a row being delivered stay.
Upsert(c) ==
    LET r == row[c.key]
    IN  /\ c \in capture /\ c.at = "committed"
        /\ row' = [row EXCEPT ![c.key] =
                     [r EXCEPT !.sequence = c.sequence, !.state = "pending", !.due = FALSE]]
        /\ capture' = (capture \ {c}) \cup
                        IF r.state # "pending" \/ r.scheduled = 0
                          THEN {[c EXCEPT !.at = "upserted"]} ELSE {}
        /\ UNCHANGED <<messaging, task, worker, mailed, faults>>

Enqueue(c) ==
    /\ c \in capture /\ c.at = "upserted"
    /\ task' = Enqueued(c.key, c.sequence)
    /\ capture' = (capture \ {c}) \cup {[c EXCEPT !.at = "enqueued"]}
    /\ UNCHANGED <<messaging, row, worker, mailed, faults>>

MarkScheduled(c) ==
    /\ c \in capture /\ c.at = "enqueued"
    /\ row' = Scheduled(c.key, c.sequence)
    /\ capture' = capture \ {c}
    /\ UNCHANGED <<messaging, task, worker, mailed, faults>>

-----------------------------------------------------------------------------
(* Time *)

\* Five minutes after the last capture: the delays of the row's tasks are over too.
FallDue(k) ==
    /\ row[k].state \in {"pending", "sending"} /\ ~row[k].due
    /\ row' = [row EXCEPT ![k].due = TRUE]
    /\ task' = [task EXCEPT ![k] = [n \in Names |->
                  IF task[k][n] = "delayed" THEN "ready" ELSE task[k][n]]]
    /\ UNCHANGED <<messaging, capture, worker, mailed, faults>>

\* The delay of a task of an earlier message, or of one enqueued late.
Elapse(k, n) ==
    /\ task[k][n] = "delayed"
    /\ row[k].sequence # n \/ row[k].due
    /\ task' = [task EXCEPT ![k][n] = "ready"]
    /\ UNCHANGED <<messaging, row, capture, worker, mailed, faults>>

Active(k) ==
    \E w \in Workers : w = row[k].holder /\ worker[w].key = k
                       /\ worker[w].at \in {"claimed", "valid", "invalid", "mailed"}

\* A lease of five minutes; it expires under a worker at work only when that stalls.
Expire(k) ==
    /\ row[k].state = "sending" /\ row[k].lease
    /\ IF Active(k) THEN faults < MaxFaults /\ faults' = faults + 1 ELSE UNCHANGED faults
    /\ row' = [row EXCEPT ![k].lease = FALSE]
    /\ UNCHANGED <<messaging, task, capture, worker, mailed>>

-----------------------------------------------------------------------------
(* Delivery *)

\* Cloud Tasks delivers at least once; the row is read first.
Take(w, k, n) ==
    /\ worker[w].at = "idle" /\ task[k][n] = "ready"
    /\ worker' = [worker EXCEPT ![w] = [at |-> "read", key |-> k, name |-> n,
                                        sequence |-> row[k].sequence,
                                        due |-> row[k].due \/ Terminal(k)]]
    /\ UNCHANGED <<messaging, row, task, capture, mailed, faults>>

Acknowledged(w) == [task EXCEPT ![worker[w].key][worker[w].name] = "done"]
Freed(w) == [worker EXCEPT ![w] = Idle]

Reschedule(w) ==
    /\ worker[w].at = "read" /\ ~worker[w].due
    /\ task' = Enqueued(worker[w].key, worker[w].sequence)
    /\ worker' = [worker EXCEPT ![w].at = "rescheduled"]
    /\ UNCHANGED <<messaging, row, capture, mailed, faults>>

MarkRescheduled(w) ==
    /\ worker[w].at = "rescheduled"
    /\ row' = Scheduled(worker[w].key, worker[w].sequence)
    /\ task' = Acknowledged(w) /\ worker' = Freed(w)
    /\ UNCHANGED <<messaging, capture, mailed, faults>>

\* Mistake: a row that is being delivered may be claimed.
BusyNever(k) == FALSE

Busy(k) == row[k].state = "sending" /\ row[k].lease

\* claim_delivery: the claim takes the row as it is now; a busy row fails the task.
Claim(w) ==
    LET k == worker[w].key
    IN  /\ worker[w].at = "read" /\ worker[w].due
        /\ IF Terminal(k)
             THEN task' = Acknowledged(w) /\ worker' = Freed(w) /\ UNCHANGED row
             ELSE IF Busy(k)
               THEN worker' = Freed(w) /\ UNCHANGED <<row, task>>
               ELSE /\ row' = [row EXCEPT ![k].state = "sending", ![k].holder = w,
                                          ![k].lease = TRUE]
                    /\ worker' = [worker EXCEPT ![w].at = "claimed",
                                                ![w].sequence = row[k].sequence]
                    /\ UNCHANGED task
        /\ UNCHANGED <<messaging, capture, mailed, faults>>

\* The message is still to be answered and the recipient is not at the site, or not.
Check(w) ==
    /\ worker[w].at = "claimed"
    /\ \E valid \in {TRUE, FALSE} :
         /\ valid => Actionable(worker[w].key, worker[w].sequence)
         /\ worker' = [worker EXCEPT ![w].at = IF valid THEN "valid" ELSE "invalid"]
    /\ UNCHANGED <<messaging, row, task, capture, mailed, faults>>

Mail(w) ==
    LET k == worker[w].key
    IN  /\ worker[w].at = "valid"
        /\ mailed' = [mailed EXCEPT ![k][worker[w].sequence] = mailed[k][worker[w].sequence] + 1]
        /\ worker' = [worker EXCEPT ![w].at = "mailed"]
        /\ UNCHANGED <<messaging, row, task, capture, faults>>

\* Mistake: the row ends whatever was captured during the delivery.
OwnsHolder(w) == row[worker[w].key].holder = w

Owns(w) ==
    row[worker[w].key].holder = w /\ row[worker[w].key].sequence = worker[w].sequence

Finish(w) ==
    LET k == worker[w].key
    IN  /\ worker[w].at \in {"mailed", "invalid"}
        /\ row' = IF Owns(w)
                    THEN [row EXCEPT ![k] = Ended(IF worker[w].at = "mailed" THEN "sent"
                                                  ELSE "suppressed")]
                    ELSE row
        /\ task' = Acknowledged(w) /\ worker' = Freed(w)
        /\ UNCHANGED <<messaging, capture, mailed, faults>>

-----------------------------------------------------------------------------
(* Faults *)

\* A delivery raises: the row is released, and the task is retried.
Raise(w) ==
    LET k == worker[w].key
    IN  /\ worker[w].at \in {"claimed", "valid", "mailed", "invalid"}
        /\ row' = IF row[k].holder = w
                    THEN [row EXCEPT ![k].state = "pending", ![k].holder = Nobody,
                                     ![k].lease = FALSE]
                    ELSE row
        /\ worker' = Freed(w)
        /\ UNCHANGED <<messaging, task, capture, mailed>>

\* A worker stops, or fails before its claim; the task is retried.
Stop(w) ==
    /\ worker[w].at # "idle"
    /\ worker' = Freed(w)
    /\ UNCHANGED <<messaging, row, task, capture, mailed>>

\* The sender stops, or the capture or its enqueue fails.
Forget(c) ==
    /\ c \in capture
    /\ Strands \/ c.at # "upserted" \/ row[c.key].scheduled = 0
    /\ capture' = capture \ {c}
    /\ UNCHANGED <<messaging, row, task, worker, mailed>>

Fault ==
    /\ faults < MaxFaults /\ faults' = faults + 1
    /\ (\E w \in Workers : Raise(w) \/ Stop(w)) \/ (\E c \in capture : Forget(c))

-----------------------------------------------------------------------------
Init ==
    /\ MessagingInit /\ asked \in SUBSET Subscribers
    /\ row = [k \in Keys |-> NoRow] /\ task = [k \in Keys |-> [n \in Names |-> "none"]]
    /\ capture = {} /\ worker = [w \in Workers |-> Idle]
    /\ mailed = [k \in Keys |-> [n \in Names |-> 0]] /\ faults = 0

Capture(c) == Upsert(c) \/ Enqueue(c) \/ MarkScheduled(c)

Deliver(w) ==
    Reschedule(w) \/ MarkRescheduled(w) \/ Claim(w) \/ Check(w) \/ Mail(w) \/ Finish(w)

Passing(k) == FallDue(k) \/ (\E n \in Names : Elapse(k, n)) \/ Expire(k)

\* Bound: when somebody is mailed, fewer changes, and only the mailed open pages.
Bounded ==
    asked # {} =>
      /\ Changes <= MaxMailed
      /\ \A t \in Conversations, u \in Users \ asked : view[t][u].sequence = 0

Next ==
    /\ UNCHANGED asked
    /\ \/ \E t \in Conversations, u \in Users, op \in Operations : SendAndCapture(t, u, op)
       \/ \E u \in Users : Using(u) /\ UNCHANGED email
       \/ \E c \in capture : Capture(c)
       \/ \E k \in Keys : Passing(k)
       \/ \E w \in Workers : (\E k \in Keys, n \in Names : Take(w, k, n)) \/ Deliver(w)
       \/ Fault
    /\ Bounded'

Spec == Init /\ [][Next]_vars

-----------------------------------------------------------------------------
(* Properties *)

TypeOK ==
    /\ MessagingTypeOK /\ asked \subseteq Subscribers
    /\ row \in [Keys -> [state : {"none", "pending", "sending", "sent", "suppressed"},
                         sequence : Nat, scheduled : Nat, due : BOOLEAN,
                         holder : Workers \cup {Nobody}, lease : BOOLEAN]]
    /\ task \in [Keys -> [Names -> {"none", "delayed", "ready", "done"}]]
    /\ capture \subseteq [key : Keys, sequence : Names, at : {"committed", "upserted", "enqueued"}]
    /\ \A w \in Workers :
         /\ worker[w].at \in {"idle", "read", "rescheduled", "claimed", "valid", "invalid", "mailed"}
         /\ worker[w].at # "idle" => worker[w].key \in Keys /\ worker[w].name \in Names
         /\ worker[w].sequence \in Nat /\ worker[w].due \in BOOLEAN
    /\ mailed \in [Keys -> [Names -> Nat]] /\ faults \in Nat

\* A message is mailed once, but for a repetition by each failure, stop or stalled
\* lease: neither tasks delivered twice nor later captures repeat it.
MailedOnce == \A k \in Keys, n \in Names : mailed[k][n] <= 1 + faults

\* A message in a row that was scheduled once keeps a task that will deliver it, a
\* worker at it, or a sender about to enqueue one, whatever was captured while the
\* row was being delivered. One fault: a delivery that stalls beyond its lease may
\* acknowledge the task of the one that took over, which then must not fail. None, when
\* it may be a sender that gives up between a row and its task.
NeverStranded ==
    \A k \in Keys :
        faults <= (IF Strands THEN 0 ELSE 1) /\ row[k].state \in {"pending", "sending"} /\ row[k].scheduled # 0 =>
          \/ \E n \in Names : task[k][n] \in {"delayed", "ready"}
          \/ \E c \in capture : c.key = k /\ c.at = "upserted"
          \/ Active(k)

\* A row ends as sent only for a message that was mailed: the delivery of an earlier
\* one does not end it.
SentWasMailed ==
    [][\A k \in Keys : row[k].state # "sent" /\ row'[k].state = "sent" =>
         mailed[k][row[k].sequence] > 0]_vars
=============================================================================
