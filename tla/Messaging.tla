------------------------------ MODULE Messaging ------------------------------
(***************************************************************************)
(* Direct messages: conversations of two users, the messages in them, each    *)
(* user's unread total, and the pages that show a conversation and mark it    *)
(* read. Every operation is one Datastore transaction over the conversation,  *)
(* the message and the user's notification aggregate.                         *)
(*                                                                         *)
(* A conversation exists once its sequence is positive. The aggregate row is  *)
(* created at zero before each operation that needs it.                       *)
(***************************************************************************)
EXTENDS Integers, FiniteSets, FiniteSetsExt

CONSTANTS
    Users,
    Conversations,     \* the pairs of users that may talk
    Operations,        \* the operation identifiers a sender's page draws
    MaxChanges,        \* bound on the changes of conversations
    MaxHides           \* bound on hidden copies

ASSUME MessagingAssumption ==
    /\ IsFiniteSet(Users) /\ MaxChanges \in Nat /\ MaxHides \in Nat
    /\ \A t \in Conversations : t \subseteq Users /\ Cardinality(t) = 2

VARIABLES
    talk,       \* each conversation
    messages,   \* the messages sent
    count,      \* each user's unread_message_count
    view        \* what each user's page shows of each conversation

messaging == <<talk, messages, count, view>>

-----------------------------------------------------------------------------
None == [u \in Users |-> 0]

NewConversation ==
    [sequence |-> 0, revision |-> 0, sender |-> {}, visible |-> {},
     unread |-> None, read |-> None, cleared |-> None]

\* The user whose copy an inbound message is.
Recipient(m) == m.talk \ {m.sender}

SameKey(m, t, u, op) == m.talk = t /\ m.sender = u /\ m.operation = op

Floor0(n) == IF n < 0 THEN 0 ELSE n

Counted(u, delta) == [count EXCEPT ![u] = Floor0(count[u] + delta)]

-----------------------------------------------------------------------------
(* Transitions of a conversation *)

\* Mistake: a new message lists the conversation for its sender only.
SentUnlisted(c, t, u) ==
    [c EXCEPT !.sequence = c.sequence + 1, !.revision = c.revision + 1,
              !.sender = {u}, !.visible = c.visible \cup {u},
              !.unread = [v \in Users |-> IF v \in t \ {u} THEN c.unread[v] + 1 ELSE c.unread[v]]]

Sent(c, t, u) ==
    [c EXCEPT !.sequence = c.sequence + 1, !.revision = c.revision + 1,
              !.sender = {u}, !.visible = t,
              !.unread = [v \in Users |-> IF v \in t \ {u} THEN c.unread[v] + 1 ELSE c.unread[v]]]

Read(c, u) ==
    [c EXCEPT !.revision = c.revision + 1, !.unread = [c.unread EXCEPT ![u] = 0],
              !.read = [c.read EXCEPT ![u] = c.sequence]]

Hidden(c, u) ==
    [c EXCEPT !.revision = c.revision + 1, !.unread = [c.unread EXCEPT ![u] = c.unread[u] - 1]]

Cleared(c, u) ==
    [c EXCEPT !.revision = c.revision + 1, !.unread = [c.unread EXCEPT ![u] = 0],
              !.cleared = [c.cleared EXCEPT ![u] = c.sequence], !.visible = c.visible \ {u}]

Hides == Cardinality(UNION {{m} \X m.hidden : m \in messages})

Changes == MapThenSumSet(LAMBDA t : talk[t].revision, Conversations)

Changeable == Changes < MaxChanges

-----------------------------------------------------------------------------
(* Operations *)

\* Mistake: the operation identifier is not looked up.
SendAgain(t, u, op) ==
    /\ u \in t /\ Changeable
    /\ talk' = [talk EXCEPT ![t] = Sent(talk[t], t, u)]
    /\ messages' = {m \in messages : ~SameKey(m, t, u, op)} \cup
                     {[talk |-> t, sender |-> u, operation |-> op,
                       sequence |-> talk[t].sequence + 1, hidden |-> {}]}
    /\ count' = [v \in Users |-> IF v \in t \ {u} THEN count[v] + 1 ELSE count[v]]
    /\ UNCHANGED view

\* A replayed operation is answered with the message it created. The second bound
\* follows from the first, a sum; the proofs use it instead.
Send(t, u, op) ==
    /\ u \in t /\ Changeable /\ talk[t].sequence < MaxChanges
    /\ ~ \E m \in messages : SameKey(m, t, u, op)
    /\ talk' = [talk EXCEPT ![t] = Sent(talk[t], t, u)]
    /\ messages' = messages \cup {[talk |-> t, sender |-> u, operation |-> op,
                                   sequence |-> talk[t].sequence + 1, hidden |-> {}]}
    /\ count' = [v \in Users |-> IF v \in t \ {u} THEN count[v] + 1 ELSE count[v]]
    /\ UNCHANGED view

\* The page loads the conversation, then its messages.
Open(t, u) ==
    /\ u \in t /\ talk[t].sequence > 0
    /\ view' = [view EXCEPT ![t][u] = [revision |-> talk[t].revision,
                                       sequence |-> talk[t].sequence]]
    /\ UNCHANGED <<talk, messages, count>>

\* Mistake: the revision the page loaded is not compared.
MarkReadAny(t, u) ==
    /\ u \in t /\ Changeable /\ view[t][u].sequence > 0
    /\ talk[t].unread[u] > 0
    /\ talk' = [talk EXCEPT ![t] = Read(talk[t], u)]
    /\ count' = Counted(u, - talk[t].unread[u])
    /\ UNCHANGED <<messages, view>>

\* Nothing changes when nothing is unread, or the conversation has changed since.
MarkRead(t, u) ==
    /\ u \in t /\ Changeable /\ view[t][u].sequence > 0
    /\ view[t][u].revision = talk[t].revision
    /\ talk[t].unread[u] > 0
    /\ talk' = [talk EXCEPT ![t] = Read(talk[t], u)]
    /\ count' = Counted(u, - talk[t].unread[u])
    /\ UNCHANGED <<messages, view>>

\* Mistake: an unread message is taken from the counters whatever they hold.
CountsWhenHiddenUnread(m, u) == u \in Recipient(m) /\ m.sequence > talk[m.talk].read[u]

\* apply_hidden_message: an inbound message the user has not read.
CountsWhenHidden(m, u) ==
    /\ u \in Recipient(m)
    /\ m.sequence > talk[m.talk].read[u]
    /\ talk[m.talk].unread[u] > 0

Hide(m, u) ==
    /\ m \in messages /\ u \in m.talk /\ u \notin m.hidden /\ Hides < MaxHides
    /\ messages' = (messages \ {m}) \cup {[m EXCEPT !.hidden = m.hidden \cup {u}]}
    /\ IF CountsWhenHidden(m, u)
         THEN /\ Changeable
              /\ talk' = [talk EXCEPT ![m.talk] = Hidden(talk[m.talk], u)]
              /\ count' = Counted(u, -1)
         ELSE UNCHANGED <<talk, count>>
    /\ UNCHANGED view

\* Mistake: the unread total keeps what was cleared.
ClearUncounted(t, u) ==
    /\ u \in t /\ talk[t].sequence > 0 /\ Changeable
    /\ talk' = [talk EXCEPT ![t] = Cleared(talk[t], u)]
    /\ UNCHANGED <<messages, count, view>>

Clear(t, u) ==
    /\ u \in t /\ talk[t].sequence > 0 /\ Changeable
    /\ talk' = [talk EXCEPT ![t] = Cleared(talk[t], u)]
    /\ count' = IF talk[t].unread[u] > 0 THEN Counted(u, - talk[t].unread[u]) ELSE count
    /\ UNCHANGED <<messages, view>>

-----------------------------------------------------------------------------
MessagingInit ==
    /\ talk = [t \in Conversations |-> NewConversation] /\ messages = {}
    /\ count = None
    /\ view = [t \in Conversations |-> [u \in Users |-> [revision |-> 0, sequence |-> 0]]]

\* What a user does with messages already sent.
Using(u) ==
    \/ \E t \in Conversations : Open(t, u) \/ MarkRead(t, u) \/ Clear(t, u)
    \/ \E m \in messages : Hide(m, u)

MessagingNext ==
    \/ \E u \in Users : Using(u)
    \/ \E t \in Conversations, u \in Users, op \in Operations : Send(t, u, op)

MessagingSpec == MessagingInit /\ [][MessagingNext]_messaging

-----------------------------------------------------------------------------
(* Properties *)

Counters == [Users -> Nat]

MessagingTypeOK ==
    /\ talk \in [Conversations -> [sequence : Nat, revision : Nat, sender : SUBSET Users,
                                   visible : SUBSET Users, unread : Counters,
                                   read : Counters, cleared : Counters]]
    /\ messages \subseteq [talk : Conversations, sender : Users, operation : Operations,
                           sequence : Nat, hidden : SUBSET Users]
    /\ count \in Counters
    /\ view \in [Conversations -> [Users -> [revision : Nat, sequence : Nat]]]

Inbound(t, u) == {m \in messages : m.talk = t /\ u \in Recipient(m)}

\* Inbound messages the user has not read, cleared or hidden.
Awaiting(t, u) ==
    {m \in Inbound(t, u) : m.sequence > talk[t].read[u] /\ m.sequence > talk[t].cleared[u]
                           /\ u \notin m.hidden}

\* Inbound messages hidden though the user had not read them, and cleared.
HiddenCleared(t, u) ==
    {m \in Inbound(t, u) : m.sequence > talk[t].read[u] /\ m.sequence <= talk[t].cleared[u]
                           /\ u \in m.hidden}

\* The unread counter never counts a message twice, or one that was read, cleared
\* or hidden. It misses a message only for one that was hidden after a clear, which
\* apply_hidden_message takes from the messages that arrived since.
UnreadBounded ==
    \A t \in Conversations : \A u \in t :
        /\ talk[t].unread[u] <= Cardinality(Awaiting(t, u))
        /\ Cardinality(Awaiting(t, u)) <= talk[t].unread[u] + Cardinality(HiddenCleared(t, u))

\* What a user has unread, one element for each unit of the counters.
UnreadOf(u) ==
    UNION {{t} \X (1..talk[t].unread[u]) : t \in {s \in Conversations : u \in s}}

\* A user's total is the sum of the unread counters of the user's conversations:
\* neither is written without the other, and no decrement is cut off at zero.
CountsAgree == \A u \in Users : count[u] = Cardinality(UnreadOf(u))

\* A conversation that counts as unread is listed for the user who has to read it.
UnreadListed ==
    \A t \in Conversations, u \in Users : talk[t].unread[u] > 0 => u \in talk[t].visible

\* Only what a page has shown is marked read: a message that arrives between the
\* load and the request keeps its unread mark.
ReadWasShown ==
    \A t \in Conversations, u \in Users : talk[t].read[u] <= view[t][u].sequence
=============================================================================
