------------------------- MODULE MessageEmailProofs -------------------------
(***************************************************************************)
(* Direct messages and their email, for any users, conversations, workers    *)
(* and faults. The mailing leaves the messages to their own rules, so what    *)
(* holds of Messaging holds of the whole: what is unread is listed, only what *)
(* a page has shown is marked read, the totals are the sums of the counters,  *)
(* and a counter never counts more than what waits: every step adds, takes    *)
(* away or exchanges what is counted, as each message has its own number.     *)
(*                                                                         *)
(* A message is mailed once because a mailing has a budget: the mails made,   *)
(* the deliveries that may still mail and the claim that may still be made    *)
(* never exceed one and the faults (Budget). A claim uses up the one that is  *)
(* left, a mail its delivery; only a fault, or a message nobody has touched   *)
(* yet (Future), gives a new one. A row ends as sent only by a worker that    *)
(* holds it, which delivers what the row names (Current) and has mailed it    *)
(* (Mailing).                                                                 *)
(*                                                                         *)
(* No row is stranded because a row in use that has had a task keeps one that *)
(* nobody leaves behind (Anchored): a worker acknowledges a task without      *)
(* delivering its row only when it has seen another (Leaving), and the task   *)
(* named after the row's own message is never run before the row is due, so   *)
(* it is that other (OnTime). A worker that holds its row may lose it to a    *)
(* fault, and then the row rests on the one that took over (Held).            *)
(***************************************************************************)
EXTENDS MessageEmail, FiniteSetTheorems, TLAPS

\* A conversation.
Conversation ==
    [sequence : Nat, revision : Nat, sender : SUBSET Users, visible : SUBSET Users,
     unread : Counters, read : Counters, cleared : Counters]

USE MessagingAssumption DEF MessagingAssumption, Counters

-----------------------------------------------------------------------------
(* What the transitions do to a conversation *)

\* A message sent: one more for everybody else, and listed for both.
LEMMA SentIs ==
  ASSUME NEW c \in Conversation, NEW t \in SUBSET Users, NEW u \in t
  PROVE  /\ Sent(c, t, u) \in Conversation
         /\ Sent(c, t, u).sequence = c.sequence + 1 /\ Sent(c, t, u).revision = c.revision + 1
         /\ Sent(c, t, u).visible = t /\ Sent(c, t, u).read = c.read
         /\ \A v \in Users : Sent(c, t, u).unread[v] > 0 => v \in t \/ c.unread[v] > 0
<1> DEFINE n == c.sequence + 1
           r == c.revision + 1
           left == [v \in Users |-> IF v \in t \ {u} THEN c.unread[v] + 1 ELSE c.unread[v]]
           d == Sent(c, t, u)
<1>1. r \in Nat /\ n \in Nat /\ left \in Counters
      /\ \A v \in Users : left[v] > 0 => v \in t \/ c.unread[v] > 0
  BY DEF Conversation
<1>2. d = [c EXCEPT !.sequence = n, !.revision = r, !.sender = {u}, !.visible = t,
                    !.unread = left]
  BY DEF Sent
<1>3. /\ d \in Conversation
      /\ d.sequence = n /\ d.revision = r /\ d.visible = t /\ d.read = c.read /\ d.unread = left
  <2> HIDE DEF n, r, left, d, Counters
  <2>1. QED BY <1>1, <1>2 DEF Conversation
<1> HIDE DEF left
<1>4. QED BY <1>1, <1>3

\* What was read: nothing of it is unread.
LEMMA ReadIs ==
  ASSUME NEW c \in Conversation, NEW u \in Users
  PROVE  /\ Read(c, u) \in Conversation
         /\ Read(c, u).sequence = c.sequence /\ Read(c, u).revision = c.revision + 1
         /\ Read(c, u).visible = c.visible /\ Read(c, u).read = [c.read EXCEPT ![u] = c.sequence]
         /\ \A v \in Users : Read(c, u).unread[v] > 0 => c.unread[v] > 0
<1> DEFINE r == c.revision + 1
           left == [c.unread EXCEPT ![u] = 0]
           seen == [c.read EXCEPT ![u] = c.sequence]
           d == Read(c, u)
<1>1. r \in Nat /\ left \in Counters /\ seen \in Counters
      /\ \A v \in Users : left[v] > 0 => c.unread[v] > 0
  BY DEF Conversation
<1>2. d = [c EXCEPT !.revision = r, !.unread = left, !.read = seen]
  BY DEF Read
<1>3. /\ d \in Conversation
      /\ d.sequence = c.sequence /\ d.revision = r /\ d.visible = c.visible
      /\ d.read = seen /\ d.unread = left
  <2> HIDE DEF r, left, seen, d, Counters
  <2>1. QED BY <1>1, <1>2 DEF Conversation
<1> HIDE DEF left
<1>4. QED BY <1>1, <1>3

\* A hidden message: one less.
LEMMA HiddenIs ==
  ASSUME NEW c \in Conversation, NEW u \in Users, c.unread[u] > 0
  PROVE  /\ Hidden(c, u) \in Conversation
         /\ Hidden(c, u).sequence = c.sequence /\ Hidden(c, u).revision = c.revision + 1
         /\ Hidden(c, u).visible = c.visible /\ Hidden(c, u).read = c.read
         /\ \A v \in Users : Hidden(c, u).unread[v] > 0 => c.unread[v] > 0
<1> DEFINE r == c.revision + 1
           left == [c.unread EXCEPT ![u] = c.unread[u] - 1]
           d == Hidden(c, u)
<1>1. r \in Nat /\ left \in Counters /\ \A v \in Users : left[v] > 0 => c.unread[v] > 0
  BY DEF Conversation
<1>2. d = [c EXCEPT !.revision = r, !.unread = left]
  BY DEF Hidden
<1>3. /\ d \in Conversation
      /\ d.sequence = c.sequence /\ d.revision = r /\ d.visible = c.visible
      /\ d.read = c.read /\ d.unread = left
  <2> HIDE DEF r, left, d, Counters
  <2>1. QED BY <1>1, <1>2 DEF Conversation
<1> HIDE DEF left
<1>4. QED BY <1>1, <1>3

\* A cleared conversation: not listed, and nothing of it unread.
LEMMA ClearedIs ==
  ASSUME NEW c \in Conversation, NEW u \in Users
  PROVE  /\ Cleared(c, u) \in Conversation
         /\ Cleared(c, u).sequence = c.sequence /\ Cleared(c, u).revision = c.revision + 1
         /\ Cleared(c, u).visible = c.visible \ {u} /\ Cleared(c, u).read = c.read
         /\ \A v \in Users : Cleared(c, u).unread[v] > 0 => v # u /\ c.unread[v] > 0
<1> DEFINE r == c.revision + 1
           left == [c.unread EXCEPT ![u] = 0]
           gone == [c.cleared EXCEPT ![u] = c.sequence]
           d == Cleared(c, u)
<1>1. /\ r \in Nat /\ left \in Counters /\ gone \in Counters
      /\ \A v \in Users : left[v] > 0 => v # u /\ c.unread[v] > 0
  BY DEF Conversation
<1>2. d = [c EXCEPT !.revision = r, !.unread = left, !.cleared = gone, !.visible = c.visible \ {u}]
  BY DEF Cleared
<1>3. /\ d \in Conversation
      /\ d.sequence = c.sequence /\ d.revision = r /\ d.visible = c.visible \ {u}
      /\ d.read = c.read /\ d.unread = left
  <2> HIDE DEF r, left, gone, d, Counters
  <2>1. QED BY <1>1, <1>2 DEF Conversation
<1> HIDE DEF left
<1>4. QED BY <1>1, <1>3

\* A counter that is changed stays a counter.
LEMMA CountedIs ==
  ASSUME count \in Counters, NEW u \in Users, NEW d \in Int
  PROVE  Counted(u, d) \in Counters
<1>1. Floor0(count[u] + d) \in Nat
  BY DEF Floor0
<1>2. QED BY <1>1 DEF Counted

-----------------------------------------------------------------------------
(* The inductive invariant of the messages *)

\* Nothing is unread for a user outside the conversation.
Outside == \A t \in Conversations, u \in Users : talk[t].unread[u] > 0 => u \in t

\* A page is never ahead of its conversation, and while it is not behind it shows
\* the last message.
PageHonest ==
  \A t \in Conversations, u \in Users :
    /\ view[t][u].revision <= talk[t].revision
    /\ view[t][u].sequence > 0 /\ view[t][u].revision = talk[t].revision
         => view[t][u].sequence = talk[t].sequence

\* What was read was sent.
ReadWasSent == \A t \in Conversations, u \in Users : talk[t].read[u] <= talk[t].sequence

MessagingInv ==
  MessagingTypeOK /\ Outside /\ PageHonest /\ ReadWasSent /\ UnreadListed /\ ReadWasShown

\* The types, in the form the proofs use.
LEMMA Typed ==
  MessagingTypeOK <=>
    /\ talk \in [Conversations -> Conversation]
    /\ messages \subseteq [talk : Conversations, sender : Users, operation : Operations,
                           sequence : Nat, hidden : SUBSET Users]
    /\ count \in Counters
    /\ view \in [Conversations -> [Users -> [revision : Nat, sequence : Nat]]]
  BY DEF MessagingTypeOK, Conversation

\* Without conversations in progress everything holds.
LEMMA MessagingInitInv == MessagingInit => MessagingInv
<1> SUFFICES ASSUME MessagingInit PROVE MessagingInv
  OBVIOUS
<1>1. None \in Counters
  BY DEF None
<1>2. NewConversation \in Conversation
  BY <1>1 DEF NewConversation, Conversation
<1>3. MessagingTypeOK
  BY <1>1, <1>2, Typed DEF MessagingInit
<1>4. \A t \in Conversations, u \in Users :
        /\ talk[t].unread[u] = 0 /\ talk[t].read[u] = 0 /\ talk[t].sequence = 0
        /\ talk[t].revision = 0 /\ view[t][u].revision = 0 /\ view[t][u].sequence = 0
  BY DEF MessagingInit, NewConversation, None
<1>5. QED BY <1>3, <1>4 DEF MessagingInv, Outside, PageHonest, ReadWasSent, UnreadListed, ReadWasShown

\* A conversation that changes, with a higher revision, as its transition does.
LEMMA TalkMoves ==
  ASSUME MessagingInv, MessagingTypeOK', view' = view,
         NEW t \in Conversations,
         \A s \in Conversations : s # t => talk'[s] = talk[s],
         talk'[t].revision = talk[t].revision + 1,
         \A v \in Users : talk'[t].unread[v] > 0 => v \in t /\ v \in talk'[t].visible,
         \A v \in Users : talk'[t].read[v] <= talk'[t].sequence
                          /\ talk'[t].read[v] <= view[t][v].sequence
  PROVE  MessagingInv'
<1>1. talk \in [Conversations -> Conversation]
      /\ view \in [Conversations -> [Users -> [revision : Nat, sequence : Nat]]]
  BY Typed DEF MessagingInv
<1>2. /\ \A s \in Conversations : talk[s].revision \in Nat
      /\ \A s \in Conversations, v \in Users : view[s][v].revision \in Nat
  BY <1>1 DEF Conversation
<1>3. Outside' /\ UnreadListed'
  BY DEF MessagingInv, Outside, UnreadListed
<1>4. PageHonest'
  BY <1>2 DEF MessagingInv, PageHonest
<1>5. ReadWasSent' /\ ReadWasShown'
  BY DEF MessagingInv, ReadWasSent, ReadWasShown
<1>6. QED BY <1>3, <1>4, <1>5 DEF MessagingInv

\* A message is sent.
LEMMA SendInv ==
  ASSUME MessagingInv, NEW t \in Conversations, NEW u \in Users, NEW op \in Operations,
         Send(t, u, op)
  PROVE  MessagingInv'
<1> DEFINE d == Sent(talk[t], t, u)
<1>1. /\ talk \in [Conversations -> Conversation] /\ count \in Counters
      /\ talk[t] \in Conversation /\ t \in SUBSET Users /\ u \in t /\ t \subseteq Users
  BY Typed DEF MessagingInv, Send
<1>2. /\ d \in Conversation
      /\ d.sequence = talk[t].sequence + 1 /\ d.revision = talk[t].revision + 1
      /\ d.visible = t /\ d.read = talk[t].read
      /\ \A v \in Users : d.unread[v] > 0 => v \in t \/ talk[t].unread[v] > 0
  BY <1>1, SentIs
<1>3. talk[t].sequence \in Nat /\ \A v \in Users : talk[t].read[v] \in Nat
  BY <1>1 DEF Conversation
<1>4. talk' = [talk EXCEPT ![t] = d] /\ view' = view
  BY DEF Send
<1> HIDE DEF d
<1>5. MessagingTypeOK'
  <2>1. talk' \in [Conversations -> Conversation]
    BY <1>1, <1>2, <1>4
  <2>2. count' \in Counters
    BY <1>1 DEF Send
  <2>3. talk[t].sequence + 1 \in Nat
    BY <1>3
  <2>4. messages' \subseteq [talk : Conversations, sender : Users, operation : Operations,
                             sequence : Nat, hidden : SUBSET Users]
    BY <2>3, Typed DEF Send, MessagingInv
  <2>5. QED BY <1>4, <2>1, <2>2, <2>4, Typed DEF MessagingInv, MessagingTypeOK, Conversation
<1>6. \A v \in Users : d.unread[v] > 0 => v \in t /\ v \in d.visible
  BY <1>2 DEF MessagingInv, Outside
<1>7. \A v \in Users : d.read[v] <= d.sequence /\ d.read[v] <= view[t][v].sequence
  BY <1>2, <1>3 DEF MessagingInv, ReadWasSent, ReadWasShown
<1>8. talk'[t] = d /\ \A s \in Conversations : s # t => talk'[s] = talk[s]
  BY <1>1, <1>4
<1>9. QED BY <1>2, <1>4, <1>5, <1>6, <1>7, <1>8, TalkMoves

\* A page is opened.
LEMMA OpenInv ==
  ASSUME MessagingInv, NEW t \in Conversations, NEW u \in Users, Open(t, u)
  PROVE  MessagingInv'
<1>1. /\ talk \in [Conversations -> Conversation]
      /\ view \in [Conversations -> [Users -> [revision : Nat, sequence : Nat]]]
  BY Typed DEF MessagingInv
<1> DEFINE p == [revision |-> talk[t].revision, sequence |-> talk[t].sequence]
<1>2. /\ p \in [revision : Nat, sequence : Nat]
      /\ \A s \in Conversations : talk[s].revision \in Nat /\ talk[s].sequence \in Nat
  BY <1>1 DEF Conversation
<1>3. view' = [view EXCEPT ![t][u] = p] /\ UNCHANGED <<talk, messages, count>>
  BY DEF Open
<1>4. /\ view' \in [Conversations -> [Users -> [revision : Nat, sequence : Nat]]]
      /\ \A s \in Conversations, v \in Users :
           view'[s][v] = IF s = t /\ v = u THEN p ELSE view[s][v]
  <2> HIDE DEF p
  <2> QED BY <1>1, <1>2, <1>3
<1>5. MessagingTypeOK'
  BY <1>3, <1>4 DEF MessagingInv, MessagingTypeOK
<1>6. Outside' /\ UnreadListed' /\ ReadWasSent'
  BY <1>3 DEF MessagingInv, Outside, UnreadListed, ReadWasSent
<1>7. PageHonest'
  BY <1>2, <1>3, <1>4 DEF MessagingInv, PageHonest
<1>8. ReadWasShown'
  BY <1>3, <1>4 DEF MessagingInv, ReadWasSent, ReadWasShown
<1>9. QED BY <1>5, <1>6, <1>7, <1>8 DEF MessagingInv

\* A page marks what it has shown.
LEMMA MarkReadInv ==
  ASSUME MessagingInv, NEW t \in Conversations, NEW u \in Users, MarkRead(t, u)
  PROVE  MessagingInv'
<1> DEFINE d == Read(talk[t], u)
<1>1. /\ talk \in [Conversations -> Conversation] /\ count \in Counters /\ talk[t] \in Conversation
  BY Typed DEF MessagingInv
<1>2. /\ d \in Conversation
      /\ d.sequence = talk[t].sequence /\ d.revision = talk[t].revision + 1
      /\ d.visible = talk[t].visible /\ d.read = [talk[t].read EXCEPT ![u] = talk[t].sequence]
      /\ \A v \in Users : d.unread[v] > 0 => talk[t].unread[v] > 0
  BY <1>1, ReadIs
<1>3. /\ talk[t].sequence \in Nat /\ talk[t].unread[u] \in Nat
      /\ talk[t].read \in [Users -> Nat]
  BY <1>1 DEF Conversation
<1>4. /\ talk' = [talk EXCEPT ![t] = d] /\ count' = Counted(u, - talk[t].unread[u])
      /\ UNCHANGED <<messages, view>>
      /\ view[t][u].sequence > 0 /\ view[t][u].revision = talk[t].revision
  BY DEF MarkRead
<1> HIDE DEF d
<1>5. MessagingTypeOK'
  <2>1. talk' \in [Conversations -> Conversation]
    BY <1>1, <1>2, <1>4
  <2>2. count' \in Counters
    <3>1. - talk[t].unread[u] \in Int
      BY <1>3
    <3>2. QED BY <1>1, <1>4, <3>1, CountedIs
  <2>3. QED BY <1>4, <2>1, <2>2 DEF MessagingInv, MessagingTypeOK, Conversation
<1>6. \A v \in Users : d.unread[v] > 0 => v \in t /\ v \in d.visible
  BY <1>2 DEF MessagingInv, Outside, UnreadListed
<1>7. view[t][u].sequence = talk[t].sequence
  BY <1>4 DEF MessagingInv, PageHonest
<1>8. \A v \in Users : d.read[v] <= d.sequence /\ d.read[v] <= view[t][v].sequence
  BY <1>2, <1>3, <1>7 DEF MessagingInv, ReadWasSent, ReadWasShown
<1>9. talk'[t] = d /\ \A s \in Conversations : s # t => talk'[s] = talk[s]
  BY <1>1, <1>4
<1>10. QED BY <1>2, <1>4, <1>5, <1>6, <1>8, <1>9, TalkMoves

\* A message is hidden from one of its users.
LEMMA HideInv ==
  ASSUME MessagingInv, NEW m \in messages, NEW u \in Users, Hide(m, u)
  PROVE  MessagingInv'
<1> DEFINE t == m.talk
           d == Hidden(talk[t], u)
           Message == [talk : Conversations, sender : Users, operation : Operations,
                       sequence : Nat, hidden : SUBSET Users]
<1>1. /\ talk \in [Conversations -> Conversation] /\ count \in Counters
      /\ messages \subseteq Message /\ m \in Message
  BY Typed DEF MessagingInv
<1>2. [m EXCEPT !.hidden = m.hidden \cup {u}] \in Message
  BY <1>1
<1>3. messages' \subseteq Message /\ view' = view
  BY <1>1, <1>2 DEF Hide
<1>4. t \in Conversations /\ talk[t] \in Conversation
  BY <1>1
<1> HIDE DEF Message
<1>5. CASE CountsWhenHidden(m, u)
  <2>1. talk[t].unread[u] > 0
    BY <1>5 DEF CountsWhenHidden
  <2>2. /\ d \in Conversation
        /\ d.sequence = talk[t].sequence /\ d.revision = talk[t].revision + 1
        /\ d.visible = talk[t].visible /\ d.read = talk[t].read
        /\ \A v \in Users : d.unread[v] > 0 => talk[t].unread[v] > 0
    BY <1>4, <2>1, HiddenIs
  <2>3. talk' = [talk EXCEPT ![t] = d] /\ count' = Counted(u, -1)
    BY <1>5 DEF Hide
  <2> HIDE DEF d
  <2>4. talk' \in [Conversations -> Conversation]
    BY <1>1, <2>2, <2>3
  <2>5. count' \in Counters
    BY <1>1, <2>3, CountedIs
  <2>6. MessagingTypeOK'
    BY <1>3, <2>4, <2>5 DEF MessagingInv, MessagingTypeOK, Conversation, Message
  <2>7. \A v \in Users : d.unread[v] > 0 => v \in t /\ v \in d.visible
    BY <1>4, <2>2 DEF MessagingInv, Outside, UnreadListed
  <2>8. \A v \in Users : d.read[v] <= d.sequence /\ d.read[v] <= view[t][v].sequence
    BY <1>4, <2>2 DEF MessagingInv, ReadWasSent, ReadWasShown
  <2>9. talk'[t] = d /\ \A s \in Conversations : s # t => talk'[s] = talk[s]
    BY <1>1, <1>4, <2>3
  <2> HIDE DEF t
  <2>10. QED BY <1>3, <1>4, <2>2, <2>3, <2>6, <2>7, <2>8, <2>9, TalkMoves
<1>6. CASE ~CountsWhenHidden(m, u)
  <2>1. UNCHANGED <<talk, count, view>>
    BY <1>6 DEF Hide
  <2>2. QED BY <1>3, <2>1 DEF MessagingInv, MessagingTypeOK, Outside, PageHonest, ReadWasSent,
         UnreadListed, ReadWasShown, Message
<1>7. QED BY <1>5, <1>6

\* A conversation is cleared for one of its users.
LEMMA ClearInv ==
  ASSUME MessagingInv, NEW t \in Conversations, NEW u \in Users, Clear(t, u)
  PROVE  MessagingInv'
<1> DEFINE d == Cleared(talk[t], u)
<1>1. /\ talk \in [Conversations -> Conversation] /\ count \in Counters /\ talk[t] \in Conversation
  BY Typed DEF MessagingInv
<1>2. /\ d \in Conversation
      /\ d.sequence = talk[t].sequence /\ d.revision = talk[t].revision + 1
      /\ d.visible = talk[t].visible \ {u} /\ d.read = talk[t].read
      /\ \A v \in Users : d.unread[v] > 0 => v # u /\ talk[t].unread[v] > 0
  BY <1>1, ClearedIs
<1>3. talk[t].sequence \in Nat /\ talk[t].unread[u] \in Nat
  BY <1>1 DEF Conversation
<1>4. /\ talk' = [talk EXCEPT ![t] = d]
      /\ count' = Counted(u, - talk[t].unread[u]) \/ count' = count
      /\ UNCHANGED <<messages, view>>
  BY DEF Clear
<1> HIDE DEF d
<1>5. MessagingTypeOK'
  <2>1. talk' \in [Conversations -> Conversation]
    BY <1>1, <1>2, <1>4
  <2>2. count' \in Counters
    <3>1. - talk[t].unread[u] \in Int
      BY <1>3
    <3>2. QED BY <1>1, <1>4, <3>1, CountedIs
  <2>3. QED BY <1>4, <2>1, <2>2 DEF MessagingInv, MessagingTypeOK, Conversation
<1>6. \A v \in Users : d.unread[v] > 0 => v \in t /\ v \in d.visible
  BY <1>2 DEF MessagingInv, Outside, UnreadListed
<1>7. \A v \in Users : d.read[v] <= d.sequence /\ d.read[v] <= view[t][v].sequence
  BY <1>2 DEF MessagingInv, ReadWasSent, ReadWasShown
<1>8. talk'[t] = d /\ \A s \in Conversations : s # t => talk'[s] = talk[s]
  BY <1>1, <1>4
<1>9. QED BY <1>2, <1>4, <1>5, <1>6, <1>7, <1>8, TalkMoves

\* Every change of the messages keeps the invariant.
LEMMA MessagingNextInv == MessagingInv /\ [MessagingNext]_messaging => MessagingInv'
<1> SUFFICES ASSUME MessagingInv, [MessagingNext]_messaging PROVE MessagingInv'
  OBVIOUS
<1>1. CASE UNCHANGED messaging
  BY <1>1 DEF messaging, MessagingInv, MessagingTypeOK, Outside, PageHonest, ReadWasSent,
     UnreadListed, ReadWasShown
<1>2. CASE MessagingNext
  BY <1>2, SendInv, OpenInv, MarkReadInv, HideInv, ClearInv DEF MessagingNext, Using
<1>3. QED BY <1>1, <1>2

-----------------------------------------------------------------------------
(* What is unread *)

\* The messages are finitely many, each by a user of its conversation and within its
\* sequence, of which it has its own number.
Numbered ==
  /\ IsFiniteSet(messages)
  /\ \A m \in messages : m.sender \in m.talk /\ m.sequence <= talk[m.talk].sequence
  /\ \A m, n \in messages : m.talk = n.talk /\ m.sequence = n.sequence => m = n

\* What was cleared was sent.
ClearedWasSent == \A t \in Conversations, u \in Users : talk[t].cleared[u] <= talk[t].sequence

\* The counter of one user in one conversation.
Exact(t, u) ==
  /\ talk[t].unread[u] <= Cardinality(Awaiting(t, u))
  /\ Cardinality(Awaiting(t, u)) <= talk[t].unread[u] + Cardinality(HiddenCleared(t, u))

UnreadInv == MessagingInv /\ Numbered /\ ClearedWasSent /\ UnreadBounded

\* The fields of a conversation that the counters depend on.
LEMMA TransitionFields ==
  ASSUME NEW c \in Conversation, NEW t, NEW u \in Users
  PROVE  /\ Sent(c, t, u).sequence = c.sequence + 1 /\ Sent(c, t, u).read = c.read
         /\ Sent(c, t, u).cleared = c.cleared
         /\ \A v \in Users : Sent(c, t, u).unread[v] = IF v \in t \ {u} THEN c.unread[v] + 1 ELSE c.unread[v]
         /\ Read(c, u).sequence = c.sequence /\ Read(c, u).cleared = c.cleared
         /\ \A v \in Users : /\ Read(c, u).read[v] = IF v = u THEN c.sequence ELSE c.read[v]
                             /\ Read(c, u).unread[v] = IF v = u THEN 0 ELSE c.unread[v]
         /\ Cleared(c, u).sequence = c.sequence /\ Cleared(c, u).read = c.read
         /\ \A v \in Users : /\ Cleared(c, u).cleared[v] = IF v = u THEN c.sequence ELSE c.cleared[v]
                             /\ Cleared(c, u).unread[v] = IF v = u THEN 0 ELSE c.unread[v]
         /\ Hidden(c, u).sequence = c.sequence /\ Hidden(c, u).read = c.read
         /\ Hidden(c, u).cleared = c.cleared
         /\ \A v \in Users : Hidden(c, u).unread[v] = IF v = u THEN c.unread[v] - 1 ELSE c.unread[v]
<1>1. c.read \in [Users -> Nat] /\ c.unread \in [Users -> Nat] /\ c.cleared \in [Users -> Nat]
  BY DEF Conversation
<1>2. /\ Sent(c, t, u).sequence = c.sequence + 1 /\ Sent(c, t, u).read = c.read
      /\ Sent(c, t, u).cleared = c.cleared
      /\ \A v \in Users : Sent(c, t, u).unread[v] = IF v \in t \ {u} THEN c.unread[v] + 1 ELSE c.unread[v]
  BY <1>1 DEF Conversation, Sent
<1>3. /\ Read(c, u).sequence = c.sequence /\ Read(c, u).cleared = c.cleared
      /\ \A v \in Users : /\ Read(c, u).read[v] = IF v = u THEN c.sequence ELSE c.read[v]
                          /\ Read(c, u).unread[v] = IF v = u THEN 0 ELSE c.unread[v]
  BY <1>1 DEF Conversation, Read
<1>4. /\ Cleared(c, u).sequence = c.sequence /\ Cleared(c, u).read = c.read
      /\ \A v \in Users : /\ Cleared(c, u).cleared[v] = IF v = u THEN c.sequence ELSE c.cleared[v]
                          /\ Cleared(c, u).unread[v] = IF v = u THEN 0 ELSE c.unread[v]
  BY <1>1 DEF Conversation, Cleared
<1>5. /\ Hidden(c, u).sequence = c.sequence /\ Hidden(c, u).read = c.read
      /\ Hidden(c, u).cleared = c.cleared
      /\ \A v \in Users : Hidden(c, u).unread[v] = IF v = u THEN c.unread[v] - 1 ELSE c.unread[v]
  BY <1>1 DEF Conversation, Hidden
<1>6. QED BY <1>2, <1>3, <1>4, <1>5

\* An element exchanged for a new one leaves the number the same.
LEMMA Exchanged ==
  ASSUME NEW S, IsFiniteSet(S), NEW x \in S, NEW y, y \notin S
  PROVE  Cardinality((S \ {x}) \cup {y}) = Cardinality(S)
<1>1. /\ IsFiniteSet(S \ {x}) /\ Cardinality(S \ {x}) = Cardinality(S) - 1
      /\ Cardinality(S) \in Nat
  BY FS_RemoveElement, FS_CardinalityType
<1>2. Cardinality((S \ {x}) \cup {y}) = Cardinality(S \ {x}) + 1
  BY <1>1, FS_AddElement
<1>3. QED BY <1>1, <1>2

\* What is awaiting, or hidden and cleared, can be counted.
LEMMA Countable ==
  ASSUME Numbered, NEW t, NEW u
  PROVE  /\ IsFiniteSet(Awaiting(t, u)) /\ Cardinality(Awaiting(t, u)) \in Nat
         /\ IsFiniteSet(HiddenCleared(t, u)) /\ Cardinality(HiddenCleared(t, u)) \in Nat
<1>1. Awaiting(t, u) \subseteq messages /\ HiddenCleared(t, u) \subseteq messages
  BY DEF Awaiting, HiddenCleared, Inbound
<1>2. QED BY <1>1, FS_Subset, FS_CardinalityType DEF Numbered

\* A conversation whose messages, marks and counters stay is counted as before.
LEMMA CountStands ==
  ASSUME NEW t, NEW u, Exact(t, u),
         Inbound(t, u)' = Inbound(t, u),
         talk'[t].read[u] = talk[t].read[u], talk'[t].cleared[u] = talk[t].cleared[u],
         talk'[t].unread[u] = talk[t].unread[u]
  PROVE  Exact(t, u)'
<1>1. Awaiting(t, u)' = Awaiting(t, u)
  BY DEF Awaiting
<1>2. HiddenCleared(t, u)' = HiddenCleared(t, u)
  BY DEF HiddenCleared
<1>3. QED BY <1>1, <1>2 DEF Exact

\* The messages' types, as the counting needs them.
LEMMA Messages ==
  ASSUME MessagingInv
  PROVE  /\ talk \in [Conversations -> Conversation]
         /\ \A t \in Conversations : /\ talk[t] \in Conversation /\ talk[t].sequence \in Nat
              /\ \A v \in Users : talk[t].read[v] \in Nat /\ talk[t].cleared[v] \in Nat
                                  /\ talk[t].unread[v] \in Nat
         /\ \A m \in messages : m.talk \in Conversations /\ m.sequence \in Nat
  BY Typed DEF MessagingInv, Conversation

\* Nothing is unread at first.
LEMMA UnreadInit == MessagingInit => UnreadInv
<1> SUFFICES ASSUME MessagingInit PROVE UnreadInv
  OBVIOUS
<1>1. MessagingInv
  BY MessagingInitInv
<1>2. messages = {} /\ \A t \in Conversations, u \in Users :
        talk[t].sequence = 0 /\ talk[t].cleared[u] = 0 /\ talk[t].unread[u] = 0
  BY DEF MessagingInit, NewConversation, None
<1>3. Numbered /\ ClearedWasSent
  BY <1>2, FS_EmptySet DEF Numbered, ClearedWasSent
<1>4. ASSUME NEW t \in Conversations, NEW u \in t
      PROVE  Exact(t, u)
  <2>1. Awaiting(t, u) = {} /\ HiddenCleared(t, u) = {} /\ u \in Users
    BY <1>2, <1>4 DEF Awaiting, HiddenCleared, Inbound
  <2>2. QED BY <1>2, <2>1, FS_EmptySet DEF Exact
<1>5. QED BY <1>1, <1>3, <1>4 DEF UnreadInv, UnreadBounded, Exact

\* A message sent is awaited by whoever did not send it, and counted.
LEMMA SendUnread ==
  ASSUME UnreadInv, NEW t \in Conversations, NEW u \in Users, NEW op \in Operations,
         Send(t, u, op)
  PROVE  UnreadInv'
<1> DEFINE m == [talk |-> t, sender |-> u, operation |-> op,
                 sequence |-> talk[t].sequence + 1, hidden |-> {}]
           d == Sent(talk[t], t, u)
<1>1. MessagingInv /\ MessagingInv' /\ Numbered /\ ClearedWasSent
  BY SendInv DEF UnreadInv
<1>2. messages' = messages \cup {m} /\ talk' = [talk EXCEPT ![t] = d] /\ u \in t
  BY DEF Send
<1>3. /\ talk'[t] = d /\ \A s \in Conversations : s # t => talk'[s] = talk[s]
      /\ d.sequence = talk[t].sequence + 1 /\ d.read = talk[t].read /\ d.cleared = talk[t].cleared
      /\ \A v \in Users : d.unread[v] = IF v \in t \ {u} THEN talk[t].unread[v] + 1 ELSE talk[t].unread[v]
  <2>1. talk[t] \in Conversation
    BY <1>1, Messages
  <2> HIDE DEF d
  <2>2. talk'[t] = d /\ \A s \in Conversations : s # t => talk'[s] = talk[s]
    BY <1>1, <1>2, Messages
  <2>3. QED BY <2>1, <2>2, TransitionFields DEF d
<1>4. m.talk = t /\ m.sender = u /\ m.sequence = talk[t].sequence + 1 /\ m.hidden = {}
  OBVIOUS
<1> HIDE DEF m, d
<1>5. \A n \in messages : n.talk = t => n.sequence < m.sequence
  BY <1>1, <1>4, Messages DEF Numbered
<1>6. Numbered'
  <2>1. IsFiniteSet(messages')
    BY <1>1, <1>2, FS_AddElement DEF Numbered
  <2>2. \A n \in messages' : n.sender \in n.talk /\ n.sequence <= talk'[n.talk].sequence
    BY <1>1, <1>2, <1>3, <1>4, Messages DEF Numbered
  <2>3. \A n, o \in messages' : n.talk = o.talk /\ n.sequence = o.sequence => n = o
    BY <1>1, <1>2, <1>4, <1>5, Messages DEF Numbered
  <2>4. QED BY <2>1, <2>2, <2>3 DEF Numbered
<1>7. ClearedWasSent'
  BY <1>1, <1>3, Messages DEF ClearedWasSent
<1>8. ASSUME NEW s \in Conversations, NEW v \in s
      PROVE  Exact(s, v)'
  <2>1. v \in Users /\ Exact(s, v)
    BY <1>8 DEF UnreadInv, UnreadBounded, Exact
  <2>2. CASE s # t \/ v = u
    <3>1. Inbound(s, v)' = Inbound(s, v)
      BY <1>2, <1>4, <2>2 DEF Inbound, Recipient
    <3>2. QED BY <1>3, <2>1, <2>2, <3>1, CountStands
  <2>3. CASE s = t /\ v # u
    <3>1. Inbound(t, v)' = Inbound(t, v) \cup {m}
      BY <1>2, <1>4, <1>8, <2>3 DEF Inbound, Recipient
    <3>2. /\ m.sequence > talk[t].read[v] /\ m.sequence > talk[t].cleared[v]
          /\ talk'[t].read[v] = talk[t].read[v] /\ talk'[t].cleared[v] = talk[t].cleared[v]
          /\ talk'[t].unread[v] = talk[t].unread[v] + 1
      BY <1>1, <1>3, <1>4, <1>8, <2>1, <2>3, Messages DEF MessagingInv, ReadWasSent, ClearedWasSent
    <3>3. Awaiting(t, v)' = Awaiting(t, v) \cup {m}
      BY <1>4, <3>1, <3>2 DEF Awaiting
    <3>4. HiddenCleared(t, v)' = HiddenCleared(t, v)
      BY <1>4, <3>1, <3>2 DEF HiddenCleared
    <3>5. m \notin Awaiting(t, v)
      BY <1>1, <1>4, <1>5, Messages DEF Awaiting, Inbound
    <3>6. Cardinality(Awaiting(t, v))' = Cardinality(Awaiting(t, v)) + 1
      BY <1>1, <3>3, <3>5, Countable, FS_AddElement
    <3>7. QED BY <1>1, <2>1, <2>3, <3>2, <3>4, <3>6, Countable, Messages DEF Exact
  <2>4. QED BY <2>2, <2>3
<1>9. QED BY <1>1, <1>6, <1>7, <1>8 DEF UnreadInv, UnreadBounded, Exact

\* A conversation read or cleared up to its last message has nothing to count.
LEMMA SettledUnread ==
  ASSUME UnreadInv, MessagingInv', NEW t \in Conversations, NEW u \in Users, messages' = messages,
         \A s \in Conversations : s # t => talk'[s] = talk[s],
         talk'[t].sequence = talk[t].sequence, talk'[t].unread[u] = 0,
         \/ talk'[t].read[u] = talk[t].sequence /\ talk'[t].cleared[u] = talk[t].cleared[u]
         \/ talk'[t].cleared[u] = talk[t].sequence /\ talk'[t].read[u] = talk[t].read[u],
         \A v \in Users : v # u => /\ talk'[t].read[v] = talk[t].read[v]
                                   /\ talk'[t].cleared[v] = talk[t].cleared[v]
                                   /\ talk'[t].unread[v] = talk[t].unread[v]
  PROVE  UnreadInv'
<1>1. MessagingInv /\ Numbered /\ ClearedWasSent
  BY DEF UnreadInv
<1>2. \A s \in Conversations : talk'[s].sequence = talk[s].sequence /\ talk[s].sequence \in Nat
  BY <1>1, Messages
<1>3. Numbered'
  BY <1>1, <1>2, Messages DEF Numbered
<1>4. ClearedWasSent'
  BY <1>1, <1>2 DEF ClearedWasSent
<1>5. ASSUME NEW s \in Conversations, NEW v \in s
      PROVE  Exact(s, v)'
  <2>1. v \in Users /\ Exact(s, v) /\ Inbound(s, v)' = Inbound(s, v)
    BY <1>5 DEF UnreadInv, UnreadBounded, Exact, Inbound, Recipient
  <2>2. CASE s # t \/ v # u
    BY <2>1, <2>2, CountStands
  <2>3. CASE s = t /\ v = u
    <3>1. \A m \in Inbound(t, u)' : m.sequence <= talk[t].sequence
      BY <1>1, <2>1, <2>3 DEF Numbered, Inbound
    <3>2. Awaiting(t, u)' = {}
      BY <1>1, <1>2, <2>1, <3>1, Messages DEF Awaiting, Inbound
    <3>3. Cardinality(HiddenCleared(t, u)') \in Nat
      <4>1. HiddenCleared(t, u)' \subseteq messages'
        BY DEF HiddenCleared, Inbound
      <4>2. QED BY <1>3, <4>1, FS_Subset, FS_CardinalityType DEF Numbered
    <3>4. QED BY <2>3, <3>2, <3>3, FS_EmptySet DEF Exact
  <2>4. QED BY <2>2, <2>3
<1>6. QED BY <1>1, <1>3, <1>4, <1>5 DEF UnreadInv, UnreadBounded, Exact

\* A message hidden before it was read is taken from the counter: from the messages
\* it awaits, or, if it was cleared, from those that arrived since.
LEMMA HideUnread ==
  ASSUME UnreadInv, NEW m \in messages, NEW u \in Users, Hide(m, u)
  PROVE  UnreadInv'
<1> DEFINE t == m.talk
           n == [m EXCEPT !.hidden = m.hidden \cup {u}]
<1>1. /\ MessagingInv /\ Numbered /\ ClearedWasSent /\ MessagingInv'
      /\ t \in Conversations /\ talk[t] \in Conversation
  BY HideInv, Messages DEF UnreadInv
<1>2. messages' = (messages \ {m}) \cup {n} /\ u \in m.talk /\ u \notin m.hidden
  BY DEF Hide
<1>3. /\ n.talk = m.talk /\ n.sender = m.sender /\ n.sequence = m.sequence
      /\ n.hidden = m.hidden \cup {u}
  BY <1>1, Typed DEF MessagingInv
<1> HIDE DEF n
<1>4. n \notin messages
  BY <1>1, <1>2, <1>3 DEF Numbered
<1>5. /\ \A s \in Conversations : /\ talk'[s].sequence = talk[s].sequence
                                  /\ talk'[s].read = talk[s].read /\ talk'[s].cleared = talk[s].cleared
      /\ \A s \in Conversations, v \in Users :
           talk'[s].unread[v] = IF s = t /\ v = u /\ CountsWhenHidden(m, u)
                                  THEN talk[s].unread[v] - 1 ELSE talk[s].unread[v]
  <2>1. CASE CountsWhenHidden(m, u)
    <3> DEFINE d == Hidden(talk[t], u)
    <3>1. talk' = [talk EXCEPT ![t] = d]
      BY <2>1 DEF Hide
    <3>2. /\ d.sequence = talk[t].sequence /\ d.read = talk[t].read /\ d.cleared = talk[t].cleared
          /\ \A v \in Users : d.unread[v] = IF v = u THEN talk[t].unread[v] - 1 ELSE talk[t].unread[v]
      BY <1>1, TransitionFields
    <3> HIDE DEF d
    <3>3. talk'[t] = d /\ \A s \in Conversations : s # t => talk'[s] = talk[s]
      BY <1>1, <3>1, Messages
    <3>4. QED BY <2>1, <3>2, <3>3
  <2>2. CASE ~CountsWhenHidden(m, u)
    BY <2>2 DEF Hide
  <2>3. QED BY <2>1, <2>2
<1>6. Numbered'
  <2>1. IsFiniteSet(messages')
    BY <1>1, <1>2, FS_AddElement, FS_RemoveElement DEF Numbered
  <2>2. \A o \in messages' : o.sender \in o.talk /\ o.sequence <= talk'[o.talk].sequence
    BY <1>1, <1>2, <1>3, <1>5, Messages DEF Numbered
  <2>3. \A o, p \in messages' : o.talk = p.talk /\ o.sequence = p.sequence => o = p
    BY <1>1, <1>2, <1>3 DEF Numbered
  <2>4. QED BY <2>1, <2>2, <2>3 DEF Numbered
<1>7. ClearedWasSent'
  BY <1>1, <1>5 DEF ClearedWasSent
<1>8. ASSUME NEW s \in Conversations, NEW v \in s
      PROVE  Exact(s, v)'
  <2>1. v \in Users /\ Exact(s, v)
    BY <1>8 DEF UnreadInv, UnreadBounded, Exact
  <2>2. Inbound(s, v)' = IF m \in Inbound(s, v) THEN (Inbound(s, v) \ {m}) \cup {n} ELSE Inbound(s, v)
    BY <1>2, <1>3 DEF Inbound, Recipient
  <2>3. CASE m \notin Inbound(s, v)
    <3>1. ~ (s = t /\ v = u /\ CountsWhenHidden(m, u))
      BY <2>3 DEF CountsWhenHidden, Inbound
    <3>2. QED BY <1>5, <2>1, <2>2, <2>3, <3>1, CountStands
  <2>4. CASE m \in Inbound(s, v) /\ v # u
    <3>1. /\ Awaiting(s, v)' = IF m \in Awaiting(s, v) THEN (Awaiting(s, v) \ {m}) \cup {n}
                               ELSE Awaiting(s, v)
          /\ HiddenCleared(s, v)' = IF m \in HiddenCleared(s, v) THEN (HiddenCleared(s, v) \ {m}) \cup {n}
                                    ELSE HiddenCleared(s, v)
      BY <1>3, <1>5, <2>2, <2>4 DEF Awaiting, HiddenCleared
    <3>2. n \notin Awaiting(s, v) /\ n \notin HiddenCleared(s, v)
      BY <1>4 DEF Awaiting, HiddenCleared, Inbound
    <3>3. /\ Cardinality(Awaiting(s, v)') = Cardinality(Awaiting(s, v))
          /\ Cardinality(HiddenCleared(s, v)') = Cardinality(HiddenCleared(s, v))
      BY <1>1, <3>1, <3>2, Countable, Exchanged
    <3>4. talk'[s].unread[v] = talk[s].unread[v]
      BY <1>5, <2>1, <2>4
    <3>5. QED BY <2>1, <3>3, <3>4 DEF Exact
  <2>5. CASE m \in Inbound(s, v) /\ v = u
    <3>1. s = t /\ u \in Recipient(m)
      BY <2>5 DEF Inbound
    <3>2. /\ m \notin HiddenCleared(t, u) /\ n \notin HiddenCleared(t, u)
          /\ Awaiting(t, u)' = Awaiting(t, u) \ {m}
          /\ HiddenCleared(t, u)' = IF m.sequence > talk[t].read[u] /\ m.sequence <= talk[t].cleared[u]
                                      THEN HiddenCleared(t, u) \cup {n} ELSE HiddenCleared(t, u)
      BY <1>2, <1>3, <1>4, <1>5, <2>2, <2>5, <3>1 DEF Awaiting, HiddenCleared, Inbound
    <3>3. m \in Awaiting(t, u) <=> m.sequence > talk[t].read[u] /\ m.sequence > talk[t].cleared[u]
      BY <1>2, <2>5, <3>1 DEF Awaiting
    <3>4. /\ Cardinality(Awaiting(t, u)') = IF m \in Awaiting(t, u) THEN Cardinality(Awaiting(t, u)) - 1
                                            ELSE Cardinality(Awaiting(t, u))
          /\ Cardinality(HiddenCleared(t, u)') =
               IF m.sequence > talk[t].read[u] /\ m.sequence <= talk[t].cleared[u]
                 THEN Cardinality(HiddenCleared(t, u)) + 1 ELSE Cardinality(HiddenCleared(t, u))
      BY <1>1, <3>2, Countable, FS_AddElement, FS_RemoveElement
    <3>5. IsFiniteSet(Awaiting(t, u)) /\ IsFiniteSet(Awaiting(t, u) \ {m})
      BY <1>1, Countable, FS_RemoveElement
    <3>6. Cardinality(Awaiting(t, u)') \in Nat
      BY <3>2, <3>5, FS_CardinalityType
    <3>7. talk'[t].unread[u] = IF m.sequence > talk[t].read[u] /\ talk[t].unread[u] > 0
                                 THEN talk[t].unread[u] - 1 ELSE talk[t].unread[u]
      BY <1>1, <1>5, <3>1 DEF CountsWhenHidden
    <3>8. /\ talk[t].unread[u] \in Nat /\ talk[t].read[u] \in Nat /\ talk[t].cleared[u] \in Nat
          /\ m.sequence \in Nat
      BY <1>1, Messages
    <3>9. Cardinality(Awaiting(t, u)) \in Nat /\ Cardinality(HiddenCleared(t, u)) \in Nat
      BY <1>1, Countable
    <3>10. /\ talk[t].unread[u] <= Cardinality(Awaiting(t, u))
          /\ Cardinality(Awaiting(t, u)) <= talk[t].unread[u] + Cardinality(HiddenCleared(t, u))
      BY <2>1, <2>5, <3>1 DEF Exact
    <3>11. /\ talk'[t].unread[u] <= Cardinality(Awaiting(t, u)')
          /\ Cardinality(Awaiting(t, u)') <= talk'[t].unread[u] + Cardinality(HiddenCleared(t, u)')
      BY <3>3, <3>4, <3>6, <3>7, <3>8, <3>9, <3>10
    <3>12. QED BY <2>5, <3>1, <3>11 DEF Exact
  <2>6. QED BY <2>3, <2>4, <2>5
<1>9. QED BY <1>1, <1>6, <1>7, <1>8 DEF UnreadInv, UnreadBounded, Exact

\* Every change of the messages keeps the counters.
LEMMA UnreadNext == UnreadInv /\ [MessagingNext]_messaging => UnreadInv'
<1> SUFFICES ASSUME UnreadInv, [MessagingNext]_messaging PROVE UnreadInv'
  OBVIOUS
<1>1. MessagingInv /\ MessagingInv'
  BY MessagingNextInv DEF UnreadInv
<1>2. CASE UNCHANGED <<talk, messages>>
  <2>1. Numbered' /\ ClearedWasSent'
    BY <1>2 DEF UnreadInv, Numbered, ClearedWasSent
  <2>2. UnreadBounded'
    BY <1>2 DEF UnreadInv, UnreadBounded, Awaiting, HiddenCleared, Inbound, Recipient
  <2>3. QED BY <1>1, <2>1, <2>2 DEF UnreadInv
<1>3. ASSUME NEW t \in Conversations, NEW u \in Users, MarkRead(t, u) \/ Clear(t, u)
      PROVE  UnreadInv'
  <2> DEFINE d == IF MarkRead(t, u) THEN Read(talk[t], u) ELSE Cleared(talk[t], u)
  <2>1. talk' = [talk EXCEPT ![t] = d] /\ messages' = messages
    BY <1>3 DEF MarkRead, Clear
  <2>2. talk[t] \in Conversation /\ talk \in [Conversations -> Conversation]
    BY <1>1, Messages
  <2>3. /\ d.sequence = talk[t].sequence /\ d.unread[u] = 0
        /\ \/ d.read[u] = talk[t].sequence /\ d.cleared[u] = talk[t].cleared[u]
           \/ d.cleared[u] = talk[t].sequence /\ d.read[u] = talk[t].read[u]
        /\ \A v \in Users : v # u => /\ d.read[v] = talk[t].read[v] /\ d.cleared[v] = talk[t].cleared[v]
                                     /\ d.unread[v] = talk[t].unread[v]
    BY <2>2, TransitionFields
  <2> HIDE DEF d
  <2>4. talk'[t] = d /\ \A s \in Conversations : s # t => talk'[s] = talk[s]
    BY <2>1, <2>2
  <2>5. QED BY <1>1, <2>1, <2>3, <2>4, SettledUnread
<1>4. ASSUME NEW t \in Conversations, NEW u \in Users, Open(t, u)
      PROVE  UnreadInv'
  BY <1>2, <1>4 DEF Open
<1>5. CASE UNCHANGED messaging
  BY <1>2, <1>5 DEF messaging
<1>6. QED BY <1>3, <1>4, <1>5, SendUnread, HideUnread DEF MessagingNext, Using

-----------------------------------------------------------------------------
(* The totals *)

\* A total counts finitely many.
Tallied == \A u \in Users : IsFiniteSet(UnreadOf(u)) /\ count[u] = Cardinality(UnreadOf(u))

TallyInv == MessagingInv /\ Tallied

\* What one conversation adds to what a user has unread.
LEMMA UnreadIs ==
  ASSUME NEW u, NEW p
  PROVE  p \in UnreadOf(u) <=>
           \E t \in Conversations : u \in t /\ \E i \in 1..talk[t].unread[u] : p = <<t, i>>
  BY DEF UnreadOf

\* The same of the next state.
LEMMA UnreadWill ==
  ASSUME NEW u, NEW p
  PROVE  p \in UnreadOf(u)' <=>
           \E t \in Conversations : u \in t /\ \E i \in 1..talk'[t].unread[u] : p = <<t, i>>
  BY DEF UnreadOf

\* What a user has unread changes with the user's counters only.
LEMMA UnreadStays ==
  ASSUME NEW u, \A t \in Conversations : u \in t => talk'[t].unread[u] = talk[t].unread[u]
  PROVE  UnreadOf(u)' = UnreadOf(u)
<1>1. \A p : p \in UnreadOf(u)' <=> p \in UnreadOf(u)
  BY UnreadIs, UnreadWill
<1>2. QED BY <1>1

\* One more of one conversation.
LEMMA OneMore ==
  ASSUME MessagingInv, NEW u \in Users, NEW t \in Conversations, u \in t,
         IsFiniteSet(UnreadOf(u)), count[u] = Cardinality(UnreadOf(u)),
         \A s \in Conversations : u \in s /\ s # t => talk'[s].unread[u] = talk[s].unread[u],
         talk'[t].unread[u] = talk[t].unread[u] + 1, count'[u] = count[u] + 1
  PROVE  IsFiniteSet(UnreadOf(u)') /\ count'[u] = Cardinality(UnreadOf(u)')
<1> DEFINE n == talk[t].unread[u]
           x == <<t, n + 1>>
<1>1. n \in Nat
  BY Messages
<1>2. x \notin UnreadOf(u)
  BY <1>1, UnreadIs
<1>3. UnreadOf(u)' = UnreadOf(u) \cup {x}
  <2>1. \A i : i \in 1..(n + 1) <=> i \in 1..n \/ i = n + 1
    BY <1>1
  <2>2. ASSUME NEW p PROVE p \in UnreadOf(u)' <=> p \in UnreadOf(u) \/ p = x
    BY <2>1, UnreadIs, UnreadWill
  <2>3. QED BY <2>2
<1>4. QED BY <1>2, <1>3, FS_AddElement

\* One less of one conversation.
LEMMA OneLess ==
  ASSUME MessagingInv, NEW u \in Users, NEW t \in Conversations, u \in t,
         IsFiniteSet(UnreadOf(u)), count[u] = Cardinality(UnreadOf(u)),
         \A s \in Conversations : u \in s /\ s # t => talk'[s].unread[u] = talk[s].unread[u],
         talk[t].unread[u] > 0, talk'[t].unread[u] = talk[t].unread[u] - 1,
         count' = Counted(u, -1)
  PROVE  IsFiniteSet(UnreadOf(u)') /\ count'[u] = Cardinality(UnreadOf(u)')
<1> DEFINE n == talk[t].unread[u]
           x == <<t, n>>
<1>1. n \in Nat /\ n > 0
  BY Messages
<1>2. x \in UnreadOf(u)
  BY <1>1, UnreadIs
<1>3. UnreadOf(u)' = UnreadOf(u) \ {x}
  <2>1. \A i : i \in 1..(n - 1) <=> i \in 1..n /\ i # n
    BY <1>1
  <2>2. ASSUME NEW p PROVE p \in UnreadOf(u)' <=> p \in UnreadOf(u) /\ p # x
    BY <1>1, <2>1, UnreadIs, UnreadWill
  <2>3. QED BY <2>2
<1>4. IsFiniteSet(UnreadOf(u)') /\ Cardinality(UnreadOf(u)') = count[u] - 1
      /\ Cardinality(UnreadOf(u)') \in Nat
  BY <1>2, <1>3, FS_RemoveElement, FS_CardinalityType
<1>5. count[u] - 1 = count[u] + (-1) /\ count[u] + (-1) >= 0
  BY <1>4, FS_CardinalityType
<1>6. QED BY <1>4, <1>5, Typed DEF MessagingInv, Counted, Floor0, MessagingTypeOK

\* A subset that is taken away.
LEMMA Without ==
  ASSUME NEW S, IsFiniteSet(S), NEW X, X \subseteq S
  PROVE  IsFiniteSet(S \ X) /\ Cardinality(S \ X) = Cardinality(S) - Cardinality(X)
<1>1. S \cap X = X
  OBVIOUS
<1>2. IsFiniteSet(S \ X) /\ Cardinality(S \ X) = Cardinality(S) - Cardinality(S \cap X)
  BY FS_Difference, Zenon
<1>3. QED BY <1>1, <1>2

\* A counter's units.
LEMMA Units ==
  ASSUME NEW t, NEW n \in Nat
  PROVE  Cardinality({t} \X (1..n)) = n
<1>1. 1 \in Int /\ n \in Int /\ (IF 1 > n THEN 0 ELSE n - 1 + 1) = n
  OBVIOUS
<1>2. IsFiniteSet(1..n) /\ Cardinality(1..n) = n
  BY <1>1, FS_Interval
<1>3. IsFiniteSet({t}) /\ Cardinality({t}) = 1
  BY FS_Singleton
<1> DEFINE S == {t}
           T == 1..n
<1>4. IsFiniteSet(S) /\ IsFiniteSet(T) /\ Cardinality(S) = 1 /\ Cardinality(T) = n
  BY <1>2, <1>3
<1> HIDE DEF S, T
<1>5. Cardinality(S \X T) = Cardinality(S) * Cardinality(T)
  BY <1>4, FS_Product
<1>6. Cardinality(S \X T) = n
  BY <1>4, <1>5
<1>7. QED BY <1>6, Zenon DEF S, T

\* A conversation with nothing left unread.
LEMMA NoneLeft ==
  ASSUME MessagingInv, NEW u \in Users, NEW t \in Conversations, u \in t,
         IsFiniteSet(UnreadOf(u)), count[u] = Cardinality(UnreadOf(u)),
         \A s \in Conversations : u \in s /\ s # t => talk'[s].unread[u] = talk[s].unread[u],
         talk'[t].unread[u] = 0, count' = Counted(u, - talk[t].unread[u])
  PROVE  IsFiniteSet(UnreadOf(u)') /\ count'[u] = Cardinality(UnreadOf(u)')
<1> DEFINE n == talk[t].unread[u]
           X == {t} \X (1..n)
<1>1. n \in Nat
  BY Messages
<1>2. Cardinality(X) = n
  BY <1>1, Units
<1>3. X \subseteq UnreadOf(u)
  BY UnreadIs
<1>4. UnreadOf(u)' = UnreadOf(u) \ X
  <2>1. ASSUME NEW p PROVE p \in UnreadOf(u)' <=> p \in UnreadOf(u) /\ p \notin X
    BY UnreadIs, UnreadWill
  <2>2. QED BY <2>1
<1>6. /\ IsFiniteSet(UnreadOf(u)') /\ Cardinality(UnreadOf(u)') = count[u] - n
      /\ Cardinality(UnreadOf(u)') \in Nat
  <2> HIDE DEF n, X
  <2>1. IsFiniteSet(UnreadOf(u) \ X) /\ Cardinality(UnreadOf(u) \ X) = count[u] - n
    BY <1>2, <1>3, Without
  <2>2. QED BY <1>4, <2>1, FS_CardinalityType
<1>7. count[u] \in Nat /\ count[u] - n = count[u] + (-n) /\ count[u] + (-n) >= 0
  BY <1>1, <1>6, FS_CardinalityType
<1>8. QED BY <1>6, <1>7, Typed DEF MessagingInv, Counted, Floor0, MessagingTypeOK
\* Nothing is counted at first.
LEMMA TallyInit == MessagingInit => TallyInv
<1> SUFFICES ASSUME MessagingInit PROVE TallyInv
  OBVIOUS
<1>1. \A u \in Users : count[u] = 0 /\ \A t \in Conversations : talk[t].unread[u] = 0
  BY DEF MessagingInit, NewConversation, None
<1>2. ASSUME NEW u \in Users
      PROVE  IsFiniteSet(UnreadOf(u)) /\ count[u] = Cardinality(UnreadOf(u))
  <2>1. UnreadOf(u) = {}
    BY <1>1, UnreadIs
  <2>2. IsFiniteSet(UnreadOf(u)) /\ Cardinality(UnreadOf(u)) = 0
    BY <2>1, FS_EmptySet, Zenon
  <2>3. QED BY <1>1, <2>2
<1>3. QED BY <1>2, MessagingInitInv DEF TallyInv, Tallied

\* The totals of the users whom a step leaves alone.
LEMMA TallyStays ==
  ASSUME TallyInv, NEW u \in Users, count'[u] = count[u],
         \A t \in Conversations : u \in t => talk'[t].unread[u] = talk[t].unread[u]
  PROVE  IsFiniteSet(UnreadOf(u)') /\ count'[u] = Cardinality(UnreadOf(u)')
  BY UnreadStays DEF TallyInv, Tallied

\* Whatever the messages do, the totals agree with the counters.
LEMMA TallyNext == TallyInv /\ [MessagingNext]_messaging => TallyInv'
<1> SUFFICES ASSUME TallyInv, [MessagingNext]_messaging PROVE TallyInv'
  OBVIOUS
<1>1. /\ MessagingInv /\ MessagingInv' /\ count \in Counters
      /\ \A t \in Conversations : talk[t] \in Conversation
      /\ talk \in [Conversations -> Conversation]
      /\ \A u \in Users : IsFiniteSet(UnreadOf(u)) /\ count[u] = Cardinality(UnreadOf(u))
  BY MessagingNextInv, Messages, Typed DEF TallyInv, Tallied, MessagingInv
<1>2. ASSUME NEW t \in Conversations, NEW u \in Users, NEW op \in Operations, Send(t, u, op)
      PROVE  TallyInv'
  <2>1. talk' = [talk EXCEPT ![t] = Sent(talk[t], t, u)]
        /\ count' = [v \in Users |-> IF v \in t \ {u} THEN count[v] + 1 ELSE count[v]]
    BY <1>2 DEF Send
  <2>2. /\ \A s \in Conversations : s # t => talk'[s] = talk[s]
        /\ \A v \in Users : talk'[t].unread[v] =
                               IF v \in t \ {u} THEN talk[t].unread[v] + 1 ELSE talk[t].unread[v]
    BY <1>1, <2>1, TransitionFields
  <2>3. ASSUME NEW v \in Users
        PROVE  IsFiniteSet(UnreadOf(v)') /\ count'[v] = Cardinality(UnreadOf(v)')
    <3>1. CASE v \in t \ {u}
      BY <1>1, <2>1, <2>2, <3>1, OneMore
    <3>2. CASE v \notin t \ {u}
      BY <2>1, <2>2, <3>2, TallyStays
    <3>3. QED BY <3>1, <3>2
  <2>4. QED BY <1>1, <2>3 DEF TallyInv, Tallied
<1>3. ASSUME NEW t \in Conversations, NEW u \in Users, MarkRead(t, u) \/ Clear(t, u)
      PROVE  TallyInv'
  <2> DEFINE d == IF MarkRead(t, u) THEN Read(talk[t], u) ELSE Cleared(talk[t], u)
  <2>1. talk' = [talk EXCEPT ![t] = d] /\ u \in t
        /\ (count' = Counted(u, - talk[t].unread[u]) \/ (count' = count /\ ~ (talk[t].unread[u] > 0)))
    BY <1>3 DEF MarkRead, Clear
  <2>2. \A v \in Users : d.unread[v] = IF v = u THEN 0 ELSE talk[t].unread[v]
    BY <1>1, TransitionFields
  <2> HIDE DEF d
  <2>3. /\ \A s \in Conversations : s # t => talk'[s] = talk[s]
        /\ talk'[t] = d
    BY <1>1, <2>1
  <2>4. ASSUME NEW v \in Users
        PROVE  IsFiniteSet(UnreadOf(v)') /\ count'[v] = Cardinality(UnreadOf(v)')
    <3>1. CASE v = u /\ count' = Counted(u, - talk[t].unread[u])
      BY <1>1, <2>1, <2>2, <2>3, <3>1, NoneLeft
    <3>2. CASE v = u /\ count' = count /\ ~ (talk[t].unread[u] > 0)
      <4>1. talk[t].unread[u] = 0
        BY <1>1, <3>2, Messages
      <4>2. QED BY <2>2, <2>3, <3>2, <4>1, TallyStays
    <3>3. CASE v # u
      <4>1. count'[v] = count[v]
        BY <1>1, <2>1, <3>3 DEF Counted
      <4>2. QED BY <2>2, <2>3, <3>3, <4>1, TallyStays
    <3>4. QED BY <2>1, <3>1, <3>2, <3>3
  <2>5. QED BY <1>1, <2>4 DEF TallyInv, Tallied
<1>4. ASSUME NEW m \in messages, NEW u \in Users, Hide(m, u)
      PROVE  TallyInv'
  <2>1. m.talk \in Conversations /\ u \in m.talk
    BY <1>1, <1>4, Messages DEF Hide
  <2>2. CASE CountsWhenHidden(m, u)
    <3> DEFINE t == m.talk
               d == Hidden(talk[t], u)
    <3>0. talk[t] \in Conversation
      BY <1>1, <2>1
    <3>1. /\ talk' = [talk EXCEPT ![t] = d] /\ count' = Counted(u, -1)
          /\ talk[t].unread[u] > 0
      BY <1>4, <2>2 DEF Hide, CountsWhenHidden
    <3>2. /\ d.sequence = talk[t].sequence
          /\ \A v \in Users : d.unread[v] = IF v = u THEN talk[t].unread[v] - 1 ELSE talk[t].unread[v]
      BY <3>0, TransitionFields
    <3> HIDE DEF d
    <3>3. talk'[t] = d /\ \A s \in Conversations : s # t => talk'[s] = talk[s]
      BY <1>1, <2>1, <3>1
    <3> HIDE DEF t
    <3>4. ASSUME NEW v \in Users
          PROVE  IsFiniteSet(UnreadOf(v)') /\ count'[v] = Cardinality(UnreadOf(v)')
      <4>1. CASE v = u
        <5>1. t \in Conversations /\ u \in t
          BY <2>1 DEF t
        <5>2. QED BY <1>1, <3>1, <3>2, <3>3, <4>1, <5>1, OneLess
      <4>2. CASE v # u
        <5>1. count'[v] = count[v]
          BY <1>1, <3>1, <4>2 DEF Counted
        <5>2. QED BY <3>2, <3>3, <4>2, <5>1, TallyStays
      <4>3. QED BY <4>1, <4>2
    <3>5. QED BY <1>1, <3>4 DEF TallyInv, Tallied
  <2>3. CASE ~CountsWhenHidden(m, u)
    <3>1. talk' = talk /\ count' = count
      BY <1>4, <2>3 DEF Hide
    <3>2. QED BY <1>1, <3>1, TallyStays DEF TallyInv, Tallied
  <2>4. QED BY <2>2, <2>3
<1>5. ASSUME talk' = talk, count' = count
      PROVE  TallyInv'
  BY <1>1, <1>5, TallyStays DEF TallyInv, Tallied
<1>6. ASSUME NEW t \in Conversations, NEW u \in Users, Open(t, u)
      PROVE  TallyInv'
  BY <1>5, <1>6 DEF Open
<1>7. CASE UNCHANGED messaging
  BY <1>5, <1>7 DEF messaging
<1>8. QED BY <1>2, <1>3, <1>4, <1>6, <1>7 DEF MessagingNext, Using

-----------------------------------------------------------------------------
(* The types of the rows, the tasks, the captures and the workers *)

States == {"none", "pending", "sending", "sent", "suppressed"}
Delivering == {"claimed", "valid", "invalid", "mailed"}

Row == [state : States, sequence : Nat, scheduled : Nat, due : BOOLEAN,
        holder : Workers \cup {Nobody}, lease : BOOLEAN]

Delivery == [at : {"idle", "read", "rescheduled"} \cup Delivering, key : Keys \cup {<<>>},
             name : Names \cup {0}, sequence : Nat, due : BOOLEAN]

Captures == [key : Keys, sequence : Names, at : {"committed", "upserted", "enqueued"}]

EmailType ==
  /\ row \in [Keys -> Row]
  /\ task \in [Keys -> [Names -> {"none", "delayed", "ready", "done"}]]
  /\ capture \subseteq Captures
  /\ worker \in [Workers -> Delivery]
  /\ \A w \in Workers : worker[w].at # "idle" => worker[w].key \in Keys /\ worker[w].name \in Names
  /\ mailed \in [Keys -> [Names -> Nat]] /\ faults \in Nat

\* The sequence of a conversation is bounded with its changes.
TalkBounded == \A t \in Conversations : talk[t].sequence <= MaxChanges

USE EmailAssumption DEF EmailAssumption

\* What an update of a row does to it, field by field: a row whose task is noted, or
\* whose delay is over, is the same to a delivery.
LEMMA NotedIs ==
  ASSUME NEW r \in Row, NEW s \in Nat, NEW f,
         f = [r EXCEPT !.scheduled = s] \/ f = [r EXCEPT !.due = TRUE]
  PROVE  /\ f \in Row /\ f.sequence = r.sequence /\ f.state = r.state
         /\ f.holder = r.holder /\ f.lease = r.lease
  BY DEF Row, States

\* A lease that has run out.
LEMMA ExpiredIs ==
  ASSUME NEW r \in Row, NEW f, f = [r EXCEPT !.lease = FALSE]
  PROVE  /\ f \in Row /\ f.sequence = r.sequence /\ f.state = r.state
         /\ f.holder = r.holder /\ ~f.lease
  BY DEF Row, States

\* A row that is done with.
LEMMA EndedIs ==
  ASSUME NEW s \in States
  PROVE  Ended(s) \in Row /\ Ended(s).sequence = 0 /\ Ended(s).state = s
  BY DEF Ended, NoRow, Row, States

\* A worker that rests.
LEMMA IdleIs == Idle \in Delivery /\ Idle.at = "idle"
  BY DEF Idle, Delivery

\* A worker that moves on keeps its message.
LEMMA MovesOn ==
  ASSUME EmailType, NEW w \in Workers, worker[w].at # "idle",
         NEW a \in {"rescheduled"} \cup Delivering, worker' = [worker EXCEPT ![w].at = a]
  PROVE  /\ worker' \in [Workers -> Delivery]
         /\ worker'[w].at = a /\ worker'[w].sequence = worker[w].sequence
         /\ worker'[w].key = worker[w].key /\ worker'[w].name = worker[w].name
         /\ \A v \in Workers : v # w => worker'[v] = worker[v]
<1> DEFINE d == [worker[w] EXCEPT !.at = a]
<1>1. worker[w] \in Delivery
  BY DEF EmailType
<1>2. /\ d \in Delivery /\ d.at = a /\ d.sequence = worker[w].sequence /\ d.key = worker[w].key
      /\ d.name = worker[w].name
  BY <1>1 DEF Delivery
<1>3. worker' = [worker EXCEPT ![w] = d]
  BY <1>1 DEF EmailType
<1> HIDE DEF d
<1>4. QED BY <1>2, <1>3 DEF EmailType

\* One that is done rests.
LEMMA FreedIs ==
  ASSUME EmailType, NEW w \in Workers, worker' = Freed(w)
  PROVE  /\ worker' \in [Workers -> Delivery]
         /\ worker'[w].at = "idle" /\ \A v \in Workers : v # w => worker'[v] = worker[v]
  BY IdleIs DEF EmailType, Freed

\* A task that is created, or acknowledged.
LEMMA TaskIs ==
  ASSUME EmailType, NEW k \in Keys, NEW n \in Nat
  PROVE  Enqueued(k, n) \in [Keys -> [Names -> {"none", "delayed", "ready", "done"}]]
  BY DEF Enqueued, EmailType

-----------------------------------------------------------------------------
(* The inductive invariant of the mailing *)

\* The deliveries that may still mail a message.
Attempts(k, n) ==
  {w \in Workers : worker[w].key = k /\ worker[w].sequence = n
                   /\ worker[w].at \in {"claimed", "valid"}}

\* A claim can be made on a message without a fault in between.
Claimable(k, n) ==
  /\ row[k].sequence = n
  /\ \/ row[k].state = "pending"
     \/ row[k].state = "sending" /\ (~row[k].lease \/ ~Active(k))

\* Mails, deliveries on their way and a delivery that may begin use up the first
\* mailing and one for each fault.
BudgetOf(k, n) ==
  mailed[k][n] + Cardinality(Attempts(k, n)) + (IF Claimable(k, n) THEN 1 ELSE 0) <= 1 + faults

Budget == \A k \in Keys, n \in Names : BudgetOf(k, n)

\* Nothing has been done for a message that is not sent, or not yet in its row.
Fresh(k, n) == mailed[k][n] = 0 /\ Attempts(k, n) = {} /\ row[k].sequence # n

Future ==
  \A k \in Keys, n \in Names :
    \/ n > talk[k[1]].sequence
    \/ \E c \in capture : c.key = k /\ c.sequence = n /\ c.at = "committed"
    => Fresh(k, n)

CaptureSent == \A c \in capture : c.sequence <= talk[c.key[1]].sequence

\* A row that is not in use names no message.
RowEnded == \A k \in Keys : row[k].state \in {"none", "sent", "suppressed"} => row[k].sequence = 0

\* A worker that holds a row delivers what the row names.
Current ==
  \A w \in Workers :
    /\ worker[w].at \in Delivering
    /\ row[worker[w].key].state = "sending" /\ row[worker[w].key].holder = w
    => worker[w].sequence = row[worker[w].key].sequence

\* A worker that has mailed its message has mailed it.
Mailing ==
  \A w \in Workers :
    /\ worker[w].at \in {"valid", "mailed"} => worker[w].sequence \in Names
    /\ worker[w].at = "mailed" => mailed[worker[w].key][worker[w].sequence] > 0

EmailInv == EmailType /\ Budget /\ Future /\ CaptureSent /\ RowEnded /\ Current /\ Mailing

\* The sequences of the conversations, as the email sees them.
Sequences == \A t \in Conversations : talk[t].sequence \in Nat

\* A key is a conversation and one of its users.
LEMMA KeyIs ==
  ASSUME NEW k \in Keys
  PROVE  k[1] \in Conversations /\ k[2] \in Subscribers /\ k[2] \in k[1]
  BY DEF Keys

\* A capture is its key, its message and its place.
LEMMA CaptureIs ==
  ASSUME NEW c \in Captures, NEW d \in Captures,
         c.key = d.key, c.sequence = d.sequence, c.at = d.at
  PROVE  c = d
  BY DEF Captures

\* The deliveries on their way can be counted.
LEMMA AttemptsCount ==
  ASSUME NEW k, NEW n
  PROVE  IsFiniteSet(Attempts(k, n)) /\ Cardinality(Attempts(k, n)) \in Nat
<1>1. Attempts(k, n) \subseteq Workers
  BY DEF Attempts
<1>2. QED BY <1>1, FS_Subset, FS_CardinalityType

\* A step that begins no delivery keeps the budget.
LEMMA BudgetKept ==
  ASSUME EmailType, EmailType', NEW k \in Keys, NEW n \in Names, BudgetOf(k, n),
         Attempts(k, n)' \subseteq Attempts(k, n), mailed'[k][n] = mailed[k][n],
         faults <= faults', Claimable(k, n)' => Claimable(k, n) \/ faults + 1 <= faults'
  PROVE  BudgetOf(k, n)'
<1> DEFINE a == Cardinality(Attempts(k, n))
           b == Cardinality(Attempts(k, n)')
<1>1. a \in Nat /\ b \in Nat /\ b <= a
  <2>1. IsFiniteSet(Attempts(k, n)) /\ a \in Nat
    BY AttemptsCount
  <2>2. QED BY <2>1, FS_Subset, FS_CardinalityType
<1>2. mailed[k][n] \in Nat /\ faults \in Nat /\ faults' \in Nat
  BY DEF EmailType
<1>3. mailed[k][n] + a + (IF Claimable(k, n) THEN 1 ELSE 0) <= 1 + faults
  BY DEF BudgetOf
<1> HIDE DEF a, b
<1>4. mailed'[k][n] + b + (IF Claimable(k, n)' THEN 1 ELSE 0) <= 1 + faults'
  BY <1>1, <1>2, <1>3
<1>5. QED BY <1>4 DEF BudgetOf, b

\* A delivery that begins uses the claim that was left.
LEMMA BudgetTaken ==
  ASSUME EmailType, EmailType', NEW k \in Keys, NEW n \in Names, BudgetOf(k, n),
         NEW w, Attempts(k, n)' = Attempts(k, n) \cup {w}, mailed'[k][n] = mailed[k][n],
         faults' = faults, Claimable(k, n), ~Claimable(k, n)'
  PROVE  BudgetOf(k, n)'
<1> DEFINE a == Cardinality(Attempts(k, n))
           b == Cardinality(Attempts(k, n)')
<1>1. a \in Nat /\ b \in Nat /\ b <= a + 1
  <2>1. IsFiniteSet(Attempts(k, n)) /\ a \in Nat
    BY AttemptsCount
  <2>2. /\ IsFiniteSet(Attempts(k, n) \cup {w})
        /\ Cardinality(Attempts(k, n) \cup {w}) = a \/ Cardinality(Attempts(k, n) \cup {w}) = a + 1
    BY <2>1, FS_AddElement
  <2> HIDE DEF a
  <2>3. QED BY <2>1, <2>2
<1>2. mailed[k][n] \in Nat /\ faults \in Nat
  BY DEF EmailType
<1>3. mailed[k][n] + a + 1 <= 1 + faults
  BY DEF BudgetOf
<1> HIDE DEF a, b
<1>4. mailed'[k][n] + b + 0 <= 1 + faults'
  BY <1>1, <1>2, <1>3
<1>5. QED BY <1>4 DEF BudgetOf, b

\* A message that is mailed uses up its delivery.
LEMMA BudgetSpent ==
  ASSUME EmailType, EmailType', NEW k \in Keys, NEW n \in Names, BudgetOf(k, n),
         NEW w \in Attempts(k, n), Attempts(k, n)' = Attempts(k, n) \ {w},
         mailed'[k][n] = mailed[k][n] + 1,
         faults' = faults, Claimable(k, n)' => Claimable(k, n)
  PROVE  BudgetOf(k, n)'
<1> DEFINE a == Cardinality(Attempts(k, n))
           b == Cardinality(Attempts(k, n)')
<1>1. a \in Nat /\ b \in Nat /\ b = a - 1
  <2>1. IsFiniteSet(Attempts(k, n)) /\ a \in Nat
    BY AttemptsCount
  <2>2. QED BY <2>1, FS_RemoveElement, FS_CardinalityType
<1>2. mailed[k][n] \in Nat /\ faults \in Nat
  BY DEF EmailType
<1>3. mailed[k][n] + a + (IF Claimable(k, n) THEN 1 ELSE 0) <= 1 + faults
  BY DEF BudgetOf
<1> HIDE DEF a, b
<1>4. mailed'[k][n] + b + (IF Claimable(k, n)' THEN 1 ELSE 0) <= 1 + faults'
  BY <1>1, <1>2, <1>3
<1>5. QED BY <1>4 DEF BudgetOf, b

\* A message nobody has touched is within every budget.
LEMMA BudgetFresh ==
  ASSUME EmailType', NEW k \in Keys, NEW n \in Names, mailed'[k][n] = 0, Attempts(k, n)' = {}
  PROVE  BudgetOf(k, n)'
<1>1. Cardinality(Attempts(k, n)') = 0
  BY FS_EmptySet
<1>2. faults' \in Nat
  BY DEF EmailType
<1>3. mailed'[k][n] + Cardinality(Attempts(k, n)') + (IF Claimable(k, n)' THEN 1 ELSE 0)
        <= 1 + faults'
  BY <1>1, <1>2
<1>4. QED BY <1>3 DEF BudgetOf

-----------------------------------------------------------------------------
(* Steps that deliver nothing *)

\* A worker that makes no step of a delivery.
Still(w) ==
  \/ /\ worker'[w].at = worker[w].at
     /\ worker'[w].key = worker[w].key /\ worker'[w].sequence = worker[w].sequence
  \/ worker[w].at \notin Delivering /\ worker'[w].at \notin Delivering

\* A row that is the same to the deliveries.
SameRow(k) ==
  /\ row'[k].state = row[k].state /\ row'[k].sequence = row[k].sequence
  /\ row'[k].holder = row[k].holder /\ row'[k].lease = row[k].lease

\* New captures are of new messages.
LEMMA QuietInv ==
  ASSUME EmailInv, EmailType', Sequences, Sequences',
         \A k \in Keys : SameRow(k), \A w \in Workers : Still(w),
         mailed' = mailed, faults <= faults',
         \A t \in Conversations : talk[t].sequence <= talk'[t].sequence,
         \A c \in capture' :
           /\ c.sequence <= talk'[c.key[1]].sequence
           /\ c \in capture \/ c.at # "committed" \/ c.sequence > talk[c.key[1]].sequence
  PROVE  EmailInv'
<1>1. \A k \in Keys : Active(k)' = Active(k)
  BY DEF Active, SameRow, Still, Delivering
<1>2. \A k \in Keys, n \in Names :
        Claimable(k, n)' = Claimable(k, n) /\ Attempts(k, n)' = Attempts(k, n)
  BY <1>1 DEF Claimable, Attempts, SameRow, Still, Delivering
<1>3. Budget'
  BY <1>2, BudgetKept DEF EmailInv, Budget
<1>4. Future'
  <2> SUFFICES ASSUME NEW k \in Keys, NEW n \in Names,
                      \/ n > talk'[k[1]].sequence
                      \/ \E c \in capture' : c.key = k /\ c.sequence = n /\ c.at = "committed"
               PROVE  Fresh(k, n)'
    BY DEF Future
  <2>1. /\ talk[k[1]].sequence \in Nat /\ talk'[k[1]].sequence \in Nat /\ n \in Nat
        /\ talk[k[1]].sequence <= talk'[k[1]].sequence
    BY KeyIs DEF Sequences, Names
  <2>2. Fresh(k, n)
    BY <2>1 DEF EmailInv, Future
  <2>3. QED BY <1>2, <2>2 DEF Fresh, SameRow
<1>5. CaptureSent'
  BY DEF CaptureSent
<1>6. RowEnded'
  BY DEF EmailInv, RowEnded, SameRow
<1>7. Current'
  <2> SUFFICES ASSUME NEW w \in Workers, worker'[w].at \in Delivering,
                      row'[worker'[w].key].state = "sending", row'[worker'[w].key].holder = w
               PROVE  worker'[w].sequence = row'[worker'[w].key].sequence
    BY DEF Current
  <2>1. worker[w].at \in Delivering /\ worker'[w].key = worker[w].key
        /\ worker'[w].sequence = worker[w].sequence
    BY DEF Still
  <2>2. worker[w].key \in Keys
    BY <2>1 DEF EmailInv, EmailType, Delivering
  <2>3. SameRow(worker[w].key)
    BY <2>2
  <2>4. QED BY <2>1, <2>3 DEF EmailInv, Current, SameRow
<1>8. Mailing'
  BY DEF EmailInv, Mailing, Still, Delivering
<1>9. QED BY <1>3, <1>4, <1>5, <1>6, <1>7, <1>8 DEF EmailInv

\* A row that is replaced.
LEMMA RowMoves ==
  ASSUME EmailType, NEW k \in Keys, NEW f \in Row, row' = [row EXCEPT ![k] = f]
  PROVE  /\ row' \in [Keys -> Row] /\ row'[k] = f
         /\ \A j \in Keys : j # k => row'[j] = row[j]
  BY DEF EmailType

\* The sequence of a conversation moves only when a message is sent.
LEMMA UsingSequence ==
  ASSUME MessagingInv, NEW u \in Users, Using(u)
  PROVE  \A t \in Conversations : talk'[t].sequence = talk[t].sequence
<1>1. talk \in [Conversations -> Conversation]
  BY Typed DEF MessagingInv
<1>2. CASE \E t \in Conversations : Open(t, u)
  BY <1>2 DEF Open
<1>3. ASSUME NEW t \in Conversations, MarkRead(t, u)
      PROVE  \A s \in Conversations : talk'[s].sequence = talk[s].sequence
  <2>1. Read(talk[t], u).sequence = talk[t].sequence
    BY <1>1, ReadIs
  <2>2. talk' = [talk EXCEPT ![t] = Read(talk[t], u)]
    BY <1>3 DEF MarkRead
  <2>3. QED BY <1>1, <2>1, <2>2
<1>4. ASSUME NEW t \in Conversations, Clear(t, u)
      PROVE  \A s \in Conversations : talk'[s].sequence = talk[s].sequence
  <2>1. Cleared(talk[t], u).sequence = talk[t].sequence
    BY <1>1, ClearedIs
  <2>2. talk' = [talk EXCEPT ![t] = Cleared(talk[t], u)]
    BY <1>4 DEF Clear
  <2>3. QED BY <1>1, <2>1, <2>2
<1>5. ASSUME NEW m \in messages, Hide(m, u)
      PROVE  \A s \in Conversations : talk'[s].sequence = talk[s].sequence
  <2>1. m.talk \in Conversations
    BY Typed DEF MessagingInv
  <2>2. CASE CountsWhenHidden(m, u)
    <3>1. Hidden(talk[m.talk], u).sequence = talk[m.talk].sequence
      BY <1>1, <2>1, <2>2, HiddenIs DEF CountsWhenHidden
    <3>2. talk' = [talk EXCEPT ![m.talk] = Hidden(talk[m.talk], u)]
      BY <1>5, <2>2 DEF Hide
    <3>3. QED BY <1>1, <2>1, <3>1, <3>2
  <2>3. CASE ~CountsWhenHidden(m, u)
    BY <1>5, <2>3 DEF Hide
  <2>4. QED BY <2>2, <2>3
<1>6. QED BY <1>2, <1>3, <1>4, <1>5 DEF Using

\* A message is sent, and captured for those who asked.
LEMMA SendAndCaptureInv ==
  ASSUME MessagingInv, TalkBounded, EmailInv, asked \subseteq Subscribers,
         NEW t \in Conversations, NEW u \in Users, NEW op \in Operations,
         SendAndCapture(t, u, op)
  PROVE  EmailInv' /\ TalkBounded'
<1> DEFINE n == talk[t].sequence + 1
           new == {[key |-> <<t, v>>, sequence |-> talk'[t].sequence, at |-> "committed"] :
                     v \in (t \ {u}) \cap asked}
<1>1. talk \in [Conversations -> Conversation] /\ t \subseteq Users /\ u \in t
  BY Typed DEF MessagingInv, SendAndCapture, Send
<1>2. Sequences
  BY <1>1 DEF Sequences, Conversation
<1>3. Sent(talk[t], t, u).sequence = n
  BY <1>1, SentIs
<1>4. talk'[t].sequence = n /\ \A s \in Conversations : s # t => talk'[s] = talk[s]
  <2>1. talk' = [talk EXCEPT ![t] = Sent(talk[t], t, u)]
    BY DEF SendAndCapture, Send
  <2>2. QED BY <1>1, <1>3, <2>1
<1>5. talk[t].sequence \in Nat /\ talk[t].sequence < MaxChanges /\ n \in Names
  BY <1>2 DEF Sequences, SendAndCapture, Send, Names
<1>6. Sequences' /\ TalkBounded' /\ \A s \in Conversations : talk[s].sequence <= talk'[s].sequence
  BY <1>2, <1>4, <1>5 DEF Sequences, TalkBounded
<1>7. capture' = capture \cup new /\ UNCHANGED <<row, task, worker, mailed, faults>>
  BY DEF SendAndCapture
<1>8. \A c \in new : c \in Captures /\ c.key[1] = t /\ c.sequence = n
  <2> SUFFICES ASSUME NEW v \in (t \ {u}) \cap asked
               PROVE  /\ <<t, v>> \in Keys /\ <<t, v>>[1] = t
                      /\ [key |-> <<t, v>>, sequence |-> n, at |-> "committed"] \in Captures
    BY <1>4
  <2>1. <<t, v>> \in Keys /\ <<t, v>>[1] = t
    BY DEF Keys
  <2>2. QED BY <1>5, <2>1 DEF Captures
<1>9. EmailType'
  BY <1>7, <1>8 DEF EmailInv, EmailType
<1>10. \A c \in capture' :
         /\ c.sequence <= talk'[c.key[1]].sequence
         /\ c \in capture \/ c.at # "committed" \/ c.sequence > talk[c.key[1]].sequence
  <2> SUFFICES ASSUME NEW c \in capture'
               PROVE  /\ c.sequence <= talk'[c.key[1]].sequence
                      /\ c \in capture \/ c.sequence > talk[c.key[1]].sequence
    OBVIOUS
  <2>1. CASE c \in capture
    <3>1. c.key \in Keys /\ c.sequence \in Nat
      BY <2>1 DEF EmailInv, EmailType, Captures, Names
    <3>2. c.key[1] \in Conversations
      BY <3>1, KeyIs
    <3>3. c.sequence <= talk[c.key[1]].sequence
      BY <2>1 DEF EmailInv, CaptureSent
    <3>4. talk[c.key[1]].sequence \in Nat /\ talk'[c.key[1]].sequence \in Nat
          /\ talk[c.key[1]].sequence <= talk'[c.key[1]].sequence
      BY <1>2, <1>6, <3>2 DEF Sequences
    <3>5. QED BY <2>1, <3>1, <3>3, <3>4
  <2>2. CASE c \in new
    BY <1>4, <1>5, <1>8, <2>2
  <2>3. QED BY <1>7, <2>1, <2>2
<1>11. (\A k \in Keys : SameRow(k)) /\ \A w \in Workers : Still(w)
  BY <1>7 DEF SameRow, Still
<1>12. mailed' = mailed /\ faults <= faults'
  BY <1>7 DEF EmailInv, EmailType
<1>13. QED BY <1>2, <1>6, <1>9, <1>10, <1>11, <1>12, QuietInv

\* A page is opened or read, or messages are hidden or cleared.
LEMMA UsingInv ==
  ASSUME MessagingInv, TalkBounded, EmailInv, NEW u \in Users, Using(u), UNCHANGED email
  PROVE  EmailInv' /\ TalkBounded'
<1>1. \A t \in Conversations : talk'[t].sequence = talk[t].sequence
  BY UsingSequence
<1>2. Sequences /\ Sequences' /\ \A t \in Conversations : talk[t].sequence <= talk'[t].sequence
  <2>1. talk \in [Conversations -> Conversation]
    BY Typed DEF MessagingInv
  <2>2. QED BY <1>1, <2>1 DEF Sequences, Conversation
<1>3. UNCHANGED <<row, task, capture, worker, mailed, faults>>
  BY DEF email
<1>4. EmailType' /\ TalkBounded'
  BY <1>1, <1>3 DEF EmailInv, EmailType, TalkBounded
<1>5. (\A k \in Keys : SameRow(k)) /\ \A w \in Workers : Still(w)
  BY <1>3 DEF SameRow, Still
<1>6. \A c \in capture' : c.sequence <= talk'[c.key[1]].sequence /\ c \in capture
  <2> SUFFICES ASSUME NEW c \in capture PROVE c.sequence <= talk'[c.key[1]].sequence
    BY <1>3
  <2>1. c.key[1] \in Conversations
    BY KeyIs DEF EmailInv, EmailType, Captures
  <2>2. QED BY <1>1, <2>1 DEF EmailInv, CaptureSent
<1>7. mailed' = mailed /\ faults <= faults'
  BY <1>3 DEF EmailInv, EmailType
<1>8. QED BY <1>2, <1>4, <1>5, <1>6, <1>7, QuietInv

\* The sequences are numbers.
LEMMA SequencesAre == MessagingInv => Sequences
  BY Typed DEF MessagingInv, Sequences, Conversation

\* A step of the mailing that captures and delivers nothing.
LEMMA QuietStep ==
  ASSUME MessagingInv, TalkBounded, EmailInv, EmailType', UNCHANGED messaging,
         \A k \in Keys : SameRow(k), \A w \in Workers : Still(w),
         mailed' = mailed, faults <= faults',
         \A c \in capture' :
           c \in capture
           \/ (c.at # "committed" /\ \E d \in capture : d.key = c.key /\ d.sequence = c.sequence)
  PROVE  EmailInv' /\ TalkBounded'
<1>1. talk' = talk
  BY DEF messaging
<1>2. Sequences /\ Sequences' /\ TalkBounded'
  BY <1>1, SequencesAre DEF Sequences, TalkBounded
<1>3. \A t \in Conversations : talk[t].sequence <= talk'[t].sequence
  BY <1>1, <1>2 DEF Sequences
<1>4. \A c \in capture' :
        /\ c.sequence <= talk'[c.key[1]].sequence
        /\ c \in capture \/ c.at # "committed"
  BY <1>1 DEF EmailInv, CaptureSent
<1>5. QED BY <1>2, <1>3, <1>4, QuietInv

\* The faults are counted.
LEMMA FaultsCount == EmailInv => faults \in Nat /\ faults <= faults /\ faults <= faults + 1
  BY DEF EmailInv, EmailType

\* A capture names a row and a message.
LEMMA CaptureTyped ==
  ASSUME EmailInv, NEW c \in capture
  PROVE  /\ c \in Captures /\ c.key \in Keys /\ c.sequence \in Names /\ c.sequence \in Nat
         /\ [c EXCEPT !.at = "upserted"] \in Captures /\ [c EXCEPT !.at = "enqueued"] \in Captures
<1>1. c \in Captures
  BY DEF EmailInv, EmailType
<1>2. c.key \in Keys /\ c.sequence \in Names
  BY <1>1 DEF Captures
<1>3. [c EXCEPT !.at = "upserted"] \in Captures /\ [c EXCEPT !.at = "enqueued"] \in Captures
  BY <1>1 DEF Captures
<1>4. c.sequence \in Nat
  BY <1>2 DEF Names
<1>5. QED BY <1>1, <1>2, <1>3, <1>4

\* The task of a row that is noted.
LEMMA ScheduledIs ==
  ASSUME EmailType, NEW k \in Keys, NEW n \in Nat, row' = Scheduled(k, n)
  PROVE  row' \in [Keys -> Row] /\ \A j \in Keys : SameRow(j)
<1>1. CASE row[k].sequence = n
  <2> DEFINE f == [row[k] EXCEPT !.scheduled = n]
  <2>1. row[k] \in Row
    BY DEF EmailType
  <2>2. /\ f \in Row /\ f.sequence = row[k].sequence /\ f.state = row[k].state
        /\ f.holder = row[k].holder /\ f.lease = row[k].lease
    BY <2>1, NotedIs
  <2>3. row' = [row EXCEPT ![k] = f]
    BY <1>1 DEF Scheduled, EmailType
  <2> HIDE DEF f
  <2>4. QED BY <2>2, <2>3, RowMoves DEF SameRow
<1>2. CASE row[k].sequence # n
  BY <1>2 DEF Scheduled, SameRow, EmailType
<1>3. QED BY <1>1, <1>2

\* The task of a capture is created.
LEMMA EnqueueInv ==
  ASSUME MessagingInv, TalkBounded, EmailInv, NEW c \in capture, Enqueue(c)
  PROVE  EmailInv' /\ TalkBounded'
<1>1. /\ UNCHANGED <<messaging, row, worker, mailed, faults>>
      /\ task' = Enqueued(c.key, c.sequence)
      /\ capture' = (capture \ {c}) \cup {[c EXCEPT !.at = "enqueued"]}
  BY DEF Enqueue
<1>2. EmailType'
  BY <1>1, CaptureTyped, TaskIs DEF EmailInv, EmailType
<1>3. (\A k \in Keys : SameRow(k)) /\ \A w \in Workers : Still(w)
  BY <1>1 DEF SameRow, Still
<1>4. \A d \in capture' : d \in capture \/ d = [c EXCEPT !.at = "enqueued"]
  BY <1>1
<1>5. LET d == [c EXCEPT !.at = "enqueued"]
      IN  d.at # "committed" /\ d.key = c.key /\ d.sequence = c.sequence
  BY CaptureTyped DEF Captures
<1>6. QED BY <1>1, <1>2, <1>3, <1>4, <1>5, FaultsCount, QuietStep

\* The task of a capture is noted in the row.
LEMMA MarkScheduledInv ==
  ASSUME MessagingInv, TalkBounded, EmailInv, NEW c \in capture, MarkScheduled(c)
  PROVE  EmailInv' /\ TalkBounded'
<1>1. /\ UNCHANGED <<messaging, task, worker, mailed, faults>>
      /\ row' = Scheduled(c.key, c.sequence) /\ capture' = capture \ {c}
  BY DEF MarkScheduled
<1>2. row' \in [Keys -> Row] /\ \A k \in Keys : SameRow(k)
  BY <1>1, CaptureTyped, ScheduledIs DEF EmailInv
<1>3. EmailType' /\ \A w \in Workers : Still(w)
  BY <1>1, <1>2 DEF EmailInv, EmailType, Still
<1>4. QED BY <1>1, <1>2, <1>3, FaultsCount, QuietStep

\* The five minutes of a row are over.
LEMMA FallDueInv ==
  ASSUME MessagingInv, TalkBounded, EmailInv, NEW k \in Keys, FallDue(k)
  PROVE  EmailInv' /\ TalkBounded'
<1> DEFINE f == [row[k] EXCEPT !.due = TRUE]
<1>1. /\ UNCHANGED <<messaging, capture, worker, mailed, faults>>
      /\ task' = [task EXCEPT ![k] = [n \in Names |->
                    IF task[k][n] = "delayed" THEN "ready" ELSE task[k][n]]]
  BY DEF FallDue
<1>2. row' = [row EXCEPT ![k] = f]
  BY DEF FallDue, EmailInv, EmailType
<1>3. row[k] \in Row
  BY DEF EmailInv, EmailType
<1>4. /\ f \in Row /\ f.sequence = row[k].sequence /\ f.state = row[k].state
      /\ f.holder = row[k].holder /\ f.lease = row[k].lease
  BY <1>3, NotedIs
<1> HIDE DEF f
<1>5. row' \in [Keys -> Row] /\ \A j \in Keys : SameRow(j)
  BY <1>2, <1>4, RowMoves DEF SameRow, EmailInv
<1>6. task' \in [Keys -> [Names -> {"none", "delayed", "ready", "done"}]]
  BY <1>1 DEF EmailInv, EmailType
<1>7. EmailType' /\ \A w \in Workers : Still(w)
  BY <1>1, <1>5, <1>6 DEF EmailInv, EmailType, Still
<1>8. QED BY <1>1, <1>5, <1>7, FaultsCount, QuietStep

\* The delay of one task is over.
LEMMA ElapseInv ==
  ASSUME MessagingInv, TalkBounded, EmailInv, NEW k \in Keys, NEW n \in Names, Elapse(k, n)
  PROVE  EmailInv' /\ TalkBounded'
<1>1. /\ UNCHANGED <<messaging, row, capture, worker, mailed, faults>>
      /\ task' = [task EXCEPT ![k][n] = "ready"]
  BY DEF Elapse
<1>2. EmailType'
  BY <1>1 DEF EmailInv, EmailType
<1>3. (\A j \in Keys : SameRow(j)) /\ \A w \in Workers : Still(w)
  BY <1>1 DEF SameRow, Still
<1>4. QED BY <1>1, <1>2, <1>3, FaultsCount, QuietStep

\* A worker takes a task.
LEMMA TakeInv ==
  ASSUME MessagingInv, TalkBounded, EmailInv,
         NEW w \in Workers, NEW k \in Keys, NEW n \in Names, Take(w, k, n)
  PROVE  EmailInv' /\ TalkBounded'
<1> DEFINE d == [at |-> "read", key |-> k, name |-> n, sequence |-> row[k].sequence,
                 due |-> row[k].due \/ Terminal(k)]
<1>1. /\ UNCHANGED <<messaging, row, task, capture, mailed, faults>>
      /\ worker[w].at = "idle" /\ worker' = [worker EXCEPT ![w] = d]
  BY DEF Take
<1>2. row[k].sequence \in Nat
  BY DEF EmailInv, EmailType, Row
<1>3. d.at = "read" /\ d.key = k /\ d.name = n
  OBVIOUS
<1>4. d \in Delivery
  <2>1. d.due \in BOOLEAN
    <3>1. row[k].due \in BOOLEAN
      BY DEF EmailInv, EmailType, Row
    <3>2. QED BY <3>1
  <2>2. QED BY <1>2, <2>1 DEF Delivery
<1> HIDE DEF d
<1>5. /\ worker' \in [Workers -> Delivery] /\ worker'[w] = d
      /\ \A v \in Workers : v # w => worker'[v] = worker[v]
  BY <1>1, <1>4 DEF EmailInv, EmailType
<1>6. EmailType'
  BY <1>1, <1>3, <1>5 DEF EmailInv, EmailType
<1>7. (\A j \in Keys : SameRow(j)) /\ \A v \in Workers : Still(v)
  BY <1>1, <1>3, <1>5 DEF SameRow, Still, Delivering
<1>8. QED BY <1>1, <1>6, <1>7, FaultsCount, QuietStep

\* A worker that does not deliver, and what it goes on with.
LEMMA RestInv ==
  ASSUME MessagingInv, TalkBounded, EmailInv, NEW w \in Workers,
         UNCHANGED <<messaging, capture, mailed>>, faults <= faults', faults' \in Nat,
         row' \in [Keys -> Row], \A k \in Keys : SameRow(k),
         task' \in [Keys -> [Names -> {"none", "delayed", "ready", "done"}]],
         worker[w].at \notin Delivering, worker' = Freed(w)
  PROVE  EmailInv' /\ TalkBounded'
<1>1. /\ worker' \in [Workers -> Delivery] /\ worker'[w].at = "idle"
      /\ \A v \in Workers : v # w => worker'[v] = worker[v]
  BY FreedIs DEF EmailInv
<1>2. EmailType'
  BY <1>1 DEF EmailInv, EmailType
<1>3. \A v \in Workers : Still(v)
  BY <1>1 DEF Still, Delivering
<1>4. QED BY <1>2, <1>3, QuietStep

\* A task that is acknowledged.
LEMMA AcknowledgedIs ==
  ASSUME EmailType, NEW w \in Workers, worker[w].at # "idle"
  PROVE  Acknowledged(w) \in [Keys -> [Names -> {"none", "delayed", "ready", "done"}]]
  BY DEF Acknowledged, EmailType

\* A task that came too early is enqueued anew.
LEMMA RescheduleInv ==
  ASSUME MessagingInv, TalkBounded, EmailInv, NEW w \in Workers, Reschedule(w)
  PROVE  EmailInv' /\ TalkBounded'
<1>1. /\ UNCHANGED <<messaging, row, capture, mailed, faults>> /\ worker[w].at = "read"
      /\ task' = Enqueued(worker[w].key, worker[w].sequence)
      /\ worker' = [worker EXCEPT ![w].at = "rescheduled"]
  BY DEF Reschedule
<1>2. /\ worker' \in [Workers -> Delivery]
      /\ worker'[w].at = "rescheduled"
      /\ worker'[w].key = worker[w].key /\ worker'[w].name = worker[w].name
      /\ \A v \in Workers : v # w => worker'[v] = worker[v]
  BY <1>1, MovesOn DEF EmailInv
<1>3. worker[w].key \in Keys /\ worker[w].sequence \in Nat
  BY <1>1 DEF EmailInv, EmailType, Delivery
<1>4. task' \in [Keys -> [Names -> {"none", "delayed", "ready", "done"}]]
  BY <1>1, <1>3, TaskIs DEF EmailInv
<1>5. EmailType'
  BY <1>1, <1>2, <1>4 DEF EmailInv, EmailType
<1>6. (\A k \in Keys : SameRow(k)) /\ \A v \in Workers : Still(v)
  BY <1>1, <1>2 DEF SameRow, Still, Delivering
<1>7. QED BY <1>1, <1>5, <1>6, FaultsCount, QuietStep

\* The new task is noted in the row.
LEMMA MarkRescheduledInv ==
  ASSUME MessagingInv, TalkBounded, EmailInv, NEW w \in Workers, MarkRescheduled(w)
  PROVE  EmailInv' /\ TalkBounded'
<1>1. /\ UNCHANGED <<messaging, capture, mailed, faults>> /\ worker[w].at = "rescheduled"
      /\ row' = Scheduled(worker[w].key, worker[w].sequence)
      /\ task' = Acknowledged(w) /\ worker' = Freed(w)
  BY DEF MarkRescheduled
<1>2. worker[w].key \in Keys /\ worker[w].sequence \in Nat /\ worker[w].at \notin Delivering
  BY <1>1 DEF EmailInv, EmailType, Delivery, Delivering
<1>3. row' \in [Keys -> Row] /\ \A k \in Keys : SameRow(k)
  BY <1>1, <1>2, ScheduledIs DEF EmailInv
<1>4. task' \in [Keys -> [Names -> {"none", "delayed", "ready", "done"}]]
  BY <1>1, AcknowledgedIs DEF EmailInv
<1>5. faults' \in Nat /\ faults <= faults'
  BY <1>1, FaultsCount
<1>6. QED BY <1>1, <1>2, <1>3, <1>4, <1>5, RestInv

\* A capture is given up.
LEMMA ForgetInv ==
  ASSUME MessagingInv, TalkBounded, EmailInv, NEW c \in capture, Forget(c), faults' = faults + 1
  PROVE  EmailInv' /\ TalkBounded'
<1>1. UNCHANGED <<messaging, row, task, worker, mailed>> /\ capture' = capture \ {c}
  BY DEF Forget
<1>2. EmailType'
  BY <1>1 DEF EmailInv, EmailType
<1>3. (\A k \in Keys : SameRow(k)) /\ \A w \in Workers : Still(w)
  BY <1>1 DEF SameRow, Still
<1>4. QED BY <1>1, <1>2, <1>3, FaultsCount, QuietStep

-----------------------------------------------------------------------------
(* Steps that begin, make or end a delivery *)

\* What holds after a step that keeps the messages and adds no capture.
LEMMA Rested ==
  ASSUME MessagingInv, TalkBounded, EmailInv, UNCHANGED messaging, capture' \subseteq capture
  PROVE  /\ TalkBounded' /\ CaptureSent'
         /\ \A k \in Keys, n \in Names :
              \/ n > talk'[k[1]].sequence
              \/ \E c \in capture' : c.key = k /\ c.sequence = n /\ c.at = "committed"
              => Fresh(k, n)
<1>1. talk' = talk
  BY DEF messaging
<1>2. TalkBounded' /\ CaptureSent'
  BY <1>1 DEF EmailInv, TalkBounded, CaptureSent
<1>3. QED BY <1>1, <1>2 DEF EmailInv, Future

\* A lease runs out.
LEMMA ExpireInv ==
  ASSUME MessagingInv, TalkBounded, EmailInv, NEW k \in Keys, Expire(k)
  PROVE  EmailInv' /\ TalkBounded'
<1> DEFINE f == [row[k] EXCEPT !.lease = FALSE]
<1>1. /\ UNCHANGED <<messaging, task, capture, worker, mailed>>
      /\ row[k].state = "sending" /\ row[k].lease
      /\ IF Active(k) THEN faults' = faults + 1 ELSE faults' = faults
  BY DEF Expire
<1>2. row[k] \in Row /\ faults \in Nat
  BY DEF EmailInv, EmailType
<1>3. /\ f \in Row /\ f.sequence = row[k].sequence /\ f.state = row[k].state
      /\ f.holder = row[k].holder /\ ~f.lease
  BY <1>2, ExpiredIs
<1>4. row' = [row EXCEPT ![k] = f]
  BY DEF Expire, EmailInv, EmailType
<1> HIDE DEF f
<1>5. /\ row' \in [Keys -> Row] /\ \A j \in Keys : j # k => row'[j] = row[j]
      /\ \A j \in Keys : row'[j].state = row[j].state /\ row'[j].sequence = row[j].sequence
                         /\ row'[j].holder = row[j].holder
  BY <1>3, <1>4, RowMoves DEF EmailInv
<1>6. EmailType'
  BY <1>1, <1>2, <1>5 DEF EmailInv, EmailType
<1>7. \A j \in Keys, n \in Names : Attempts(j, n)' = Attempts(j, n)
  BY <1>1 DEF Attempts
<1>8. \A j \in Keys : Active(j)' = Active(j)
  BY <1>1, <1>5 DEF Active
<1>9. \A j \in Keys, n \in Names : Claimable(j, n)' => Claimable(j, n) \/ faults + 1 <= faults'
  BY <1>1, <1>2, <1>5, <1>8 DEF Claimable
<1>10. Budget'
  BY <1>1, <1>2, <1>6, <1>7, <1>9, BudgetKept DEF EmailInv, Budget
<1>11. Future'
  BY <1>1, <1>5, <1>7, Rested DEF Future, Fresh
<1>12. RowEnded'
  BY <1>5 DEF EmailInv, RowEnded
<1>13. Current'
  <2> SUFFICES ASSUME NEW w \in Workers, worker[w].at \in Delivering,
                      row'[worker[w].key].state = "sending", row'[worker[w].key].holder = w
               PROVE  worker[w].sequence = row'[worker[w].key].sequence
    BY <1>1 DEF Current
  <2>1. worker[w].key \in Keys
    BY DEF EmailInv, EmailType, Delivering
  <2>2. QED BY <1>5, <2>1 DEF EmailInv, Current
<1>14. Mailing'
  BY <1>1 DEF EmailInv, Mailing
<1>15. QED BY <1>1, <1>6, <1>10, <1>11, <1>12, <1>13, <1>14, Rested DEF EmailInv

\* A message is put in its row.
LEMMA UpsertInv ==
  ASSUME MessagingInv, TalkBounded, EmailInv, NEW c \in capture, Upsert(c)
  PROVE  EmailInv' /\ TalkBounded'
<1> DEFINE k == c.key
           n == c.sequence
           f == [row[k] EXCEPT !.sequence = n, !.state = "pending", !.due = FALSE]
           d == [c EXCEPT !.at = "upserted"]
<1>1. /\ UNCHANGED <<messaging, task, worker, mailed, faults>> /\ c.at = "committed"
      /\ row' = [row EXCEPT ![k] = f] /\ capture' \subseteq (capture \ {c}) \cup {d}
  BY DEF Upsert
<1>2. c \in Captures /\ k \in Keys /\ n \in Names /\ n \in Nat /\ d \in Captures
  BY CaptureTyped
<1>3. row[k] \in Row /\ faults \in Nat
  BY <1>2 DEF EmailInv, EmailType
<1>4. f \in Row /\ f.sequence = n /\ f.state = "pending" /\ f.holder = row[k].holder
  <2> HIDE DEF k, n
  <2>1. f = [row[k] EXCEPT !.sequence = n, !.state = "pending", !.due = FALSE]
    OBVIOUS
  <2> HIDE DEF f
  <2>2. QED BY <1>2, <1>3, <2>1 DEF Row, States
<1>5. d.at = "upserted" /\ d.key = k /\ d.sequence = n
  BY <1>2 DEF Captures
<1>6. Fresh(k, n)
  BY <1>1, <1>2 DEF EmailInv, Future
<1> HIDE DEF k, n, f, d
<1>7. /\ row' \in [Keys -> Row] /\ row'[k] = f /\ \A j \in Keys : j # k => row'[j] = row[j]
  BY <1>1, <1>2, <1>4, RowMoves DEF EmailInv
<1>8. EmailType'
  BY <1>1, <1>2, <1>7 DEF EmailInv, EmailType
<1>9. \A j \in Keys, i \in Names : Attempts(j, i)' = Attempts(j, i)
  BY <1>1 DEF Attempts
<1>10. Budget'
  <2> SUFFICES ASSUME NEW j \in Keys, NEW i \in Names PROVE BudgetOf(j, i)'
    BY DEF Budget
  <2>1. CASE j = k /\ i = n
    BY <1>1, <1>6, <1>8, <1>9, <2>1, BudgetFresh DEF Fresh
  <2>2. CASE j = k /\ i # n
    <3>1. ~Claimable(j, i)'
      BY <1>4, <1>7, <2>2 DEF Claimable
    <3>2. BudgetOf(j, i) /\ faults <= faults'
      BY <1>1, <1>3 DEF EmailInv, Budget
    <3>3. QED BY <1>1, <1>8, <1>9, <3>1, <3>2, BudgetKept DEF EmailInv
  <2>3. CASE j # k
    <3>1. Claimable(j, i)' = Claimable(j, i)
      BY <1>1, <1>7, <2>3 DEF Claimable, Active
    <3>2. BudgetOf(j, i) /\ faults <= faults'
      BY <1>1, <1>3 DEF EmailInv, Budget
    <3>3. QED BY <1>1, <1>8, <1>9, <3>1, <3>2, BudgetKept DEF EmailInv
  <2>4. QED BY <2>1, <2>2, <2>3
<1>11. talk' = talk
  BY <1>1 DEF messaging
<1>12. Future'
  <2> SUFFICES ASSUME NEW j \in Keys, NEW i \in Names,
                      \/ i > talk[j[1]].sequence
                      \/ \E e \in capture' : e.key = j /\ e.sequence = i /\ e.at = "committed"
               PROVE  Fresh(j, i)'
    BY <1>11 DEF Future
  <2>1. Fresh(j, i)
    BY <1>1, <1>5 DEF EmailInv, Future
  <2>2. ~(j = k /\ i = n)
    <3>1. CASE i > talk[j[1]].sequence
      <4>1. n <= talk[k[1]].sequence
        BY DEF EmailInv, CaptureSent, n, k
      <4>2. talk[k[1]].sequence \in Nat
        BY <1>2, KeyIs, SequencesAre DEF Sequences
      <4>3. QED BY <1>2, <3>1, <4>1, <4>2
    <3>2. ASSUME NEW e \in capture', e.key = j, e.sequence = i, e.at = "committed"
          PROVE  ~(j = k /\ i = n)
      <4>1. e # c /\ e \in capture
        BY <1>1, <1>5, <3>2
      <4>2. e \in Captures
        BY <4>1, CaptureTyped
      <4>3. QED BY <1>1, <1>2, <3>2, <4>1, <4>2, CaptureIs DEF k, n
    <3>3. QED BY <3>1, <3>2
  <2>3. row'[j].sequence # i
    BY <1>4, <1>7, <2>1, <2>2 DEF Fresh
  <2>4. QED BY <1>1, <1>9, <2>1, <2>3 DEF Fresh
<1>13. CaptureSent' /\ TalkBounded'
  <2>1. \A e \in capture' : e \in capture \/ (e.sequence = n /\ e.key = k)
    BY <1>1, <1>5
  <2>2. n <= talk[k[1]].sequence
    BY DEF EmailInv, CaptureSent, n, k
  <2>3. QED BY <1>11, <2>1, <2>2 DEF EmailInv, CaptureSent, TalkBounded
<1>14. RowEnded'
  BY <1>4, <1>7 DEF EmailInv, RowEnded
<1>15. Current'
  <2> SUFFICES ASSUME NEW w \in Workers, worker[w].at \in Delivering,
                      row'[worker[w].key].state = "sending", row'[worker[w].key].holder = w
               PROVE  worker[w].sequence = row'[worker[w].key].sequence
    BY <1>1 DEF Current
  <2>1. worker[w].key \in Keys /\ worker[w].key # k
    BY <1>4, <1>7 DEF EmailInv, EmailType, Delivering
  <2>2. QED BY <1>7, <2>1 DEF EmailInv, Current
<1>16. Mailing'
  BY <1>1 DEF EmailInv, Mailing
<1>17. QED BY <1>8, <1>10, <1>12, <1>13, <1>14, <1>15, <1>16 DEF EmailInv

\* A worker claims a row that is to be delivered.
LEMMA ClaimTakes ==
  ASSUME MessagingInv, TalkBounded, EmailInv,
         NEW w \in Workers, NEW k \in Keys, NEW n \in Nat,
         worker[w].key = k, row[k].sequence = n, worker[w].at = "read",
         ~Terminal(k), ~Busy(k), UNCHANGED <<messaging, task, capture, mailed, faults>>,
         row' = [row EXCEPT ![k].state = "sending", ![k].holder = w, ![k].lease = TRUE],
         worker' = [worker EXCEPT ![w].at = "claimed", ![w].sequence = n]
  PROVE  EmailInv' /\ TalkBounded'
<1> DEFINE f == [row[k] EXCEPT !.state = "sending", !.holder = w, !.lease = TRUE]
           d == [worker[w] EXCEPT !.at = "claimed", !.sequence = n]
<1>1. UNCHANGED <<messaging, capture, mailed, faults>>
      /\ worker[w].at # "idle" /\ worker[w].at \notin Delivering
  BY DEF Delivering
<1>2. row[k] \in Row /\ row \in [Keys -> Row] /\ faults' \in Nat /\ faults <= faults'
  BY FaultsCount DEF EmailInv, EmailType
<1>3. ~Terminal(k) /\ ~Busy(k) /\ task' = task
  OBVIOUS
<1>4. f \in Row /\ f.sequence = n /\ f.state = "sending" /\ f.holder = w /\ f.lease
  BY <1>2 DEF Row, States
<1>5. row' = [row EXCEPT ![k] = f]
  BY <1>2
<1>6. worker' = [worker EXCEPT ![w] = d] /\ worker[w] \in Delivery
  BY DEF EmailInv, EmailType
<1>7. d \in Delivery /\ d.at = "claimed" /\ d.sequence = n /\ d.key = k /\ d.name = worker[w].name
  BY <1>6 DEF Delivery, Delivering
<1> HIDE DEF f, d
<1>8. /\ worker' \in [Workers -> Delivery]
      /\ worker'[w].at = "claimed" /\ worker'[w].sequence = n /\ worker'[w].key = k
      /\ worker'[w].name = worker[w].name
      /\ \A v \in Workers : v # w => worker'[v] = worker[v]
  BY <1>6, <1>7 DEF EmailInv, EmailType
<1>9. /\ row' \in [Keys -> Row] /\ row'[k] = f /\ \A j \in Keys : j # k => row'[j] = row[j]
  BY <1>2, <1>4, <1>5, RowMoves DEF EmailInv
<1>10. EmailType'
  BY <1>1, <1>2, <1>3, <1>8, <1>9 DEF EmailInv, EmailType
<1>11. \A j \in Keys, i \in Names :
        Attempts(j, i)' = IF j = k /\ i = n THEN Attempts(j, i) \cup {w} ELSE Attempts(j, i)
  BY <1>1, <1>8 DEF Attempts
<1>12. \A j \in Keys : row'[j].sequence = row[j].sequence
  BY <1>4, <1>9
<1>13. Budget'
  <2> SUFFICES ASSUME NEW j \in Keys, NEW i \in Names PROVE BudgetOf(j, i)'
    BY DEF Budget
  <2>1. BudgetOf(j, i)
    BY DEF EmailInv, Budget
  <2>2. CASE j = k /\ i = n
    <3>1. ~Claimable(j, i)'
      <4>1. Active(k)'
        BY <1>4, <1>8, <1>9 DEF Active
      <4>2. QED BY <1>4, <1>9, <2>2, <4>1 DEF Claimable
    <3>2. Claimable(j, i)
      <4>1. row[k].state \in States /\ row[k].state \notin {"none", "sent", "suppressed"}
        BY <1>2, <2>2 DEF EmailInv, RowEnded, Row, Names
      <4>2. QED BY <1>3, <2>2, <4>1 DEF Claimable, Busy, States
    <3>3. QED BY <1>1, <1>10, <1>11, <2>1, <2>2, <3>1, <3>2, BudgetTaken DEF EmailInv
  <2>3. CASE j = k /\ i # n
    <3>1. ~Claimable(j, i)'
      BY <1>4, <1>9, <2>3 DEF Claimable
    <3>2. QED BY <1>1, <1>2, <1>10, <1>11, <2>1, <2>3, <3>1, BudgetKept DEF EmailInv
  <2>4. CASE j # k
    <3>1. Active(j)' = Active(j)
      BY <1>1, <1>8, <1>9, <2>4 DEF Active
    <3>2. Claimable(j, i)' = Claimable(j, i)
      BY <1>9, <2>4, <3>1 DEF Claimable
    <3>3. QED BY <1>1, <1>2, <1>10, <1>11, <2>1, <2>4, <3>2, BudgetKept DEF EmailInv
  <2>5. QED BY <2>2, <2>3, <2>4
<1>14. Future'
  <2> SUFFICES ASSUME NEW j \in Keys, NEW i \in Names,
                      \/ i > talk'[j[1]].sequence
                      \/ \E c \in capture' : c.key = j /\ c.sequence = i /\ c.at = "committed"
               PROVE  Fresh(j, i)'
    BY DEF Future
  <2>1. Fresh(j, i)
    BY <1>1, Rested
  <2>2. QED BY <1>1, <1>11, <1>12, <2>1 DEF Fresh
<1>15. RowEnded'
  BY <1>4, <1>9 DEF EmailInv, RowEnded
<1>16. Current'
  <2> SUFFICES ASSUME NEW v \in Workers, worker'[v].at \in Delivering,
                      row'[worker'[v].key].state = "sending", row'[worker'[v].key].holder = v
               PROVE  worker'[v].sequence = row'[worker'[v].key].sequence
    BY DEF Current
  <2>1. CASE v = w
    BY <1>4, <1>8, <1>9, <2>1
  <2>2. CASE v # w
    <3>1. worker'[v] = worker[v] /\ worker[v].key \in Keys
      BY <1>8, <2>2 DEF EmailInv, EmailType, Delivering
    <3>2. worker[v].key # k
      BY <1>4, <1>9, <2>2, <3>1
    <3>3. QED BY <1>9, <3>1, <3>2 DEF EmailInv, Current
  <2>3. QED BY <2>1, <2>2
<1>17. Mailing'
  BY <1>1, <1>8 DEF EmailInv, Mailing
<1>18. QED BY <1>1, <1>10, <1>13, <1>14, <1>15, <1>16, <1>17, Rested DEF EmailInv

\* A row is claimed.
LEMMA ClaimInv ==
  ASSUME MessagingInv, TalkBounded, EmailInv, NEW w \in Workers, Claim(w)
  PROVE  EmailInv' /\ TalkBounded'
<1> DEFINE k == worker[w].key
           n == row[k].sequence
<1>1. /\ UNCHANGED <<messaging, capture, mailed, faults>>
      /\ worker[w].at = "read" /\ worker[w].at # "idle" /\ worker[w].at \notin Delivering
  BY DEF Claim, Delivering
<1>2. /\ k \in Keys /\ row[k] \in Row /\ n \in Nat /\ faults' \in Nat /\ faults <= faults'
      /\ row \in [Keys -> Row]
      /\ task \in [Keys -> [Names -> {"none", "delayed", "ready", "done"}]]
      /\ Acknowledged(w) \in [Keys -> [Names -> {"none", "delayed", "ready", "done"}]]
  <2>1. k \in Keys
    BY <1>1 DEF EmailInv, EmailType
  <2>2. row[k] \in Row
    BY <2>1 DEF EmailInv, EmailType
  <2>3. n \in Nat
    BY <2>2 DEF Row
  <2>4. QED BY <1>1, <2>1, <2>2, <2>3, FaultsCount, AcknowledgedIs DEF EmailInv, EmailType
<1>3. CASE task' = Acknowledged(w) /\ worker' = Freed(w) /\ UNCHANGED row
  <2>1. \A j \in Keys : SameRow(j)
    BY <1>3 DEF SameRow
  <2>2. QED BY <1>1, <1>2, <1>3, <2>1, RestInv
<1>4. CASE worker' = Freed(w) /\ UNCHANGED <<row, task>>
  <2>1. \A j \in Keys : SameRow(j)
    BY <1>4 DEF SameRow
  <2>2. QED BY <1>1, <1>2, <1>4, <2>1, RestInv
<1>5. CASE /\ ~Terminal(k) /\ ~Busy(k) /\ task' = task
           /\ row' = [row EXCEPT ![k].state = "sending", ![k].holder = w, ![k].lease = TRUE]
           /\ worker' = [worker EXCEPT ![w].at = "claimed", ![w].sequence = n]
  BY <1>1, <1>2, <1>5, ClaimTakes
<1>6. QED BY <1>3, <1>4, <1>5 DEF Claim

\* A message is looked at again before it is mailed.
LEMMA CheckInv ==
  ASSUME MessagingInv, TalkBounded, EmailInv, NEW w \in Workers, Check(w)
  PROVE  EmailInv' /\ TalkBounded'
<1> PICK a \in {"valid", "invalid"} :
          /\ a = "valid" => Actionable(worker[w].key, worker[w].sequence)
          /\ worker' = [worker EXCEPT ![w].at = a]
  BY DEF Check
<1>1. UNCHANGED <<messaging, row, task, capture, mailed, faults>> /\ worker[w].at = "claimed"
  BY DEF Check
<1>2. /\ worker' \in [Workers -> Delivery]
      /\ worker'[w].at = a /\ worker'[w].sequence = worker[w].sequence
      /\ worker'[w].key = worker[w].key /\ worker'[w].name = worker[w].name
      /\ \A v \in Workers : v # w => worker'[v] = worker[v]
  BY <1>1, MovesOn DEF EmailInv, Delivering
<1>3. EmailType'
  BY <1>1, <1>2 DEF EmailInv, EmailType
<1>4. \A k \in Keys, n \in Names : Attempts(k, n)' \subseteq Attempts(k, n)
  BY <1>1, <1>2 DEF Attempts
<1>5. \A k \in Keys, n \in Names : Claimable(k, n)' = Claimable(k, n)
  BY <1>1, <1>2 DEF Claimable, Active
<1>6. Budget'
  BY <1>1, <1>3, <1>4, <1>5, FaultsCount, BudgetKept DEF EmailInv, Budget
<1>7. Future'
  BY <1>1, <1>4, Rested DEF Future, Fresh
<1>8. Current'
  BY <1>1, <1>2 DEF EmailInv, Current, Delivering
<1>9. Mailing'
  <2>1. ASSUME a = "valid" PROVE worker[w].sequence \in Names
    <3>1. worker[w].key \in Keys /\ worker[w].sequence \in Nat
      BY <1>1 DEF EmailInv, EmailType, Delivery
    <3>2. worker[w].key[1] \in Conversations /\ worker[w].key[2] \in Users
      BY <3>1, KeyIs
    <3>3. talk[worker[w].key[1]].read[worker[w].key[2]] \in Nat
      <4>1. talk[worker[w].key[1]] \in Conversation
        BY <3>2, Typed DEF MessagingInv
      <4>2. QED BY <3>2, <4>1 DEF Conversation
    <3>4. /\ talk[worker[w].key[1]].sequence = worker[w].sequence
          /\ talk[worker[w].key[1]].read[worker[w].key[2]] < worker[w].sequence
      BY <2>1 DEF Actionable
    <3>5. worker[w].sequence <= MaxChanges
      BY <3>2, <3>4 DEF TalkBounded
    <3>6. QED BY <3>1, <3>3, <3>4, <3>5 DEF Names
  <2>2. QED BY <1>1, <1>2, <2>1 DEF EmailInv, Mailing
<1>10. RowEnded'
  BY <1>1 DEF EmailInv, RowEnded
<1>11. QED BY <1>1, <1>3, <1>6, <1>7, <1>8, <1>9, <1>10, Rested DEF EmailInv

\* A message is mailed.
LEMMA MailInv ==
  ASSUME MessagingInv, TalkBounded, EmailInv,
         NEW w \in Workers, NEW k \in Keys, NEW n \in Names,
         worker[w].key = k, worker[w].sequence = n, Mail(w)
  PROVE  EmailInv' /\ TalkBounded'
<1>1. /\ UNCHANGED <<messaging, row, task, capture, faults>> /\ worker[w].at = "valid"
      /\ worker' = [worker EXCEPT ![w].at = "mailed"]
      /\ mailed' = [mailed EXCEPT ![k][n] = mailed[k][n] + 1]
  BY DEF Mail
<1>2. /\ worker' \in [Workers -> Delivery]
      /\ worker'[w].at = "mailed" /\ worker'[w].sequence = n /\ worker'[w].key = k
      /\ worker'[w].name = worker[w].name
      /\ \A v \in Workers : v # w => worker'[v] = worker[v]
  BY <1>1, MovesOn DEF EmailInv, Delivering
<1>3. /\ mailed' \in [Keys -> [Names -> Nat]] /\ mailed'[k][n] = mailed[k][n] + 1
      /\ \A j \in Keys, i \in Names :
           /\ mailed[j][i] \in Nat /\ mailed'[j][i] \in Nat /\ mailed[j][i] <= mailed'[j][i]
           /\ ~(j = k /\ i = n) => mailed'[j][i] = mailed[j][i]
  <2>1. mailed \in [Keys -> [Names -> Nat]]
    BY DEF EmailInv, EmailType
  <2>2. mailed[k][n] + 1 \in Nat
    BY <2>1
  <2>3. mailed' \in [Keys -> [Names -> Nat]]
    BY <1>1, <2>1, <2>2
  <2>4. \A j \in Keys, i \in Names :
          mailed'[j][i] = IF j = k /\ i = n THEN mailed[k][n] + 1 ELSE mailed[j][i]
    BY <1>1, <2>1
  <2>5. \A j \in Keys, i \in Names : mailed[j][i] \in Nat
    BY <2>1
  <2>6. QED BY <2>3, <2>4, <2>5
<1>4. EmailType'
  BY <1>1, <1>2, <1>3 DEF EmailInv, EmailType
<1>5. /\ w \in Attempts(k, n)
      /\ \A j \in Keys, i \in Names :
           Attempts(j, i)' = IF j = k /\ i = n THEN Attempts(j, i) \ {w} ELSE Attempts(j, i)
  BY <1>1, <1>2 DEF Attempts
<1>6. \A j \in Keys, i \in Names : Claimable(j, i)' = Claimable(j, i)
  BY <1>1, <1>2 DEF Claimable, Active
<1>7. Budget'
  <2> SUFFICES ASSUME NEW j \in Keys, NEW i \in Names PROVE BudgetOf(j, i)'
    BY DEF Budget
  <2>1. BudgetOf(j, i) /\ EmailType
    BY DEF EmailInv, Budget
  <2>2. CASE j = k /\ i = n
    BY <1>1, <1>3, <1>4, <1>5, <1>6, <2>1, <2>2, BudgetSpent
  <2>3. CASE ~(j = k /\ i = n)
    BY <1>1, <1>3, <1>4, <1>5, <1>6, <2>1, <2>3, FaultsCount, BudgetKept
  <2>4. QED BY <2>2, <2>3
<1>8. Future'
  <2> SUFFICES ASSUME NEW j \in Keys, NEW i \in Names,
                      \/ i > talk'[j[1]].sequence
                      \/ \E c \in capture' : c.key = j /\ c.sequence = i /\ c.at = "committed"
               PROVE  Fresh(j, i)'
    BY DEF Future
  <2>1. Fresh(j, i)
    BY <1>1, Rested
  <2>2. ~(j = k /\ i = n)
    BY <1>5, <2>1 DEF Fresh
  <2>3. QED BY <1>1, <1>3, <1>5, <2>1, <2>2 DEF Fresh
<1>9. Current'
  BY <1>1, <1>2 DEF EmailInv, Current, Delivering
<1>10. Mailing'
  <2> SUFFICES ASSUME NEW v \in Workers, worker'[v].at \in {"valid", "mailed"}
               PROVE  /\ worker'[v].sequence \in Names
                      /\ worker'[v].at = "mailed" => mailed'[worker'[v].key][worker'[v].sequence] > 0
    BY DEF Mailing
  <2>1. CASE v = w
    BY <1>2, <1>3, <2>1
  <2>2. CASE v # w
    <3>1. worker'[v] = worker[v] /\ worker[v].key \in Keys /\ worker[v].sequence \in Names
          /\ (worker[v].at = "mailed" => mailed[worker[v].key][worker[v].sequence] > 0)
      BY <1>2, <2>2 DEF EmailInv, EmailType, Mailing
    <3>2. QED BY <1>3, <3>1
  <2>3. QED BY <2>1, <2>2
<1>11. RowEnded'
  BY <1>1 DEF EmailInv, RowEnded
<1>12. QED BY <1>1, <1>4, <1>7, <1>8, <1>9, <1>10, <1>11, Rested DEF EmailInv

\* A delivery ends, or is broken off, and its row is left, ended or given back.
LEMMA EndInv ==
  ASSUME MessagingInv, TalkBounded, EmailInv, NEW w \in Workers, NEW k \in Keys,
         worker[w].key = k, worker[w].at # "idle", worker' = Freed(w),
         UNCHANGED <<messaging, capture, mailed>>, faults <= faults', faults' \in Nat,
         task' \in [Keys -> [Names -> {"none", "delayed", "ready", "done"}]],
         row' \in [Keys -> Row], \A j \in Keys : j # k => row'[j] = row[j],
         row'[k].sequence \in {row[k].sequence, 0},
         row'[k].state \in {"none", "sent", "suppressed"} => row'[k].sequence = 0,
         row'[k].state = "sending" => row'[k] = row[k],
         \A n \in Names : Claimable(k, n)' => Claimable(k, n) \/ faults + 1 <= faults'
  PROVE  EmailInv' /\ TalkBounded'
<1>1. /\ worker' \in [Workers -> Delivery] /\ worker'[w].at = "idle"
      /\ \A v \in Workers : v # w => worker'[v] = worker[v]
  BY FreedIs DEF EmailInv
<1>2. EmailType'
  BY <1>1 DEF EmailInv, EmailType
<1>3. \A j \in Keys, n \in Names : Attempts(j, n)' \subseteq Attempts(j, n)
  BY <1>1 DEF Attempts
<1>4. \A j \in Keys, n \in Names : Claimable(j, n)' => Claimable(j, n) \/ faults + 1 <= faults'
  <2> SUFFICES ASSUME NEW j \in Keys, NEW n \in Names, j # k
               PROVE  Claimable(j, n)' => Claimable(j, n)
    OBVIOUS
  <2>1. Active(j)' = Active(j)
    BY <1>1 DEF Active
  <2>2. QED BY <2>1 DEF Claimable
<1>5. Budget'
  BY <1>2, <1>3, <1>4, BudgetKept DEF EmailInv, Budget
<1>6. Future'
  <2> SUFFICES ASSUME NEW j \in Keys, NEW i \in Names,
                      \/ i > talk'[j[1]].sequence
                      \/ \E c \in capture' : c.key = j /\ c.sequence = i /\ c.at = "committed"
               PROVE  Fresh(j, i)'
    BY DEF Future
  <2>1. Fresh(j, i)
    BY Rested
  <2>2. row'[j].sequence # i
    BY <2>1 DEF Fresh, Names
  <2>3. QED BY <1>3, <2>1, <2>2 DEF Fresh
<1>7. RowEnded'
  BY DEF EmailInv, RowEnded
<1>8. Current'
  <2> SUFFICES ASSUME NEW v \in Workers, worker'[v].at \in Delivering,
                      row'[worker'[v].key].state = "sending", row'[worker'[v].key].holder = v
               PROVE  worker'[v].sequence = row'[worker'[v].key].sequence
    BY DEF Current
  <2>1. v # w /\ worker'[v] = worker[v] /\ worker[v].key \in Keys
    BY <1>1 DEF EmailInv, EmailType, Delivering
  <2>2. row'[worker[v].key] = row[worker[v].key]
    BY <2>1
  <2>3. QED BY <2>1, <2>2 DEF EmailInv, Current
<1>9. Mailing'
  BY <1>1 DEF EmailInv, Mailing
<1>10. QED BY <1>2, <1>5, <1>6, <1>7, <1>8, <1>9, Rested DEF EmailInv

\* A delivery is finished.
LEMMA FinishInv ==
  ASSUME MessagingInv, TalkBounded, EmailInv, NEW w \in Workers, NEW k \in Keys,
         worker[w].key = k, Finish(w)
  PROVE  EmailInv' /\ TalkBounded'
<1> DEFINE s == IF worker[w].at = "mailed" THEN "sent" ELSE "suppressed"
<1>1. /\ UNCHANGED <<messaging, capture, mailed, faults>>
      /\ worker[w].at \in {"mailed", "invalid"} /\ worker[w].at # "idle"
      /\ task' = Acknowledged(w) /\ worker' = Freed(w)
      /\ row' = IF Owns(w) THEN [row EXCEPT ![k] = Ended(s)] ELSE row
  BY DEF Finish
<1>2. /\ row \in [Keys -> Row] /\ faults' \in Nat /\ faults <= faults'
      /\ task' \in [Keys -> [Names -> {"none", "delayed", "ready", "done"}]]
  BY <1>1, FaultsCount, AcknowledgedIs DEF EmailInv, EmailType
<1>3. CASE Owns(w)
  <2>1. s \in {"sent", "suppressed"} /\ s \in States
    BY DEF States
  <2>2. Ended(s) \in Row /\ Ended(s).sequence = 0 /\ Ended(s).state = s
    BY <2>1, EndedIs
  <2> HIDE DEF s
  <2>3. /\ row' \in [Keys -> Row] /\ row'[k] = Ended(s)
        /\ \A j \in Keys : j # k => row'[j] = row[j]
    BY <1>1, <1>3, <2>2, RowMoves DEF EmailInv
  <2>4. row'[k].sequence = 0 /\ row'[k].state \in {"sent", "suppressed"}
    BY <2>1, <2>2, <2>3
  <2>5. \A n \in Names : ~Claimable(k, n)'
    BY <2>4 DEF Claimable, Names
  <2>6. row'[k].state # "sending"
    BY <2>4
  <2>7. QED BY <1>1, <1>2, <2>3, <2>4, <2>5, <2>6, EndInv
<1>4. CASE ~Owns(w)
  <2>1. row' = row
    BY <1>1, <1>4
  <2>2. ~(row[k].state = "sending" /\ row[k].holder = w)
    BY <1>1, <1>4 DEF EmailInv, Current, Owns, Delivering
  <2>3. /\ worker'[w].at = "idle" /\ \A v \in Workers : v # w => worker'[v] = worker[v]
    BY <1>1, FreedIs DEF EmailInv
  <2>4. row[k].state = "sending" => Active(k)' = Active(k)
    BY <2>1, <2>2, <2>3 DEF Active
  <2>5. \A n \in Names : Claimable(k, n)' => Claimable(k, n)
    BY <2>1, <2>4 DEF Claimable
  <2>6. row'[k].state \in {"none", "sent", "suppressed"} => row'[k].sequence = 0
    BY <2>1 DEF EmailInv, RowEnded
  <2>7. QED BY <1>1, <1>2, <2>1, <2>5, <2>6, EndInv
<1>5. QED BY <1>3, <1>4

\* A delivery raises.
LEMMA RaiseInv ==
  ASSUME MessagingInv, TalkBounded, EmailInv, NEW w \in Workers, NEW k \in Keys,
         worker[w].key = k, Raise(w), faults' = faults + 1
  PROVE  EmailInv' /\ TalkBounded'
<1> DEFINE f == [row[k] EXCEPT !.state = "pending", !.holder = Nobody, !.lease = FALSE]
<1>1. /\ UNCHANGED <<messaging, task, capture, mailed>>
      /\ worker[w].at \in Delivering /\ worker[w].at # "idle" /\ worker' = Freed(w)
  BY DEF Raise, Delivering
<1>2. /\ row \in [Keys -> Row] /\ row[k] \in Row /\ faults' \in Nat /\ faults <= faults'
      /\ faults + 1 <= faults'
      /\ task' \in [Keys -> [Names -> {"none", "delayed", "ready", "done"}]]
  BY <1>1, FaultsCount DEF EmailInv, EmailType
<1>3. CASE row[k].holder = w
  <2>1. row' = [row EXCEPT ![k] = f]
    BY <1>2, <1>3 DEF Raise
  <2>2. f \in Row /\ f.sequence = row[k].sequence /\ f.state = "pending"
    BY <1>2 DEF Row, States
  <2> HIDE DEF f
  <2>3. /\ row' \in [Keys -> Row] /\ row'[k] = f
        /\ \A j \in Keys : j # k => row'[j] = row[j]
    BY <2>1, <2>2, RowMoves DEF EmailInv
  <2>4. row'[k].sequence = row[k].sequence /\ row'[k].state = "pending"
    BY <2>2, <2>3
  <2>5. QED BY <1>1, <1>2, <2>3, <2>4, EndInv
<1>4. CASE row[k].holder # w
  <2>1. row' = row
    BY <1>4 DEF Raise
  <2>2. row'[k].state \in {"none", "sent", "suppressed"} => row'[k].sequence = 0
    BY <2>1 DEF EmailInv, RowEnded
  <2>3. QED BY <1>1, <1>2, <2>1, <2>2, EndInv
<1>5. QED BY <1>3, <1>4

\* A worker stops.
LEMMA StopInv ==
  ASSUME MessagingInv, TalkBounded, EmailInv, NEW w \in Workers, NEW k \in Keys,
         worker[w].key = k, Stop(w), faults' = faults + 1
  PROVE  EmailInv' /\ TalkBounded'
<1>1. /\ UNCHANGED <<messaging, row, task, capture, mailed>>
      /\ worker[w].at # "idle" /\ worker' = Freed(w)
  BY DEF Stop
<1>2. /\ row' \in [Keys -> Row] /\ faults' \in Nat /\ faults <= faults' /\ faults + 1 <= faults'
      /\ task' \in [Keys -> [Names -> {"none", "delayed", "ready", "done"}]]
  BY <1>1, FaultsCount DEF EmailInv, EmailType
<1>3. row'[k].state \in {"none", "sent", "suppressed"} => row'[k].sequence = 0
  BY <1>1 DEF EmailInv, RowEnded
<1>4. QED BY <1>1, <1>2, <1>3, EndInv

\* What a step does to the messages is one of their own steps.
LEMMA MessagingSteps == [Next]_vars => [MessagingNext]_messaging
<1> SUFFICES ASSUME [Next]_vars PROVE [MessagingNext]_messaging
  OBVIOUS
<1>1. CASE \E t \in Conversations, u \in Users, op \in Operations : SendAndCapture(t, u, op)
  BY <1>1 DEF SendAndCapture, MessagingNext
<1>2. CASE \E u \in Users : Using(u) /\ UNCHANGED email
  BY <1>2 DEF MessagingNext
<1>3. CASE \E c \in capture : Capture(c)
  BY <1>3 DEF Capture, Upsert, Enqueue, MarkScheduled
<1>4. CASE \E k \in Keys : Passing(k)
  BY <1>4 DEF Passing, FallDue, Elapse, Expire
<1>5. CASE \E w \in Workers : (\E k \in Keys, n \in Names : Take(w, k, n)) \/ Deliver(w)
  BY <1>5 DEF Take, Deliver, Reschedule, MarkRescheduled, Claim, Check, Mail, Finish
<1>6. CASE Fault
  BY <1>6 DEF Fault, Raise, Stop, Forget
<1>7. CASE UNCHANGED vars
  BY <1>7 DEF vars, messaging
<1>8. QED BY <1>1, <1>2, <1>3, <1>4, <1>5, <1>6, <1>7 DEF Next

-----------------------------------------------------------------------------
(* The inductive invariant of the system *)

IInv == MessagingInv /\ TalkBounded /\ EmailInv /\ asked \subseteq Subscribers

\* Nothing is sent, captured or delivered at first.
LEMMA InitInv == Init => IInv
<1> SUFFICES ASSUME Init PROVE IInv
  OBVIOUS
<1>1. MessagingInv
  BY MessagingInitInv DEF Init
<1>2. TalkBounded
  BY DEF Init, MessagingInit, NewConversation, TalkBounded
<1>3. NoRow \in Row /\ NoRow.sequence = 0 /\ NoRow.state = "none"
  BY DEF NoRow, Row, States
<1>4. /\ \A k \in Keys : row[k] = NoRow /\ \A n \in Names : mailed[k][n] = 0
      /\ \A w \in Workers : worker[w] = Idle
      /\ capture = {} /\ faults = 0
  BY DEF Init
<1>5. EmailType
  BY <1>3, <1>4, IdleIs DEF Init, EmailType
<1>6. \A k \in Keys, n \in Names : Attempts(k, n) = {} /\ ~Claimable(k, n)
  BY <1>3, <1>4, IdleIs DEF Attempts, Claimable, Names
<1>7. Budget
  <2> SUFFICES ASSUME NEW k \in Keys, NEW n \in Names PROVE BudgetOf(k, n)
    BY DEF Budget
  <2>1. Cardinality(Attempts(k, n)) = 0
    BY <1>6, FS_EmptySet
  <2>2. QED BY <1>4, <1>6, <2>1 DEF BudgetOf
<1>8. Future
  BY <1>3, <1>4, <1>6 DEF Future, Fresh, Names
<1>9. CaptureSent /\ RowEnded /\ Current /\ Mailing
  BY <1>3, <1>4, IdleIs DEF CaptureSent, RowEnded, Current, Mailing, Delivering
<1>10. QED BY <1>1, <1>2, <1>5, <1>7, <1>8, <1>9 DEF IInv, EmailInv, Init

\* A delivery keeps it.
LEMMA DeliverInv ==
  ASSUME MessagingInv, TalkBounded, EmailInv, NEW w \in Workers, Deliver(w)
  PROVE  EmailInv' /\ TalkBounded'
<1>1. CASE Reschedule(w) \/ MarkRescheduled(w)
  BY <1>1, RescheduleInv, MarkRescheduledInv
<1>2. CASE Claim(w) \/ Check(w)
  BY <1>2, ClaimInv, CheckInv
<1>3. CASE Mail(w)
  <2>1. worker[w].key \in Keys /\ worker[w].sequence \in Names
    BY <1>3 DEF Mail, EmailInv, EmailType, Mailing
  <2>2. QED BY <1>3, <2>1, MailInv
<1>4. CASE Finish(w)
  <2>1. worker[w].key \in Keys
    BY <1>4 DEF Finish, EmailInv, EmailType
  <2>2. QED BY <1>4, <2>1, FinishInv
<1>5. QED BY <1>1, <1>2, <1>3, <1>4 DEF Deliver

\* So does a fault.
LEMMA FaultInv ==
  ASSUME MessagingInv, TalkBounded, EmailInv, Fault
  PROVE  EmailInv' /\ TalkBounded'
<1>1. faults' = faults + 1
  BY DEF Fault
<1>2. ASSUME NEW w \in Workers, Raise(w) \/ Stop(w) PROVE EmailInv' /\ TalkBounded'
  <2>1. worker[w].key \in Keys
    BY <1>2 DEF Raise, Stop, EmailInv, EmailType
  <2>2. QED BY <1>1, <1>2, <2>1, RaiseInv, StopInv
<1>3. ASSUME NEW c \in capture, Forget(c) PROVE EmailInv' /\ TalkBounded'
  BY <1>1, <1>3, ForgetInv
<1>4. QED BY <1>2, <1>3 DEF Fault

\* Every step keeps it.
LEMMA NextInv == IInv /\ [Next]_vars => IInv'
<1> SUFFICES ASSUME IInv, [Next]_vars PROVE IInv'
  OBVIOUS
<1>1. MessagingInv /\ TalkBounded /\ EmailInv /\ asked \subseteq Subscribers
  BY DEF IInv
<1>2. MessagingInv'
  BY <1>1, MessagingSteps, MessagingNextInv
<1>3. asked' = asked
  BY DEF Next, vars
<1>4. EmailInv' /\ TalkBounded'
  <2>1. ASSUME NEW t \in Conversations, NEW u \in Users, NEW op \in Operations,
               SendAndCapture(t, u, op)
        PROVE  EmailInv' /\ TalkBounded'
    BY <1>1, <2>1, SendAndCaptureInv
  <2>2. ASSUME NEW u \in Users, Using(u), UNCHANGED email
        PROVE  EmailInv' /\ TalkBounded'
    BY <1>1, <2>2, UsingInv
  <2>3. ASSUME NEW c \in capture, Capture(c)
        PROVE  EmailInv' /\ TalkBounded'
    BY <1>1, <2>3, UpsertInv, EnqueueInv, MarkScheduledInv DEF Capture
  <2>4. ASSUME NEW k \in Keys, Passing(k)
        PROVE  EmailInv' /\ TalkBounded'
    BY <1>1, <2>4, FallDueInv, ElapseInv, ExpireInv DEF Passing
  <2>5. ASSUME NEW w \in Workers, NEW k \in Keys, NEW n \in Names, Take(w, k, n)
        PROVE  EmailInv' /\ TalkBounded'
    BY <1>1, <2>5, TakeInv
  <2>6. ASSUME NEW w \in Workers, Deliver(w)
        PROVE  EmailInv' /\ TalkBounded'
    BY <1>1, <2>6, DeliverInv
  <2>7. CASE Fault
    BY <1>1, <2>7, FaultInv
  <2>8. CASE UNCHANGED vars
    <3>1. UNCHANGED <<talk, row, task, capture, worker, mailed, faults>>
      BY <2>8 DEF vars, messaging, email
    <3>2. EmailType' /\ TalkBounded' /\ CaptureSent' /\ RowEnded' /\ Current' /\ Mailing'
      BY <1>1, <3>1 DEF EmailInv, EmailType, TalkBounded, CaptureSent, RowEnded, Current, Mailing
    <3>3. \A k \in Keys, n \in Names :
            BudgetOf(k, n)' = BudgetOf(k, n) /\ Fresh(k, n)' = Fresh(k, n)
      BY <3>1 DEF BudgetOf, Fresh, Attempts, Claimable, Active
    <3>4. Budget' /\ Future'
      BY <1>1, <3>1, <3>3 DEF EmailInv, Budget, Future
    <3>5. QED BY <3>2, <3>4 DEF EmailInv
  <2>9. QED BY <2>1, <2>2, <2>3, <2>4, <2>5, <2>6, <2>7, <2>8 DEF Next
<1>5. QED BY <1>1, <1>2, <1>3, <1>4 DEF IInv

-----------------------------------------------------------------------------
(* The tasks of a row *)

InUse(k) == row[k].state \in {"pending", "sending"}

\* A worker that runs a task.
Named(w, k, n) == worker[w].at # "idle" /\ worker[w].key = k /\ worker[w].name = n

\* A worker whose task came too early.
Early(w) == worker[w].at = "rescheduled" \/ (worker[w].at = "read" /\ ~worker[w].due)

\* Nothing of a message that is still to be sent or put in its row exists.
Untouched(k, n) ==
  /\ task[k][n] = "none" /\ row[k].sequence # n
  /\ \A w \in Workers : worker[w].at # "idle" /\ worker[w].key = k => worker[w].sequence # n
  /\ \A c \in capture : c.key = k /\ c.sequence = n => c.at = "committed"

Ahead ==
  \A k \in Keys, n \in Names :
    \/ n > talk[k[1]].sequence
    \/ \E c \in capture : c.key = k /\ c.sequence = n /\ c.at = "committed"
    => Untouched(k, n)

\* Who runs a task, or has enqueued one, has one.
Delivered ==
  /\ \A w \in Workers : worker[w].at # "idle" => task[worker[w].key][worker[w].name] # "none"
  /\ \A c \in capture : c.at # "committed" =>
       row[c.key].state # "none" /\ (c.at = "enqueued" => task[c.key][c.sequence] # "none")
  /\ \A w \in Workers : Early(w) =>
       /\ worker[w].sequence \in Names
       /\ worker[w].at = "rescheduled" => task[worker[w].key][worker[w].sequence] # "none"

\* The task named after a row's message is not run before the row is due.
OnTime ==
  \A k \in Keys, n \in Names : row[k].sequence = n /\ ~row[k].due =>
    task[k][n] \in {"none", "delayed"} /\ \A w \in Workers : ~Named(w, k, n)

\* A row in use names a message, any other is neither scheduled nor held, and one that was never
\* in use has no tasks.
RowsUsed ==
  \A k \in Keys :
    /\ InUse(k) => row[k].sequence \in Names
    /\ ~InUse(k) => row[k].scheduled = 0 /\ row[k].holder = Nobody
    /\ row[k].state = "none" => \A n \in Names : task[k][n] = "none"

TaskInv == Ahead /\ Delivered /\ OnTime /\ RowsUsed

-----------------------------------------------------------------------------
(* How rows, tasks, workers and captures move *)

\* A row stays in use, with its message, or ends.
RowGoes(k) ==
  \/ /\ row'[k].sequence = row[k].sequence /\ (InUse(k)' <=> InUse(k))
     /\ row[k].due => row'[k].due
     /\ InUse(k) \/ (row'[k].scheduled = row[k].scheduled /\ row'[k].holder = row[k].holder)
     /\ row'[k].state = "none" => row[k].state = "none"
  \/ /\ ~InUse(k)' /\ row'[k].state # "none" /\ row'[k].sequence = 0
     /\ row'[k].scheduled = 0 /\ row'[k].holder = Nobody

\* A task stays, gets ready, is acknowledged by who runs it, or is enqueued.
TaskGoes(k, n) ==
  \/ task'[k][n] = task[k][n]
  \/ task[k][n] # "none" /\ task'[k][n] # "none" /\ (row[k].sequence = n => row'[k].due)
  \/ task[k][n] # "none" /\ task'[k][n] # "none" /\ \E w \in Workers : Named(w, k, n)
  \/ /\ task[k][n] = "none" /\ task'[k][n] = "delayed"
     /\ ~Untouched(k, n) /\ row[k].state # "none" /\ row'[k].state # "none"

\* A worker is freed, takes a task that is ready, or goes on.
WorkerGoes(w) ==
  \/ worker'[w] = worker[w]
  \/ worker'[w].at = "idle"
  \/ /\ worker[w].at = "idle" /\ worker'[w].at = "read"
     /\ worker'[w].key \in Keys /\ worker'[w].name \in Names
     /\ task[worker'[w].key][worker'[w].name] = "ready"
     /\ worker'[w].sequence = row[worker'[w].key].sequence
     /\ ~worker'[w].due => ~row[worker'[w].key].due /\ ~Terminal(worker'[w].key)
  \/ /\ worker[w].at # "idle" /\ worker'[w].at # "idle"
     /\ worker'[w].key = worker[w].key /\ worker'[w].name = worker[w].name
     /\ \/ worker'[w].sequence = worker[w].sequence
        \/ worker'[w].sequence = row[worker[w].key].sequence
     /\ Early(w)' => /\ Early(w) /\ worker'[w].sequence = worker[w].sequence
                     /\ worker'[w].at = "rescheduled" => task'[worker[w].key][worker[w].sequence] # "none"

\* A capture stays, or its task is enqueued.
CaptureGoes(c) ==
  \/ c \in capture
  \/ /\ c.at = "enqueued" /\ c.key \in Keys /\ c.sequence \in Names
     /\ task'[c.key][c.sequence] # "none"
     /\ \E d \in capture : d.key = c.key /\ d.sequence = c.sequence /\ d.at # "committed"

Goes ==
  /\ \A t \in Conversations : talk'[t].sequence = talk[t].sequence
  /\ \A k \in Keys : RowGoes(k) /\ \A n \in Names : TaskGoes(k, n)
  /\ \A w \in Workers : WorkerGoes(w)
  /\ \A c \in capture' : CaptureGoes(c)

\* Steps that move like this keep the tasks in order.
LEMMA GoesOn ==
  ASSUME EmailType, EmailType', TaskInv, Goes
  PROVE  TaskInv'
<1>1. /\ \A w \in Workers : worker[w].at # "idle" => worker[w].key \in Keys /\ worker[w].name \in Names
      /\ \A w \in Workers : worker'[w].at # "idle" => worker'[w].key \in Keys /\ worker'[w].name \in Names
      /\ \A c \in capture : c.key \in Keys /\ c.sequence \in Names
  BY DEF EmailType, Captures
<1>2. \A k \in Keys, n \in Names : task[k][n] # "none" => task'[k][n] # "none"
  BY DEF Goes, TaskGoes
<1>3. ASSUME NEW k \in Keys, NEW n \in Names, Untouched(k, n)
      PROVE  Untouched(k, n)'
  <2>1. task'[k][n] = "none"
    <3>1. \A w \in Workers : ~Named(w, k, n)
      BY <1>3 DEF TaskInv, Delivered, Named, Untouched
    <3>2. QED BY <1>3, <3>1 DEF Goes, TaskGoes, Untouched
  <2>2. row'[k].sequence # n
    <3>1. n # 0
      BY DEF Names
    <3>2. QED BY <1>3, <3>1 DEF Goes, RowGoes, Untouched
  <2>3. ASSUME NEW w \in Workers, worker'[w].at # "idle", worker'[w].key = k
        PROVE  worker'[w].sequence # n
    BY <1>3, <2>3 DEF Goes, WorkerGoes, Untouched
  <2>4. ASSUME NEW c \in capture', c.key = k, c.sequence = n
        PROVE  c.at = "committed"
    BY <1>3, <2>4 DEF Goes, CaptureGoes, Untouched
  <2>5. QED BY <2>1, <2>2, <2>3, <2>4 DEF Untouched
<1>4. Ahead'
  <2> SUFFICES ASSUME NEW k \in Keys, NEW n \in Names,
                      \/ n > talk'[k[1]].sequence
                      \/ \E c \in capture' : c.key = k /\ c.sequence = n /\ c.at = "committed"
               PROVE  Untouched(k, n)'
    BY DEF Ahead
  <2>1. \/ n > talk[k[1]].sequence
        \/ \E c \in capture : c.key = k /\ c.sequence = n /\ c.at = "committed"
    BY KeyIs DEF Goes, CaptureGoes
  <2>2. QED BY <1>3, <2>1 DEF TaskInv, Ahead
<1>5. ASSUME NEW w \in Workers, worker'[w].at # "idle"
      PROVE  task'[worker'[w].key][worker'[w].name] # "none"
  BY <1>1, <1>2, <1>5 DEF Goes, WorkerGoes, TaskInv, Delivered
<1>6. ASSUME NEW c \in capture', c.at # "committed"
      PROVE  row'[c.key].state # "none" /\ (c.at = "enqueued" => task'[c.key][c.sequence] # "none")
  <2>1. \A k \in Keys : row'[k].state = "none" => row[k].state = "none"
    BY DEF Goes, RowGoes
  <2>2. QED BY <1>1, <1>2, <1>6, <2>1 DEF Goes, CaptureGoes, TaskInv, Delivered
<1>7. ASSUME NEW w \in Workers, Early(w)'
      PROVE  /\ worker'[w].sequence \in Names
             /\ worker'[w].at = "rescheduled" => task'[worker'[w].key][worker'[w].sequence] # "none"
  <2>1. CASE worker'[w] = worker[w]
    <3>1. Early(w) /\ worker[w].at # "idle"
      BY <1>7, <2>1 DEF Early
    <3>2. QED BY <1>1, <1>2, <2>1, <3>1 DEF TaskInv, Delivered
  <2>2. CASE worker[w].at = "idle" /\ worker'[w].at = "read" /\ worker'[w] # worker[w]
    <3> DEFINE k == worker'[w].key
    <3>1. k \in Keys /\ task[k][worker'[w].name] = "ready" /\ worker'[w].name \in Names
          /\ worker'[w].sequence = row[k].sequence /\ ~Terminal(k)
      BY <1>7, <2>2 DEF Goes, WorkerGoes, Early
    <3>2. row[k].state # "none" /\ row[k].state \in States
      BY <3>1 DEF TaskInv, RowsUsed, EmailType, Row
    <3>3. QED BY <2>2, <3>1, <3>2 DEF TaskInv, RowsUsed, InUse, Terminal, States
  <2>3. CASE worker[w].at # "idle" /\ worker'[w].at # "idle" /\ worker'[w] # worker[w]
    BY <1>7, <2>3 DEF Goes, WorkerGoes, TaskInv, Delivered
  <2>4. worker'[w].at # "idle"
    BY <1>7 DEF Early
  <2>5. QED BY <2>1, <2>2, <2>3, <2>4 DEF Goes, WorkerGoes
<1>8. OnTime'
  <2> SUFFICES ASSUME NEW k \in Keys, NEW n \in Names, row'[k].sequence = n, ~row'[k].due
               PROVE  task'[k][n] \in {"none", "delayed"} /\ \A w \in Workers : ~Named(w, k, n)'
    BY DEF OnTime
  <2>1. n # 0
    BY DEF Names
  <2>2. row[k].sequence = n /\ ~row[k].due
    BY <2>1 DEF Goes, RowGoes
  <2>3. task[k][n] \in {"none", "delayed"} /\ \A w \in Workers : ~Named(w, k, n)
    BY <2>2 DEF TaskInv, OnTime
  <2>4. task'[k][n] \in {"none", "delayed"}
    BY <2>2, <2>3 DEF Goes, TaskGoes
  <2>5. ASSUME NEW w \in Workers PROVE ~Named(w, k, n)'
    BY <2>3 DEF Goes, WorkerGoes, Named
  <2>6. QED BY <2>4, <2>5
<1>9. RowsUsed'
  <2> SUFFICES ASSUME NEW k \in Keys
               PROVE  /\ InUse(k)' => row'[k].sequence \in Names
                      /\ ~InUse(k)' => row'[k].scheduled = 0 /\ row'[k].holder = Nobody
                      /\ row'[k].state = "none" => \A n \in Names : task'[k][n] = "none"
    BY DEF RowsUsed
  <2>1. RowGoes(k) /\ \A n \in Names : TaskGoes(k, n)
    BY DEF Goes
  <2>2. /\ InUse(k)' => row'[k].sequence \in Names
        /\ ~InUse(k)' => row'[k].scheduled = 0 /\ row'[k].holder = Nobody
    BY <2>1 DEF RowGoes, TaskInv, RowsUsed
  <2>3. ASSUME row'[k].state = "none", NEW n \in Names PROVE task'[k][n] = "none"
    BY <2>1, <2>3 DEF RowGoes, TaskGoes, TaskInv, RowsUsed
  <2>4. QED BY <2>2, <2>3
<1>10. QED BY <1>4, <1>5, <1>6, <1>7, <1>8, <1>9 DEF TaskInv, Delivered

\* A new task is enqueued for a message that is in its row.
LEMMA EnqueuedGoes ==
  ASSUME EmailType, TaskInv, NEW k \in Keys, NEW n \in Names, task' = Enqueued(k, n),
         ~Untouched(k, n), row[k].state # "none", row' = row
  PROVE  /\ \A j \in Keys, i \in Names : TaskGoes(j, i)
         /\ task'[k][n] # "none"
         /\ \A j \in Keys, i \in Names : j # k \/ i # n => task'[j][i] = task[j][i]
         /\ task'[k][n] = IF task[k][n] = "none" THEN "delayed" ELSE task[k][n]
<1>1. /\ \A j \in Keys, i \in Names : j # k \/ i # n => task'[j][i] = task[j][i]
      /\ task'[k][n] = IF task[k][n] = "none" THEN "delayed" ELSE task[k][n]
  BY DEF Enqueued, EmailType
<1>2. QED BY <1>1 DEF TaskGoes

\* The task of a delivery is acknowledged.
LEMMA AcknowledgedGoes ==
  ASSUME EmailType, TaskInv, NEW w \in Workers, worker[w].at # "idle", task' = Acknowledged(w)
  PROVE  /\ \A j \in Keys, i \in Names : TaskGoes(j, i)
         /\ task'[worker[w].key][worker[w].name] = "done"
         /\ \A j \in Keys, i \in Names : ~Named(w, j, i) => task'[j][i] = task[j][i]
<1>1. worker[w].key \in Keys /\ worker[w].name \in Names
      /\ task[worker[w].key][worker[w].name] # "none"
  BY DEF EmailType, TaskInv, Delivered
<1>2. /\ task'[worker[w].key][worker[w].name] = "done"
      /\ \A j \in Keys, i \in Names : ~Named(w, j, i) => task'[j][i] = task[j][i]
  BY <1>1 DEF Acknowledged, EmailType, Named
<1>3. ASSUME NEW j \in Keys, NEW i \in Names
      PROVE  TaskGoes(j, i)
  BY <1>1, <1>2 DEF TaskGoes, Named
<1>4. QED BY <1>2, <1>3

\* A row that is noted.
LEMMA ScheduledGoes ==
  ASSUME EmailInv, TaskInv, NEW k \in Keys, NEW n \in Names, row' = Scheduled(k, n)
  PROVE  /\ \A j \in Keys : RowGoes(j)
         /\ \A j \in Keys : row'[j].due = row[j].due /\ SameRow(j)
         /\ \A j \in Keys : row'[j].scheduled # row[j].scheduled => j = k /\ row[k].sequence = n
<1>1. row \in [Keys -> Row] /\ n # 0
  BY DEF EmailInv, EmailType, Names
<1>2. /\ \A j \in Keys : row'[j].due = row[j].due /\ SameRow(j)
      /\ \A j \in Keys : row'[j].scheduled # row[j].scheduled => j = k /\ row[k].sequence = n
  BY <1>1 DEF Scheduled, SameRow, Row
<1>3. row[k].sequence = n => InUse(k)
  BY <1>1 DEF EmailInv, RowEnded, InUse, Row, States
<1>4. ASSUME NEW j \in Keys PROVE RowGoes(j)
  BY <1>2, <1>3 DEF RowGoes, SameRow, InUse
<1>5. QED BY <1>2, <1>4

\* A worker that goes on, and one that is freed.
LEMMA WorkersGo ==
  ASSUME EmailType, NEW w \in Workers,
         \A v \in Workers : v # w => worker'[v] = worker[v], WorkerGoes(w)
  PROVE  \A v \in Workers : WorkerGoes(v)
  BY DEF WorkerGoes

\* How each step of the mailing moves, but for the one that puts a message in its row.
LEMMA EnqueueGoes ==
  ASSUME EmailInv, TaskInv, NEW c \in capture, Enqueue(c), UNCHANGED messaging
  PROVE  Goes
<1>1. c \in Captures /\ c.key \in Keys /\ c.sequence \in Names /\ c.at = "upserted"
  BY CaptureTyped DEF Enqueue
<1>2. ~Untouched(c.key, c.sequence) /\ row[c.key].state # "none"
  BY <1>1 DEF Untouched, TaskInv, Delivered
<1>3. UNCHANGED <<row, worker>> /\ task' = Enqueued(c.key, c.sequence) /\ talk' = talk
  BY DEF Enqueue, messaging
<1>4. task'[c.key][c.sequence] # "none" /\ \A j \in Keys, i \in Names : TaskGoes(j, i)
  BY <1>1, <1>2, <1>3, EnqueuedGoes DEF EmailInv
<1>5. ASSUME NEW d \in capture' PROVE CaptureGoes(d)
  <2> DEFINE e == [c EXCEPT !.at = "enqueued"]
  <2>1. d \in capture \/ d = e
    BY DEF Enqueue
  <2>2. e.at = "enqueued" /\ e.key = c.key /\ e.sequence = c.sequence
    BY <1>1 DEF Captures
  <2>3. QED BY <1>1, <1>4, <2>1, <2>2 DEF CaptureGoes
<1>6. \A k \in Keys : RowGoes(k)
  BY <1>3 DEF RowGoes, InUse
<1>7. QED BY <1>3, <1>4, <1>5, <1>6 DEF Goes, WorkerGoes

\* The same of a task that is noted.
LEMMA MarkScheduledGoes ==
  ASSUME EmailInv, TaskInv, NEW c \in capture, MarkScheduled(c), UNCHANGED messaging
  PROVE  Goes
<1>1. c.key \in Keys /\ c.sequence \in Names
  BY CaptureTyped
<1>2. /\ UNCHANGED <<task, worker>> /\ talk' = talk /\ capture' \subseteq capture
      /\ row' = Scheduled(c.key, c.sequence)
  BY DEF MarkScheduled, messaging
<1>3. \A k \in Keys : RowGoes(k)
  BY <1>1, <1>2, ScheduledGoes
<1>4. QED BY <1>2, <1>3 DEF Goes, WorkerGoes, TaskGoes, CaptureGoes

\* The same of time that passes.
LEMMA PassingGoes ==
  ASSUME EmailInv, TaskInv, NEW k \in Keys, Passing(k), UNCHANGED messaging
  PROVE  Goes
<1>1. /\ row \in [Keys -> Row] /\ task \in [Keys -> [Names -> {"none", "delayed", "ready", "done"}]]
      /\ talk' = talk
  BY DEF EmailInv, EmailType, messaging
<1>2. CASE FallDue(k)
  <2>1. UNCHANGED <<capture, worker>>
    BY <1>2 DEF FallDue
  <2>2. /\ \A j \in Keys : SameRow(j) /\ row'[j].scheduled = row[j].scheduled
        /\ \A j \in Keys : row[j].due => row'[j].due
        /\ row'[k].due
    BY <1>1, <1>2 DEF FallDue, SameRow, Row
  <2>3. \A j \in Keys, n \in Names :
          \/ task'[j][n] = task[j][n]
          \/ j = k /\ task[j][n] = "delayed" /\ task'[j][n] = "ready"
    BY <1>1, <1>2 DEF FallDue
  <2>4. QED BY <1>1, <2>1, <2>2, <2>3
            DEF Goes, RowGoes, TaskGoes, WorkerGoes, CaptureGoes, SameRow, InUse
<1>3. ASSUME NEW n \in Names, Elapse(k, n) PROVE Goes
  <2>1. UNCHANGED <<row, capture, worker>>
    BY <1>3 DEF Elapse
  <2>2. \A j \in Keys, i \in Names :
          \/ task'[j][i] = task[j][i]
          \/ j = k /\ i = n /\ task[j][i] = "delayed" /\ task'[j][i] = "ready"
    BY <1>1, <1>3 DEF Elapse
  <2>3. row[k].sequence = n => row'[k].due
    BY <1>3, <2>1 DEF Elapse
  <2>4. QED BY <1>1, <2>1, <2>2, <2>3 DEF Goes, RowGoes, TaskGoes, WorkerGoes, CaptureGoes, InUse
<1>4. CASE Expire(k)
  <2>1. UNCHANGED <<task, capture, worker>>
    BY <1>4 DEF Expire
  <2>2. \A j \in Keys : /\ row'[j].state = row[j].state /\ row'[j].sequence = row[j].sequence
                        /\ row'[j].scheduled = row[j].scheduled /\ row'[j].due = row[j].due
                        /\ row'[j].holder = row[j].holder
    BY <1>1, <1>4 DEF Expire, Row
  <2>3. QED BY <1>1, <2>1, <2>2 DEF Goes, RowGoes, TaskGoes, WorkerGoes, CaptureGoes, InUse
<1>5. QED BY <1>2, <1>3, <1>4 DEF Passing

\* The same of a task that is taken.
LEMMA TakeGoes ==
  ASSUME EmailInv, TaskInv, UNCHANGED messaging,
         NEW w \in Workers, NEW k \in Keys, NEW n \in Names, Take(w, k, n)
  PROVE  Goes
<1>1. /\ UNCHANGED <<row, task, capture>> /\ talk' = talk
      /\ worker[w].at = "idle" /\ task[k][n] = "ready"
  BY DEF Take, messaging
<1>2. /\ worker'[w] = [at |-> "read", key |-> k, name |-> n, sequence |-> row[k].sequence,
                       due |-> row[k].due \/ Terminal(k)]
      /\ \A v \in Workers : v # w => worker'[v] = worker[v]
  BY DEF Take, EmailInv, EmailType
<1>3. /\ worker'[w].at = "read" /\ worker'[w].key = k /\ worker'[w].name = n
      /\ worker'[w].sequence = row[k].sequence /\ worker'[w].due = (row[k].due \/ Terminal(k))
  BY <1>2
<1>4. WorkerGoes(w)
  BY <1>1, <1>3 DEF WorkerGoes
<1>5. \A v \in Workers : WorkerGoes(v)
  BY <1>2, <1>4, WorkersGo DEF EmailInv
<1>6. QED BY <1>1, <1>5 DEF Goes, RowGoes, TaskGoes, CaptureGoes, InUse

\* The same of the steps of a task that came too early.
LEMMA RescheduleGoes ==
  ASSUME EmailInv, TaskInv, UNCHANGED messaging, NEW w \in Workers, Reschedule(w)
  PROVE  Goes
<1> DEFINE k == worker[w].key
           n == worker[w].sequence
<1>1. /\ UNCHANGED <<row, capture>> /\ talk' = talk
      /\ worker[w].at = "read" /\ ~worker[w].due
      /\ task' = Enqueued(k, n) /\ worker' = [worker EXCEPT ![w].at = "rescheduled"]
  BY DEF Reschedule, messaging
<1>2. /\ k \in Keys /\ n \in Names /\ worker[w].name \in Names /\ Early(w)
      /\ task[k][worker[w].name] # "none"
  BY <1>1 DEF EmailInv, EmailType, TaskInv, Delivered, Early
<1>3. ~Untouched(k, n) /\ row[k].state # "none"
  BY <1>1, <1>2 DEF Untouched, TaskInv, RowsUsed
<1> HIDE DEF k, n
<1>4. task'[k][n] # "none" /\ \A j \in Keys, i \in Names : TaskGoes(j, i)
  BY <1>1, <1>2, <1>3, EnqueuedGoes DEF EmailInv
<1>5. /\ worker'[w].at = "rescheduled" /\ worker'[w].key = worker[w].key
      /\ worker'[w].name = worker[w].name /\ worker'[w].sequence = worker[w].sequence
      /\ \A v \in Workers : v # w => worker'[v] = worker[v]
  BY <1>1 DEF EmailInv, EmailType, Delivery
<1>6. WorkerGoes(w)
  BY <1>1, <1>2, <1>4, <1>5 DEF WorkerGoes, k, n
<1>7. \A v \in Workers : WorkerGoes(v)
  BY <1>5, <1>6, WorkersGo DEF EmailInv
<1>8. QED BY <1>1, <1>4, <1>7 DEF Goes, RowGoes, CaptureGoes, InUse

\* A worker that is freed.
LEMMA FreedGoes ==
  ASSUME EmailInv, NEW w \in Workers, worker' = Freed(w)
  PROVE  /\ worker'[w].at = "idle" /\ \A v \in Workers : v # w => worker'[v] = worker[v]
         /\ \A v \in Workers : WorkerGoes(v)
<1>1. worker'[w].at = "idle" /\ \A v \in Workers : v # w => worker'[v] = worker[v]
  BY FreedIs DEF EmailInv
<1>2. QED BY <1>1 DEF WorkerGoes

\* The same when the new task is noted.
LEMMA MarkRescheduledGoes ==
  ASSUME EmailInv, TaskInv, UNCHANGED messaging, NEW w \in Workers, MarkRescheduled(w)
  PROVE  Goes
<1>1. /\ capture' = capture /\ talk' = talk /\ worker[w].at = "rescheduled"
      /\ row' = Scheduled(worker[w].key, worker[w].sequence)
      /\ task' = Acknowledged(w) /\ worker' = Freed(w)
  BY DEF MarkRescheduled, messaging
<1>2. worker[w].key \in Keys /\ worker[w].sequence \in Names /\ worker[w].at # "idle"
  BY <1>1 DEF EmailInv, EmailType, TaskInv, Delivered, Early
<1>3. \A k \in Keys : RowGoes(k)
  BY <1>1, <1>2, ScheduledGoes
<1>4. \A k \in Keys, n \in Names : TaskGoes(k, n)
  BY <1>1, <1>2, AcknowledgedGoes DEF EmailInv
<1>5. QED BY <1>1, <1>3, <1>4, FreedGoes DEF Goes, CaptureGoes

\* The same of a claim.
LEMMA ClaimGoes ==
  ASSUME EmailInv, TaskInv, UNCHANGED messaging, NEW w \in Workers, Claim(w)
  PROVE  Goes
<1> DEFINE k == worker[w].key
<1>1. /\ capture' = capture /\ talk' = talk /\ worker[w].at = "read" /\ worker[w].due
      /\ k \in Keys /\ row \in [Keys -> Row]
  BY DEF Claim, messaging, EmailInv, EmailType
<1>2. CASE Terminal(k)
  <2>1. row' = row /\ task' = Acknowledged(w) /\ worker' = Freed(w)
    BY <1>2 DEF Claim
  <2>2. \A j \in Keys, n \in Names : TaskGoes(j, n)
    BY <1>1, <2>1, AcknowledgedGoes DEF EmailInv
  <2>3. QED BY <1>1, <2>1, <2>2, FreedGoes DEF Goes, RowGoes, CaptureGoes, InUse
<1>3. CASE ~Terminal(k) /\ Busy(k)
  <2>1. UNCHANGED <<row, task>> /\ worker' = Freed(w)
    BY <1>3 DEF Claim
  <2>2. QED BY <1>1, <2>1, FreedGoes DEF Goes, RowGoes, TaskGoes, CaptureGoes, InUse
<1>4. CASE ~Terminal(k) /\ ~Busy(k)
  <2>1. /\ task' = task
        /\ row' = [row EXCEPT ![k].state = "sending", ![k].holder = w, ![k].lease = TRUE]
        /\ worker' = [worker EXCEPT ![w].at = "claimed", ![w].sequence = row[k].sequence]
    BY <1>4 DEF Claim
  <2>2. InUse(k)
    <3>1. task[k][worker[w].name] # "none" /\ worker[w].name \in Names
      BY <1>1 DEF EmailInv, EmailType, TaskInv, Delivered
    <3>2. row[k].state # "none" /\ row[k].state \in States
      BY <1>1, <3>1 DEF TaskInv, RowsUsed, Row
    <3>3. QED BY <1>4, <3>2 DEF Terminal, InUse, States
  <2>3. \A j \in Keys : /\ row'[j].sequence = row[j].sequence /\ (InUse(j)' <=> InUse(j))
                        /\ row'[j].due = row[j].due /\ row'[j].scheduled = row[j].scheduled
                        /\ row'[j].state = "none" => row[j].state = "none"
    <3> HIDE DEF k
    <3>1. QED BY <1>1, <2>1, <2>2 DEF InUse, Row
  <2>4. /\ worker'[w].at = "claimed" /\ worker'[w].key = worker[w].key
        /\ worker'[w].name = worker[w].name /\ worker'[w].sequence = row[worker[w].key].sequence
        /\ \A v \in Workers : v # w => worker'[v] = worker[v]
    BY <2>1 DEF EmailInv, EmailType, Delivery
  <2>5. WorkerGoes(w)
    BY <1>1, <2>4 DEF WorkerGoes, Early
  <2>6. \A v \in Workers : WorkerGoes(v)
    BY <2>4, <2>5, WorkersGo DEF EmailInv
  <2>7. \A j \in Keys : j # k => row'[j].holder = row[j].holder
    BY <1>1, <2>1
  <2>8. ASSUME NEW j \in Keys PROVE RowGoes(j)
    <3>1. InUse(j) \/ (row'[j].scheduled = row[j].scheduled /\ row'[j].holder = row[j].holder)
      BY <2>2, <2>3, <2>7 DEF InUse
    <3>2. /\ row'[j].sequence = row[j].sequence /\ (InUse(j)' <=> InUse(j))
          /\ row'[j].due = row[j].due
          /\ row'[j].state = "none" => row[j].state = "none"
      BY <2>3 DEF InUse
    <3>3. QED BY <3>1, <3>2 DEF RowGoes, InUse
  <2>9. QED BY <1>1, <2>1, <2>6, <2>8 DEF Goes, TaskGoes, CaptureGoes
<1>5. QED BY <1>2, <1>3, <1>4

\* The same of the check and the mail.
LEMMA DeliveryGoes ==
  ASSUME EmailInv, TaskInv, UNCHANGED messaging, NEW w \in Workers, Check(w) \/ Mail(w)
  PROVE  Goes
<1>1. UNCHANGED <<row, task, capture>> /\ talk' = talk
  BY DEF Check, Mail, messaging
<1>2. /\ worker[w].at \in Delivering /\ worker'[w].at \in Delivering
      /\ worker'[w].key = worker[w].key /\ worker'[w].name = worker[w].name
      /\ worker'[w].sequence = worker[w].sequence
      /\ \A v \in Workers : v # w => worker'[v] = worker[v]
  <2>1. CASE Check(w)
    BY <2>1 DEF Check, EmailInv, EmailType, Delivery, Delivering
  <2>2. CASE Mail(w)
    BY <2>2 DEF Mail, EmailInv, EmailType, Delivery, Delivering
  <2>3. QED BY <2>1, <2>2
<1>3. WorkerGoes(w)
  BY <1>2 DEF WorkerGoes, Early, Delivering
<1>4. \A v \in Workers : WorkerGoes(v)
  BY <1>2, <1>3, WorkersGo DEF EmailInv
<1>5. QED BY <1>1, <1>4 DEF Goes, RowGoes, TaskGoes, CaptureGoes, InUse

\* The same of the end of a delivery.
LEMMA FinishGoes ==
  ASSUME EmailInv, TaskInv, UNCHANGED messaging, NEW w \in Workers, Finish(w)
  PROVE  Goes
<1> DEFINE k == worker[w].key
           state == IF worker[w].at = "mailed" THEN "sent" ELSE "suppressed"
<1>1. /\ capture' = capture /\ talk' = talk /\ worker[w].at # "idle"
      /\ k \in Keys /\ row \in [Keys -> Row]
      /\ row' = IF Owns(w) THEN [row EXCEPT ![k] = Ended(state)] ELSE row
      /\ task' = Acknowledged(w) /\ worker' = Freed(w)
  BY DEF Finish, messaging, EmailInv, EmailType
<1>2. \A j \in Keys, n \in Names : TaskGoes(j, n)
  BY <1>1, AcknowledgedGoes DEF EmailInv
<1>3. /\ Ended(state).state \in {"sent", "suppressed"} /\ Ended(state).sequence = 0
      /\ Ended(state).scheduled = 0 /\ Ended(state).holder = Nobody
  BY DEF Ended, NoRow
<1> HIDE DEF k, state
<1>4. \A j \in Keys : RowGoes(j)
  BY <1>1, <1>3 DEF RowGoes, InUse
<1>5. QED BY <1>1, <1>2, <1>4, FreedGoes DEF Goes, CaptureGoes

\* The same of the faults.
LEMMA FaultGoes ==
  ASSUME EmailInv, TaskInv, UNCHANGED messaging, Fault
  PROVE  Goes
<1>1. talk' = talk /\ row \in [Keys -> Row]
  BY DEF messaging, EmailInv, EmailType
<1>2. ASSUME NEW w \in Workers, Raise(w) PROVE Goes
  <2> DEFINE k == worker[w].key
  <2>1. /\ UNCHANGED <<task, capture>> /\ worker' = Freed(w) /\ k \in Keys
        /\ row' = IF row[k].holder = w
                    THEN [row EXCEPT ![k].state = "pending", ![k].holder = Nobody, ![k].lease = FALSE]
                    ELSE row
    BY <1>2 DEF Raise, EmailInv, EmailType
  <2>2. row[k].holder = w => InUse(k)
    BY <2>1 DEF TaskInv, RowsUsed
  <2>3. \A j \in Keys : RowGoes(j)
    <3> HIDE DEF k
    <3>1. CASE row[k].holder = w
      <4>1. /\ row'[k].state = "pending" /\ row'[k].sequence = row[k].sequence
            /\ row'[k].due = row[k].due /\ \A j \in Keys : j # k => row'[j] = row[j]
        BY <1>1, <2>1, <3>1 DEF Row
      <4>2. QED BY <2>2, <3>1, <4>1 DEF RowGoes, InUse
    <3>2. CASE row[k].holder # w
      BY <2>1, <3>2 DEF RowGoes, InUse
    <3>3. QED BY <3>1, <3>2
  <2>4. QED BY <1>1, <2>1, <2>3, FreedGoes DEF Goes, TaskGoes, CaptureGoes
<1>3. ASSUME NEW w \in Workers, Stop(w) PROVE Goes
  BY <1>1, <1>3, FreedGoes DEF Stop, Goes, RowGoes, TaskGoes, CaptureGoes, InUse
<1>4. ASSUME NEW c \in capture, Forget(c) PROVE Goes
  BY <1>1, <1>4 DEF Forget, Goes, RowGoes, TaskGoes, WorkerGoes, CaptureGoes, InUse
<1>5. QED BY <1>2, <1>3, <1>4 DEF Fault

\* The same of a user who sends nothing.
LEMMA UsingGoes ==
  ASSUME MessagingInv, NEW u \in Users, Using(u), UNCHANGED email
  PROVE  Goes
<1>1. UNCHANGED <<row, task, capture, worker>>
  BY DEF email
<1>2. QED BY <1>1, UsingSequence DEF Goes, RowGoes, TaskGoes, WorkerGoes, CaptureGoes, InUse

\* A message that is sent is captured, and nothing else.
LEMMA SendTasks ==
  ASSUME MessagingInv, EmailInv, TaskInv,
         NEW t \in Conversations, NEW u \in Users, NEW op \in Operations, SendAndCapture(t, u, op)
  PROVE  TaskInv'
<1> DEFINE q == talk[t].sequence + 1
<1>1. UNCHANGED <<row, task, worker>>
  BY DEF SendAndCapture
<1>2. talk'[t].sequence = q /\ q \in Nat /\ \A s \in Conversations : s # t => talk'[s] = talk[s]
  <2>1. talk \in [Conversations -> Conversation] /\ u \in t /\ t \subseteq Users
    BY Typed DEF MessagingInv, SendAndCapture, Send
  <2>2. Sent(talk[t], t, u).sequence = q /\ q \in Nat
    <3>1. talk[t] \in Conversation
      BY <2>1
    <3>2. talk[t].sequence \in Nat
      BY <3>1 DEF Conversation
    <3>3. t \in SUBSET Users /\ u \in t
      BY <2>1
    <3>4. Sent(talk[t], t, u).sequence = talk[t].sequence + 1
      BY <3>1, <3>3, SentIs
    <3>5. QED BY <3>2, <3>4
  <2>3. talk' = [talk EXCEPT ![t] = Sent(talk[t], t, u)]
    BY DEF SendAndCapture, Send
  <2>4. QED BY <2>1, <2>2, <2>3
<1>3. \A c \in capture' : c \in capture \/ (c.at = "committed" /\ c.key[1] = t /\ c.sequence = q)
  BY <1>2 DEF SendAndCapture
<1>4. \A s \in Conversations : talk[s].sequence \in Nat /\ talk'[s].sequence >= talk[s].sequence
  BY <1>2, SequencesAre DEF Sequences
<1>5. q > talk[t].sequence
  BY <1>4
<1> HIDE DEF q
<1>6. Ahead'
  <2> SUFFICES ASSUME NEW k \in Keys, NEW n \in Names,
                      \/ n > talk'[k[1]].sequence
                      \/ \E c \in capture' : c.key = k /\ c.sequence = n /\ c.at = "committed"
               PROVE  Untouched(k, n)'
    BY DEF Ahead
  <2>1. k[1] \in Conversations /\ n \in Nat
    BY KeyIs DEF Names
  <2>2. \/ n > talk[k[1]].sequence
        \/ \E c \in capture : c.key = k /\ c.sequence = n /\ c.at = "committed"
    <3>1. CASE n > talk'[k[1]].sequence
      BY <1>2, <1>4, <2>1, <3>1
    <3>2. CASE \E c \in capture' : c.key = k /\ c.sequence = n /\ c.at = "committed"
      BY <1>3, <1>5, <3>2
    <3>3. QED BY <3>1, <3>2
  <2>3. Untouched(k, n)
    BY <2>2 DEF TaskInv, Ahead
  <2>4. QED BY <1>1, <1>3, <2>3 DEF Untouched
<1>7. Delivered'
  BY <1>1, <1>3 DEF TaskInv, Delivered, Early
<1>8. OnTime' /\ RowsUsed'
  BY <1>1 DEF TaskInv, OnTime, RowsUsed, Named, InUse
<1>9. QED BY <1>6, <1>7, <1>8 DEF TaskInv

\* What a message that is put in its row changes.
LEMMA UpsertIs ==
  ASSUME EmailInv, TaskInv, NEW c \in capture, Upsert(c)
  PROVE  /\ UNCHANGED <<talk, task, worker, faults>>
         /\ c.key \in Keys /\ c.sequence \in Names /\ c.at = "committed"
         /\ row'[c.key].sequence = c.sequence /\ row'[c.key].state = "pending"
         /\ ~row'[c.key].due /\ row'[c.key].scheduled = row[c.key].scheduled
         /\ row'[c.key].holder = row[c.key].holder
         /\ \A j \in Keys : j # c.key => row'[j] = row[j]
         /\ Untouched(c.key, c.sequence)
         /\ c \notin capture'
         /\ \A d \in capture : d # c => d \in capture'
         /\ \A d \in capture' : d \in capture \/ (d.key = c.key /\ d.sequence = c.sequence /\ d.at = "upserted")
         /\ row[c.key].state # "pending" \/ row[c.key].scheduled = 0 =>
              \E d \in capture' : d.key = c.key /\ d.sequence = c.sequence /\ d.at = "upserted"
<1> DEFINE e == [c EXCEPT !.at = "upserted"]
<1>1. /\ UNCHANGED <<talk, task, worker, faults>> /\ c.at = "committed" /\ row \in [Keys -> Row]
  BY DEF Upsert, messaging, EmailInv, EmailType
<1>2. c \in Captures /\ c.key \in Keys /\ c.sequence \in Names
  BY CaptureTyped
<1>3. e.key = c.key /\ e.sequence = c.sequence /\ e.at = "upserted"
  BY <1>2 DEF Captures
<1>4. Untouched(c.key, c.sequence)
  BY <1>1, <1>2 DEF TaskInv, Ahead
<1>5. capture' = (capture \ {c}) \cup
                   IF row[c.key].state # "pending" \/ row[c.key].scheduled = 0 THEN {e} ELSE {}
  BY DEF Upsert
<1>6. c # e
  BY <1>1, <1>3
<1> HIDE DEF e
<1>7. /\ c \notin capture' /\ \A d \in capture : d # c => d \in capture'
      /\ \A d \in capture' : d \in capture \/ d = e
      /\ row[c.key].state # "pending" \/ row[c.key].scheduled = 0 => e \in capture'
  BY <1>5, <1>6
<1>8. /\ row'[c.key].sequence = c.sequence /\ row'[c.key].state = "pending"
      /\ ~row'[c.key].due /\ row'[c.key].scheduled = row[c.key].scheduled
      /\ row'[c.key].holder = row[c.key].holder
      /\ \A j \in Keys : j # c.key => row'[j] = row[j]
  <2>1. row' = [row EXCEPT ![c.key] =
                  [row[c.key] EXCEPT !.sequence = c.sequence, !.state = "pending", !.due = FALSE]]
    BY DEF Upsert
  <2>2. QED BY <1>1, <1>2, <2>1 DEF Row
<1>9. QED BY <1>1, <1>2, <1>3, <1>4, <1>7, <1>8

\* A message that is put in its row has been untouched.
LEMMA UpsertTasks ==
  ASSUME MessagingInv, EmailInv, TaskInv, NEW c \in capture, Upsert(c)
  PROVE  TaskInv'
<1> DEFINE k == c.key
           q == c.sequence
<1>1. /\ UNCHANGED <<talk, task, worker>> /\ k \in Keys /\ q \in Names /\ c.at = "committed"
      /\ Untouched(k, q)
      /\ row'[k].sequence = q /\ row'[k].state = "pending"
      /\ \A j \in Keys : j # k => row'[j] = row[j]
      /\ c \notin capture'
      /\ \A d \in capture' : d \in capture \/ (d.key = k /\ d.sequence = q /\ d.at = "upserted")
  BY UpsertIs
<1>2. q <= talk[k[1]].sequence /\ talk[k[1]].sequence \in Nat /\ q \in Nat
  <2>1. q <= talk[k[1]].sequence
    BY DEF EmailInv, CaptureSent
  <2>2. k[1] \in Conversations
    BY <1>1, KeyIs
  <2>3. QED BY <1>1, <2>1, <2>2, SequencesAre DEF Sequences, Names
<1>3. ASSUME NEW j \in Keys, NEW n \in Names,
             \/ n > talk[j[1]].sequence
             \/ \E d \in capture' : d.key = j /\ d.sequence = n /\ d.at = "committed"
      PROVE  Untouched(j, n)'
  <2>1. Untouched(j, n)
    BY <1>1, <1>3 DEF TaskInv, Ahead
  <2>2. ~(j = k /\ n = q)
    <3>1. CASE n > talk[j[1]].sequence
      BY <1>2, <3>1 DEF Names
    <3>2. ASSUME NEW d \in capture', d.key = j, d.sequence = n, d.at = "committed"
          PROVE  ~(j = k /\ n = q)
      <4>1. d \in capture /\ d # c
        BY <1>1, <3>2
      <4>2. d \in Captures /\ c \in Captures
        BY <4>1, CaptureTyped
      <4>3. QED BY <1>1, <3>2, <4>1, <4>2, CaptureIs
    <3>3. QED BY <1>3, <3>1, <3>2
  <2>3. row'[j].sequence # n
    BY <1>1, <2>1, <2>2 DEF Untouched
  <2>4. QED BY <1>1, <2>1, <2>2, <2>3 DEF Untouched
<1>4. Ahead'
  BY <1>1, <1>3 DEF Ahead
<1>5. Delivered'
  <2>1. \A d \in capture : d.key \in Keys
    BY CaptureTyped
  <2>2. \A d \in capture' : d.at # "committed" =>
          row'[d.key].state # "none" /\ (d.at = "enqueued" => task'[d.key][d.sequence] # "none")
    BY <1>1, <2>1 DEF TaskInv, Delivered
  <2>3. QED BY <1>1, <2>2 DEF TaskInv, Delivered, Early
<1>6. OnTime'
  <2>1. task[k][q] = "none" /\ \A w \in Workers : ~Named(w, k, q)
    BY <1>1 DEF Untouched, Named, TaskInv, Delivered
  <2>2. QED BY <1>1, <2>1 DEF TaskInv, OnTime, Named
<1>7. RowsUsed'
  BY <1>1 DEF TaskInv, RowsUsed, InUse
<1>8. QED BY <1>4, <1>5, <1>6, <1>7 DEF TaskInv

-----------------------------------------------------------------------------
(* What a row in use waits for *)

Live(k, n) == task[k][n] \in {"delayed", "ready"}

\* A sender is about to enqueue a task for the message.
Coming(k, n) ==
  /\ task[k][n] = "none" /\ row[k].scheduled # 0
  /\ \E c \in capture : c.key = k /\ c.sequence = n /\ c.at = "upserted"

\* A worker that delivers what the row names and holds it.
Holds(w, k) ==
  /\ worker[w].at \in Delivering /\ worker[w].key = k
  /\ row[k].holder = w /\ worker[w].sequence = row[k].sequence

Held(k) == \E w \in Workers : Holds(w, k)

\* A worker that will acknowledge its task whatever becomes of the row.
Leaving(w) ==
  \/ worker[w].at \in Delivering /\ ~Holds(w, worker[w].key)
  \/ Early(w) /\ task[worker[w].key][worker[w].sequence] # "none"

\* A task that will come back to the row: nobody leaves it.
Anchor(k, n) ==
  /\ Live(k, n) \/ Coming(k, n)
  /\ \A w \in Workers : Named(w, k, n) => ~Leaving(w)

Anchored(k) == \E n \in Names : Anchor(k, n)

\* The row is in use and a task was enqueued for it.
Demand(k) == InUse(k) /\ (row[k].scheduled # 0 \/ task[k][row[k].sequence] # "none")

\* A row that is held is being sent, and leased until something fails.
Leased ==
  \A k \in Keys, w \in Workers :
    Holds(w, k) => row[k].state = "sending" /\ (faults = 0 => row[k].lease)

\* A row that waits has a task, even while it is delivered unless something failed.
Kept ==
  \A k \in Keys : Demand(k) =>
    (faults = 0 => Anchored(k)) /\ (~Strands /\ faults <= 1 => Anchored(k) \/ Held(k))

StandingInv == IInv /\ TaskInv /\ Leased /\ Kept

\* What a row waits for stays, is replaced, or is not needed.
Stands(k) ==
  Demand(k)' =>
    \/ Anchored(k)'
    \/ faults' > 0 /\ Held(k)'
    \/ /\ Demand(k) /\ (Anchored(k) => Anchored(k)')
       /\ faults > 0 /\ Held(k) => Held(k)' \/ faults' > 1

\* Then it is kept.
LEMMA KeptOn ==
  ASSUME Kept, faults \in Nat, faults' \in Nat, faults <= faults', \A k \in Keys : Stands(k)
  PROVE  Kept'
<1> SUFFICES ASSUME NEW k \in Keys, Demand(k)'
             PROVE  /\ faults' = 0 => Anchored(k)'
                    /\ ~Strands /\ faults' <= 1 => Anchored(k)' \/ Held(k)'
  BY DEF Kept
<1>1. CASE Anchored(k)'
  BY <1>1
<1>2. CASE faults' > 0 /\ Held(k)'
  BY <1>2
<1>3. CASE /\ Demand(k) /\ (Anchored(k) => Anchored(k)')
           /\ faults > 0 /\ Held(k) => Held(k)' \/ faults' > 1
  <2>1. (faults = 0 => Anchored(k)) /\ (~Strands /\ faults <= 1 => Anchored(k) \/ Held(k))
    BY <1>3 DEF Kept
  <2>2. QED BY <1>3, <2>1
<1>4. QED BY <1>1, <1>2, <1>3 DEF Stands

\* A row has a task for as long as the task stays and nobody leaves it.
LEMMA AnchoredStays ==
  ASSUME NEW k \in Keys,
         \A n \in Names : Anchor(k, n) =>
           /\ Live(k, n) => Live(k, n)'
           /\ Coming(k, n) => Coming(k, n)'
           /\ \A w \in Workers : Named(w, k, n)' /\ Leaving(w)' => Named(w, k, n) /\ Leaving(w)
  PROVE  Anchored(k) => Anchored(k)'
  BY DEF Anchored, Anchor

\* A task that has just been enqueued is nobody's.
LEMMA NewAnchor ==
  ASSUME TaskInv, NEW k \in Keys, NEW n \in Names, task[k][n] = "none", Live(k, n)' \/ Coming(k, n)',
         \A w \in Workers : Named(w, k, n)' => Named(w, k, n)
  PROVE  Anchored(k)'
<1>1. \A w \in Workers : ~Named(w, k, n)
  BY DEF TaskInv, Delivered, Named
<1>2. QED BY <1>1 DEF Anchored, Anchor

\* Who holds a row, when rows and deliveries stay.
LEMMA HoldsOn ==
  ASSUME \A k \in Keys : SameRow(k), \A w \in Workers : Still(w), NEW k \in Keys
  PROVE  /\ \A w \in Workers : Holds(w, k)' <=> Holds(w, k)
         /\ Held(k)' <=> Held(k)
         /\ InUse(k)' <=> InUse(k)
<1>1. \A w \in Workers : Holds(w, k)' <=> Holds(w, k)
  BY DEF Holds, SameRow, Still
<1>2. QED BY <1>1 DEF Held, SameRow, InUse

\* Then it is leased as before.
LEMMA LeasedOn ==
  ASSUME Leased, \A k \in Keys : SameRow(k), \A w \in Workers : Still(w),
         faults \in Nat, faults' \in Nat, faults <= faults'
  PROVE  Leased'
<1>1. faults' = 0 => faults = 0
  OBVIOUS
<1>2. QED BY <1>1, HoldsOn DEF Leased, SameRow

\* Who leaves a task, when rows, deliveries and tasks stay.
LEMMA LeavingOn ==
  ASSUME EmailType, \A k \in Keys : SameRow(k), NEW w \in Workers,
         worker'[w] = worker[w],
         worker[w].at # "idle" =>
           (task'[worker[w].key][worker[w].sequence] = "none"
             <=> task[worker[w].key][worker[w].sequence] = "none")
  PROVE  Leaving(w)' => Leaving(w)
<1>1. worker[w].at # "idle" => worker[w].key \in Keys
  BY DEF EmailType
<1>2. QED BY <1>1 DEF Leaving, Holds, SameRow, Early, Delivering

\* Steps that touch no task, no row and no worker keep what was kept.
LEMMA RestKept ==
  ASSUME EmailInv, Leased, Kept, UNCHANGED <<row, task, worker>>,
         faults' \in Nat, faults <= faults',
         \A k \in Keys, n \in Names : Coming(k, n) => Coming(k, n)'
  PROVE  Leased' /\ Kept'
<1>1. (\A k \in Keys : SameRow(k)) /\ (\A w \in Workers : Still(w)) /\ EmailType /\ faults \in Nat
  BY DEF SameRow, Still, EmailInv, EmailType
<1>2. Leased'
  BY <1>1, LeasedOn
<1>3. ASSUME NEW k \in Keys PROVE Stands(k)
  <2>1. \A w \in Workers : Leaving(w)' => Leaving(w)
    BY <1>1, LeavingOn
  <2>2. Anchored(k) => Anchored(k)'
    BY <2>1, AnchoredStays DEF Live, Named
  <2>3. (Held(k)' <=> Held(k)) /\ (Demand(k)' => Demand(k))
    BY <1>1, HoldsOn DEF Demand, InUse
  <2>4. QED BY <2>2, <2>3 DEF Stands
<1>4. QED BY <1>1, <1>2, <1>3, KeptOn

\* A message that is sent, or a user who sends nothing.
LEMMA TalkKept ==
  ASSUME EmailInv, Leased, Kept,
         \/ \E t \in Conversations, u \in Users, op \in Operations : SendAndCapture(t, u, op)
         \/ UNCHANGED email
  PROVE  Leased' /\ Kept'
<1>1. UNCHANGED <<row, task, worker, faults>> /\ capture \subseteq capture'
  BY DEF SendAndCapture, email
<1>2. faults' \in Nat /\ faults <= faults'
  BY <1>1, FaultsCount
<1>3. QED BY <1>1, <1>2, RestKept DEF Coming

\* A sender that gives up, before it has to enqueue the task that a row waits for, or as the
\* first fault of those that strand.
LEMMA ForgetKept ==
  ASSUME EmailInv, Leased, Kept, NEW c \in capture, Forget(c), faults' = faults + 1
  PROVE  Leased' /\ Kept'
<1>1. UNCHANGED <<row, task, worker>> /\ capture' = capture \ {c}
  BY DEF Forget
<1>2. faults \in Nat /\ faults' \in Nat /\ faults <= faults' /\ faults' # 0
  BY FaultsCount
<1>3. CASE ~Strands
  <2>1. \A k \in Keys, n \in Names : Coming(k, n) => Coming(k, n)'
    BY <1>1, <1>3 DEF Forget, Coming
  <2>2. QED BY <1>1, <1>2, <2>1, RestKept
<1>4. CASE Strands
  <2>1. (\A k \in Keys : SameRow(k)) /\ \A w \in Workers : Still(w)
    BY <1>1 DEF SameRow, Still
  <2>2. Leased'
    BY <1>2, <2>1, LeasedOn
  <2>3. QED BY <1>2, <1>4, <2>2 DEF Kept
<1>5. QED BY <1>3, <1>4

\* What enqueuing a task for a message of a row means for the rows.
LEMMA EnqueuedKept ==
  ASSUME EmailInv, TaskInv, Leased, Kept, NEW k \in Keys, NEW n \in Names,
         task' = Enqueued(k, n), UNCHANGED <<row, faults>>, \A w \in Workers : Still(w),
         \A w \in Workers, j \in Keys, i \in Names : Named(w, j, i)' => Named(w, j, i),
         \A w \in Workers : \/ worker'[w] = worker[w]
                            \/ /\ worker[w].key = k /\ worker[w].sequence = n /\ Early(w)
                               /\ worker[w].at # "idle",
         \A j \in Keys, i \in Names : i # n \/ j # k => (Coming(j, i) => Coming(j, i)')
  PROVE  Leased' /\ Kept'
<1>1. /\ EmailType /\ faults \in Nat /\ faults' \in Nat /\ faults <= faults'
      /\ \A j \in Keys : SameRow(j)
  BY FaultsCount DEF EmailInv, EmailType, SameRow
<1>2. Leased'
  BY <1>1, LeasedOn
<1>3. /\ \A j \in Keys, i \in Names : j # k \/ i # n => task'[j][i] = task[j][i]
      /\ task'[k][n] = IF task[k][n] = "none" THEN "delayed" ELSE task[k][n]
      /\ task[k][n] # "none" => task' = task
      /\ \A j \in Keys : j # k => task'[j] = task[j]
  BY DEF Enqueued, EmailInv, EmailType
<1>4. ASSUME NEW j \in Keys PROVE Stands(j)
  <2>1. (Held(j)' <=> Held(j)) /\ (InUse(j)' <=> InUse(j))
    BY <1>1, HoldsOn
  <2>2. CASE j = k /\ task[k][n] = "none"
    <3>1. Live(k, n)'
      BY <1>3, <2>2 DEF Live
    <3>2. Anchored(k)'
      BY <2>2, <3>1, NewAnchor
    <3>3. QED BY <2>2, <3>2 DEF Stands
  <2>3. CASE j # k \/ task[k][n] # "none"
    <3>1. task'[j] = task[j]
      BY <1>3, <2>3
    <3>2. Demand(j)' => Demand(j)
      BY <2>1, <3>1 DEF Demand
    <3>3. ASSUME NEW w \in Workers, worker[w].key = j, Leaving(w)' PROVE Leaving(w)
      <4>1. CASE worker'[w] = worker[w]
        BY <1>1, <3>1, <3>3, <4>1, LeavingOn
      <4>2. CASE worker'[w] # worker[w]
        <5>1. Early(w) /\ worker[w].key = k /\ worker[w].sequence = n /\ j = k
          BY <3>3, <4>2
        <5>2. task[k][n] # "none"
          BY <2>3, <5>1
        <5>3. QED BY <5>1, <5>2 DEF Leaving
      <4>3. QED BY <4>1, <4>2
    <3>4. ASSUME NEW i \in Names, Anchor(j, i)
          PROVE  /\ Live(j, i) => Live(j, i)'
                 /\ Coming(j, i) => Coming(j, i)'
                 /\ \A w \in Workers : Named(w, j, i)' /\ Leaving(w)' => Named(w, j, i) /\ Leaving(w)
      <4>1. Live(j, i) => Live(j, i)'
        BY <3>1 DEF Live
      <4>2. Coming(j, i) => Coming(j, i)'
        BY <2>3 DEF Coming
      <4>3. ASSUME NEW w \in Workers, Named(w, j, i)', Leaving(w)'
            PROVE  Named(w, j, i) /\ Leaving(w)
        <5>1. Named(w, j, i)
          BY <4>3
        <5>2. QED BY <3>3, <4>3, <5>1 DEF Named
      <4>4. QED BY <4>1, <4>2, <4>3
    <3>5. Anchored(j) => Anchored(j)'
      BY <3>4, AnchoredStays
    <3>6. QED BY <2>1, <3>2, <3>5 DEF Stands
  <2>4. QED BY <2>2, <2>3
<1>5. QED BY <1>1, <1>2, <1>4, KeptOn

\* A sender enqueues the task.
LEMMA EnqueueKept ==
  ASSUME EmailInv, TaskInv, Leased, Kept, NEW c \in capture, Enqueue(c)
  PROVE  Leased' /\ Kept'
<1>1. /\ UNCHANGED <<row, worker, faults>> /\ task' = Enqueued(c.key, c.sequence)
      /\ capture' = (capture \ {c}) \cup {[c EXCEPT !.at = "enqueued"]}
  BY DEF Enqueue
<1>2. c.key \in Keys /\ c.sequence \in Names
  BY CaptureTyped
<1>3. ASSUME NEW j \in Keys, NEW i \in Names, i # c.sequence \/ j # c.key, Coming(j, i)
      PROVE  Coming(j, i)'
  <2>1. task'[j][i] = task[j][i]
    BY <1>1, <1>2, <1>3 DEF Enqueued, EmailInv, EmailType
  <2>2. PICK d \in capture : d.key = j /\ d.sequence = i /\ d.at = "upserted"
    BY <1>3 DEF Coming
  <2>3. d \in capture'
    BY <1>1, <1>3, <2>2
  <2>4. QED BY <1>1, <1>3, <2>1, <2>2, <2>3 DEF Coming
<1>4. \A w \in Workers : Still(w)
  BY <1>1 DEF Still
<1>5. \A w \in Workers, j \in Keys, i \in Names : Named(w, j, i)' => Named(w, j, i)
  BY <1>1 DEF Named
<1>6. QED BY <1>1, <1>2, <1>3, <1>4, <1>5, EnqueuedKept

\* A worker does, for the message it read in the row.
LEMMA RescheduleKept ==
  ASSUME EmailInv, TaskInv, Leased, Kept, NEW w \in Workers, Reschedule(w)
  PROVE  Leased' /\ Kept'
<1>1. /\ UNCHANGED <<row, capture, faults>> /\ worker[w].at = "read" /\ ~worker[w].due
      /\ task' = Enqueued(worker[w].key, worker[w].sequence)
      /\ worker' = [worker EXCEPT ![w].at = "rescheduled"]
  BY DEF Reschedule
<1>2. worker[w].key \in Keys /\ worker[w].sequence \in Names /\ Early(w)
  BY <1>1 DEF EmailInv, EmailType, TaskInv, Delivered, Early
<1>3. /\ worker'[w].at = "rescheduled" /\ worker'[w].key = worker[w].key
      /\ worker'[w].name = worker[w].name /\ worker'[w].sequence = worker[w].sequence
      /\ \A v \in Workers : v # w => worker'[v] = worker[v]
  BY <1>1, MovesOn DEF EmailInv, EmailType, Delivery
<1>4. \A v \in Workers : Still(v)
  BY <1>1, <1>3 DEF Still, Delivering
<1>5. \A v \in Workers, j \in Keys, i \in Names : Named(v, j, i)' => Named(v, j, i)
  BY <1>1, <1>3 DEF Named
<1>6. ASSUME NEW j \in Keys, NEW i \in Names, i # worker[w].sequence \/ j # worker[w].key, Coming(j, i)
      PROVE  Coming(j, i)'
  <2>1. task'[j][i] = task[j][i]
    BY <1>1, <1>2, <1>6 DEF Enqueued, EmailInv, EmailType
  <2>2. QED BY <1>1, <1>6, <2>1 DEF Coming
<1>7. \A v \in Workers : \/ worker'[v] = worker[v]
                          \/ /\ worker[v].key = worker[w].key /\ worker[v].sequence = worker[w].sequence
                             /\ Early(v) /\ worker[v].at # "idle"
  BY <1>1, <1>2, <1>3
<1>8. QED BY <1>1, <1>2, <1>4, <1>5, <1>6, <1>7, EnqueuedKept

\* A task that is noted, and the time of a task, keep what was kept.
LEMMA NotedKept ==
  ASSUME EmailInv, TaskInv, Leased, Kept, UNCHANGED <<worker, faults>>,
         \A k \in Keys : SameRow(k),
         \A k \in Keys : row[k].scheduled # 0 => row'[k].scheduled # 0,
         \A k \in Keys : row'[k].scheduled # row[k].scheduled =>
                           task[k][row[k].sequence] # "none" \/ row[k].scheduled # 0,
         \A k \in Keys, n \in Names : (task'[k][n] = "none" <=> task[k][n] = "none")
                                      /\ (Live(k, n) => Live(k, n)'),
         \A c \in capture : c.at = "upserted" => c \in capture'
  PROVE  Leased' /\ Kept'
<1>1. (\A w \in Workers : Still(w)) /\ EmailType /\ faults \in Nat /\ faults' \in Nat /\ faults <= faults'
  BY FaultsCount DEF Still, EmailInv, EmailType
<1>2. Leased'
  BY <1>1, LeasedOn
<1>3. ASSUME NEW k \in Keys PROVE Stands(k)
  <2>1. (Held(k)' <=> Held(k)) /\ (InUse(k)' <=> InUse(k))
    BY <1>1, HoldsOn
  <2>2. Demand(k)' => Demand(k)
    <3>1. InUse(k) => row[k].sequence \in Names
      BY DEF TaskInv, RowsUsed
    <3>2. row'[k].sequence = row[k].sequence
      BY DEF SameRow
    <3>3. QED BY <2>1, <3>1, <3>2 DEF Demand
  <2>3. ASSUME NEW w \in Workers, Leaving(w)' PROVE Leaving(w)
    <3>1. CASE worker[w].at \in Delivering
      BY <1>1, <2>3, <3>1 DEF Leaving, Holds, SameRow, Early, Delivering, EmailType
    <3>2. CASE worker[w].at \notin Delivering
      <4>1. Early(w) /\ task'[worker[w].key][worker[w].sequence] # "none"
        BY <2>3, <3>2 DEF Leaving, Early
      <4>2. worker[w].key \in Keys /\ worker[w].sequence \in Names
        BY <1>1, <4>1 DEF Early, EmailType, TaskInv, Delivered
      <4>3. QED BY <4>1, <4>2 DEF Leaving
    <3>3. QED BY <3>1, <3>2
  <2>4. Anchored(k) => Anchored(k)'
    <3>1. \A n \in Names : Coming(k, n) => Coming(k, n)'
      BY DEF Coming
    <3>2. QED BY <2>3, <3>1, AnchoredStays DEF Named
  <2>5. QED BY <2>1, <2>2, <2>4 DEF Stands
<1>4. QED BY <1>1, <1>2, <1>3, KeptOn

\* What noting a task in a row does to its mark.
LEMMA Marked ==
  ASSUME EmailType, NEW k \in Keys, NEW n \in Names, row' = Scheduled(k, n)
  PROVE  \A j \in Keys :
           /\ row[j].scheduled # 0 => row'[j].scheduled # 0
           /\ row'[j].scheduled # row[j].scheduled => j = k /\ row[j].sequence = n
<1>1. row \in [Keys -> Row] /\ n # 0
  BY DEF EmailType, Names
<1>2. QED BY <1>1 DEF Scheduled, Row

\* A sender notes the task it has enqueued.
LEMMA MarkScheduledKept ==
  ASSUME EmailInv, TaskInv, Leased, Kept, NEW c \in capture, MarkScheduled(c)
  PROVE  Leased' /\ Kept'
<1>1. /\ UNCHANGED <<task, worker, faults>> /\ capture' = capture \ {c} /\ c.at = "enqueued"
      /\ row' = Scheduled(c.key, c.sequence) /\ c.key \in Keys /\ c.sequence \in Names
  BY CaptureTyped DEF MarkScheduled
<1>2. task[c.key][c.sequence] # "none"
  BY <1>1 DEF TaskInv, Delivered
<1>3. \A k \in Keys : SameRow(k)
  BY <1>1, ScheduledGoes
<1>4. \A k \in Keys :
        /\ row[k].scheduled # 0 => row'[k].scheduled # 0
        /\ row'[k].scheduled # row[k].scheduled => task[k][row[k].sequence] # "none"
  BY <1>1, <1>2, Marked DEF EmailInv
<1>5. \A k \in Keys, n \in Names : Live(k, n) => Live(k, n)'
  BY <1>1 DEF Live
<1>6. QED BY <1>1, <1>3, <1>4, <1>5, NotedKept

\* The delays of tasks are over.
LEMMA DueKept ==
  ASSUME EmailInv, TaskInv, Leased, Kept, NEW k \in Keys,
         FallDue(k) \/ \E n \in Names : Elapse(k, n)
  PROVE  Leased' /\ Kept'
<1>1. /\ row \in [Keys -> Row] /\ task \in [Keys -> [Names -> {"none", "delayed", "ready", "done"}]]
  BY DEF EmailInv, EmailType
<1>2. UNCHANGED <<worker, faults, capture>>
  BY DEF FallDue, Elapse
<1>3. \A j \in Keys : SameRow(j) /\ row'[j].scheduled = row[j].scheduled
  <2>1. CASE FallDue(k)
    BY <1>1, <2>1 DEF FallDue, SameRow, Row
  <2>2. CASE row' = row
    BY <2>2 DEF SameRow
  <2>3. QED BY <2>1, <2>2 DEF Elapse
<1>4. \A j \in Keys, n \in Names :
        \/ task'[j][n] = task[j][n]
        \/ task[j][n] = "delayed" /\ task'[j][n] = "ready"
  <2>1. CASE FallDue(k)
    BY <1>1, <2>1 DEF FallDue
  <2>2. ASSUME NEW i \in Names, Elapse(k, i)
        PROVE  \A j \in Keys, n \in Names :
                 \/ task'[j][n] = task[j][n]
                 \/ task[j][n] = "delayed" /\ task'[j][n] = "ready"
    BY <1>1, <2>2 DEF Elapse
  <2>3. QED BY <2>1, <2>2
<1>5. \A j \in Keys, n \in Names : (task'[j][n] = "none" <=> task[j][n] = "none")
                                   /\ (Live(j, n) => Live(j, n)')
  BY <1>4 DEF Live
<1>6. QED BY <1>2, <1>3, <1>5, NotedKept

\* A lease that expires under a worker at work is a failure.
LEMMA ExpireKept ==
  ASSUME EmailInv, TaskInv, Leased, Kept, NEW k \in Keys, Expire(k)
  PROVE  Leased' /\ Kept'
<1>1. /\ row \in [Keys -> Row] /\ faults \in Nat
      /\ UNCHANGED <<task, capture, worker>>
      /\ row' = [row EXCEPT ![k].lease = FALSE]
      /\ (Active(k) => faults' = faults + 1) /\ (~Active(k) => faults' = faults)
  BY DEF EmailInv, EmailType, Expire
<1>2. \A j \in Keys : /\ row'[j].state = row[j].state /\ row'[j].sequence = row[j].sequence
                      /\ row'[j].scheduled = row[j].scheduled /\ row'[j].holder = row[j].holder
                      /\ j # k => row'[j].lease = row[j].lease
  BY <1>1 DEF Row
<1>3. faults' \in Nat /\ faults <= faults' /\ (Active(k) => faults' # 0) /\ (faults' = 0 => faults = 0)
  BY <1>1
<1>4. \A j \in Keys, w \in Workers : Holds(w, j)' <=> Holds(w, j)
  BY <1>1, <1>2 DEF Holds
<1>5. Leased'
  <2> SUFFICES ASSUME NEW j \in Keys, NEW w \in Workers, Holds(w, j)
               PROVE  row'[j].state = "sending" /\ (faults' = 0 => row'[j].lease)
    BY <1>4 DEF Leased
  <2>1. row[j].state = "sending" /\ (faults = 0 => row[j].lease)
    BY DEF Leased
  <2>2. j = k => Active(k)
    BY DEF Holds, Active, Delivering
  <2>3. QED BY <1>2, <1>3, <2>1, <2>2
<1>6. ASSUME NEW j \in Keys PROVE Stands(j)
  <2>1. (Held(j)' <=> Held(j)) /\ (Demand(j)' => Demand(j))
    BY <1>1, <1>2, <1>4 DEF Held, Demand, InUse
  <2>2. \A w \in Workers : worker[w].key \in Keys => (Leaving(w)' => Leaving(w))
    BY <1>1, <1>4 DEF Leaving, Early
  <2>3. \A n \in Names : Coming(j, n) => Coming(j, n)'
    BY <1>1, <1>2 DEF Coming
  <2>4. Anchored(j) => Anchored(j)'
    BY <1>1, <2>2, <2>3, AnchoredStays DEF Named, Live
  <2>5. QED BY <2>1, <2>4 DEF Stands
<1>7. QED BY <1>1, <1>3, <1>5, <1>6, KeptOn

\* A step of one worker leaves the tasks that rows wait for, unless it leaves one itself, or
\* another loses the row.
LEMMA WorkerAnchors ==
  ASSUME EmailType, TaskInv, NEW w \in Workers, NEW j \in Keys, capture' = capture,
         \A v \in Workers : v # w => worker'[v] = worker[v] /\ (Holds(v, j) => Holds(v, j)'),
         row[j].scheduled # 0 => row'[j].scheduled # 0,
         \A i \in Names : /\ task'[j][i] = "none" <=> task[j][i] = "none"
                          /\ Anchor(j, i) /\ Live(j, i) => Live(j, i)'
                          /\ Anchor(j, i) /\ Named(w, j, i)' /\ Leaving(w)' => Named(w, j, i) /\ Leaving(w)
  PROVE  Anchored(j) => Anchored(j)'
<1> SUFFICES ASSUME NEW i \in Names, Anchor(j, i)
             PROVE  /\ Live(j, i) => Live(j, i)'
                    /\ Coming(j, i) => Coming(j, i)'
                    /\ \A v \in Workers : Named(v, j, i)' /\ Leaving(v)' => Named(v, j, i) /\ Leaving(v)
  BY AnchoredStays
<1>1. Coming(j, i) => Coming(j, i)'
  BY DEF Coming
<1>2. ASSUME NEW v \in Workers, v # w, Named(v, j, i)', Leaving(v)'
      PROVE  Named(v, j, i) /\ Leaving(v)
  <2>1. worker'[v] = worker[v] /\ (Holds(v, j) => Holds(v, j)')
    BY <1>2
  <2>2. Named(v, j, i) /\ worker[v].key = j
    BY <1>2, <2>1 DEF Named
  <2>3. CASE worker[v].at \in Delivering
    BY <1>2, <2>1, <2>2, <2>3 DEF Leaving, Early, Delivering
  <2>4. CASE worker[v].at \notin Delivering
    <3>1. Early(v) /\ task'[j][worker[v].sequence] # "none"
      BY <1>2, <2>1, <2>2, <2>4 DEF Leaving, Early
    <3>2. worker[v].sequence \in Names
      BY <3>1 DEF TaskInv, Delivered
    <3>3. QED BY <2>2, <3>1, <3>2 DEF Leaving
  <2>5. QED BY <2>2, <2>3, <2>4
<1>3. QED BY <1>1, <1>2

\* A task that is taken too early is left only for the one of the row's message.
LEMMA TakeKept ==
  ASSUME EmailInv, TaskInv, Leased, Kept,
         NEW w \in Workers, NEW k \in Keys, NEW n \in Names, Take(w, k, n)
  PROVE  Leased' /\ Kept'
<1>1. /\ UNCHANGED <<row, task, capture, faults>> /\ EmailType
      /\ worker[w].at = "idle" /\ task[k][n] = "ready"
  BY DEF Take, EmailInv
<1>2. /\ worker'[w] = [at |-> "read", key |-> k, name |-> n, sequence |-> row[k].sequence,
                       due |-> row[k].due \/ Terminal(k)]
      /\ \A v \in Workers : v # w => worker'[v] = worker[v]
  BY DEF Take, EmailInv, EmailType
<1>3. /\ worker'[w].at = "read" /\ worker'[w].key = k /\ worker'[w].name = n
      /\ worker'[w].sequence = row[k].sequence /\ worker'[w].due = (row[k].due \/ Terminal(k))
  BY <1>2
<1>4. (\A v \in Workers : Still(v)) /\ (\A j \in Keys : SameRow(j))
      /\ faults \in Nat /\ faults' \in Nat /\ faults <= faults'
  BY <1>1, <1>2, <1>3, FaultsCount DEF Still, SameRow, Delivering
<1>5. Leased'
  BY <1>4, LeasedOn
<1>6. ASSUME NEW j \in Keys PROVE Stands(j)
  <2>1. /\ (Held(j)' <=> Held(j)) /\ (Demand(j)' => Demand(j))
        /\ \A v \in Workers : Holds(v, j)' <=> Holds(v, j)
    BY <1>1, <1>4, HoldsOn DEF Demand, InUse
  <2>2. CASE j = k /\ Leaving(w)' /\ Demand(k)
    <3>1. PICK r \in Names : r = row[k].sequence
      BY <2>2 DEF Demand, TaskInv, RowsUsed
    <3>2. ~row[k].due /\ task[k][r] # "none"
      BY <1>1, <1>3, <2>2, <3>1 DEF Leaving, Early, Delivering
    <3>3. task[k][r] = "delayed" /\ \A v \in Workers : ~Named(v, k, r)
      BY <3>1, <3>2 DEF TaskInv, OnTime, EmailType
    <3>4. r # n
      BY <1>1, <3>3
    <3>5. \A v \in Workers : ~Named(v, k, r)'
      BY <1>2, <1>3, <3>3, <3>4 DEF Named
    <3>6. Anchor(k, r)'
      BY <1>1, <3>3, <3>5 DEF Anchor, Live
    <3>7. QED BY <2>2, <3>6 DEF Stands, Anchored
  <2>3. CASE ~(j = k /\ Leaving(w)')
    <3>1. \A i \in Names : /\ task'[j][i] = "none" <=> task[j][i] = "none"
                           /\ Live(j, i) => Live(j, i)'
                           /\ ~(Named(w, j, i)' /\ Leaving(w)')
      BY <1>1, <1>3, <2>3 DEF Live, Named
    <3>2. Anchored(j) => Anchored(j)'
      BY <1>1, <1>2, <2>1, <3>1, WorkerAnchors
    <3>3. QED BY <2>1, <3>2 DEF Stands
  <2>4. QED BY <2>1, <2>2, <2>3 DEF Stands
<1>7. QED BY <1>4, <1>5, <1>6, KeptOn

\* An acknowledged task is left by the worker that ran it.
LEMMA LeftTask ==
  ASSUME EmailInv, TaskInv, NEW w \in Workers, worker[w].at # "idle", task' = Acknowledged(w)
  PROVE  \A j \in Keys, i \in Names :
           /\ task'[j][i] = "none" <=> task[j][i] = "none"
           /\ (Named(w, j, i) => Leaving(w)) /\ Anchor(j, i) => task'[j][i] = task[j][i]
<1>1. EmailType /\ task[worker[w].key][worker[w].name] # "none"
  BY DEF EmailInv, TaskInv, Delivered
<1>2. /\ task'[worker[w].key][worker[w].name] = "done"
      /\ \A j \in Keys, i \in Names : ~Named(w, j, i) => task'[j][i] = task[j][i]
  BY <1>1, AcknowledgedGoes
<1>3. QED BY <1>1, <1>2 DEF Anchor, Named

\* The task that came too early is acknowledged: the one of the row's message stands for it.
LEMMA MarkRescheduledKept ==
  ASSUME EmailInv, TaskInv, Leased, Kept, NEW w \in Workers, MarkRescheduled(w)
  PROVE  Leased' /\ Kept'
<1>1. /\ UNCHANGED <<capture, faults>> /\ EmailType /\ worker[w].at = "rescheduled"
      /\ row' = Scheduled(worker[w].key, worker[w].sequence)
      /\ task' = Acknowledged(w) /\ worker' = Freed(w)
  BY DEF MarkRescheduled, EmailInv
<1>2. /\ worker[w].key \in Keys /\ worker[w].sequence \in Names /\ worker[w].at # "idle"
      /\ task[worker[w].key][worker[w].sequence] # "none"
  BY <1>1 DEF EmailType, TaskInv, Delivered, Early
<1>3. Leaving(w)
  BY <1>1, <1>2 DEF Leaving, Early
<1>4. worker'[w].at = "idle" /\ \A v \in Workers : v # w => worker'[v] = worker[v]
  BY <1>1, FreedIs
<1>5. (\A v \in Workers : Still(v)) /\ (\A j \in Keys : SameRow(j))
      /\ faults \in Nat /\ faults' \in Nat /\ faults <= faults'
  BY <1>1, <1>2, <1>4, FaultsCount, ScheduledGoes DEF Still, Delivering
<1>6. Leased'
  BY <1>5, LeasedOn
<1>7. \A j \in Keys :
        /\ row[j].scheduled # 0 => row'[j].scheduled # 0
        /\ row'[j].scheduled # row[j].scheduled => j = worker[w].key /\ row[j].sequence = worker[w].sequence
  BY <1>1, <1>2, Marked
<1>8. \A j \in Keys, i \in Names :
        /\ task'[j][i] = "none" <=> task[j][i] = "none"
        /\ Anchor(j, i) => task'[j][i] = task[j][i]
  BY <1>1, <1>2, <1>3, LeftTask
<1>9. ASSUME NEW j \in Keys PROVE Stands(j)
  <2>1. /\ (Held(j)' <=> Held(j)) /\ (InUse(j)' <=> InUse(j))
        /\ \A v \in Workers : Holds(v, j)' <=> Holds(v, j)
    BY <1>5, HoldsOn
  <2>2. Demand(j)' => Demand(j)
    <3>1. InUse(j) => row[j].sequence \in Names
      BY DEF TaskInv, RowsUsed
    <3>2. row'[j].sequence = row[j].sequence
      BY <1>5 DEF SameRow
    <3>3. QED BY <1>2, <1>7, <1>8, <2>1, <3>1, <3>2 DEF Demand
  <2>3. \A i \in Names : /\ Anchor(j, i) /\ Live(j, i) => Live(j, i)'
                         /\ ~Named(w, j, i)'
    BY <1>4, <1>8 DEF Live, Named
  <2>4. Anchored(j) => Anchored(j)'
    BY <1>1, <1>4, <1>7, <1>8, <2>1, <2>3, WorkerAnchors
  <2>5. QED BY <2>1, <2>2, <2>4 DEF Stands
<1>10. QED BY <1>5, <1>6, <1>9, KeptOn

\* A worker that claims a row holds it.
LEMMA ClaimKept ==
  ASSUME EmailInv, TaskInv, Leased, Kept, NEW w \in Workers, Claim(w)
  PROVE  Leased' /\ Kept'
<1> DEFINE k == worker[w].key
<1>1. /\ UNCHANGED <<capture, faults>> /\ worker[w].at = "read" /\ worker[w].due
      /\ EmailType /\ faults \in Nat /\ faults' \in Nat /\ faults <= faults'
  BY FaultsCount DEF Claim, EmailInv
<1>2. k \in Keys /\ ~Early(w) /\ ~Leaving(w) /\ row \in [Keys -> Row]
  BY <1>1 DEF EmailType, Leaving, Early, Delivering
<1>3. CASE Terminal(k) \/ Busy(k)
  <2>1. row' = row /\ worker' = Freed(w) /\ (task' = task \/ (Terminal(k) /\ task' = Acknowledged(w)))
    BY <1>3 DEF Claim
  <2>2. worker'[w].at = "idle" /\ \A v \in Workers : v # w => worker'[v] = worker[v]
    BY <1>1, <2>1, FreedIs
  <2>3. (\A v \in Workers : Still(v)) /\ (\A j \in Keys : SameRow(j))
    BY <1>1, <2>1, <2>2 DEF Still, SameRow, Delivering
  <2>4. Leased'
    BY <1>1, <2>3, LeasedOn
  <2>5. ASSUME NEW j \in Keys PROVE Stands(j)
    <3>1. /\ (Held(j)' <=> Held(j)) /\ (InUse(j)' <=> InUse(j))
          /\ \A v \in Workers : Holds(v, j)' <=> Holds(v, j)
      BY <2>3, HoldsOn
    <3>2. CASE j = k /\ Terminal(k)
      BY <3>1, <3>2 DEF Stands, Demand, InUse, Terminal
    <3>3. CASE ~(j = k /\ Terminal(k))
      <4>1. \A i \in Names : task'[j][i] = task[j][i]
        <5>1. CASE task' = task
          BY <5>1
        <5>2. CASE Terminal(k) /\ task' = Acknowledged(w)
          BY <1>1, <3>3, <5>2, AcknowledgedGoes DEF Named
        <5>3. QED BY <2>1, <5>1, <5>2
      <4>2. Demand(j)' => Demand(j)
        BY <2>1, <3>1, <4>1 DEF Demand, TaskInv, RowsUsed
      <4>3. Anchored(j) => Anchored(j)'
        BY <1>1, <2>1, <2>2, <3>1, <4>1, WorkerAnchors DEF Live, Named
      <4>4. QED BY <3>1, <4>2, <4>3 DEF Stands
    <3>4. QED BY <3>2, <3>3
  <2>6. QED BY <1>1, <2>4, <2>5, KeptOn
<1>4. CASE ~Terminal(k) /\ ~Busy(k)
  <2>1. /\ task' = task
        /\ row' = [row EXCEPT ![k].state = "sending", ![k].holder = w, ![k].lease = TRUE]
        /\ worker' = [worker EXCEPT ![w].at = "claimed", ![w].sequence = row[k].sequence]
    BY <1>4 DEF Claim
  <2>2. InUse(k)
    <3>1. task[k][worker[w].name] # "none" /\ worker[w].name \in Names
      BY <1>1 DEF EmailType, TaskInv, Delivered
    <3>2. row[k].state # "none" /\ row[k].state \in States
      BY <1>2, <3>1 DEF TaskInv, RowsUsed, Row
    <3>3. QED BY <1>4, <3>2 DEF Terminal, InUse, States
  <2>3. /\ worker'[w].at = "claimed" /\ worker'[w].key = worker[w].key
        /\ worker'[w].name = worker[w].name /\ worker'[w].sequence = row[worker[w].key].sequence
        /\ \A v \in Workers : v # w => worker'[v] = worker[v]
    BY <2>1 DEF EmailInv, EmailType, Delivery
  <2>4. PICK key \in Keys : key = k
    BY <1>2
  <2> HIDE DEF k
  <2>5. /\ row'[key].sequence = row[key].sequence /\ row'[key].scheduled = row[key].scheduled
        /\ row'[key].state = "sending" /\ row'[key].holder = w /\ row'[key].lease
        /\ \A j \in Keys : j # key => row'[j] = row[j]
    BY <1>2, <2>1, <2>4 DEF Row
  <2>6. worker'[w].key = key
    BY <2>3, <2>4 DEF k
  <2>7. Holds(w, key)'
    BY <2>3, <2>4, <2>5, <2>6 DEF Holds, Delivering, k
  <2>8. \A j \in Keys, v \in Workers : j # key => (Holds(v, j)' <=> Holds(v, j))
    BY <1>1, <2>3, <2>4, <2>5, <2>6 DEF Holds, Delivering, k
  <2>9. Leased'
    <3> SUFFICES ASSUME NEW j \in Keys, NEW v \in Workers, Holds(v, j)'
                 PROVE  row'[j].state = "sending" /\ (faults' = 0 => row'[j].lease)
      BY DEF Leased
    <3>1. CASE j = key
      BY <2>5, <3>1
    <3>2. CASE j # key
      BY <1>1, <2>5, <2>8, <3>2 DEF Leased
    <3>3. QED BY <3>1, <3>2
  <2>10. ~Leaving(w)'
    BY <2>3, <2>6, <2>7 DEF Leaving, Early, Delivering
  <2>11. \A j \in Keys : Demand(j)' => Demand(j)
    BY <1>2, <2>1, <2>2, <2>4, <2>5 DEF Demand, InUse
  <2>12. \A j \in Keys : row'[j].scheduled = row[j].scheduled
    BY <2>5
  <2>13. ASSUME NEW j \in Keys PROVE Stands(j)
    <3>1. CASE j # key
      <4>1. Anchored(j) => Anchored(j)'
        BY <1>1, <2>1, <2>3, <2>8, <2>10, <2>12, <3>1, WorkerAnchors DEF Live
      <4>2. Held(j) => Held(j)'
        BY <2>8, <3>1 DEF Held
      <4>3. QED BY <2>11, <4>1, <4>2 DEF Stands
    <3>2. CASE j = key /\ faults > 0
      BY <1>1, <2>7, <3>2 DEF Stands, Held
    <3>3. CASE j = key /\ faults = 0
      <4>1. \A v \in Workers : ~Holds(v, j)
        BY <1>4, <2>4, <3>3 DEF Leased, Busy, k
      <4>2. Anchored(j) => Anchored(j)'
        BY <1>1, <2>1, <2>3, <2>10, <2>12, <4>1, WorkerAnchors DEF Live
      <4>3. QED BY <2>11, <3>3, <4>1, <4>2 DEF Stands, Held
    <3>4. QED BY <1>1, <3>1, <3>2, <3>3
  <2>14. QED BY <1>1, <2>9, <2>13, KeptOn
<1>5. QED BY <1>3, <1>4

\* A delivery that goes on holds its row as before.
LEMMA DeliveryKept ==
  ASSUME EmailInv, TaskInv, Leased, Kept, NEW w \in Workers, Check(w) \/ Mail(w)
  PROVE  Leased' /\ Kept'
<1>1. UNCHANGED <<row, task, capture, faults>> /\ EmailType
      /\ faults \in Nat /\ faults' \in Nat /\ faults <= faults'
  BY FaultsCount DEF Check, Mail, EmailInv
<1>2. /\ worker[w].at \in Delivering /\ worker'[w].at \in Delivering
      /\ worker'[w].key = worker[w].key /\ worker'[w].name = worker[w].name
      /\ worker'[w].sequence = worker[w].sequence
      /\ \A v \in Workers : v # w => worker'[v] = worker[v]
  <2>1. CASE Check(w)
    BY <2>1 DEF Check, EmailInv, EmailType, Delivery, Delivering
  <2>2. CASE Mail(w)
    BY <2>2 DEF Mail, EmailInv, EmailType, Delivery, Delivering
  <2>3. QED BY <2>1, <2>2
<1>3. \A v \in Workers, j \in Keys : Holds(v, j)' <=> Holds(v, j)
  BY <1>1, <1>2 DEF Holds
<1>4. Leased'
  BY <1>1, <1>3 DEF Leased
<1>5. Leaving(w)' => Leaving(w)
  <2>1. worker[w].key \in Keys
    BY <1>1, <1>2 DEF EmailType, Delivering
  <2>2. QED BY <1>2, <1>3, <2>1 DEF Leaving, Early, Delivering
<1>6. ASSUME NEW j \in Keys PROVE Stands(j)
  <2>1. (Held(j)' <=> Held(j)) /\ (Demand(j)' => Demand(j))
    BY <1>1, <1>3 DEF Held, Demand, InUse
  <2>2. \A i \in Names : Named(w, j, i)' => Named(w, j, i)
    BY <1>2 DEF Named, Delivering
  <2>3. Anchored(j) => Anchored(j)'
    BY <1>1, <1>2, <1>3, <1>5, <2>2, WorkerAnchors DEF Live
  <2>4. QED BY <2>1, <2>3 DEF Stands
<1>7. QED BY <1>1, <1>4, <1>6, KeptOn

\* A delivery that ends ends its row, or leaves a task that another stands for.
LEMMA FinishKept ==
  ASSUME EmailInv, TaskInv, Leased, Kept, NEW w \in Workers, Finish(w)
  PROVE  Leased' /\ Kept'
<1> DEFINE state == IF worker[w].at = "mailed" THEN "sent" ELSE "suppressed"
<1>1. /\ UNCHANGED <<capture, faults>> /\ EmailType
      /\ faults \in Nat /\ faults' \in Nat /\ faults <= faults'
      /\ worker[w].at \in Delivering /\ worker[w].at # "idle"
      /\ task' = Acknowledged(w) /\ worker' = Freed(w) /\ row \in [Keys -> Row]
  BY FaultsCount DEF Finish, EmailInv, EmailType, Delivering
<1>2. worker'[w].at = "idle" /\ \A v \in Workers : v # w => worker'[v] = worker[v]
  BY <1>1, FreedIs
<1>3. PICK k \in Keys : k = worker[w].key
  BY <1>1 DEF EmailType
<1>4. row' = IF Owns(w) THEN [row EXCEPT ![k] = Ended(state)] ELSE row
  BY <1>3 DEF Finish
<1>5. /\ Ended(state).state \notin {"pending", "sending"} /\ Ended(state).holder = Nobody
  BY DEF Ended, NoRow
<1> HIDE DEF state
<1>6. Owns(w) <=> Holds(w, k)
  BY <1>1, <1>3 DEF Owns, Holds
<1>7. /\ \A j \in Keys : j # k => row'[j] = row[j]
      /\ Owns(w) => row'[k].state \notin {"pending", "sending"} /\ row'[k].holder = Nobody
      /\ ~Owns(w) => row' = row
  BY <1>1, <1>4, <1>5
<1>8. \A v \in Workers, j \in Keys : Holds(v, j)' => v # w /\ Holds(v, j) /\ row'[j] = row[j]
  BY <1>2, <1>7 DEF Holds, Delivering
<1>9. Leased'
  BY <1>1, <1>8 DEF Leased
<1>10. ASSUME NEW j \in Keys PROVE Stands(j)
  <2>1. CASE j = k /\ Owns(w)
    BY <1>7, <2>1 DEF Stands, Demand, InUse
  <2>2. CASE ~(j = k /\ Owns(w))
    <3>1. row'[j] = row[j]
      BY <1>7, <2>2
    <3>2. \A v \in Workers : v # w => (Holds(v, j) => Holds(v, j)')
      BY <1>2, <3>1 DEF Holds
    <3>3. ~Holds(w, j)
      BY <1>3, <1>6, <2>2 DEF Holds
    <3>4. \A i \in Names : Named(w, j, i) => Leaving(w)
      BY <1>1, <3>3 DEF Named, Leaving
    <3>5. \A i \in Names : /\ task'[j][i] = "none" <=> task[j][i] = "none"
                           /\ Anchor(j, i) => task'[j][i] = task[j][i]
                           /\ ~Named(w, j, i)'
      BY <1>1, <1>2, <3>4, LeftTask DEF Named
    <3>6. Anchored(j) => Anchored(j)'
      BY <1>1, <1>2, <3>1, <3>2, <3>5, WorkerAnchors DEF Live
    <3>7. Held(j) => Held(j)'
      BY <3>2, <3>3 DEF Held
    <3>8. Demand(j)' => Demand(j)
      BY <3>1, <3>5 DEF Demand, InUse, TaskInv, RowsUsed
    <3>9. QED BY <3>6, <3>7, <3>8 DEF Stands
  <2>3. QED BY <2>1, <2>2
<1>11. QED BY <1>1, <1>9, <1>10, KeptOn

\* A delivery that fails leaves its task.
LEMMA StoppedKept ==
  ASSUME EmailInv, TaskInv, Leased, Kept, NEW w \in Workers, Raise(w) \/ Stop(w), faults' = faults + 1
  PROVE  Leased' /\ Kept'
<1>1. /\ UNCHANGED <<capture, task>> /\ EmailType /\ worker' = Freed(w) /\ row \in [Keys -> Row]
      /\ faults \in Nat /\ faults' \in Nat /\ faults <= faults' /\ faults' > 0
      /\ faults > 0 => faults' > 1
      /\ worker[w].at # "idle"
  BY FaultsCount DEF Raise, Stop, EmailInv, EmailType
<1>2. worker'[w].at = "idle" /\ \A v \in Workers : v # w => worker'[v] = worker[v]
  BY <1>1, FreedIs
<1>3. PICK k \in Keys : k = worker[w].key
  BY <1>1 DEF EmailType
<1>4. \/ row' = row
      \/ row[k].holder = w /\ row' = [row EXCEPT ![k].state = "pending", ![k].holder = Nobody, ![k].lease = FALSE]
  BY <1>3 DEF Raise, Stop
<1>5. \A j \in Keys :
        \/ row'[j] = row[j]
        \/ /\ j = k /\ row[k].holder = w /\ row'[k].holder = Nobody
           /\ row'[j].sequence = row[j].sequence /\ row'[j].scheduled = row[j].scheduled
  BY <1>1, <1>4 DEF Row
<1>6. \A v \in Workers, j \in Keys : v # w => (Holds(v, j)' <=> Holds(v, j))
  BY <1>2, <1>5 DEF Holds
<1>7. Leased'
  <2> SUFFICES ASSUME NEW v \in Workers, NEW j \in Keys, Holds(v, j)'
               PROVE  row'[j].state = "sending"
    BY <1>1 DEF Leased
  <2>1. v # w
    BY <1>2 DEF Holds, Delivering
  <2>2. Holds(v, j) /\ row'[j].holder = v
    BY <1>6, <2>1 DEF Holds
  <2>3. row'[j] = row[j]
    BY <1>5, <2>2
  <2>4. QED BY <2>2, <2>3 DEF Leased
<1>8. ASSUME NEW j \in Keys PROVE Stands(j)
  <2>1. /\ row'[j].scheduled = row[j].scheduled /\ row'[j].sequence = row[j].sequence
        /\ InUse(j)' => InUse(j)
    BY <1>5 DEF InUse, TaskInv, RowsUsed
  <2>2. Demand(j)' => Demand(j)
    BY <1>1, <2>1 DEF Demand
  <2>3. Anchored(j) => Anchored(j)'
    BY <1>1, <1>2, <1>6, <2>1, WorkerAnchors DEF Named, Live
  <2>4. QED BY <1>1, <2>2, <2>3 DEF Stands
<1>9. QED BY <1>1, <1>7, <1>8, KeptOn

\* A message that is put in a row that is held gets a task of its own.
LEMMA UpsertKept ==
  ASSUME EmailInv, TaskInv, Leased, Kept, NEW c \in capture, Upsert(c)
  PROVE  Leased' /\ Kept'
<1>1. PICK k \in Keys, q \in Names : k = c.key /\ q = c.sequence
  BY UpsertIs
<1>2. /\ UNCHANGED <<talk, task, worker, faults>> /\ c.at = "committed"
      /\ row'[k].sequence = q /\ row'[k].state = "pending"
      /\ row'[k].scheduled = row[k].scheduled /\ row'[k].holder = row[k].holder
      /\ \A j \in Keys : j # k => row'[j] = row[j]
      /\ Untouched(k, q)
      /\ \A d \in capture : d # c => d \in capture'
      /\ row[k].state # "pending" =>
           \E d \in capture' : d.key = k /\ d.sequence = q /\ d.at = "upserted"
  BY <1>1, UpsertIs
<1>3. EmailType /\ faults \in Nat /\ faults' \in Nat /\ faults <= faults'
  BY <1>2, FaultsCount DEF EmailInv
<1>4. \A v \in Workers : ~Holds(v, k)'
  BY <1>2 DEF Holds, Untouched, Delivering
<1>5. \A v \in Workers, j \in Keys : j # k => (Holds(v, j)' <=> Holds(v, j))
  BY <1>2 DEF Holds
<1>6. Leased'
  <2> SUFFICES ASSUME NEW v \in Workers, NEW j \in Keys, Holds(v, j)'
               PROVE  row'[j].state = "sending" /\ (faults' = 0 => row'[j].lease)
    BY DEF Leased
  <2>1. j # k
    BY <1>4
  <2>2. QED BY <1>2, <1>5, <2>1 DEF Leased
<1>7. ASSUME NEW j \in Keys, \A v \in Workers : Holds(v, j) => Holds(v, j)'
      PROVE  Anchored(j) => Anchored(j)'
  <2>1. row'[j].scheduled = row[j].scheduled
    BY <1>2
  <2>2. ASSUME NEW n \in Names, Coming(j, n) PROVE Coming(j, n)'
    BY <1>2, <2>1, <2>2 DEF Coming
  <2>3. ASSUME NEW v \in Workers, NEW n \in Names, Named(v, j, n)', Leaving(v)'
        PROVE  Named(v, j, n) /\ Leaving(v)
    <3>1. Named(v, j, n) /\ worker[v].key = j
      BY <1>2, <2>3 DEF Named
    <3>2. Leaving(v)
      BY <1>2, <1>7, <2>3, <3>1 DEF Leaving, Early
    <3>3. QED BY <3>1, <3>2
  <2>4. QED BY <1>2, <2>2, <2>3, AnchoredStays DEF Live
<1>8. ASSUME NEW j \in Keys PROVE Stands(j)
  <2>1. CASE j # k
    <3>1. (Held(j)' <=> Held(j)) /\ (Demand(j)' => Demand(j))
      BY <1>2, <1>5, <2>1 DEF Held, Demand, InUse
    <3>2. Anchored(j) => Anchored(j)'
      BY <1>5, <1>7, <2>1
    <3>3. QED BY <3>1, <3>2 DEF Stands
  <2>2. ASSUME j = k, Demand(k)' PROVE Stands(j)
    <3>1. task[k][q] = "none" /\ row[k].scheduled # 0
      BY <1>2, <2>2 DEF Demand, Untouched
    <3>2. Demand(k)
      BY <3>1 DEF Demand, TaskInv, RowsUsed
    <3>3. CASE Held(k)
      <4>1. row[k].state = "sending"
        BY <3>3 DEF Held, Leased
      <4>2. Coming(k, q)'
        BY <1>2, <3>1, <4>1 DEF Coming
      <4>3. \A v \in Workers : Named(v, k, q)' => Named(v, k, q)
        BY <1>2 DEF Named
      <4>4. Anchored(k)'
        BY <3>1, <4>2, <4>3, NewAnchor
      <4>5. QED BY <2>2, <4>4 DEF Stands
    <3>4. CASE ~Held(k)
      <4>1. Anchored(k) => Anchored(k)'
        BY <1>7, <3>4 DEF Held
      <4>2. QED BY <2>2, <3>2, <3>4, <4>1 DEF Stands
    <3>5. QED BY <3>3, <3>4
  <2>3. QED BY <2>1, <2>2 DEF Stands
<1>9. QED BY <1>3, <1>6, <1>8, KeptOn

\* At the start there are no rows to wait for anything.
LEMMA StandingInit == Init => StandingInv
<1> SUFFICES ASSUME Init PROVE StandingInv
  OBVIOUS
<1>1. IInv
  BY InitInv
<1>2. /\ row = [k \in Keys |-> NoRow] /\ task = [k \in Keys |-> [n \in Names |-> "none"]]
      /\ capture = {} /\ worker = [w \in Workers |-> Idle]
  BY DEF Init
<1>3. /\ \A k \in Keys : /\ row[k].state = "none" /\ row[k].sequence = 0 /\ row[k].scheduled = 0
                         /\ row[k].holder = Nobody /\ \A n \in Names : task[k][n] = "none"
      /\ \A w \in Workers : worker[w].at = "idle"
  BY <1>2 DEF NoRow, Idle
<1>4. \A n \in Names : n # 0
  BY DEF Names
<1>5. Ahead /\ Delivered
  BY <1>2, <1>3, <1>4 DEF Ahead, Untouched, Delivered, Early
<1>6. OnTime /\ RowsUsed
  BY <1>3, <1>4 DEF OnTime, Named, RowsUsed, InUse
<1>7. Leased /\ Kept
  BY <1>3 DEF Leased, Holds, Delivering, Kept, Demand, InUse
<1>8. QED BY <1>1, <1>5, <1>6, <1>7 DEF StandingInv, TaskInv

\* The tasks stay in order.
LEMMA TaskNext == IInv /\ TaskInv /\ Next => TaskInv'
<1> SUFFICES ASSUME IInv, TaskInv, Next PROVE TaskInv'
  OBVIOUS
<1>1. MessagingInv /\ EmailInv /\ EmailType
  BY DEF IInv, EmailInv
<1>2. EmailType'
  BY NextInv DEF IInv, EmailInv
<1>3. Goes => TaskInv'
  BY <1>1, <1>2, GoesOn
<1>4. ASSUME NEW t \in Conversations, NEW u \in Users, NEW op \in Operations, SendAndCapture(t, u, op)
      PROVE  TaskInv'
  BY <1>1, <1>4, SendTasks
<1>5. ASSUME NEW u \in Users, Using(u), UNCHANGED email PROVE TaskInv'
  BY <1>1, <1>3, <1>5, UsingGoes
<1>6. ASSUME NEW c \in capture, Capture(c) PROVE TaskInv'
  <2>1. CASE Upsert(c)
    BY <1>1, <2>1, UpsertTasks
  <2>2. CASE Enqueue(c)
    BY <1>1, <1>3, <2>2, EnqueueGoes DEF Enqueue
  <2>3. CASE MarkScheduled(c)
    BY <1>1, <1>3, <2>3, MarkScheduledGoes DEF MarkScheduled
  <2>4. QED BY <1>6, <2>1, <2>2, <2>3 DEF Capture
<1>7. ASSUME NEW k \in Keys, Passing(k) PROVE TaskInv'
  <2>1. UNCHANGED messaging
    BY <1>7 DEF Passing, FallDue, Elapse, Expire
  <2>2. QED BY <1>1, <1>3, <1>7, <2>1, PassingGoes
<1>8. ASSUME NEW w \in Workers, NEW k \in Keys, NEW n \in Names, Take(w, k, n) PROVE TaskInv'
  BY <1>1, <1>3, <1>8, TakeGoes DEF Take
<1>9. ASSUME NEW w \in Workers, Deliver(w) PROVE TaskInv'
  <2>1. UNCHANGED messaging
    BY <1>9 DEF Deliver, Reschedule, MarkRescheduled, Claim, Check, Mail, Finish
  <2>2. QED BY <1>1, <1>3, <1>9, <2>1, RescheduleGoes, MarkRescheduledGoes, ClaimGoes, DeliveryGoes,
               FinishGoes DEF Deliver
<1>10. CASE Fault
  <2>1. UNCHANGED messaging
    BY <1>10 DEF Fault, Raise, Stop, Forget
  <2>2. QED BY <1>1, <1>3, <1>10, <2>1, FaultGoes
<1>11. QED BY <1>4, <1>5, <1>6, <1>7, <1>8, <1>9, <1>10 DEF Next

\* So do the rows that wait.
LEMMA KeptNext == StandingInv /\ Next => Leased' /\ Kept'
<1> SUFFICES ASSUME StandingInv, Next PROVE Leased' /\ Kept'
  OBVIOUS
<1>1. EmailInv /\ TaskInv /\ Leased /\ Kept
  BY DEF StandingInv, IInv
<1>2. ASSUME NEW c \in capture, Capture(c) PROVE Leased' /\ Kept'
  BY <1>1, <1>2, UpsertKept, EnqueueKept, MarkScheduledKept DEF Capture
<1>3. ASSUME NEW k \in Keys, Passing(k) PROVE Leased' /\ Kept'
  BY <1>1, <1>3, DueKept, ExpireKept DEF Passing
<1>4. ASSUME NEW w \in Workers, NEW k \in Keys, NEW n \in Names, Take(w, k, n) PROVE Leased' /\ Kept'
  BY <1>1, <1>4, TakeKept
<1>5. ASSUME NEW w \in Workers, Deliver(w) PROVE Leased' /\ Kept'
  BY <1>1, <1>5, RescheduleKept, MarkRescheduledKept, ClaimKept, DeliveryKept, FinishKept DEF Deliver
<1>6. CASE Fault
  <2>1. faults' = faults + 1
    BY <1>6 DEF Fault
  <2>2. ASSUME NEW w \in Workers, Raise(w) \/ Stop(w) PROVE Leased' /\ Kept'
    BY <1>1, <2>1, <2>2, StoppedKept
  <2>3. ASSUME NEW c \in capture, Forget(c) PROVE Leased' /\ Kept'
    BY <1>1, <2>1, <2>3, ForgetKept
  <2>4. QED BY <1>6, <2>2, <2>3 DEF Fault
<1>7. QED BY <1>1, <1>2, <1>3, <1>4, <1>5, <1>6, TalkKept DEF Next

\* Every step keeps what rows wait for.
LEMMA StandingNext == StandingInv /\ [Next]_vars => StandingInv'
<1> SUFFICES ASSUME StandingInv, [Next]_vars PROVE StandingInv'
  OBVIOUS
<1>1. IInv'
  BY NextInv DEF StandingInv
<1>2. CASE Next
  BY <1>1, <1>2, TaskNext, KeptNext DEF StandingInv
<1>3. CASE UNCHANGED vars
  <2>1. UNCHANGED <<row, task, capture, worker, faults, talk>>
    BY <1>3 DEF vars, messaging, email
  <2>2. /\ \A k \in Keys : (InUse(k)' <=> InUse(k)) /\ (Demand(k)' <=> Demand(k))
        /\ \A w \in Workers, k \in Keys : Holds(w, k)' <=> Holds(w, k)
        /\ \A w \in Workers : (Early(w)' <=> Early(w)) /\ (Leaving(w)' <=> Leaving(w))
        /\ \A w \in Workers, k \in Keys, n \in Names : Named(w, k, n)' <=> Named(w, k, n)
    BY <2>1 DEF InUse, Demand, Holds, Early, Leaving, Named
  <2>3. \A k \in Keys, n \in Names : (Untouched(k, n)' <=> Untouched(k, n)) /\ (Anchor(k, n)' <=> Anchor(k, n))
    BY <2>1, <2>2 DEF Untouched, Anchor, Live, Coming
  <2>4. TaskInv'
    BY <2>1, <2>2, <2>3 DEF StandingInv, TaskInv, Ahead, Delivered, OnTime, RowsUsed
  <2>5. Leased' /\ Kept'
    BY <2>1, <2>2, <2>3 DEF StandingInv, Leased, Kept, Anchored, Held
  <2>6. QED BY <1>1, <2>4, <2>5 DEF StandingInv
<1>4. QED BY <1>2, <1>3

-----------------------------------------------------------------------------
(* The theorems *)

\* The email beside the messages is none of their business: whatever captures,
\* tasks and workers do, the messages are those of the messages' own specification.
THEOREM EmailLeavesMessages == Spec => MessagingSpec
<1>1. Init => MessagingInit
  BY DEF Init
<1>2. QED BY <1>1, MessagingSteps, PTL DEF Spec, MessagingSpec

\* A conversation that counts as unread is listed for the user who has to read it.
THEOREM UnreadListedHolds == Spec => []UnreadListed
<1>1. MessagingInv => UnreadListed
  BY DEF MessagingInv
<1>2. QED BY <1>1, EmailLeavesMessages, MessagingInitInv, MessagingNextInv, PTL DEF MessagingSpec

\* Only what a page has shown is marked read, whoever sends, hides or clears.
THEOREM ReadWasShownHolds == Spec => []ReadWasShown
<1>1. MessagingInv => ReadWasShown
  BY DEF MessagingInv
<1>2. QED BY <1>1, EmailLeavesMessages, MessagingInitInv, MessagingNextInv, PTL DEF MessagingSpec

\* The unread counter never counts a message that was read, cleared or hidden, and
\* misses one only for a message that was hidden after it was cleared.
THEOREM UnreadIsBounded == Spec => []UnreadBounded
<1>1. UnreadInv => UnreadBounded
  BY DEF UnreadInv
<1>2. QED BY <1>1, EmailLeavesMessages, UnreadInit, UnreadNext, PTL DEF MessagingSpec

\* A user's total is the sum of the user's unread counters, whoever sends, reads,
\* hides or clears, and no decrement of it is cut off at zero.
THEOREM TotalsAgree == Spec => []CountsAgree
<1>1. TallyInv => CountsAgree
  BY DEF TallyInv, Tallied, CountsAgree
<1>2. QED BY <1>1, EmailLeavesMessages, TallyInit, TallyNext, PTL DEF MessagingSpec

\* The rows, tasks, captures and workers keep their types.
THEOREM TypeCorrect == Spec => []TypeOK
<1>1. IInv => TypeOK
  <2> SUFFICES ASSUME IInv PROVE TypeOK
    OBVIOUS
  <2>1. MessagingTypeOK /\ asked \subseteq Subscribers /\ EmailType
    BY DEF IInv, MessagingInv, EmailInv
  <2>2. \A w \in Workers : worker[w] \in Delivery
    BY <2>1 DEF EmailType
  <2>3. QED BY <2>1, <2>2 DEF TypeOK, EmailType, Row, States, Captures, Delivery, Delivering
<1>2. QED BY <1>1, InitInv, NextInv, PTL DEF Spec

\* However often tasks are delivered and whatever is captured meanwhile, a message is
\* mailed once, and again only for a failure, a stop or a stalled lease.
THEOREM MailedOnceHolds == Spec => []MailedOnce
<1>1. IInv => MailedOnce
  <2> SUFFICES ASSUME IInv, NEW k \in Keys, NEW n \in Names PROVE mailed[k][n] <= 1 + faults
    BY DEF MailedOnce
  <2>1. mailed[k][n] \in Nat /\ faults \in Nat /\ BudgetOf(k, n)
    BY DEF IInv, EmailInv, EmailType, Budget
  <2>2. Cardinality(Attempts(k, n)) \in Nat
    BY AttemptsCount
  <2>3. QED BY <2>1, <2>2 DEF BudgetOf
<1>2. QED BY <1>1, InitInv, NextInv, PTL DEF Spec

\* A row ends as sent only for a message that was mailed.
THEOREM SentWasMailedHolds == Spec => SentWasMailed
<1>1. IInv /\ [Next]_vars =>
        \A k \in Keys : row[k].state # "sent" /\ row'[k].state = "sent" =>
          mailed[k][row[k].sequence] > 0
  <2> SUFFICES ASSUME IInv, [Next]_vars, NEW k \in Keys,
                      row[k].state # "sent", row'[k].state = "sent"
               PROVE  mailed[k][row[k].sequence] > 0
    OBVIOUS
  <2>1. row \in [Keys -> Row] /\ EmailInv
    BY DEF IInv, EmailInv, EmailType
  <2>2. row' # row
    OBVIOUS
  <2>3. CASE \E t \in Conversations, u \in Users, op \in Operations : SendAndCapture(t, u, op)
    BY <2>2, <2>3 DEF SendAndCapture
  <2>4. CASE \E u \in Users : Using(u) /\ UNCHANGED email
    BY <2>2, <2>4 DEF email
  <2>5. ASSUME NEW c \in capture, Capture(c) PROVE FALSE
    <3>1. c.key \in Keys /\ c.sequence \in Nat
      BY <2>1, CaptureTyped
    <3>2. CASE Upsert(c)
      <4>1. row'[c.key].state = "pending" /\ \A j \in Keys : j # c.key => row'[j] = row[j]
        BY <2>1, <3>1, <3>2 DEF Upsert, Row
      <4>2. QED BY <4>1
    <3>3. CASE Enqueue(c)
      BY <2>2, <3>3 DEF Enqueue
    <3>4. CASE MarkScheduled(c)
      <4>1. SameRow(k)
        BY <2>1, <3>1, <3>4, ScheduledIs DEF MarkScheduled, EmailInv
      <4>2. QED BY <4>1 DEF SameRow
    <3>5. QED BY <2>5, <3>2, <3>3, <3>4 DEF Capture
  <2>6. ASSUME NEW j \in Keys, Passing(j) PROVE FALSE
    BY <2>1, <2>6 DEF Passing, FallDue, Elapse, Expire, Row
  <2>7. ASSUME NEW w \in Workers, NEW j \in Keys, NEW n \in Names, Take(w, j, n) PROVE FALSE
    BY <2>2, <2>7 DEF Take
  <2>8. ASSUME NEW w \in Workers, Deliver(w) PROVE mailed[k][row[k].sequence] > 0
    <3>1. CASE Reschedule(w) \/ Check(w) \/ Mail(w)
      BY <2>2, <3>1 DEF Reschedule, Check, Mail
    <3>2. CASE MarkRescheduled(w)
      BY <2>1, <3>2 DEF MarkRescheduled, Scheduled, Row
    <3>3. CASE Claim(w)
      BY <2>1, <3>3 DEF Claim, Row
    <3>4. CASE Finish(w)
      <4>1. worker[w].key \in Keys /\ worker[w].key = k
        BY <2>1, <3>4 DEF Finish, EmailInv, EmailType
      <4>2. Owns(w) /\ worker[w].at = "mailed"
        BY <2>1, <3>4, <4>1 DEF Finish, Ended, NoRow, Row
      <4>3. QED BY <2>1, <4>1, <4>2 DEF Owns, EmailInv, Mailing
    <3>5. QED BY <2>8, <3>1, <3>2, <3>3, <3>4 DEF Deliver
  <2>9. CASE Fault
    <3>1. ASSUME NEW w \in Workers, Raise(w) PROVE FALSE
      <4>1. worker[w].key \in Keys
        BY <2>1, <3>1 DEF Raise, EmailInv, EmailType
      <4>2. row'[worker[w].key].state = "pending"
            /\ \A j \in Keys : j # worker[w].key => row'[j] = row[j]
        BY <2>1, <2>2, <3>1, <4>1 DEF Raise, Row
      <4>3. QED BY <4>2
    <3>2. QED BY <2>2, <2>9, <3>1 DEF Fault, Stop, Forget
  <2>10. CASE UNCHANGED vars
    BY <2>2, <2>10 DEF vars, email
  <2>11. QED BY <2>3, <2>4, <2>5, <2>6, <2>7, <2>8, <2>9, <2>10 DEF Next
<1>2. QED BY <1>1, InitInv, NextInv, PTL DEF Spec, SentWasMailed

\* A row that was scheduled once, and is in use, keeps a task, a worker at it, or a sender
\* about to enqueue one: no message is left in it that nobody will deliver. This survives one
\* fault, unless that may be a sender that gives up between a row and its task.
THEOREM NeverStrandedHolds == Spec => []NeverStranded
<1>1. StandingInv => NeverStranded
  <2> SUFFICES ASSUME StandingInv, NEW k \in Keys, faults <= (IF Strands THEN 0 ELSE 1),
                      row[k].state \in {"pending", "sending"}, row[k].scheduled # 0
               PROVE  \/ \E n \in Names : task[k][n] \in {"delayed", "ready"}
                      \/ \E c \in capture : c.key = k /\ c.at = "upserted"
                      \/ Active(k)
    BY DEF NeverStranded
  <2>1. Demand(k)
    BY DEF Demand, InUse
  <2>2. Anchored(k) \/ Held(k)
    <3>1. faults \in Nat
      BY DEF StandingInv, IInv, EmailInv, EmailType
    <3>2. (faults = 0 => Anchored(k)) /\ (~Strands /\ faults <= 1 => Anchored(k) \/ Held(k))
      BY <2>1 DEF StandingInv, Kept
    <3>3. QED BY <3>1, <3>2
  <2>3. CASE Anchored(k)
    BY <2>3 DEF Anchored, Anchor, Live, Coming
  <2>4. CASE Held(k)
    BY <2>4 DEF Held, Holds, Active, Delivering
  <2>5. QED BY <2>2, <2>3, <2>4
<1>2. Init => StandingInv
  BY StandingInit
<1>3. StandingInv /\ [Next]_vars => StandingInv'
  BY StandingNext
<1>4. QED BY <1>1, <1>2, <1>3, PTL DEF Spec
=============================================================================
