------------------------- MODULE DocumentSyncProofs -------------------------
(***************************************************************************)
(* One collaborative document, for any browsers, edits and faults: its types, *)
(* then that whoever holds a cursor holds what it names, that an accepted     *)
(* checkpoint loses nothing of the durable one, of Redis or of a kept record, *)
(* and that an addition of a report is durable before anyone sees it. No      *)
(* behaviour is assumed away: the edits that the three weaknesses let go are  *)
(* named, in astray, and everything else is shown to be kept.                 *)
(***************************************************************************)
EXTENDS DocumentSync, TLAPS

-----------------------------------------------------------------------------
(* Types *)

Tabs == [at : {"away", "opening", "open"}, content : SUBSET Content,
         queue : SUBSET Content, own : SUBSET Content, cursor : Cursors, known : Cursors]
Kepts == [content : SUBSET Content, cursor : Cursors]
Posts == [at : {"idle", "sent", "loaded", "reconciled", "accepted", "stored",
                "persisted", "applied", "rejected", "failed"},
          from : {"tab", "replay", "gone"}, kind : {"update", "checkpoint"},
          update : SUBSET Content, ydoc : SUBSET Content, cursor : Cursors,
          seed : SUBSET Content, ack : Cursors]
Requests == [at : {"idle", "sent", "answered"}, from : {"tab", "replay"},
             held : SUBSET Content, cursor : Cursors, seed : SUBSET Content,
             ydoc : SUBSET Content, updates : SUBSET Content, ack : Cursors]
Reports == [at : {"idle", "loaded", "staged", "checked", "pending", "interrupted",
                  "reloaded", "done"}, seed : SUBSET Content]

\* A state of Redis whose log is in order, under a generation drawn so far.
Orderly(s, drawn) ==
    /\ s \in States
    /\ s.base <= s.revision /\ s.generation <= drawn
    /\ \A u \in s.updates : s.base < u.revision /\ u.revision <= s.revision

\* The empty values have their types.
LEMMA EmptyTypes ==
  /\ NoCursor \in Cursors /\ Away \in Tabs /\ NoRecord \in Kepts
  /\ NoPost \in Posts /\ NoPoll \in Requests /\ NoReport \in Reports
  /\ Gone \in States /\ \A n \in Nat : Orderly(Gone, n)
<1>1. NoCursor \in Cursors
  BY DEF NoCursor, Cursors
<1>2. Away \in Tabs /\ NoRecord \in Kepts /\ NoReport \in Reports
  BY <1>1 DEF Away, Tabs, NoRecord, Kepts, NoReport, Reports
<1>3. NoPost \in Posts /\ NoPoll \in Requests
  BY <1>1 DEF NoPost, Posts, NoPoll, Requests
<1>4. Gone \in States /\ \A n \in Nat : Orderly(Gone, n)
  BY DEF Gone, States, Orderly
<1> QED
  BY <1>1, <1>2, <1>3, <1>4

\* The types, part by part.
LEMMA Parts ==
  TypeOK <=>
    /\ saved \subseteq Content /\ astray \subseteq Content /\ Orderly(live, fresh)
    /\ fresh \in Nat /\ mounts \in Nat /\ posts \in Nat /\ faults \in Nat
    /\ tab \in [Clients -> Tabs] /\ kept \in [Clients -> Kepts]
    /\ post \in [Clients -> Posts] /\ poll \in [Clients -> Requests]
    /\ dirty \subseteq Clients /\ typed \subseteq Edits
    /\ current \subseteq Writers /\ lock \in Writers \cup {Free} /\ report \in Reports
  BY Zenon DEF TypeOK, LogInOrder, Orderly, Tabs, Kepts, Posts, Requests, Reports

\* Each transformation of the Redis state keeps it in order.
LEMMA StateTypes ==
  ASSUME NEW s, NEW n \in Nat, Orderly(s, n), NEW seed \in SUBSET Content, NEW g \in Nat
  PROVE  /\ Orderly(NewState(seed, g), g)
         /\ Orderly(Published(s, seed, g), g)
         /\ Orderly([s EXCEPT !.mark = seed], n)
         /\ Orderly(Appended(s, seed), n)
         /\ Orderly(Compacted(s, seed), n)
         /\ Merged(s) \subseteq Content
         /\ Cursor(s) \in Cursors
<1>0. s \in States
  BY DEF Orderly
<1>1. Merged(s) \subseteq Content
  BY <1>0 DEF Merged, States, Updates
<1>2. Orderly(NewState(seed, g), g)
  BY DEF NewState, Orderly, States
<1>3. Orderly(Published(s, seed, g), g)
  BY <1>0, <1>1 DEF Published, Orderly, States
<1>4. Orderly([s EXCEPT !.mark = seed], n)
  BY <1>0 DEF Orderly, States
<1>5. Orderly(Appended(s, seed), n)
  <2>1. CASE seed = {}
    BY <2>1 DEF Appended
  <2>2. CASE seed # {}
    <3> DEFINE u == [revision |-> s.revision + 1, edits |-> seed]
               log == s.updates \cup {u}
               t == [s EXCEPT !.revision = s.revision + 1, !.updates = log]
    <3>1. s.revision \in Nat /\ s.base \in Nat /\ s.updates \in SUBSET Updates
      BY <1>0 DEF States
    <3>2. u \in Updates /\ u.revision = s.revision + 1
      BY <3>1 DEF Updates
    <3>3. \A v \in s.updates : v.revision \in Nat /\ s.base < v.revision /\ v.revision <= s.revision
      BY <3>1 DEF Orderly, Updates
    <3>4. Appended(s, seed) = t
      BY <2>2 DEF Appended
    <3> HIDE DEF u
    <3>5. log \in SUBSET Updates /\ s.revision + 1 \in Nat
      BY <3>1, <3>2
    <3> HIDE DEF log
    <3>6. t \in States
      BY <1>0, <3>5 DEF States
    <3>7. /\ t.generation = s.generation /\ t.base = s.base
          /\ t.revision = s.revision + 1 /\ t.updates = log
      BY <1>0 DEF States
    <3> HIDE DEF t
    <3> USE DEF log
    <3>8. \A v \in t.updates : t.base < v.revision /\ v.revision <= t.revision
      BY <3>1, <3>2, <3>3, <3>7 DEF Orderly
    <3>9. t.base <= t.revision /\ t.generation <= n
      BY <3>1, <3>7 DEF Orderly
    <3> QED
      BY <3>4, <3>6, <3>8, <3>9 DEF Orderly
  <2> QED
    BY <2>1, <2>2
<1>6. Orderly(Compacted(s, seed), n)
  <2> DEFINE t == Compacted(s, seed)
  <2>1. /\ t \in States /\ t.generation = s.generation /\ t.base = s.revision
        /\ t.revision = s.revision /\ t.updates = {}
    BY <1>0 DEF Compacted, States
  <2> HIDE DEF t
  <2>2. Orderly(t, n)
    BY <2>1, <1>0 DEF Orderly, States
  <2> QED
    BY <2>2 DEF t
<1>7. Cursor(s) \in Cursors
  BY <1>0 DEF Cursor, Cursors, States
<1> QED
  BY <1>1, <1>2, <1>3, <1>4, <1>5, <1>6, <1>7

\* A document that is read has a state, in order under the generation drawn for it.
LEMMA InitialisedTypes ==
  ASSUME TypeOK, NEW seed \in SUBSET Content
  PROVE  Drawn \in Nat /\ Orderly(Initialised(seed), Drawn)
<1>1. fresh \in Nat /\ Orderly(live, fresh)
  BY Parts, Zenon
<1>2. Orderly(NewState(seed, fresh + 1), fresh + 1)
  <2>1. fresh + 1 \in Nat
    BY <1>1
  <2> QED
    BY <1>1, <2>1, StateTypes
<1> QED
  BY <1>1, <1>2 DEF Initialised, Drawn

\* The types of the next state, part by part.
LEMMA NextParts ==
  /\ saved' \subseteq Content /\ astray' \subseteq Content /\ Orderly(live', fresh')
  /\ fresh' \in Nat /\ mounts' \in Nat /\ posts' \in Nat /\ faults' \in Nat
  /\ tab' \in [Clients -> Tabs] /\ kept' \in [Clients -> Kepts]
  /\ post' \in [Clients -> Posts] /\ poll' \in [Clients -> Requests]
  /\ dirty' \subseteq Clients /\ typed' \subseteq Edits
  /\ current' \subseteq Writers /\ lock' \in Writers \cup {Free} /\ report' \in Reports
  => TypeOK'
  BY Zenon DEF TypeOK, LogInOrder, Orderly, Tabs, Kepts, Posts, Requests, Reports

\* What a weakness lets go stays let go.
LEMMA AstrayGrows ==
  ASSUME TypeOK, Next
  PROVE  astray \subseteq astray' /\ astray' \subseteq Content
<1>1. /\ astray \subseteq Content /\ Orderly(live, fresh) /\ post \in [Clients -> Posts]
  BY Parts, Zenon
<1>2. ASSUME NEW c \in Clients, Mount(c)
      PROVE  astray \subseteq astray' /\ astray' \subseteq Content
  <2>1. Forgotten(c) \subseteq Content
    BY <1>1 DEF Forgotten, Named, Orderly, States, Updates, Posts
  <2> QED
    BY <2>1, <1>1, <1>2 DEF Mount
<1>3. ASSUME NEW c \in Clients, Apply(c) \/ Refresh(c)
      PROVE  astray \subseteq astray' /\ astray' \subseteq Content
  <2>1. PICK state : astray' = astray \/ astray' = astray \cup (post[c].ydoc \ Merged(state))
    BY <1>3 DEF Apply, Refresh, Unannounced
  <2>2. post[c].ydoc \subseteq Content
    BY <1>1 DEF Posts
  <2> QED
    BY <2>1, <2>2, <1>1
<1>4. ASSUME NEW c \in Clients, Page(c), ~Mount(c)
      PROVE  astray' = astray
  BY <1>4, Zenon DEF Page, Leave, Type, Send, KeepOffline, Poll, Replay, Ask, Persisted, Applied, Keep,
     AnsweredToNobody, Hydrate, Merge, HydrateOffline, ReplayHeadless, ReplayOpening, ReplayOpen
<1>5. ASSUME NEW c \in Clients, Sync(c), ~(Apply(c) \/ Refresh(c))
      PROVE  astray' = astray
  BY <1>5, Zenon DEF Sync, Begin, Reconcile, Store, Serve
<1>6. ASSUME Report \/ Fault
      PROVE  astray' = astray
  BY <1>6, Zenon DEF Report, LoadPage, Stage, Check, Append, Publish, PublishSeed, Reload, Recover,
     Fault, Fail, LoseAnswer, ReportStops, Expire, Evict
<1> QED
  BY <1>1, <1>2, <1>3, <1>4, <1>5, <1>6 DEF Next

\* A request of POST /l/sync is one.
LEMMA RequestTypes ==
  ASSUME NEW from \in {"tab", "replay", "gone"}, NEW kind \in {"update", "checkpoint"},
         NEW update \in SUBSET Content, NEW ydoc \in SUBSET Content, NEW cursor \in Cursors
  PROVE  Request(from, kind, update, ydoc, cursor) \in Posts
  BY EmptyTypes DEF Request, Posts

\* A browser's steps on its page keep the types.
LEMMA PageTypes ==
  ASSUME TypeOK, NEW c \in Clients, Page(c), astray' \subseteq Content
  PROVE  TypeOK'
<1> USE EmptyTypes
<1>p. /\ saved \subseteq Content /\ astray \subseteq Content /\ Orderly(live, fresh)
      /\ fresh \in Nat /\ mounts \in Nat /\ posts \in Nat /\ faults \in Nat
      /\ tab \in [Clients -> Tabs] /\ kept \in [Clients -> Kepts]
      /\ post \in [Clients -> Posts] /\ poll \in [Clients -> Requests]
      /\ dirty \subseteq Clients /\ typed \subseteq Edits
      /\ current \subseteq Writers /\ lock \in Writers \cup {Free} /\ report \in Reports
  BY Parts, Zenon
<1>i. Incoming(c) \subseteq Content
  BY <1>p DEF Incoming, Requests
<1>s. UNCHANGED <<server, report>>
  BY Zenon DEF Page, Mount, Leave, Type, Send, KeepOffline, Poll, Replay, Ask, Persisted, Applied, Keep,
     Answered, AnsweredToNobody, Hydrate, Merge, HydrateOffline, ReplayHeadless, ReplayOpening, ReplayOpen,
     browser
<1>r. UNCHANGED <<saved, live, fresh, current, lock, report>>
  BY <1>s DEF server
<1>t. ASSUME /\ mounts' \in Nat /\ posts' \in Nat /\ faults' \in Nat
             /\ tab' \in [Clients -> Tabs] /\ kept' \in [Clients -> Kepts]
             /\ post' \in [Clients -> Posts] /\ poll' \in [Clients -> Requests]
             /\ dirty' \subseteq Clients /\ typed' \subseteq Edits
      PROVE  TypeOK'
  BY <1>p, <1>r, <1>t, NextParts, Zenon
<1>1. CASE Mount(c)
  <2>1. tab' \in [Clients -> Tabs]
    BY <1>1, <1>p DEF Mount, Tabs
  <2> QED
    BY <2>1, <1>1, <1>p, <1>t DEF Mount
<1>2. CASE Leave(c)
  <2>1. post' \in [Clients -> Posts]
    BY <1>2, <1>p DEF Leave, Posts
  <2> QED
    BY <2>1, <1>2, <1>p, <1>t DEF Leave
<1>3. CASE \E e \in Edits : Type(c, e)
  <2>1. PICK e \in Edits : Type(c, e)
    BY <1>3
  <2>2. tab' \in [Clients -> Tabs]
    BY <2>1, <1>p DEF Type, Tabs, Content
  <2> QED
    BY <2>1, <2>2, <1>p, <1>t DEF Type
<1>4. CASE \E kind \in {"update", "checkpoint"} : Send(c, kind)
  <2>1. PICK kind \in {"update", "checkpoint"} : Send(c, kind)
    BY <1>4
  <2>2. Request("tab", kind, tab[c].queue, tab[c].content, tab[c].cursor) \in Posts
    BY <1>p, RequestTypes DEF Tabs
  <2>3. post' \in [Clients -> Posts] /\ posts' \in Nat
    BY <2>1, <2>2, <1>p DEF Send
  <2>4. tab' \in [Clients -> Tabs]
    BY <2>1, <1>p DEF Send, Emptied, Tabs
  <2> QED
    BY <2>1, <2>3, <2>4, <1>p, <1>t DEF Send
<1>5. CASE KeepOffline(c)
  <2>1. tab' \in [Clients -> Tabs]
    BY <1>5, <1>p DEF KeepOffline, Emptied, Tabs
  <2>2. kept' \in [Clients -> Kepts]
    BY <1>5, <1>p DEF KeepOffline, Tabs, Kepts
  <2> QED
    BY <2>1, <2>2, <1>5, <1>p, <1>t DEF KeepOffline
<1>6. CASE Poll(c) \/ Replay(c)
  <2>1. PICK from \in {"tab", "replay"}, held \in SUBSET Content, cursor \in Cursors :
          Ask(c, from, held, cursor)
    BY <1>6, <1>p DEF Poll, Replay, Tabs, Kepts
  <2> DEFINE q == [NoPoll EXCEPT !.at = "sent", !.from = from, !.held = held,
                                 !.cursor = cursor, !.seed = saved]
  <2>2. q \in Requests
    BY <1>p DEF Requests
  <2>3. poll' = [poll EXCEPT ![c] = q] /\ UNCHANGED <<tab, dirty, typed, kept, post, mounts, posts, faults>>
    BY <2>1 DEF Ask, browser
  <2> HIDE DEF q
  <2> QED
    BY <2>2, <2>3, <1>p, <1>t
<1>7. CASE Persisted(c) \/ Applied(c)
  <2>1. Acknowledged(c) \in [Clients -> Tabs]
    BY <1>p DEF Acknowledged, Tabs, Posts
  <2> QED
    BY <2>1, <1>7, <1>p, <1>t DEF Persisted, Applied, Answered
<1>8. CASE Keep(c)
  <2>1. post' = [post EXCEPT ![c] = NoPost] /\ UNCHANGED <<tab, dirty, typed, poll, mounts, posts, faults>>
    BY <1>8 DEF Keep, Answered
  <2>2. post' \in [Clients -> Posts]
    BY <2>1, <1>p
  <2> DEFINE k == [content |-> post[c].ydoc, cursor |-> post[c].cursor]
  <2>3. k \in Kepts
    BY <1>p DEF Posts, Kepts
  <2>4. kept' = kept \/ kept' = [kept EXCEPT ![c] = k]
    BY <1>8 DEF Keep
  <2> HIDE DEF k
  <2>5. kept' \in [Clients -> Kepts]
    BY <2>3, <2>4, <1>p
  <2> QED
    BY <2>1, <2>2, <2>5, <1>p, <1>t
<1>9. CASE AnsweredToNobody(c)
  BY <1>9, <1>p, <1>t DEF AnsweredToNobody, browser
<1>10. CASE Hydrate(c)
  <2> DEFINE all == tab[c].content \cup Incoming(c) \cup kept[c].content
             rest == kept[c].content \ (tab[c].content \cup poll[c].ydoc)
             ack == poll[c].ack
  <2>2. all \in SUBSET Content /\ rest \in SUBSET Content /\ ack \in Cursors
    BY <1>p, <1>i DEF Tabs, Kepts, Requests
  <2>3. tab' = [tab EXCEPT ![c].at = "open", ![c].cursor = ack, ![c].content = all, ![c].queue = rest]
    BY <1>10, Zenon DEF Hydrate
  <2> HIDE DEF all, rest, ack
  <2>1. tab' \in [Clients -> Tabs]
    BY <2>2, <2>3, <1>p DEF Tabs
  <2> QED
    BY <2>1, <1>10, <1>p, <1>t DEF Hydrate, Polled
<1>11. CASE Merge(c)
  BY <1>11, <1>p, <1>i, <1>t DEF Merge, Polled, Tabs, Requests
<1>12. CASE HydrateOffline(c)
  <2>1. kept[c].content \in SUBSET Content
    BY <1>p DEF Kepts
  <2>2. tab' \in [Clients -> Tabs]
    BY <2>1, <1>12, <1>p DEF HydrateOffline, Tabs
  <2> QED
    BY <2>2, <1>12, <1>p, <1>t DEF HydrateOffline
<1>13. CASE ReplayHeadless(c)
  <2> DEFINE new == poll[c].held \ poll[c].ydoc
  <2>1. Request("replay", "checkpoint", new, poll[c].held \cup Incoming(c), poll[c].ack) \in Posts
    BY <1>p, <1>i, RequestTypes DEF Requests
  <2>2. tab' \in [Clients -> Tabs]
    BY <1>13, <1>p DEF ReplayHeadless, Tabs, Requests
  <2>3. /\ kept' = kept \/ kept' = [kept EXCEPT ![c] = NoRecord]
        /\ posts' = posts \/ posts' = posts + 1
        /\ \/ post' = post
           \/ post' = [post EXCEPT ![c] = Request("replay", "checkpoint", new,
                                                 poll[c].held \cup Incoming(c), poll[c].ack)]
        /\ poll' = [poll EXCEPT ![c] = NoPoll] /\ UNCHANGED <<dirty, typed, mounts, faults>>
    BY <1>13, Zenon DEF ReplayHeadless, Polled
  <2> HIDE DEF new
  <2> QED
    BY <2>1, <2>2, <2>3, <1>p, <1>t
<1>14. CASE ReplayOpening(c)
  BY <1>14, <1>p, <1>i, <1>t DEF ReplayOpening, Polled, Tabs, Kepts, Requests
<1>15. CASE ReplayOpen(c)
  <2> DEFINE new == poll[c].held \ (tab[c].content \cup poll[c].ydoc)
             all == tab[c].content \cup poll[c].held \cup Incoming(c)
  <2>1. all \in SUBSET Content /\ tab[c].queue \cup new \in SUBSET Content /\ poll[c].ack \in Cursors
    BY <1>p, <1>i DEF Tabs, Requests
  <2>2. Request("tab", "checkpoint", tab[c].queue \cup new, all, poll[c].ack) \in Posts
    BY <2>1, RequestTypes
  <2>3. tab' = [tab EXCEPT ![c].content = all, ![c].queue = {}] /\ UNCHANGED <<typed, mounts, faults>>
    BY <1>15 DEF ReplayOpen
  <2>4. poll' = [poll EXCEPT ![c] = NoPoll] /\ dirty' \subseteq Clients
    BY <1>15, <1>p DEF ReplayOpen, Polled
  <2>5. /\ kept' = kept \/ kept' = [kept EXCEPT ![c] = NoRecord]
        /\ posts' = posts \/ posts' = posts + 1
        /\ \/ post' = post
           \/ post' = [post EXCEPT ![c] = Request("tab", "checkpoint", tab[c].queue \cup new, all, poll[c].ack)]
    BY <1>15, Zenon DEF ReplayOpen
  <2> HIDE DEF new, all
  <2>6. tab' \in [Clients -> Tabs]
    BY <2>1, <2>3, <1>p DEF Tabs
  <2> QED
    BY <2>2, <2>3, <2>4, <2>5, <2>6, <1>p, <1>t
<1> QED
  BY <1>1, <1>2, <1>3, <1>4, <1>5, <1>6, <1>7, <1>8, <1>9, <1>10, <1>11, <1>12, <1>13, <1>14, <1>15
     DEF Page

\* The steps of POST /l/sync and of a poll on the server keep the types.
LEMMA SyncTypes ==
  ASSUME TypeOK, NEW c \in Clients, Sync(c), astray' \subseteq Content
  PROVE  TypeOK'
<1>p. /\ saved \subseteq Content /\ astray \subseteq Content /\ Orderly(live, fresh)
      /\ fresh \in Nat /\ mounts \in Nat /\ posts \in Nat /\ faults \in Nat
      /\ tab \in [Clients -> Tabs] /\ kept \in [Clients -> Kepts]
      /\ post \in [Clients -> Posts] /\ poll \in [Clients -> Requests]
      /\ dirty \subseteq Clients /\ typed \subseteq Edits
      /\ current \subseteq Writers /\ lock \in Writers \cup {Free} /\ report \in Reports
  BY Parts, Zenon
<1>s. UNCHANGED <<browser, report, mounts, posts, faults>>
  BY Zenon DEF Sync, Begin, Reconcile, Apply, Store, Refresh, Serve
<1>r. UNCHANGED <<tab, dirty, typed, kept, report, mounts, posts, faults>>
  BY <1>s DEF browser
<1>t. ASSUME /\ saved' \subseteq Content /\ Orderly(live', fresh') /\ fresh' \in Nat
             /\ post' \in [Clients -> Posts] /\ poll' \in [Clients -> Requests]
             /\ current' \subseteq Writers /\ lock' \in Writers \cup {Free}
      PROVE  TypeOK'
  BY <1>p, <1>r, <1>t, NextParts, Zenon
<1>a. /\ post[c].seed \in SUBSET Content /\ post[c].update \in SUBSET Content
      /\ post[c].ydoc \in SUBSET Content /\ poll[c].seed \in SUBSET Content
  BY <1>p DEF Posts, Requests
<1>i. \A seed \in SUBSET Content : Orderly(Initialised(seed), Drawn) /\ Drawn \in Nat
  BY InitialisedTypes
<1>l. Released(c) \in Writers \cup {Free} /\ current \cup {c} \subseteq Writers /\ current \ {c} \subseteq Writers
  BY <1>p DEF Released, Writers
<1>1. CASE Begin(c)
  <2>1. post' = [post EXCEPT ![c] = [post[c] EXCEPT !.at = "loaded", !.seed = saved]]
    BY <1>1 DEF Begin
  <2>2. [post[c] EXCEPT !.at = "loaded", !.seed = saved] \in Posts
    BY <1>p DEF Posts
  <2>3. post' \in [Clients -> Posts]
    BY <2>1, <2>2, <1>p
  <2> QED
    BY <2>3, <1>1, <1>p, <1>l, <1>t DEF Begin, browser, Writers
<1>2. CASE Reconcile(c)
  <2> DEFINE seed == post[c].seed
  <2>1. post' \in [Clients -> Posts]
    BY <1>2, <1>p DEF Reconcile, Posts
  <2>2. Orderly(Published(live, seed, fresh + 1), fresh + 1)
    <3>1. fresh + 1 \in Nat
      BY <1>p
    <3> QED
      BY <3>1, <1>p, <1>a, StateTypes
  <2>3. Orderly(live', fresh') /\ fresh' \in Nat
    BY <2>2, <1>i, <1>a, <1>2, <1>p DEF Reconcile
  <2> QED
    BY <2>1, <2>3, <1>2, <1>p, <1>t DEF Reconcile
<1>3. CASE Apply(c)
  <2> DEFINE p == post[c]
             before == Initialised(p.seed)
             after == Appended(before, p.update)
  <2>1. Orderly(before, Drawn) /\ Drawn \in Nat
    BY <1>a, <1>i
  <2> HIDE DEF before
  <2>2. Orderly(after, Drawn) /\ Cursor(after) \in Cursors
    BY <2>1, <1>a, StateTypes
  <2>3. Orderly(Compacted(after, p.ydoc), Drawn)
    BY <2>1, <2>2, <1>a, StateTypes
  <2> HIDE DEF after
  <2>4. \A answer \in {"accepted", "applied", "rejected", "failed"} :
          [p EXCEPT !.at = answer, !.update = {}, !.seed = {}, !.ack = Cursor(after)] \in Posts
    BY <1>p, <2>2 DEF Posts
  <2>5. /\ live' = Compacted(after, p.ydoc) \/ live' = after
        /\ fresh' = Drawn /\ UNCHANGED <<saved, poll>>
        /\ current' = current \/ current' = current \ {c}
        /\ lock' = lock \/ lock' = Released(c)
    BY <1>3, Zenon DEF Apply, before, after
  <2>6. \E answer \in {"accepted", "applied", "rejected", "failed"} :
          post' = [post EXCEPT ![c] = [p EXCEPT !.at = answer, !.update = {}, !.seed = {},
                                                !.ack = Cursor(after)]]
    BY <1>3, Zenon DEF Apply, before, after, Ends
  <2>7. post' \in [Clients -> Posts]
    BY <2>4, <2>6, <1>p
  <2> QED
    BY <2>1, <2>2, <2>3, <2>5, <2>7, <1>l, <1>p, <1>t
<1>4. CASE Store(c)
  <2>1. post' \in [Clients -> Posts]
    BY <1>4, <1>p DEF Store, Posts
  <2> QED
    BY <2>1, <1>4, <1>p, <1>a, <1>l, <1>t DEF Store
<1>5. CASE Refresh(c)
  <2>1. post' \in [Clients -> Posts]
    BY <1>5, <1>p DEF Refresh, Posts, Ends
  <2>2. Orderly(live', fresh') /\ fresh' \in Nat
    BY <1>5, <1>i, <1>a, StateTypes DEF Refresh
  <2> QED
    BY <2>1, <2>2, <1>5, <1>p, <1>l, <1>t DEF Refresh
<1>6. CASE Serve(c)
  <2> DEFINE s == Initialised(poll[c].seed)
  <2>1. Orderly(s, Drawn) /\ Drawn \in Nat
    BY <1>a, <1>i
  <2> HIDE DEF s
  <2>2. s \in States /\ Cursor(s) \in Cursors
    BY <2>1, <1>a, StateTypes DEF Orderly
  <2>3. Snapshot(s, poll[c].cursor) \subseteq Content /\ Delta(s, poll[c].cursor) \subseteq Content
    BY <2>2 DEF Snapshot, Delta, States, Updates
  <2> DEFINE ydoc == Snapshot(s, poll[c].cursor)
             updates == Delta(s, poll[c].cursor)
             ack == Cursor(s)
  <2>4. poll' = [poll EXCEPT ![c].at = "answered", ![c].seed = {}, ![c].ack = ack,
                             ![c].ydoc = ydoc, ![c].updates = updates]
    BY <1>6 DEF Serve, s
  <2> HIDE DEF ydoc, updates, ack
  <2>5. poll' \in [Clients -> Requests]
    <3>1. ydoc \in SUBSET Content /\ updates \in SUBSET Content /\ ack \in Cursors
      BY <2>2, <2>3 DEF ydoc, updates, ack
    <3> QED
      <4> DEFINE q == [poll[c] EXCEPT !.at = "answered", !.seed = {}, !.ack = ack,
                                      !.ydoc = ydoc, !.updates = updates]
      <4>1. q \in Requests
        BY <3>1, <1>p DEF Requests
      <4>2. poll' = [poll EXCEPT ![c] = q]
        BY <2>4
      <4> HIDE DEF q
      <4> QED
        BY <4>1, <4>2, <1>p
  <2>6. live' = s /\ fresh' = Drawn /\ UNCHANGED <<saved, current, lock, post>>
    BY <1>6 DEF Serve, s
  <2> QED
    BY <2>1, <2>5, <2>6, <1>p, <1>t
<1> QED
  BY <1>1, <1>2, <1>3, <1>4, <1>5, <1>6 DEF Sync

\* A report's steps and the faults keep the types.
LEMMA ReportTypes ==
  ASSUME TypeOK, Report \/ Fault, astray' \subseteq Content
  PROVE  TypeOK'
<1>p. /\ saved \subseteq Content /\ astray \subseteq Content /\ Orderly(live, fresh)
      /\ fresh \in Nat /\ mounts \in Nat /\ posts \in Nat /\ faults \in Nat
      /\ tab \in [Clients -> Tabs] /\ kept \in [Clients -> Kepts]
      /\ post \in [Clients -> Posts] /\ poll \in [Clients -> Requests]
      /\ dirty \subseteq Clients /\ typed \subseteq Edits
      /\ current \subseteq Writers /\ lock \in Writers \cup {Free} /\ report \in Reports
  BY Parts, Zenon
<1>s. UNCHANGED <<browser, poll, mounts, posts>> /\ (faults' = faults \/ faults' = faults + 1)
  BY Zenon DEF Report, LoadPage, Stage, Check, Append, Publish, PublishSeed, Reload, Recover,
     Fault, Fail, LoseAnswer, ReportStops, Expire, Evict
<1>r. UNCHANGED <<tab, dirty, typed, kept, poll, mounts, posts>> /\ faults' \in Nat
  BY <1>s, <1>p DEF browser
<1>t. ASSUME /\ saved' \subseteq Content /\ Orderly(live', fresh') /\ fresh' \in Nat
             /\ post' \in [Clients -> Posts] /\ report' \in Reports
             /\ current' \subseteq Writers /\ lock' \in Writers \cup {Free}
      PROVE  TypeOK'
  BY <1>p, <1>r, <1>t, NextParts, Zenon
<1>a. report.seed \in SUBSET Content
  BY <1>p DEF Reports
<1>i. \A seed \in SUBSET Content : Orderly(Initialised(seed), Drawn) /\ Drawn \in Nat
  BY InitialisedTypes
<1>l. /\ \A w : Released(w) \in Writers \cup {Free}
      /\ Reporter \in Writers /\ current \cup {Reporter} \subseteq Writers
      /\ \A w : current \ {w} \subseteq Writers
  BY <1>p DEF Released, Writers
<1>n. Abandoned => report' \in Reports /\ current' \subseteq Writers
  BY <1>l, EmptyTypes DEF Abandoned
<1>1. CASE LoadPage
  BY <1>1, <1>p, <1>l, <1>t DEF LoadPage, Reports
<1>2. CASE Stage \/ Check
  <2>1. Orderly(live', fresh') /\ fresh' \in Nat /\ UNCHANGED <<saved, post>>
    BY <1>2, <1>i, <1>a DEF Stage, Check
  <2>2. [report EXCEPT !.at = "staged"] \in Reports /\ [report EXCEPT !.at = "checked"] \in Reports
    BY <1>p DEF Reports
  <2>3. report' \in Reports /\ current' \subseteq Writers /\ lock' \in Writers \cup {Free}
    BY <1>2, <2>2, <1>n, <1>p, <1>l DEF Stage, Check
  <2>4. fresh' \in Nat /\ saved' \subseteq Content /\ post' \in [Clients -> Posts]
    BY <2>1, <1>p
  <2> QED
    BY <2>1, <2>3, <2>4, <1>t
<1>3. CASE Append
  <2>1. saved' \subseteq Content /\ current' \subseteq Writers /\ lock' \in Writers \cup {Free}
    BY <1>3, <1>a, <1>p, <1>n, <1>l DEF Append, Content
  <2>2. report' \in Reports
    BY <2>1, <1>3, <1>n DEF Append, Reports
  <2> QED
    BY <2>1, <2>2, <1>3, <1>p, <1>t DEF Append
<1>4. CASE Publish \/ Recover
  <2>1. Orderly(Initialised(report.seed), Drawn) /\ Drawn \in Nat /\ (Drawn = fresh \/ Drawn = fresh + 1)
    BY <1>i, <1>a DEF Drawn
  <2>2. Orderly(Published(Initialised(report.seed), report.seed, fresh + 1), fresh + 1)
    <3>1. fresh + 1 \in Nat
      BY <1>p
    <3> QED
      BY <3>1, <2>1, <1>a, StateTypes
  <2>3. /\ live' = Published(Initialised(report.seed), report.seed, fresh + 1) /\ fresh' = fresh + 1
        /\ report' = [at |-> "done", seed |-> {}] /\ UNCHANGED <<saved, current, post>>
        /\ lock' = lock \/ lock' = Released(Reporter)
    BY <1>4, Zenon DEF Publish, Recover, PublishSeed
  <2>4. report' \in Reports
    BY <2>3 DEF Reports
  <2> QED
    BY <2>2, <2>3, <2>4, <1>p, <1>l, <1>t
<1>5. CASE Reload
  BY <1>5, <1>p, <1>t DEF Reload, Reports, server
<1>6. CASE Fault
  <2>1. CASE \E c \in Clients : Fail(c) \/ LoseAnswer(c)
    <3>1. post' \in [Clients -> Posts]
      BY <2>1, <1>p DEF Fail, LoseAnswer, Posts
    <3> QED
      BY <3>1, <2>1, <1>p, <1>l, <1>t DEF Fail, LoseAnswer, server
  <2>2. CASE ReportStops
    <3>1. report' \in Reports
      BY <2>2, <1>p, EmptyTypes DEF ReportStops, Reports
    <3> QED
      BY <3>1, <2>2, <1>p, <1>l, <1>t DEF ReportStops
  <2>3. CASE Expire
    BY <2>3, <1>p, <1>t DEF Expire
  <2>4. CASE Evict
    BY <2>4, <1>p, <1>t, EmptyTypes DEF Evict
  <2> QED
    BY <1>6, <2>1, <2>2, <2>3, <2>4 DEF Fault
<1> QED
  BY <1>1, <1>2, <1>3, <1>4, <1>5, <1>6 DEF Report

\* The initial state has the types.
LEMMA InitTypes == Init => TypeOK
<1> SUFFICES ASSUME Init PROVE TypeOK
  OBVIOUS
<1>1. Orderly(live, fresh) /\ fresh \in Nat /\ mounts \in Nat /\ posts \in Nat /\ faults \in Nat
  BY EmptyTypes DEF Init
<1>2. /\ tab \in [Clients -> Tabs] /\ kept \in [Clients -> Kepts]
      /\ post \in [Clients -> Posts] /\ poll \in [Clients -> Requests] /\ report \in Reports
  BY EmptyTypes DEF Init
<1>3. saved = {} /\ astray = {} /\ dirty = {} /\ typed = {} /\ current = {} /\ lock = Free
  BY DEF Init
<1> QED
  BY <1>1, <1>2, <1>3, Parts

\* Every step keeps the types.
LEMMA NextTypes == TypeOK /\ [Next]_vars => TypeOK'
<1> SUFFICES ASSUME TypeOK, [Next]_vars PROVE TypeOK'
  OBVIOUS
<1>1. CASE UNCHANGED vars
  BY <1>1 DEF vars, server, browser, TypeOK, LogInOrder
<1>2. CASE Next
  BY <1>2, AstrayGrows, PageTypes, SyncTypes, ReportTypes DEF Next
<1> QED
  BY <1>1, <1>2

\* The checkpoint, the Redis state with its log in order, the browsers, their
\* requests and the report keep their types, through every step and fault.
THEOREM TypeCorrect == Spec => []TypeOK
  BY InitTypes, NextTypes, PTL DEF Spec

-----------------------------------------------------------------------------
(* The inductive invariant *)

\* The content covers the cursor in a state of Redis: it holds every update up to it.
Holds(s, cursor, content) ==
    cursor.generation = s.generation /\ s # Gone =>
        /\ cursor.revision <= s.revision
        /\ cursor.revision >= s.base => s.ydoc \subseteq content
        /\ \A u \in s.updates : u.revision <= cursor.revision => u.edits \subseteq content

Posting(c, from) == post[c].at # "idle" /\ post[c].from = from
Polling(c, from) == poll[c].at # "idle" /\ poll[c].from = from

Acked == {"accepted", "stored", "persisted", "applied"}

\* No cursor is of a generation that was not drawn.
CursorsDrawn(c) ==
    /\ tab[c].cursor.generation <= fresh /\ tab[c].known.generation <= fresh
    /\ kept[c].cursor.generation <= fresh
    /\ post[c].cursor.generation <= fresh /\ post[c].ack.generation <= fresh
    /\ poll[c].cursor.generation <= fresh /\ poll[c].ack.generation <= fresh

\* Which requests a page without an editor, or with one, may have in flight; what a
\* headless replay sent is astray once an editor is mounted.
Placed(c) ==
    /\ Posting(c, "tab") => tab[c].at = "open"
    /\ Posting(c, "tab") \/ tab[c].queue # {} => c \in dirty
    /\ Posting(c, "replay") /\ tab[c].at # "away" => post[c].ydoc \subseteq astray
    /\ Polling(c, "tab") => tab[c].at # "away"
    /\ Polling(c, "replay") /\ tab[c].at = "away" => post[c].at = "idle"
    /\ tab[c].at # "open" => tab[c].own = {} /\ tab[c].queue = {}

\* The editor holds what its requests were sent with, and its queue.
Held(c) ==
    /\ tab[c].queue \subseteq tab[c].content /\ tab[c].own \subseteq tab[c].content
    /\ Polling(c, "tab") => poll[c].held \subseteq tab[c].content
    /\ Posting(c, "tab") => post[c].ydoc \subseteq tab[c].content
    /\ post[c].update \subseteq post[c].ydoc

\* Whoever has a cursor holds what it covers, but for the edits astray.
Covered(c) ==
    /\ Holds(live, tab[c].cursor, tab[c].content \cup astray) /\ Holds(live, tab[c].known, Content)
    /\ Holds(live, kept[c].cursor, kept[c].content \cup astray)
    /\ post[c].at # "idle" => Holds(live, post[c].cursor, post[c].ydoc \cup astray)
    /\ post[c].at \in Acked => Holds(live, post[c].ack, post[c].ydoc \cup astray)
    /\ poll[c].at = "sent" => Holds(live, poll[c].cursor, poll[c].held \cup astray)
    /\ poll[c].at = "answered" => Holds(live, poll[c].ack, poll[c].held \cup Incoming(c) \cup astray)

\* What a request under way knows of the checkpoint it loaded, and what the
\* checkpoint holds of the one it brings.
Seeded(c) ==
    /\ c \in current => post[c].at \in {"loaded", "reconciled", "accepted"}
    /\ c \in current /\ post[c].at # "accepted" => saved = post[c].seed
    /\ post[c].at = "reconciled" /\ live # Gone /\ post[c].cursor.generation = live.generation
         => post[c].seed \subseteq Merged(live) \cup astray
    /\ c \in current /\ post[c].at = "accepted" => saved \subseteq post[c].ydoc \cup astray
    /\ post[c].at \in {"stored", "persisted"} => post[c].ydoc \subseteq saved \cup astray

\* The record's edits are in the editor, which is dirty, and in what is sent for it.
Recorded(c) ==
    /\ tab[c].at = "open" => kept[c].content \subseteq tab[c].content \cup astray
    /\ tab[c].at = "open" /\ c \notin dirty => kept[c].content \subseteq astray
    /\ post[c].at # "idle" /\ post[c].from # "gone" => kept[c].content \subseteq post[c].ydoc \cup astray
    /\ Polling(c, "replay") /\ tab[c].at = "away" => kept[c].content \subseteq poll[c].held

\* What the user typed is durable, or unsent, or on its way.
Clean(c) ==
    /\ tab[c].at = "open" /\ c \notin dirty => tab[c].own \subseteq saved \cup astray
    /\ post[c].at # "idle" /\ post[c].from # "gone" =>
         tab[c].own \subseteq post[c].ydoc \cup tab[c].queue \cup saved \cup astray

\* Nothing in a browser or in flight has the addition before it is durable.
Plain(c) ==
    Addition \notin saved \cup astray =>
        Addition \notin tab[c].content \cup kept[c].content \cup post[c].ydoc \cup post[c].seed
                        \cup poll[c].held \cup poll[c].seed \cup Incoming(c)

\* Redis and the report.
Honest ==
    /\ live # Gone => live.generation > 0
    /\ MarkHonest
    /\ Reporter \in current => report.at \in {"loaded", "staged", "checked"} /\ saved = report.seed
    /\ Addition \notin saved \cup astray => Addition \notin Merged(live) \cup report.seed

Local(c) ==
    /\ CursorsDrawn(c) /\ Placed(c) /\ Held(c) /\ Covered(c)
    /\ Seeded(c) /\ Recorded(c) /\ Clean(c) /\ Plain(c)

IInv == TypeOK /\ Honest /\ \A c \in Clients : Local(c)

-----------------------------------------------------------------------------
(* How the Redis state moves on *)

\* From s to t, when n generations were drawn and the edits of L are astray: the
\* state is lost, or begins a generation, or goes on: with another mark, with
\* further updates, or compacted.
Goes(s, t, n, L) ==
    \/ t = Gone
    \/ t.generation > n /\ Merged(s) \subseteq Merged(t) \cup L
    \/ /\ s # Gone /\ t.generation = s.generation /\ Merged(s) \subseteq Merged(t) \cup L
       /\ \/ t.revision = s.revision /\ t.base = s.base /\ t.ydoc = s.ydoc /\ t.updates = s.updates
          \/ /\ t.revision > s.revision /\ t.base = s.base /\ t.ydoc = s.ydoc
             /\ \A u \in t.updates : u \in s.updates \/ u.revision > s.revision
          \/ /\ t.revision >= s.revision /\ t.base = t.revision /\ t.updates = {}
             /\ t.revision = s.revision => t.ydoc \subseteq Merged(s) \cup L

\* More content covers as much.
LEMMA HoldsMore ==
  ASSUME NEW s, NEW cursor, NEW content, NEW more, content \subseteq more, Holds(s, cursor, content)
  PROVE  Holds(s, cursor, more)
  BY DEF Holds

\* An exact cursor is held by whoever holds the whole state.
LEMMA ExactCursor ==
  ASSUME NEW s, NEW n \in Nat, Orderly(s, n), s # Gone, NEW cursor, NEW content,
         CurrentClient(s, cursor), Holds(s, cursor, content)
  PROVE  Merged(s) \subseteq content
<1>1. s \in States /\ s.revision \in Nat /\ s.base \in Nat
  BY DEF Orderly, States
<1>2. cursor.generation = s.generation /\ cursor.revision = s.revision
  BY <1>1 DEF CurrentClient, Cursor
<1>3. s.ydoc \subseteq content
  BY <1>1, <1>2 DEF Holds, Orderly
<1>4. \A u \in s.updates : u.edits \subseteq content
  BY <1>1, <1>2 DEF Holds, Orderly
<1> QED
  BY <1>3, <1>4 DEF Merged

\* What covers a drawn cursor goes on covering it with the edits astray, however the
\* state moves.
LEMMA HoldsOn ==
  ASSUME NEW s, NEW t, NEW n \in Nat, Orderly(s, n), Orderly(t, n + 1), NEW L, Goes(s, t, n, L),
         NEW cursor \in Cursors, cursor.generation <= n, NEW old, Holds(s, cursor, old),
         NEW content, old \cup L \subseteq content
  PROVE  Holds(t, cursor, content)
<1> SUFFICES ASSUME cursor.generation = t.generation, t # Gone
             PROVE  /\ cursor.revision <= t.revision
                    /\ cursor.revision >= t.base => t.ydoc \subseteq content
                    /\ \A u \in t.updates : u.revision <= cursor.revision => u.edits \subseteq content
  BY DEF Holds
<1>1. /\ s.revision \in Nat /\ s.base \in Nat /\ s.generation \in Nat /\ s.base <= s.revision
      /\ t.revision \in Nat /\ t.base \in Nat /\ t.generation \in Nat
      /\ cursor.revision \in Nat /\ cursor.generation \in Nat
      /\ \A u \in s.updates : u.revision \in Nat /\ u.revision <= s.revision
      /\ \A u \in t.updates : u.revision \in Nat
  BY DEF Orderly, States, Updates, Cursors
<1>2. s # Gone /\ cursor.generation = s.generation
  BY <1>1 DEF Goes
<1>3. /\ cursor.revision <= s.revision
      /\ cursor.revision >= s.base => s.ydoc \subseteq content
      /\ \A u \in s.updates : u.revision <= cursor.revision => u.edits \subseteq content
  BY <1>2 DEF Holds
<1>4. CASE t.revision = s.revision /\ t.base = s.base /\ t.ydoc = s.ydoc /\ t.updates = s.updates
  BY <1>3, <1>4
<1>5. CASE /\ t.revision > s.revision /\ t.base = s.base /\ t.ydoc = s.ydoc
           /\ \A u \in t.updates : u \in s.updates \/ u.revision > s.revision
  BY <1>1, <1>3, <1>5
<1>6. CASE /\ t.revision >= s.revision /\ t.base = t.revision /\ t.updates = {}
           /\ t.revision = s.revision => t.ydoc \subseteq Merged(s) \cup L
  <2>1. cursor.revision >= t.base => cursor.revision = s.revision /\ t.revision = s.revision
    BY <1>1, <1>3, <1>6
  <2>2. cursor.revision = s.revision => Merged(s) \subseteq content
    BY <1>1, <1>3 DEF Merged
  <2> QED
    BY <1>1, <1>3, <1>6, <2>1, <2>2
<1> QED
  BY <1>1, <1>2, <1>4, <1>5, <1>6 DEF Goes

\* The state with another mark.
Marked(s, seed) == [s EXCEPT !.mark = seed]

\* A publication holds the state and the checkpoint, and is marked with it.
LEMMA MergedPublished ==
  ASSUME NEW s, NEW seed, NEW g
  PROVE  Merged(Published(s, seed, g)) = seed \cup Merged(s) /\ Published(s, seed, g).mark = seed
<1> DEFINE m == seed \cup Merged(s)
<1>1. /\ Published(s, seed, g).ydoc = m /\ Published(s, seed, g).updates = {}
      /\ Published(s, seed, g).mark = seed
  BY DEF Published
<1> HIDE DEF m
<1>2. Merged(Published(s, seed, g)) = m
  BY <1>1 DEF Merged
<1> QED
  BY <1>1, <1>2 DEF m

\* What each transformation holds.
LEMMA MergedOf ==
  ASSUME NEW s \in States, NEW seed
  PROVE  /\ \A g : Merged(NewState(seed, g)) = seed /\ NewState(seed, g).mark = seed
         /\ Merged(Marked(s, seed)) = Merged(s) /\ Marked(s, seed).mark = seed
         /\ Merged(Appended(s, seed)) = Merged(s) \cup seed /\ Appended(s, seed).mark = s.mark
         /\ Merged(Compacted(s, seed)) = seed /\ Compacted(s, seed).mark = s.mark
         /\ Merged(Gone) = {} /\ Gone.mark = {}
<1>1. \A g : Merged(NewState(seed, g)) = seed /\ NewState(seed, g).mark = seed
  BY DEF Merged, NewState
<1>3. Merged(Marked(s, seed)) = Merged(s) /\ Marked(s, seed).mark = seed
  BY DEF Marked, Merged, States
<1>4. Merged(Appended(s, seed)) = Merged(s) \cup seed /\ Appended(s, seed).mark = s.mark
  <2>1. CASE seed = {}
    BY <2>1 DEF Appended
  <2>2. CASE seed # {}
    <3> DEFINE u == [revision |-> s.revision + 1, edits |-> seed]
    <3>1. /\ Appended(s, seed).updates = s.updates \cup {u}
          /\ Appended(s, seed).ydoc = s.ydoc /\ Appended(s, seed).mark = s.mark
      BY <2>2 DEF Appended, States
    <3>2. u.edits = seed
      OBVIOUS
    <3> HIDE DEF u
    <3> QED
      BY <3>1, <3>2 DEF Merged
  <2> QED
    BY <2>1, <2>2
<1>5. Merged(Compacted(s, seed)) = seed /\ Compacted(s, seed).mark = s.mark
  BY DEF Merged, Compacted, States
<1>6. Merged(Gone) = {} /\ Gone.mark = {}
  BY DEF Merged, Gone
<1> QED
  BY <1>1, <1>3, <1>4, <1>5, <1>6

\* A state of a generation above zero is not Gone.
LEMMA NotGone == \A s : s.generation > 0 => s # Gone
  BY DEF Gone

\* Each transformation of a state that is kept moves it on.
LEMMA Transformed ==
  ASSUME NEW s, NEW n \in Nat, Orderly(s, n), NEW seed \in SUBSET Content, NEW L
  PROVE  /\ Goes(s, s, n, L)
         /\ s = Gone => Goes(s, NewState(seed, n + 1), n, L)
         /\ Goes(s, Published(s, seed, n + 1), n, L)
         /\ s # Gone => Goes(s, Marked(s, seed), n, L)
         /\ s # Gone => Goes(s, Appended(s, seed), n, L)
         /\ \A u \in SUBSET Content :
              s # Gone /\ Merged(s) \subseteq seed \cup L /\ (u = {} => seed \subseteq Merged(s) \cup L)
                => Goes(s, Compacted(Appended(s, u), seed), n, L)
<1>1. s \in States
  BY DEF Orderly
<1>2. Goes(s, s, n, L)
  BY <1>1 DEF Goes, States
<1>3. s = Gone => Goes(s, NewState(seed, n + 1), n, L)
  <2>1. NewState(seed, n + 1).generation = n + 1 /\ Merged(Gone) = {}
    BY MergedOf, EmptyTypes DEF NewState
  <2> QED
    BY <2>1 DEF Goes
<1>4. Goes(s, Published(s, seed, n + 1), n, L)
  <2>1. Published(s, seed, n + 1).generation = n + 1
    BY DEF Published
  <2>2. Merged(s) \subseteq Merged(Published(s, seed, n + 1))
    BY MergedPublished
  <2> QED
    BY <2>1, <2>2 DEF Goes
<1>5. s # Gone => Goes(s, Marked(s, seed), n, L)
  <2>1. Merged(s) \subseteq Merged(Marked(s, seed))
    BY <1>1, MergedOf
  <2> DEFINE t == Marked(s, seed)
  <2>2. /\ t.generation = s.generation /\ t.revision = s.revision /\ t.base = s.base
        /\ t.ydoc = s.ydoc /\ t.updates = s.updates
    BY <1>1 DEF Marked, States
  <2> HIDE DEF t
  <2>3. s # Gone => Goes(s, t, n, L)
    BY <2>1, <2>2 DEF Goes, t
  <2> QED
    BY <2>3 DEF t
<1>6. s # Gone => Goes(s, Appended(s, seed), n, L)
  <2>1. CASE seed = {}
    BY <2>1, <1>2 DEF Appended
  <2>2. CASE seed # {}
    <3> DEFINE u == [revision |-> s.revision + 1, edits |-> seed]
               t == Appended(s, seed)
    <3>1. /\ t.generation = s.generation /\ t.revision = s.revision + 1 /\ t.base = s.base
          /\ t.ydoc = s.ydoc /\ t.updates = s.updates \cup {u}
      BY <1>1, <2>2 DEF Appended, States
    <3>2. u.revision = s.revision + 1 /\ s.revision \in Nat
      BY <1>1 DEF States
    <3>3. Merged(s) \subseteq Merged(t)
      BY <1>1, MergedOf
    <3> HIDE DEF t, u
    <3>4. t.revision > s.revision /\ \A v \in t.updates : v \in s.updates \/ v.revision > s.revision
      BY <3>1, <3>2
    <3> QED
      BY <3>1, <3>3, <3>4 DEF Goes, t
  <2> QED
    BY <2>1, <2>2
<1>7. ASSUME NEW u \in SUBSET Content, s # Gone, Merged(s) \subseteq seed \cup L,
             u = {} => seed \subseteq Merged(s) \cup L
      PROVE  Goes(s, Compacted(Appended(s, u), seed), n, L)
  <2> DEFINE a == Appended(s, u)
             t == Compacted(a, seed)
  <2>1. a \in States
    BY StateTypes DEF Orderly
  <2>2. /\ a.generation = s.generation /\ s.revision \in Nat
        /\ IF u = {} THEN a.revision = s.revision ELSE a.revision = s.revision + 1
    BY <1>1 DEF Appended, States
  <2> HIDE DEF a
  <2>3. /\ t.generation = a.generation /\ t.revision = a.revision /\ t.base = a.revision
        /\ t.ydoc = seed /\ t.updates = {}
    BY <2>1 DEF Compacted, States
  <2>6. Merged(t) = seed
    BY <2>1, MergedOf
  <2> HIDE DEF t
  <2>4. t.revision >= s.revision /\ (t.revision = s.revision => t.ydoc \subseteq Merged(s) \cup L)
    BY <2>2, <2>3, <1>7
  <2>5. Goes(s, t, n, L)
    BY <2>2, <2>3, <2>4, <2>6, <1>7 DEF Goes
  <2> QED
    BY <2>5 DEF t, a
<1> QED
  BY <1>2, <1>3, <1>4, <1>5, <1>6, <1>7

-----------------------------------------------------------------------------
(* What a step on the server leaves to the browsers *)

\* A request of POST /l/sync goes on with the content it was sent with.
PostGoesOn(d) ==
    /\ post'[d].from = post[d].from /\ post'[d].ydoc = post[d].ydoc
    /\ post'[d].cursor = post[d].cursor /\ post'[d].update \subseteq post[d].update
    /\ post'[d].at = "idle" <=> post[d].at = "idle"
    /\ post'[d].ack.generation <= fresh'
    /\ post'[d].at \in Acked => Holds(live', post'[d].ack, post[d].ydoc \cup astray')
    /\ post'[d].seed \subseteq post[d].seed \cup saved

\* A poll goes on with what it holds, and its answer covers its cursor.
PollGoesOn(d) ==
    /\ poll'[d].from = poll[d].from /\ poll'[d].held = poll[d].held
    /\ poll'[d].cursor = poll[d].cursor /\ poll'[d].seed \subseteq poll[d].seed
    /\ poll'[d].at = "idle" <=> poll[d].at = "idle"
    /\ poll'[d].at = "sent" => poll[d].at = "sent"
    /\ poll'[d].ack.generation <= fresh'
    /\ poll'[d].at = "answered" =>
         Holds(live', poll'[d].ack, poll[d].held \cup Incoming(d)' \cup astray')
    /\ Incoming(d)' \subseteq Incoming(d) \cup Merged(live')

\* The checkpoint and the state of Redis move on.
ServerGoesOn ==
    /\ UNCHANGED <<tab, dirty, kept>> /\ astray \subseteq astray'
    /\ Goes(live, live', fresh, astray') /\ (fresh' = fresh \/ fresh' = fresh + 1)
    /\ saved \subseteq saved' \cup astray' /\ Honest'

\* The invariant's facts on types, for reading fields.
LEMMA Fields ==
  ASSUME TypeOK, NEW d \in Clients
  PROVE  /\ fresh \in Nat /\ Orderly(live, fresh)
         /\ tab[d] \in Tabs /\ kept[d] \in Kepts /\ post[d] \in Posts /\ poll[d] \in Requests
         /\ tab[d].cursor \in Cursors /\ tab[d].known \in Cursors /\ kept[d].cursor \in Cursors
         /\ post[d].cursor \in Cursors /\ post[d].ack \in Cursors
         /\ poll[d].cursor \in Cursors /\ poll[d].ack \in Cursors
         /\ tab[d].cursor.generation \in Nat /\ tab[d].known.generation \in Nat
         /\ kept[d].cursor.generation \in Nat /\ post[d].cursor.generation \in Nat
         /\ post[d].ack.generation \in Nat /\ poll[d].cursor.generation \in Nat
         /\ poll[d].ack.generation \in Nat
<1>1. /\ fresh \in Nat /\ Orderly(live, fresh)
      /\ tab[d] \in Tabs /\ kept[d] \in Kepts /\ post[d] \in Posts /\ poll[d] \in Requests
  BY Parts
<1>2. /\ tab[d].cursor \in Cursors /\ tab[d].known \in Cursors /\ kept[d].cursor \in Cursors
      /\ post[d].cursor \in Cursors /\ post[d].ack \in Cursors
      /\ poll[d].cursor \in Cursors /\ poll[d].ack \in Cursors
  BY <1>1 DEF Tabs, Kepts, Posts, Requests
<1>3. \A cursor \in Cursors : cursor.generation \in Nat
  BY DEF Cursors
<1> QED
  BY <1>1, <1>2, <1>3

\* The state is in order before and after a step on the server.
LEMMA OrderlyOn ==
  ASSUME TypeOK, TypeOK', fresh' = fresh \/ fresh' = fresh + 1
  PROVE  Orderly(live, fresh) /\ Orderly(live', fresh + 1) /\ fresh \in Nat
<1>1. fresh \in Nat /\ Orderly(live, fresh)
  BY Parts, Zenon
<1>2. live' \in States /\ live'.generation <= fresh' /\ live'.base <= live'.revision
      /\ \A u \in live'.updates : live'.base < u.revision /\ u.revision <= live'.revision
  BY DEF TypeOK, LogInOrder
<1>3. live'.generation \in Nat
  BY <1>2 DEF States
<1> QED
  BY <1>1, <1>2, <1>3 DEF Orderly

\* What covers a cursor goes on covering it after a step on the server.
LEMMA ServerHolds ==
  ASSUME TypeOK, TypeOK', ServerGoesOn, NEW cursor \in Cursors, cursor.generation <= fresh,
         NEW content, Holds(live, cursor, content \cup astray)
  PROVE  Holds(live', cursor, content \cup astray')
<1>1. Orderly(live, fresh) /\ Orderly(live', fresh + 1) /\ fresh \in Nat
  BY OrderlyOn DEF ServerGoesOn
<1>2. Goes(live, live', fresh, astray') /\ (content \cup astray) \cup astray' \subseteq content \cup astray'
  BY DEF ServerGoesOn
<1> QED
  BY <1>1, <1>2, HoldsOn

\* A request that the step leaves alone goes on.
LEMMA PostStands ==
  ASSUME IInv, TypeOK', NEW d \in Clients, ServerGoesOn, post'[d] = post[d]
  PROVE  PostGoesOn(d)
<1>1. Orderly(live, fresh) /\ Orderly(live', fresh + 1) /\ fresh \in Nat
  BY OrderlyOn DEF IInv, ServerGoesOn
<1>2. post[d].ack \in Cursors /\ post[d].ack.generation \in Nat /\ post[d].ack.generation <= fresh
  BY Fields DEF IInv, Local, CursorsDrawn
<1>3. post[d].at \in Acked => Holds(live', post[d].ack, post[d].ydoc \cup astray')
  BY <1>1, <1>2, ServerHolds DEF IInv, Local, Covered
<1>4. post[d].ack.generation <= fresh'
  BY <1>1, <1>2 DEF ServerGoesOn
<1> QED
  BY <1>3, <1>4 DEF PostGoesOn

\* A poll that the step leaves alone goes on.
LEMMA PollStands ==
  ASSUME IInv, TypeOK', NEW d \in Clients, ServerGoesOn, poll'[d] = poll[d]
  PROVE  PollGoesOn(d)
<1>1. Orderly(live, fresh) /\ Orderly(live', fresh + 1) /\ fresh \in Nat
  BY OrderlyOn DEF IInv, ServerGoesOn
<1>2. poll[d].ack \in Cursors /\ poll[d].ack.generation \in Nat /\ poll[d].ack.generation <= fresh
  BY Fields DEF IInv, Local, CursorsDrawn
<1>3. poll[d].at = "answered" => Holds(live', poll[d].ack, poll[d].held \cup Incoming(d) \cup astray')
  BY <1>1, <1>2, ServerHolds DEF IInv, Local, Covered
<1>4. poll[d].ack.generation <= fresh' /\ Incoming(d)' = Incoming(d)
  BY <1>1, <1>2 DEF ServerGoesOn, Incoming
<1> QED
  BY <1>3, <1>4 DEF PollGoesOn

\* What a request that the step leaves alone knows stays true.
LEMMA SeededStands ==
  ASSUME IInv, TypeOK', NEW d \in Clients, ServerGoesOn, post'[d] = post[d],
         d \in current' => d \in current, saved' = saved \/ current' = {}
  PROVE  Seeded(d)'
<1>1. Seeded(d) /\ CursorsDrawn(d) /\ fresh \in Nat /\ post[d].cursor.generation \in Nat
  BY Fields DEF IInv, Local
<1>2. ASSUME live' # Gone, post[d].cursor.generation = live'.generation
      PROVE  /\ live # Gone /\ post[d].cursor.generation = live.generation
             /\ Merged(live) \subseteq Merged(live') \cup astray'
  BY <1>1, <1>2 DEF ServerGoesOn, Goes, CursorsDrawn
<1> QED
  BY <1>1, <1>2 DEF Seeded, ServerGoesOn

\* A step on the server keeps everything a browser relies on.
LEMMA LocalStands ==
  ASSUME IInv, TypeOK', NEW d \in Clients, ServerGoesOn, PostGoesOn(d), PollGoesOn(d), Seeded(d)'
  PROVE  Local(d)'
<1>0. Orderly(live, fresh) /\ Orderly(live', fresh + 1) /\ fresh \in Nat
  BY OrderlyOn DEF IInv, ServerGoesOn
<1>f. /\ tab'[d] = tab[d] /\ kept'[d] = kept[d] /\ dirty' = dirty
      /\ saved \subseteq saved' \cup astray' /\ astray \subseteq astray'
      /\ (fresh' = fresh \/ fresh' = fresh + 1) /\ Goes(live, live', fresh, astray')
  BY DEF ServerGoesOn
<1>l. Local(d)
  BY DEF IInv
<1>c. /\ tab[d].cursor \in Cursors /\ tab[d].known \in Cursors /\ kept[d].cursor \in Cursors
      /\ post[d].cursor \in Cursors /\ post[d].ack \in Cursors
      /\ poll[d].cursor \in Cursors /\ poll[d].ack \in Cursors
      /\ tab[d].cursor.generation \in Nat /\ tab[d].known.generation \in Nat
      /\ kept[d].cursor.generation \in Nat /\ post[d].cursor.generation \in Nat
      /\ poll[d].cursor.generation \in Nat
  BY Fields DEF IInv
<1>h. \A cursor \in Cursors : \A content :
        cursor.generation <= fresh /\ Holds(live, cursor, content \cup astray)
          => Holds(live', cursor, content \cup astray')
  BY ServerHolds DEF IInv
<1>1. CursorsDrawn(d)'
  BY <1>0, <1>f, <1>l, <1>c DEF Local, CursorsDrawn, PostGoesOn, PollGoesOn
<1>2. Placed(d)'
  BY <1>f, <1>l DEF Local, Placed, Posting, Polling, PostGoesOn, PollGoesOn
<1>3. Held(d)'
  BY <1>f, <1>l DEF Local, Held, Posting, Polling, PostGoesOn, PollGoesOn
<1>4. Covered(d)'
  <2>1. Covered(d) /\ CursorsDrawn(d)
    BY <1>l DEF Local
  <2>5. Holds(live', tab[d].known, Content)
    <3>1. Content \cup astray = Content /\ Content \cup astray' = Content
      BY Parts, Zenon DEF IInv, TypeOK
    <3> QED
      BY <3>1, <2>1, <1>c, <1>h DEF Covered, CursorsDrawn
  <2>2. /\ Holds(live', tab[d].cursor, tab[d].content \cup astray')
        /\ Holds(live', kept[d].cursor, kept[d].content \cup astray')
    BY <2>1, <1>c, <1>h DEF Covered, CursorsDrawn
  <2>3. post[d].at # "idle" => Holds(live', post[d].cursor, post[d].ydoc \cup astray')
    BY <2>1, <1>c, <1>h DEF Covered, CursorsDrawn
  <2>4. poll[d].at = "sent" => Holds(live', poll[d].cursor, poll[d].held \cup astray')
    BY <2>1, <1>c, <1>h DEF Covered, CursorsDrawn
  <2> QED
    BY <2>2, <2>3, <2>4, <2>5, <1>f DEF Covered, PostGoesOn, PollGoesOn
<1>5. Recorded(d)'
  BY <1>f, <1>l DEF Local, Recorded, Posting, Polling, PostGoesOn, PollGoesOn
<1>6. Clean(d)'
  BY <1>f, <1>l DEF Local, Clean, PostGoesOn
<1>7. Plain(d)'
  <2>1. Addition \notin saved' \cup astray' =>
          Addition \notin saved \cup astray /\ Addition \notin Merged(live')
    BY <1>f DEF ServerGoesOn, Honest
  <2> QED
    BY <2>1, <1>f, <1>l DEF Local, Plain, PostGoesOn, PollGoesOn
<1> QED
  BY <1>1, <1>2, <1>3, <1>4, <1>5, <1>6, <1>7 DEF Local

-----------------------------------------------------------------------------
(* The steps on the server keep the invariant *)

\* The document that a request, a poll or a report reads.
LEMMA Read ==
  ASSUME IInv, NEW seed \in SUBSET Content, NEW L
  PROVE  /\ Orderly(Initialised(seed), Drawn) /\ (Drawn = fresh \/ Drawn = fresh + 1)
         /\ Initialised(seed) \in States /\ Initialised(seed) # Gone
         /\ Goes(live, Initialised(seed), fresh, L) /\ Initialised(seed).generation > 0
         /\ Merged(live) \subseteq Merged(Initialised(seed))
         /\ Merged(Initialised(seed)) \subseteq Merged(live) \cup seed
         /\ Initialised(seed).mark \subseteq Merged(Initialised(seed)) \cup astray
         /\ live # Gone => Initialised(seed) = live
         /\ live = Gone => /\ Initialised(seed).generation = fresh + 1
                           /\ Merged(Initialised(seed)) = seed
<1> DEFINE s == Initialised(seed)
<1>1. TypeOK /\ Honest /\ fresh \in Nat /\ Orderly(live, fresh) /\ live \in States
  BY Parts, Zenon DEF IInv, Orderly
<1>2. Orderly(s, Drawn) /\ (Drawn = fresh \/ Drawn = fresh + 1) /\ s \in States
  BY <1>1, InitialisedTypes DEF Drawn, Orderly
<1>3. Goes(live, live, fresh, L) /\ (live = Gone => Goes(live, NewState(seed, fresh + 1), fresh, L))
  BY <1>1, Transformed
<1>4. Merged(Gone) = {} /\ \A g : Merged(NewState(seed, g)) = seed /\ NewState(seed, g).mark = seed
  BY MergedOf, EmptyTypes
<1>5. CASE live = Gone
  <2>1. s = NewState(seed, fresh + 1)
    BY <1>5 DEF Initialised
  <2>2. s.generation = fresh + 1 /\ s.generation > 0
    BY <2>1, <1>1 DEF NewState
  <2>3. Merged(s) = seed /\ s.mark = seed
    BY <2>1, <1>4, Zenon
  <2>4. Goes(live, s, fresh, L)
    BY <2>1, <1>3, <1>5
  <2> HIDE DEF s
  <2>5. s # Gone
    BY <2>2, NotGone
  <2> QED
    BY <2>2, <2>3, <2>4, <2>5, <1>2, <1>4, <1>5 DEF s
<1>6. CASE live # Gone
  <2>1. s = live
    BY <1>6 DEF Initialised
  <2> HIDE DEF s
  <2> QED
    BY <2>1, <1>1, <1>2, <1>3, <1>6 DEF Honest, MarkHonest, s
<1> QED
  BY <1>5, <1>6

\* The state published for a checkpoint.
LEMMA Publication ==
  ASSUME IInv, NEW s, Merged(live) \subseteq Merged(s), NEW seed \in SUBSET Content, NEW L
  PROVE  LET t == Published(s, seed, fresh + 1)
         IN  /\ Goes(live, t, fresh, L) /\ t.generation > 0 /\ t # Gone
             /\ Merged(t) = seed \cup Merged(s) /\ t.mark = seed
<1> DEFINE t == Published(s, seed, fresh + 1)
<1>1. fresh \in Nat
  BY Parts, Zenon DEF IInv
<1>2. t.generation = fresh + 1
  BY DEF Published
<1>3. Merged(t) = seed \cup Merged(s) /\ t.mark = seed
  BY MergedPublished
<1> HIDE DEF t
<1>4. t.generation > 0 /\ t.generation > fresh
  BY <1>1, <1>2
<1>5. Merged(live) \subseteq Merged(t)
  BY <1>3
<1>6. Goes(live, t, fresh, L) /\ t # Gone
  BY <1>4, <1>5, NotGone DEF Goes
<1> QED
  BY <1>3, <1>4, <1>6 DEF t

\* When the step goes on for everyone, the invariant holds after it.
LEMMA StepStands ==
  ASSUME IInv, TypeOK', ServerGoesOn,
         \A d \in Clients : PostGoesOn(d) /\ PollGoesOn(d) /\ Seeded(d)'
  PROVE  IInv' /\ ServerGoesOn
  BY LocalStands DEF IInv, ServerGoesOn

\* A step of one request on the server: the other browsers' requests stand.
LEMMA OthersStand ==
  ASSUME IInv, TypeOK', NEW c \in Clients, ServerGoesOn,
         \A d \in Clients \ {c} : post'[d] = post[d] /\ poll'[d] = poll[d] /\ (d \in current' => d \in current),
         saved' = saved \/ current' = {},
         PostGoesOn(c), PollGoesOn(c), Seeded(c)'
  PROVE  IInv' /\ ServerGoesOn
<1>1. ASSUME NEW d \in Clients, d # c
      PROVE  PostGoesOn(d) /\ PollGoesOn(d) /\ Seeded(d)'
  BY <1>1, PostStands, PollStands, SeededStands
<1> QED
  BY <1>1, StepStands

\* Taking the lock and reading the checkpoint keeps the invariant.
LEMMA BeginKeeps ==
  ASSUME IInv, TypeOK', NEW c \in Clients, Begin(c)
  PROVE  IInv' /\ ServerGoesOn
<1>1. /\ TypeOK /\ Honest /\ post \in [Clients -> Posts] /\ fresh \in Nat /\ Orderly(live, fresh)
      /\ Seeded(c) /\ live \in States
  BY Parts, Zenon DEF IInv, Local, Orderly
<1>2. /\ UNCHANGED <<saved, live, fresh, tab, dirty, kept, poll, report, astray>>
      /\ current' = current \cup {c}
      /\ post' = [post EXCEPT ![c].at = "loaded", ![c].seed = saved] /\ post[c].at = "sent"
  BY DEF Begin, browser
<1>3. /\ post'[c].at = "loaded" /\ post'[c].seed = saved /\ post'[c].from = post[c].from
      /\ post'[c].ydoc = post[c].ydoc /\ post'[c].cursor = post[c].cursor
      /\ post'[c].update = post[c].update /\ post'[c].ack = post[c].ack
      /\ \A d \in Clients \ {c} : post'[d] = post[d]
  BY <1>1, <1>2 DEF Posts
<1>4. ServerGoesOn
  <2>1. Goes(live, live, fresh, astray)
    BY <1>1, Transformed, EmptyTypes
  <2>2. Reporter # c
    BY DocumentAssumption DEF DocumentAssumption
  <2> QED
    BY <2>1, <2>2, <1>1, <1>2 DEF ServerGoesOn, Honest, MarkHonest
<1>5. PostGoesOn(c)
  BY <1>2, <1>3 DEF PostGoesOn, Acked, IInv, Local, CursorsDrawn
<1>6. Seeded(c)'
  BY <1>2, <1>3 DEF Seeded
<1>7. \A d \in Clients : PollGoesOn(d)
  BY <1>2, <1>4, PollStands
<1>8. ASSUME NEW d \in Clients, d # c
      PROVE  PostGoesOn(d) /\ Seeded(d)'
  <2>1. d \in current' => d \in current
    BY <1>2, <1>8
  <2> QED
    BY <2>1, <1>2, <1>3, <1>4, <1>8, PostStands, SeededStands
<1> QED
  BY <1>4, <1>5, <1>6, <1>7, <1>8, StepStands

\* Publishing the checkpoint to Redis, where Redis has another, keeps the invariant.
LEMMA ReconcileKeeps ==
  ASSUME IInv, TypeOK', NEW c \in Clients, Reconcile(c)
  PROVE  IInv' /\ ServerGoesOn
<1> DEFINE seed == post[c].seed
<1>1. /\ TypeOK /\ Honest /\ post \in [Clients -> Posts] /\ fresh \in Nat /\ Orderly(live, fresh)
      /\ Local(c) /\ live \in States /\ poll \in [Clients -> Requests]
  BY Parts, Zenon DEF IInv, Orderly
<1>2. seed \in SUBSET Content
  BY <1>1 DEF Posts
<1>3. /\ UNCHANGED <<saved, current, tab, dirty, kept, poll, report, astray>> /\ post[c].at = "loaded"
      /\ post' = [post EXCEPT ![c].at = "reconciled"]
  BY DEF Reconcile, browser
<1>4. /\ post'[c].at = "reconciled" /\ post'[c].seed = seed /\ post'[c].from = post[c].from
      /\ post'[c].ydoc = post[c].ydoc /\ post'[c].cursor = post[c].cursor
      /\ post'[c].update = post[c].update /\ post'[c].ack = post[c].ack
      /\ \A d \in Clients \ {c} : post'[d] = post[d]
  BY <1>1, <1>3 DEF Posts
<1>5. Addition \notin saved \cup astray => Addition \notin Merged(live) \cup seed
  BY <1>1 DEF Honest, Local, Plain
<1>6. /\ Goes(live, live', fresh, astray) /\ (fresh' = fresh \/ fresh' = fresh + 1)
      /\ live'.generation > 0 /\ live' # Gone /\ live'.mark \subseteq Merged(live') \cup astray
      /\ Merged(live') \subseteq Merged(live) \cup seed /\ seed \subseteq Merged(live') \cup astray
  <2>1. CASE Reconciles(seed)
    <3>1. live' = Published(live, seed, fresh + 1) /\ fresh' = fresh + 1
      BY <2>1 DEF Reconcile
    <3> QED
      BY <3>1, <1>2, Publication
  <2>2. CASE ~Reconciles(seed)
    <3>1. live' = Initialised(seed) /\ fresh' = Drawn
      BY <2>2 DEF Reconcile
    <3>2. live = Gone \/ seed \subseteq live.mark
      BY <2>2 DEF Reconciles
    <3>3. seed \subseteq Merged(Initialised(seed)) \cup astray
      BY <3>2, <1>1, <1>2, Read DEF Honest, MarkHonest
    <3> QED
      BY <3>1, <3>3, <1>2, Read
  <2> QED
    BY <2>1, <2>2
<1>7. ServerGoesOn
  BY <1>1, <1>3, <1>5, <1>6 DEF ServerGoesOn, Honest, MarkHonest
<1>8. PostGoesOn(c)
  <2>1. post[c].ack.generation <= fresh /\ post[c].ack.generation \in Nat
    BY <1>1, Fields DEF Local, CursorsDrawn
  <2>2. post'[c].ack.generation <= fresh'
    BY <2>1, <1>1, <1>4, <1>6
  <2> QED
    BY <2>2, <1>3, <1>4 DEF PostGoesOn, Acked
<1>9. PollGoesOn(c)
  BY <1>3, <1>7, PollStands
<1>10. Seeded(c)'
  BY <1>1, <1>3, <1>4, <1>6 DEF Local, Seeded
<1> HIDE DEF seed
<1> QED
  BY <1>3, <1>4, <1>7, <1>8, <1>9, <1>10, OthersStand

\* Applying a request keeps the invariant: an accepted checkpoint holds all of Redis.
LEMMA ApplyKeeps ==
  ASSUME IInv, TypeOK', NEW c \in Clients, Apply(c)
  PROVE  IInv' /\ ServerGoesOn
<1> DEFINE p == post[c]
           before == Initialised(p.seed)
           after == Appended(before, p.update)
           accepted == CurrentClient(before, p.cursor)
<1>1. /\ TypeOK /\ Honest /\ post \in [Clients -> Posts] /\ fresh \in Nat /\ Orderly(live, fresh)
      /\ Local(c) /\ live \in States
  BY Parts, Zenon DEF IInv, Orderly
<1>2. /\ p \in Posts /\ p.seed \in SUBSET Content /\ p.update \in SUBSET Content
      /\ p.ydoc \in SUBSET Content /\ p.cursor.generation \in Nat /\ p.cursor.generation <= fresh
  BY <1>1, Fields DEF Posts, Local, CursorsDrawn
<1>3. /\ UNCHANGED <<saved, tab, dirty, kept, poll, report>> /\ p.at = "reconciled"
      /\ fresh' = Drawn /\ live' = IF accepted THEN Compacted(after, p.ydoc) ELSE after
      /\ astray' = IF accepted THEN astray \cup Unannounced(p, before) ELSE astray
      /\ current' = current \/ current' = current \ {c}
  BY Zenon DEF Apply, browser
<1>4. /\ Orderly(before, Drawn) /\ (Drawn = fresh \/ Drawn = fresh + 1) /\ before \in States
      /\ before # Gone /\ Goes(live, before, fresh, astray') /\ before.generation > 0
      /\ Merged(live) \subseteq Merged(before) /\ Merged(before) \subseteq Merged(live) \cup p.seed
      /\ before.mark \subseteq Merged(before) \cup astray /\ (live # Gone => before = live)
      /\ live = Gone => before.generation = fresh + 1
  BY <1>2, Read
<1>5. \E at \in {"accepted", "applied", "rejected", "failed"} :
        /\ post' = [post EXCEPT ![c] = [p EXCEPT !.at = at, !.update = {}, !.seed = {}, !.ack = Cursor(after)]]
        /\ at \in {"accepted", "applied"} => accepted
        /\ c \in current' => at = "accepted"
  <2>1. CASE accepted /\ p.kind = "checkpoint"
    BY <2>1 DEF Apply
  <2>2. CASE ~(accepted /\ p.kind = "checkpoint")
    <3>1. /\ post' = [post EXCEPT ![c] = [p EXCEPT !.at = Ends(c, IF accepted THEN "applied" ELSE "rejected"),
                                                   !.update = {}, !.seed = {}, !.ack = Cursor(after)]]
          /\ current' = current \ {c}
      BY <2>2, Zenon DEF Apply
    <3>2. \/ Ends(c, IF accepted THEN "applied" ELSE "rejected") = "failed"
          \/ accepted /\ Ends(c, IF accepted THEN "applied" ELSE "rejected") = "applied"
          \/ Ends(c, IF accepted THEN "applied" ELSE "rejected") = "rejected"
      BY DEF Ends
    <3> HIDE DEF accepted, after
    <3> QED
      BY <3>1, <3>2
  <2> QED
    BY <2>1, <2>2
<1> HIDE DEF before
<1>6. /\ after \in States /\ Orderly(after, Drawn) /\ Cursor(after) \in Cursors
      /\ Merged(after) = Merged(before) \cup p.update /\ after.mark = before.mark
      /\ after.generation = before.generation
  <2>1. Drawn \in Nat
    BY <1>1, <1>4
  <2>2. Orderly(after, Drawn) /\ Cursor(after) \in Cursors
    BY <2>1, <1>2, <1>4, StateTypes
  <2>3. Merged(after) = Merged(before) \cup p.update /\ after.mark = before.mark
    BY <1>4, MergedOf
  <2>4. after.generation = before.generation
    BY <1>4 DEF Appended, States
  <2> HIDE DEF after
  <2> QED
    BY <2>2, <2>3, <2>4 DEF Orderly
<1>7. PICK at \in {"accepted", "applied", "rejected", "failed"} :
        /\ post' = [post EXCEPT ![c] = [p EXCEPT !.at = at, !.update = {}, !.seed = {}, !.ack = Cursor(after)]]
        /\ at \in {"accepted", "applied"} => accepted
        /\ c \in current' => at = "accepted"
  BY <1>5
<1>8. /\ post'[c].at = at /\ post'[c].seed = {} /\ post'[c].from = p.from
      /\ post'[c].ydoc = p.ydoc /\ post'[c].cursor = p.cursor
      /\ post'[c].update = {} /\ post'[c].ack = Cursor(after)
      /\ \A d \in Clients \ {c} : post'[d] = post[d]
  <2> DEFINE cursor == Cursor(after)
  <2> HIDE DEF cursor
  <2>1. post' = [post EXCEPT ![c] = [p EXCEPT !.at = at, !.update = {}, !.seed = {}, !.ack = cursor]]
    BY <1>7 DEF cursor
  <2> HIDE DEF after, accepted
  <2>2. /\ post'[c].at = at /\ post'[c].seed = {} /\ post'[c].from = p.from
        /\ post'[c].ydoc = p.ydoc /\ post'[c].cursor = p.cursor
        /\ post'[c].update = {} /\ post'[c].ack = cursor
        /\ \A d \in Clients \ {c} : post'[d] = post[d]
    BY <2>1, <1>1, <1>2 DEF Posts
  <2> QED
    BY <2>2 DEF cursor
<1>a. astray \subseteq astray'
  BY <1>3
<1>9. ASSUME accepted
      PROVE  /\ live # Gone /\ before = live /\ Merged(live) \subseteq p.ydoc \cup astray'
             /\ p.update = {} => p.ydoc \subseteq Merged(live) \cup astray'
             /\ p.cursor.generation = live.generation
  <2>1. p.cursor.generation = before.generation
    BY <1>9 DEF CurrentClient, Cursor
  <2>2. live # Gone /\ before = live /\ CurrentClient(live, p.cursor)
    BY <2>1, <1>1, <1>2, <1>4, <1>9
  <2>3. Holds(live, p.cursor, p.ydoc \cup astray)
    BY <1>1, <1>3 DEF Local, Covered
  <2>4. Merged(live) \subseteq p.ydoc \cup astray
    BY <2>2, <2>3, <1>1, ExactCursor
  <2>5. p.update = {} => p.ydoc \subseteq Merged(live) \cup astray'
    BY <2>2, <1>3, <1>9 DEF Unannounced
  <2> QED
    BY <2>1, <2>2, <2>4, <2>5, <1>a
<1>10. Addition \notin saved \cup astray =>
         Addition \notin Merged(live) \cup p.seed \cup p.ydoc \cup p.update
  BY <1>1 DEF Honest, Local, Plain, Held
<1>11. /\ Goes(live, live', fresh, astray') /\ live'.generation > 0 /\ live' # Gone
       /\ live'.mark \subseteq Merged(live') \cup astray'
       /\ Addition \notin saved \cup astray => Addition \notin Merged(live')
       /\ accepted => Merged(live') = p.ydoc /\ Holds(live', Cursor(after), p.ydoc \cup astray')
  <2>1. CASE accepted
    <3> DEFINE t == Compacted(after, p.ydoc)
    <3>1. live' = t
      BY <2>1, <1>3
    <3>2. Merged(t) = p.ydoc /\ t.mark = after.mark
      BY <1>2, <1>6, MergedOf
    <3>3. Goes(live, t, fresh, astray')
      BY <2>1, <1>1, <1>2, <1>9, Transformed
    <3>4. /\ t.generation = after.generation /\ t.revision = after.revision /\ t.base = after.revision
          /\ t.ydoc = p.ydoc /\ t.updates = {}
      BY <1>6 DEF Compacted, States
    <3>5. after.revision \in Nat
      BY <1>6 DEF States
    <3> HIDE DEF t
    <3>6. Holds(t, Cursor(after), p.ydoc \cup astray')
      BY <3>4, <3>5 DEF Holds, Cursor
    <3>7. t.generation > 0 /\ t # Gone
      BY <3>4, <1>4, <1>6, NotGone
    <3>8. t.mark \subseteq Merged(t) \cup astray'
      BY <3>2, <2>1, <1>a, <1>4, <1>6, <1>9
    <3> QED
      BY <3>1, <3>2, <3>3, <3>6, <3>7, <3>8, <1>10
  <2>2. CASE ~accepted
    <3>1. live' = after /\ astray' = astray
      BY <2>2, <1>3
    <3>2. Goes(live, after, fresh, astray')
      <4>1. CASE live # Gone
        BY <4>1, <1>1, <1>2, <1>4, Transformed
      <4>2. CASE live = Gone
        BY <4>2, <1>1, <1>4, <1>6 DEF Goes
      <4> QED
        BY <4>1, <4>2
    <3>3. after.generation > 0 /\ after # Gone
      BY <1>4, <1>6, NotGone
    <3> QED
      BY <3>1, <3>2, <3>3, <2>2, <1>4, <1>6, <1>10
  <2> QED
    BY <2>1, <2>2
<1>12. ServerGoesOn
  BY <1>1, <1>3, <1>4, <1>a, <1>10, <1>11 DEF ServerGoesOn, Honest, MarkHonest
<1>13. PostGoesOn(c)
  <2>1. Cursor(after).generation <= fresh'
    BY <1>3, <1>6 DEF Cursor, Orderly
  <2> HIDE DEF after, accepted
  <2>2. at \in Acked => Holds(live', Cursor(after), p.ydoc \cup astray')
    BY <1>7, <1>11 DEF Acked
  <2> QED
    BY <2>1, <2>2, <1>3, <1>8 DEF PostGoesOn
<1>14. PollGoesOn(c)
  BY <1>3, <1>12, PollStands
<1>15. Seeded(c)'
  <2> HIDE DEF after, accepted
  <2>1. c \in current' => accepted /\ c \in current /\ at = "accepted"
    BY <1>3, <1>7
  <2>2. c \in current' => saved \subseteq p.ydoc \cup astray'
    BY <2>1, <1>a, <1>1, <1>3, <1>9 DEF Local, Seeded
  <2> QED
    BY <2>1, <2>2, <1>3, <1>7, <1>8 DEF Seeded
<1> HIDE DEF p, after, accepted
<1> QED
  BY <1>3, <1>8, <1>12, <1>13, <1>14, <1>15, OthersStand

\* Storing a checkpoint keeps the invariant: it holds the one it replaces.
LEMMA StoreKeeps ==
  ASSUME IInv, TypeOK', NEW c \in Clients, Store(c)
  PROVE  IInv' /\ ServerGoesOn
<1>1. /\ TypeOK /\ Honest /\ post \in [Clients -> Posts] /\ fresh \in Nat /\ Orderly(live, fresh)
      /\ Local(c) /\ live \in States
  BY Parts, Zenon DEF IInv, Orderly
<1>2. /\ UNCHANGED <<live, fresh, tab, dirty, kept, poll, report, astray>> /\ post[c].at = "accepted"
      /\ \/ c \in current /\ saved' = post[c].ydoc /\ current' = {} /\ post' = [post EXCEPT ![c].at = "stored"]
         \/ c \notin current /\ UNCHANGED <<saved, current>> /\ post' = [post EXCEPT ![c].at = "failed"]
  BY DEF Store, browser
<1>3. /\ \/ post'[c].at = "stored" /\ saved' = post[c].ydoc /\ current' = {}
         \/ post'[c].at = "failed" /\ saved' = saved /\ current' = current /\ c \notin current
      /\ post'[c].seed = post[c].seed /\ post'[c].from = post[c].from
      /\ post'[c].ydoc = post[c].ydoc /\ post'[c].cursor = post[c].cursor
      /\ post'[c].update = post[c].update /\ post'[c].ack = post[c].ack
      /\ \A d \in Clients \ {c} : post'[d] = post[d]
  <2>1. PICK at : post' = [post EXCEPT ![c].at = at]
    BY <1>2
  <2>2. /\ post'[c].at = at
        /\ post'[c].seed = post[c].seed /\ post'[c].from = post[c].from
        /\ post'[c].ydoc = post[c].ydoc /\ post'[c].cursor = post[c].cursor
        /\ post'[c].update = post[c].update /\ post'[c].ack = post[c].ack
        /\ \A d \in Clients \ {c} : post'[d] = post[d]
    BY <2>1, <1>1 DEF Posts
  <2>3. \/ post'[c].at = "stored" /\ saved' = post[c].ydoc /\ current' = {}
        \/ post'[c].at = "failed" /\ saved' = saved /\ current' = current /\ c \notin current
    BY <1>1, <1>2 DEF Posts
  <2> QED
    BY <2>2, <2>3
<1>4. saved \subseteq saved' \cup astray
  BY <1>1, <1>2 DEF Local, Seeded
<1>5. Goes(live, live, fresh, astray)
  BY <1>1, Transformed, EmptyTypes
<1>6. ServerGoesOn
  <2>1. Addition \notin saved' \cup astray => Addition \notin Merged(live) \cup report.seed
    BY <1>1, <1>4 DEF Honest
  <2>2. Reporter \in current' => Reporter \in current /\ saved' = saved
    BY <1>2
  <2> QED
    BY <2>1, <2>2, <1>1, <1>2, <1>4, <1>5 DEF ServerGoesOn, Honest, MarkHonest
<1>7. PostGoesOn(c)
  BY <1>1, <1>2, <1>3 DEF PostGoesOn, Acked, Local, CursorsDrawn, Covered
<1>8. PollGoesOn(c)
  BY <1>2, <1>6, PollStands
<1>9. Seeded(c)'
  BY <1>1, <1>2, <1>3 DEF Local, Seeded
<1> QED
  BY <1>2, <1>3, <1>6, <1>7, <1>8, <1>9, OthersStand

\* Recording the stored checkpoint in Redis keeps the invariant, in a state begun
\* again from older assets too.
LEMMA RefreshKeeps ==
  ASSUME IInv, TypeOK', NEW c \in Clients, Refresh(c)
  PROVE  IInv' /\ ServerGoesOn
<1> DEFINE ydoc == post[c].ydoc
           s == Initialised(ydoc)
<1>1. /\ TypeOK /\ Honest /\ post \in [Clients -> Posts] /\ fresh \in Nat /\ Orderly(live, fresh)
      /\ Local(c) /\ live \in States /\ ydoc \in SUBSET Content
  BY Parts, Zenon, Fields DEF IInv, Orderly, Posts
<1>2. /\ UNCHANGED <<saved, current, tab, dirty, kept, poll, report>> /\ post[c].at = "stored"
      /\ post' = [post EXCEPT ![c].at = Ends(c, "persisted")]
      /\ live' = Marked(s, ydoc) /\ fresh' = Drawn /\ astray' = astray \cup (ydoc \ Merged(s))
  BY DEF Refresh, browser, Marked
<1>3. ydoc \subseteq saved \cup astray /\ c \notin current
  BY <1>1, <1>2 DEF Local, Seeded
<1>4. /\ Orderly(s, Drawn) /\ (Drawn = fresh \/ Drawn = fresh + 1) /\ s \in States /\ s # Gone
      /\ Goes(live, s, fresh, astray') /\ s.generation > 0
      /\ Merged(s) \subseteq Merged(live) \cup ydoc /\ (live # Gone => s = live)
      /\ live = Gone => s.generation = fresh + 1
  BY <1>1, Read
<1> HIDE DEF s
<1>5. /\ post'[c].at = "persisted" \/ post'[c].at = "failed"
      /\ post'[c].seed = post[c].seed /\ post'[c].from = post[c].from
      /\ post'[c].ydoc = ydoc /\ post'[c].cursor = post[c].cursor
      /\ post'[c].update = post[c].update /\ post'[c].ack = post[c].ack
      /\ \A d \in Clients \ {c} : post'[d] = post[d]
  BY <1>1, <1>2 DEF Posts, Ends
<1>6. Merged(live') = Merged(s) /\ live'.mark = ydoc
  BY <1>1, <1>2, <1>4, MergedOf
<1>7. live'.generation = s.generation /\ live'.generation > 0 /\ live' # Gone
  <2>1. live'.generation = s.generation
    BY <1>2, <1>4 DEF Marked, States
  <2> QED
    BY <2>1, <1>4, NotGone
<1>8. Goes(live, live', fresh, astray')
  <2>1. CASE live # Gone
    BY <2>1, <1>1, <1>2, <1>4, Transformed
  <2>2. CASE live = Gone
    <3>1. live'.generation > fresh /\ Merged(live) = {}
      BY <2>2, <1>1, <1>4, <1>7, MergedOf, EmptyTypes
    <3> QED
      BY <3>1 DEF Goes
  <2> QED
    BY <2>1, <2>2
<1>9. ServerGoesOn
  <2>1. astray \subseteq astray' /\ live'.mark \subseteq Merged(live') \cup astray'
    BY <1>2, <1>6
  <2>2. Addition \notin saved \cup astray => Addition \notin Merged(live') \cup report.seed
    BY <1>1, <1>3, <1>4, <1>6 DEF Honest
  <2> HIDE DEF ydoc
  <2> QED
    BY <2>1, <2>2, <1>1, <1>2, <1>4, <1>7, <1>8 DEF ServerGoesOn, Honest, MarkHonest
<1>10. PostGoesOn(c)
  <2>1. /\ post[c].ack \in Cursors /\ post[c].ack.generation \in Nat /\ post[c].ack.generation <= fresh
        /\ Holds(live, post[c].ack, ydoc \cup astray)
    BY <1>1, <1>2, Fields DEF Local, CursorsDrawn, Covered, Acked
  <2>2. Holds(live', post[c].ack, ydoc \cup astray')
    BY <2>1, <1>1, <1>9, ServerHolds
  <2>3. post[c].ack.generation <= fresh'
    BY <2>1, <1>1, <1>2, <1>4
  <2> QED
    BY <2>2, <2>3, <1>2, <1>5 DEF PostGoesOn
<1>11. PollGoesOn(c)
  BY <1>2, <1>9, PollStands
<1>12. Seeded(c)'
  BY <1>2, <1>3, <1>5 DEF Seeded
<1> HIDE DEF ydoc
<1> QED
  BY <1>2, <1>5, <1>9, <1>10, <1>11, <1>12, OthersStand

\* Answering a poll keeps the invariant: a snapshot or a delta reaches up to its cursor.
LEMMA ServeKeeps ==
  ASSUME IInv, TypeOK', NEW c \in Clients, Serve(c)
  PROVE  IInv' /\ ServerGoesOn
<1> DEFINE s == Initialised(poll[c].seed)
           q == poll[c]
<1>1. /\ TypeOK /\ Honest /\ poll \in [Clients -> Requests] /\ fresh \in Nat /\ Orderly(live, fresh)
      /\ Local(c) /\ live \in States
  BY Parts, Zenon DEF IInv, Orderly
<1>2. /\ q \in Requests /\ q.seed \in SUBSET Content /\ q.cursor \in Cursors
      /\ q.cursor.generation \in Nat /\ q.cursor.revision \in Nat /\ q.cursor.generation <= fresh
  BY <1>1, Fields DEF Requests, Local, CursorsDrawn, Cursors
<1>3. /\ UNCHANGED <<saved, current, tab, dirty, kept, post, report, astray>> /\ q.at = "sent"
      /\ live' = s /\ fresh' = Drawn
      /\ poll' = [poll EXCEPT ![c].at = "answered", ![c].seed = {}, ![c].ack = Cursor(s),
                              ![c].ydoc = Snapshot(s, q.cursor), ![c].updates = Delta(s, q.cursor)]
  BY DEF Serve, browser
<1>4. /\ Orderly(s, Drawn) /\ (Drawn = fresh \/ Drawn = fresh + 1) /\ s \in States
      /\ s # Gone /\ Goes(live, s, fresh, astray) /\ s.generation > 0
      /\ Merged(s) \subseteq Merged(live) \cup q.seed /\ s.mark \subseteq Merged(s) \cup astray
      /\ live # Gone => s = live
      /\ live = Gone => s.generation = fresh + 1
  BY <1>2, Read
<1> HIDE DEF s
<1>5. /\ s.revision \in Nat /\ s.base \in Nat /\ s.generation \in Nat
      /\ \A u \in s.updates : u.revision \in Nat /\ s.base < u.revision
  BY <1>4 DEF Orderly, States, Updates
<1>6. /\ poll'[c].at = "answered" /\ poll'[c].seed = {} /\ poll'[c].ack = Cursor(s)
      /\ poll'[c].ydoc = Snapshot(s, q.cursor) /\ poll'[c].updates = Delta(s, q.cursor)
      /\ poll'[c].from = q.from /\ poll'[c].held = q.held /\ poll'[c].cursor = q.cursor
      /\ \A d \in Clients \ {c} : poll'[d] = poll[d]
  <2> DEFINE ydoc == Snapshot(s, q.cursor)
             updates == Delta(s, q.cursor)
             cursor == Cursor(s)
  <2> HIDE DEF ydoc, updates, cursor
  <2>1. poll' = [poll EXCEPT ![c].at = "answered", ![c].seed = {}, ![c].ack = cursor,
                             ![c].ydoc = ydoc, ![c].updates = updates]
    BY <1>3 DEF ydoc, updates, cursor
  <2>2. /\ poll'[c].at = "answered" /\ poll'[c].seed = {} /\ poll'[c].ack = cursor
        /\ poll'[c].ydoc = ydoc /\ poll'[c].updates = updates
        /\ poll'[c].from = q.from /\ poll'[c].held = q.held /\ poll'[c].cursor = q.cursor
        /\ \A d \in Clients \ {c} : poll'[d] = poll[d]
    BY <2>1, <1>1 DEF Requests
  <2> QED
    BY <2>2 DEF ydoc, updates, cursor
<1>7. Incoming(c)' = Snapshot(s, q.cursor) \cup Delta(s, q.cursor)
  BY <1>6 DEF Incoming
<1>8. Snapshot(s, q.cursor) \cup Delta(s, q.cursor) \subseteq Merged(s)
  BY DEF Snapshot, Delta, Merged
<1>9. Merged(s) \subseteq q.held \cup Snapshot(s, q.cursor) \cup Delta(s, q.cursor) \cup astray
  <2>1. CASE NeedsSnapshot(s, q.cursor)
    <3>1. Snapshot(s, q.cursor) = s.ydoc
      BY <2>1 DEF Snapshot
    <3>2. \A u \in s.updates : u.edits \subseteq Delta(s, q.cursor)
      BY <2>1, <1>5 DEF Delta
    <3> QED
      BY <3>1, <3>2 DEF Merged
  <2>2. CASE ~NeedsSnapshot(s, q.cursor)
    <3>1. q.cursor.generation = s.generation /\ q.cursor.revision >= s.base
      BY <2>2, <1>2, <1>5 DEF NeedsSnapshot
    <3>2. s = live /\ live # Gone
      BY <3>1, <1>1, <1>2, <1>4
    <3>3. Holds(s, q.cursor, q.held \cup astray)
      BY <3>2, <1>1, <1>3 DEF Local, Covered
    <3>4. s.ydoc \subseteq q.held \cup astray
      BY <3>1, <3>3, <1>4 DEF Holds
    <3>5. \A u \in s.updates :
            u.edits \subseteq q.held \cup astray \/ u.edits \subseteq Delta(s, q.cursor)
      <4> SUFFICES ASSUME NEW u \in s.updates
                   PROVE  u.edits \subseteq q.held \cup astray \/ u.edits \subseteq Delta(s, q.cursor)
        OBVIOUS
      <4>1. CASE u.revision <= q.cursor.revision
        BY <4>1, <3>1, <3>3, <1>4 DEF Holds
      <4>2. CASE u.revision > q.cursor.revision
        BY <4>2, <2>2 DEF Delta
      <4> QED
        BY <4>1, <4>2, <1>2, <1>5
    <3> QED
      BY <3>4, <3>5 DEF Merged
  <2> QED
    BY <2>1, <2>2
<1>10. Addition \notin saved \cup astray => Addition \notin Merged(s)
  BY <1>1, <1>4 DEF Honest, Local, Plain
<1>11. ServerGoesOn
  BY <1>1, <1>3, <1>4, <1>10 DEF ServerGoesOn, Honest, MarkHonest
<1>12. PollGoesOn(c)
  <2>1. Cursor(s).generation <= fresh'
    BY <1>3, <1>4 DEF Cursor, Orderly
  <2>2. Holds(s, Cursor(s), q.held \cup (Snapshot(s, q.cursor) \cup Delta(s, q.cursor)) \cup astray)
    BY <1>5, <1>9 DEF Holds, Cursor, Merged
  <2> QED
    BY <2>1, <2>2, <1>3, <1>6, <1>7, <1>8 DEF PollGoesOn
<1>13. ASSUME NEW d \in Clients
       PROVE  PostGoesOn(d) /\ Seeded(d)'
  <2>1. post'[d] = post[d]
    BY <1>3
  <2> QED
    BY <2>1, <1>3, <1>11, PostStands, SeededStands
<1>14. ASSUME NEW d \in Clients, d # c
       PROVE  PollGoesOn(d)
  BY <1>6, <1>11, <1>14, PollStands
<1> QED
  BY <1>11, <1>12, <1>13, <1>14, StepStands

\* A step that changes no browser's request: everybody's requests stand.
LEMMA RequestsStand ==
  ASSUME IInv, TypeOK', ServerGoesOn, UNCHANGED <<post, poll>>, current' \subseteq current \cup {Reporter},
         saved' = saved \/ current' = {}
  PROVE  IInv' /\ ServerGoesOn
<1>1. ASSUME NEW d \in Clients
      PROVE  PostGoesOn(d) /\ PollGoesOn(d) /\ Seeded(d)'
  <2>1. d \in current' => d \in current
    BY DocumentAssumption DEF DocumentAssumption
  <2> QED
    BY <2>1, PostStands, PollStands, SeededStands
<1> QED
  BY <1>1, StepStands

\* A report's steps keep the invariant.
LEMMA ReportKeeps ==
  ASSUME IInv, TypeOK', Report
  PROVE  IInv' /\ ServerGoesOn
<1>1. /\ TypeOK /\ Honest /\ fresh \in Nat /\ Orderly(live, fresh) /\ live \in States
      /\ report \in Reports /\ saved \subseteq Content
  BY Parts, Zenon DEF IInv, Orderly
<1>2. report.seed \in SUBSET Content /\ Goes(live, live, fresh, astray)
  BY <1>1, Transformed, EmptyTypes DEF Reports
<1>3. UNCHANGED <<tab, dirty, kept, post, poll, astray>> /\ current' \subseteq current \cup {Reporter}
  BY DEF Report, LoadPage, Stage, Check, Append, Publish, PublishSeed, Reload, Recover, Abandoned,
         browser, server
<1>5. CASE LoadPage
  <2>1. UNCHANGED <<saved, live, fresh>> /\ (Reporter \in current' => report'.at = "loaded" /\ saved = report'.seed)
    BY <1>5, <1>1 DEF LoadPage, Honest
  <2>2. Addition \notin saved \cup astray => Addition \notin report'.seed
    BY <1>5 DEF LoadPage
  <2>3. ServerGoesOn
    BY <2>1, <2>2, <1>1, <1>2, <1>3 DEF ServerGoesOn, Honest, MarkHonest
  <2> QED
    BY <2>1, <2>3, <1>3, RequestsStand
<1>6. CASE Stage \/ Check
  <2> DEFINE s == Initialised(report.seed)
  <2>1. live' = s /\ fresh' = Drawn /\ saved' = saved
    BY <1>6 DEF Stage, Check
  <2>2. /\ Reporter \in current' =>
             /\ Reporter \in current /\ report'.seed = report.seed
             /\ report'.at \in {"loaded", "staged", "checked"}
        /\ report'.seed = report.seed \/ report'.seed = {}
    BY <1>6, <1>1 DEF Stage, Check, Abandoned, Reports, NoReport
  <2>3. /\ (Drawn = fresh \/ Drawn = fresh + 1) /\ Goes(live, s, fresh, astray) /\ s.generation > 0
        /\ Merged(s) \subseteq Merged(live) \cup report.seed /\ s.mark \subseteq Merged(s) \cup astray
    BY <1>2, Read
  <2> HIDE DEF s
  <2>4. ServerGoesOn
    BY <2>1, <2>2, <2>3, <1>1, <1>3 DEF ServerGoesOn, Honest, MarkHonest
  <2> QED
    BY <2>1, <2>4, <1>3, RequestsStand
<1>7. CASE Append
  <2>1. UNCHANGED <<live, fresh>>
    BY <1>7 DEF Append
  <2>2. \/ /\ Reporter \in current /\ saved' = report.seed \cup {Addition} /\ current' = {}
           /\ report' = [at |-> "pending", seed |-> saved']
        \/ Abandoned /\ saved' = saved
    BY <1>7, Zenon DEF Append
  <2>3. saved \subseteq saved' \cup astray /\ (saved' = saved \/ current' = {}) /\ Reporter \notin current'
    BY <2>2, <1>1 DEF Honest, Abandoned
  <2>4. Addition \notin saved' \cup astray =>
          Addition \notin saved \cup astray /\ Addition \notin report'.seed
    BY <2>2, <1>1 DEF Abandoned, NoReport
  <2>5. ServerGoesOn
    BY <2>1, <2>3, <2>4, <1>1, <1>2, <1>3 DEF ServerGoesOn, Honest, MarkHonest
  <2> QED
    BY <2>1, <2>3, <2>5, <1>3, RequestsStand
<1>8. CASE Publish \/ Recover
  <2> DEFINE s == Initialised(report.seed)
             t == Published(s, report.seed, fresh + 1)
  <2>1. /\ live' = t /\ fresh' = fresh + 1 /\ UNCHANGED <<saved, current>>
        /\ report' = [at |-> "done", seed |-> {}]
    BY <1>8 DEF Publish, Recover, PublishSeed
  <2>2. Merged(live) \subseteq Merged(s) /\ Merged(s) \subseteq Merged(live) \cup report.seed
    BY <1>2, Read
  <2>3. /\ Goes(live, t, fresh, astray) /\ t.generation > 0 /\ t # Gone
        /\ Merged(t) = report.seed \cup Merged(s) /\ t.mark = report.seed
    BY <2>2, <1>2, Publication
  <2>4. Reporter \notin current
    BY <1>8, <1>1 DEF Honest, Publish, Recover, PublishSeed
  <2> HIDE DEF s, t
  <2>5. ServerGoesOn
    BY <2>1, <2>2, <2>3, <2>4, <1>1, <1>3 DEF ServerGoesOn, Honest, MarkHonest
  <2> QED
    BY <2>1, <2>3, <2>5, <1>3, RequestsStand
<1>9. CASE Reload
  <2>1. /\ UNCHANGED <<saved, live, fresh, current>> /\ report' = [at |-> "reloaded", seed |-> saved]
        /\ Reporter \notin current
    BY <1>9, <1>1 DEF Reload, server, Honest
  <2>2. ServerGoesOn
    BY <2>1, <1>1, <1>2, <1>3 DEF ServerGoesOn, Honest, MarkHonest
  <2> QED
    BY <2>1, <2>2, <1>3, RequestsStand
<1> QED
  BY <1>5, <1>6, <1>7, <1>8, <1>9 DEF Report

\* A failed request or a lost answer keeps the invariant.
LEMMA FailKeeps ==
  ASSUME IInv, TypeOK', NEW c \in Clients, Fail(c) \/ LoseAnswer(c)
  PROVE  IInv' /\ ServerGoesOn
<1>1. /\ TypeOK /\ Honest /\ post \in [Clients -> Posts] /\ fresh \in Nat /\ Orderly(live, fresh)
      /\ Local(c) /\ live \in States
  BY Parts, Zenon DEF IInv, Orderly
<1>2. /\ UNCHANGED <<saved, live, fresh, tab, dirty, kept, poll, report, astray>>
      /\ post[c].at # "idle" /\ current' \subseteq current
      /\ c \notin current'
      /\ \/ post' = [post EXCEPT ![c].at = "failed", ![c].update = {}, ![c].seed = {}]
         \/ post' = [post EXCEPT ![c].at = "failed"]
  BY <1>1 DEF Fail, LoseAnswer, browser, server, Local, Seeded
<1>3. /\ post'[c].at = "failed" /\ post'[c].seed \subseteq post[c].seed /\ post'[c].from = post[c].from
      /\ post'[c].ydoc = post[c].ydoc /\ post'[c].cursor = post[c].cursor
      /\ post'[c].update \subseteq post[c].update /\ post'[c].ack = post[c].ack
      /\ \A d \in Clients \ {c} : post'[d] = post[d]
  BY <1>1, <1>2 DEF Posts
<1>4. ServerGoesOn
  <2>1. Goes(live, live, fresh, astray)
    BY <1>1, Transformed, EmptyTypes
  <2> QED
    BY <2>1, <1>1, <1>2 DEF ServerGoesOn, Honest, MarkHonest
<1>5. PostGoesOn(c) /\ Seeded(c)'
  BY <1>1, <1>2, <1>3 DEF PostGoesOn, Seeded, Acked, Local, CursorsDrawn
<1>6. ASSUME NEW d \in Clients, d # c
      PROVE  PostGoesOn(d) /\ Seeded(d)'
  <2>1. d \in current' => d \in current
    BY <1>2
  <2> QED
    BY <2>1, <1>2, <1>3, <1>4, <1>6, PostStands, SeededStands
<1>7. \A d \in Clients : PollGoesOn(d)
  BY <1>2, <1>4, PollStands
<1> QED
  BY <1>4, <1>5, <1>6, <1>7, StepStands

\* The faults keep the invariant.
LEMMA FaultKeeps ==
  ASSUME IInv, TypeOK', Fault
  PROVE  IInv' /\ ServerGoesOn
<1>1. /\ TypeOK /\ Honest /\ fresh \in Nat /\ Orderly(live, fresh) /\ live \in States
      /\ report \in Reports
  BY Parts, Zenon DEF IInv, Orderly
<1>2. Goes(live, live, fresh, astray) /\ Goes(live, Gone, fresh, astray) /\ Merged(Gone) = {} /\ Gone.mark = {}
  BY <1>1, Transformed, EmptyTypes, MergedOf DEF Goes
<1>3. CASE \E c \in Clients : Fail(c) \/ LoseAnswer(c)
  BY <1>3, FailKeeps
<1>4. CASE ReportStops \/ Expire
  <2>1. /\ UNCHANGED <<saved, live, fresh, tab, dirty, kept, post, poll, astray>>
        /\ current' = current \ {Reporter} \/ (current' = current /\ report' = report)
        /\ report'.seed = report.seed \/ report'.seed = {}
    BY <1>4, <1>1 DEF ReportStops, Expire, browser, NoReport, Reports
  <2>2. ServerGoesOn
    BY <2>1, <1>1, <1>2 DEF ServerGoesOn, Honest, MarkHonest
  <2> QED
    BY <2>1, <2>2, RequestsStand
<1>5. CASE Evict
  <2>1. UNCHANGED <<saved, fresh, tab, dirty, kept, post, poll, current, report, astray>> /\ live' = Gone
    BY <1>5 DEF Evict, browser
  <2>2. ServerGoesOn
    BY <2>1, <1>1, <1>2 DEF ServerGoesOn, Honest, MarkHonest
  <2> QED
    BY <2>1, <2>2, RequestsStand
<1> QED
  BY <1>3, <1>4, <1>5 DEF Fault

-----------------------------------------------------------------------------
(* The steps on a page keep the invariant *)

\* Only the browser's own page, record and requests change, and what is astray.
OnlyIts(c) ==
    /\ UNCHANGED <<saved, live, fresh, current, lock, report>> /\ astray \subseteq astray'
    /\ \A d \in Clients \ {c} :
         /\ tab'[d] = tab[d] /\ kept'[d] = kept[d] /\ post'[d] = post[d] /\ poll'[d] = poll[d]
         /\ d \in dirty' <=> d \in dirty

\* A page's step changes nothing of the server and of the other browsers.
LEMMA PageTouchesOne ==
  ASSUME TypeOK, NEW c \in Clients, Page(c)
  PROVE  OnlyIts(c)
<1>1. UNCHANGED <<saved, live, fresh, current, lock, report>>
  BY Zenon DEF Page, Mount, Leave, Type, Send, KeepOffline, Poll, Replay, Ask, Persisted, Applied, Keep,
     Answered, AnsweredToNobody, Hydrate, Merge, HydrateOffline, ReplayHeadless, ReplayOpening, ReplayOpen,
     server
<1>a. astray \subseteq astray'
  BY AstrayGrows DEF Next
<1>2. /\ tab \in [Clients -> Tabs] /\ kept \in [Clients -> Kepts]
      /\ post \in [Clients -> Posts] /\ poll \in [Clients -> Requests]
  BY Parts, Zenon
<1>3. ASSUME NEW d \in Clients, d # c
      PROVE  tab'[d] = tab[d]
  BY <1>2, <1>3
     DEF Page, Mount, Leave, Type, Send, Emptied, KeepOffline, Poll, Replay, Ask, Persisted, Applied,
         Acknowledged, Keep, AnsweredToNobody, Hydrate, Merge, HydrateOffline, ReplayHeadless,
         ReplayOpening, ReplayOpen, browser
<1>4. ASSUME NEW d \in Clients, d # c
      PROVE  kept'[d] = kept[d]
  BY <1>2, <1>4
     DEF Page, Mount, Leave, Type, Send, KeepOffline, Poll, Replay, Ask, Persisted, Applied,
         Keep, AnsweredToNobody, Hydrate, Merge, HydrateOffline, ReplayHeadless,
         ReplayOpening, ReplayOpen, browser
<1>5. ASSUME NEW d \in Clients, d # c
      PROVE  post'[d] = post[d]
  BY <1>2, <1>5
     DEF Page, Mount, Leave, Type, Send, KeepOffline, Poll, Replay, Ask, Persisted, Applied, Answered,
         Keep, AnsweredToNobody, Hydrate, Merge, HydrateOffline, ReplayHeadless,
         ReplayOpening, ReplayOpen
<1>6. ASSUME NEW d \in Clients, d # c
      PROVE  poll'[d] = poll[d]
  BY <1>2, <1>6
     DEF Page, Mount, Leave, Type, Send, KeepOffline, Poll, Replay, Ask, Persisted, Applied, Polled,
         Keep, AnsweredToNobody, Hydrate, Merge, HydrateOffline, ReplayHeadless,
         ReplayOpening, ReplayOpen
<1>7. ASSUME NEW d \in Clients, d # c
      PROVE  d \in dirty' <=> d \in dirty
  BY <1>2, <1>7
     DEF Page, Mount, Leave, Type, Send, KeepOffline, Poll, Replay, Ask, Persisted, Applied,
         Keep, AnsweredToNobody, Hydrate, Merge, HydrateOffline, ReplayHeadless,
         ReplayOpening, ReplayOpen, browser
<1> QED
  BY <1>1, <1>a, <1>3, <1>4, <1>5, <1>6, <1>7 DEF OnlyIts

\* It is enough that the browser's own facts hold after the step.
LEMMA PageStands ==
  ASSUME IInv, TypeOK', NEW c \in Clients, OnlyIts(c), Local(c)'
  PROVE  IInv'
<1>1. Honest'
  BY DEF IInv, Honest, MarkHonest, OnlyIts
<1>2. ASSUME NEW d \in Clients, d # c
      PROVE  Local(d)'
  <2>1. /\ UNCHANGED <<saved, live, fresh, current>> /\ astray \subseteq astray'
        /\ tab'[d] = tab[d] /\ kept'[d] = kept[d] /\ post'[d] = post[d] /\ poll'[d] = poll[d]
        /\ d \in dirty' <=> d \in dirty
    BY <1>2 DEF OnlyIts
  <2>2. Local(d) /\ Incoming(d)' = Incoming(d)
    BY <2>1 DEF IInv, Incoming
  <2>3. CursorsDrawn(d)' /\ Placed(d)' /\ Held(d)'
    BY <2>1, <2>2 DEF Local, CursorsDrawn, Placed, Held, Posting, Polling
  <2>4. Covered(d)'
    <3>1. \A cursor, content :
            Holds(live, cursor, content \cup astray) => Holds(live, cursor, content \cup astray')
      BY <2>1, HoldsMore
    <3> QED
      BY <3>1, <2>1, <2>2 DEF Local, Covered
  <2>5. Seeded(d)'
    BY <2>1, <2>2 DEF Local, Seeded
  <2>6. Recorded(d)' /\ Clean(d)' /\ Plain(d)'
    BY <2>1, <2>2 DEF Local, Recorded, Clean, Plain, Polling
  <2> QED
    BY <2>3, <2>4, <2>5, <2>6 DEF Local
<1> QED
  BY <1>1, <1>2 DEF IInv

\* What a page's step may use of its browser.
LEMMA PageFacts ==
  ASSUME IInv, NEW c \in Clients
  PROVE  /\ TypeOK /\ Local(c) /\ fresh \in Nat /\ Addition \notin Edits
         /\ tab \in [Clients -> Tabs] /\ kept \in [Clients -> Kepts]
         /\ post \in [Clients -> Posts] /\ poll \in [Clients -> Requests]
         /\ NoCursor.generation <= fresh /\ NoCursor.generation = 0
         /\ \A content : Holds(live, NoCursor, content)
<1>1. /\ TypeOK /\ Local(c) /\ fresh \in Nat
      /\ tab \in [Clients -> Tabs] /\ kept \in [Clients -> Kepts]
      /\ post \in [Clients -> Posts] /\ poll \in [Clients -> Requests]
  BY Parts, Zenon DEF IInv
<1>2. NoCursor.generation = 0 /\ (live # Gone => live.generation > 0)
  BY DEF NoCursor, IInv, Honest
<1>3. \A content : Holds(live, NoCursor, content)
  BY <1>2 DEF Holds, IInv, Honest
<1>4. NoCursor.generation <= fresh /\ NoCursor.generation = 0
  BY <1>1 DEF NoCursor
<1> QED
  BY <1>1, <1>3, <1>4, DocumentAssumption DEF DocumentAssumption

\* An editor mounted on a remembered cursor holds what it names, or that is astray.
LEMMA NamedIsHeld ==
  ASSUME NEW n \in Nat, Orderly(live, n), NEW cursor \in Cursors, NEW content, NEW more,
         Holds(live, cursor, content), Named(live, cursor) \subseteq more
  PROVE  Holds(live, cursor, more)
<1> SUFFICES ASSUME cursor.generation = live.generation, live # Gone
             PROVE  /\ cursor.revision <= live.revision
                    /\ cursor.revision >= live.base => live.ydoc \subseteq more
                    /\ \A u \in live.updates : u.revision <= cursor.revision => u.edits \subseteq more
  BY DEF Holds
<1>1. /\ cursor.revision \in Nat /\ live.base \in Nat
      /\ \A u \in live.updates : u.revision \in Nat /\ live.base < u.revision
  BY DEF Orderly, States, Updates, Cursors
<1>2. cursor.revision <= live.revision
  BY DEF Holds
<1>3. CASE cursor.revision < live.base
  BY <1>1, <1>2, <1>3
<1>4. CASE ~(cursor.revision < live.base)
  <2>1. Named(live, cursor) =
          live.ydoc \cup UNION {u.edits : u \in {v \in live.updates : v.revision <= cursor.revision}}
    BY <1>4 DEF Named, NeedsSnapshot
  <2> QED
    BY <2>1, <1>2
<1> QED
  BY <1>3, <1>4

\* Mounting an editor keeps the invariant: what its cursor names is astray.
LEMMA MountKeeps ==
  ASSUME IInv, NEW c \in Clients, Mount(c), OnlyIts(c)
  PROVE  Local(c)'
<1>1. /\ TypeOK /\ Local(c) /\ fresh \in Nat /\ tab \in [Clients -> Tabs]
      /\ NoCursor.generation <= fresh /\ \A content : Holds(live, NoCursor, content)
  BY PageFacts
<1>2. /\ tab[c].at = "away" /\ poll[c].at = "idle"
      /\ UNCHANGED <<saved, live, fresh, current, kept, post, poll, dirty>>
      /\ tab'[c].at = "opening" /\ tab'[c].cursor = tab[c].known /\ tab'[c].known = NoCursor
      /\ tab'[c].content = tab[c].content /\ tab'[c].own = tab[c].own /\ tab'[c].queue = tab[c].queue
      /\ astray' = astray \cup Forgotten(c)
  BY <1>1 DEF Mount, server, Tabs
<1>3. Incoming(c)' = Incoming(c) /\ astray \subseteq astray'
  BY <1>2 DEF Incoming
<1>4. Named(live, tab[c].known) \subseteq astray' /\ (post[c].from = "replay" => post[c].ydoc \subseteq astray')
  BY <1>2 DEF Forgotten
<1>5. CursorsDrawn(c)' /\ Placed(c)' /\ Held(c)'
  BY <1>1, <1>2, <1>4 DEF Local, CursorsDrawn, Placed, Held, Posting, Polling
<1>6. Covered(c)'
  <2>1. \A cursor, content :
          Holds(live, cursor, content \cup astray) => Holds(live, cursor, content \cup astray')
    BY <1>3, HoldsMore
  <2>2. Holds(live, tab[c].known, tab[c].content \cup astray')
    <3>1. tab[c].known \in Cursors /\ Orderly(live, fresh) /\ Holds(live, tab[c].known, Content)
      BY <1>1, Fields DEF Local, Covered
    <3>2. Named(live, tab[c].known) \subseteq tab[c].content \cup astray'
      BY <1>4
    <3> QED
      BY <3>1, <3>2, <1>1, NamedIsHeld
  <2> QED
    BY <2>1, <2>2, <1>1, <1>2, <1>3 DEF Local, Covered
<1>7. Seeded(c)'
  BY <1>1, <1>2, <1>3 DEF Local, Seeded
<1>8. Recorded(c)' /\ Clean(c)' /\ Plain(c)'
  BY <1>1, <1>2, <1>3 DEF Local, Placed, Recorded, Clean, Plain, Polling
<1> QED
  BY <1>5, <1>6, <1>7, <1>8 DEF Local

\* Leaving the page keeps the invariant: what stays in flight is nobody's.
LEMMA LeaveKeeps ==
  ASSUME IInv, NEW c \in Clients, Leave(c), OnlyIts(c)
  PROVE  Local(c)'
<1>1. /\ Local(c) /\ fresh \in Nat /\ tab \in [Clients -> Tabs]
      /\ post \in [Clients -> Posts] /\ poll \in [Clients -> Requests]
      /\ NoCursor.generation <= fresh /\ \A content : Holds(live, NoCursor, content)
  BY PageFacts
<1>2. /\ UNCHANGED <<saved, live, fresh, current, astray, kept>>
      /\ tab'[c] = Away /\ poll'[c] = NoPoll
      /\ post'[c].at = "idle" \/ post'[c].from = "gone"
      /\ post'[c].at = post[c].at /\ post'[c].update = post[c].update /\ post'[c].ydoc = post[c].ydoc
      /\ post'[c].cursor = post[c].cursor /\ post'[c].seed = post[c].seed /\ post'[c].ack = post[c].ack
  BY <1>1 DEF Leave, server, Posts
<1>3. /\ tab'[c].at = "away" /\ tab'[c].content = {} /\ tab'[c].queue = {} /\ tab'[c].own = {}
      /\ tab'[c].cursor = NoCursor /\ tab'[c].known = NoCursor
      /\ poll'[c].at = "idle" /\ poll'[c].held = {} /\ poll'[c].seed = {} /\ Incoming(c)' = {}
      /\ poll'[c].cursor = NoCursor /\ poll'[c].ack = NoCursor
  BY <1>2 DEF Away, NoPoll, Incoming
<1>4. CursorsDrawn(c)' /\ Placed(c)' /\ Held(c)'
  BY <1>1, <1>2, <1>3 DEF Local, CursorsDrawn, Placed, Held, Posting, Polling
<1>5. Covered(c)' /\ Seeded(c)'
  BY <1>1, <1>2, <1>3 DEF Local, Covered, Seeded
<1>6. Recorded(c)' /\ Clean(c)' /\ Plain(c)'
  BY <1>1, <1>2, <1>3 DEF Local, Recorded, Clean, Plain, Posting, Polling
<1> QED
  BY <1>4, <1>5, <1>6 DEF Local

\* Typing keeps the invariant: the edit is unsent and the editor dirty.
LEMMA TypeKeeps ==
  ASSUME IInv, NEW c \in Clients, NEW e \in Edits, Type(c, e), OnlyIts(c)
  PROVE  Local(c)'
<1>1. Local(c) /\ fresh \in Nat /\ tab \in [Clients -> Tabs] /\ Addition # e
  BY PageFacts
<1>2. /\ UNCHANGED <<saved, live, fresh, current, astray, kept, post, poll>> /\ c \in dirty'
      /\ tab[c].at = "open" /\ tab'[c].at = "open"
      /\ tab'[c].cursor = tab[c].cursor /\ tab'[c].known = tab[c].known
      /\ tab'[c].content = tab[c].content \cup {e} /\ tab'[c].own = tab[c].own \cup {e}
      /\ tab'[c].queue = tab[c].queue \cup {e}
  BY <1>1 DEF Type, server, Tabs
<1>3. Incoming(c)' = Incoming(c)
  BY <1>2 DEF Incoming
<1>4. CursorsDrawn(c)' /\ Placed(c)' /\ Held(c)'
  BY <1>1, <1>2 DEF Local, CursorsDrawn, Placed, Held, Posting, Polling
<1>5. Covered(c)' /\ Seeded(c)'
  BY <1>1, <1>2, <1>3, HoldsMore DEF Local, Covered, Seeded
<1>6. Recorded(c)' /\ Clean(c)' /\ Plain(c)'
  BY <1>1, <1>2, <1>3 DEF Local, Recorded, Clean, Plain, Posting, Polling
<1> QED
  BY <1>4, <1>5, <1>6 DEF Local

\* Sending keeps the invariant: the request brings all that the editor holds.
LEMMA SendKeeps ==
  ASSUME IInv, NEW c \in Clients, NEW kind \in {"update", "checkpoint"}, Send(c, kind), OnlyIts(c)
  PROVE  Local(c)'
<1>1. /\ Local(c) /\ fresh \in Nat /\ tab \in [Clients -> Tabs] /\ post \in [Clients -> Posts]
      /\ NoCursor.generation <= fresh
  BY PageFacts
<1>2. /\ UNCHANGED <<saved, live, fresh, current, astray, kept, poll, dirty>>
      /\ tab[c].at = "open" /\ post[c].at = "idle" /\ (tab[c].queue # {} \/ c \in dirty)
      /\ tab'[c].at = "open" /\ tab'[c].cursor = tab[c].cursor /\ tab'[c].known = tab[c].known
      /\ tab'[c].content = tab[c].content /\ tab'[c].own = tab[c].own /\ tab'[c].queue = {}
      /\ post'[c] = Request("tab", kind, tab[c].queue, tab[c].content, tab[c].cursor)
  BY <1>1 DEF Send, Emptied, server, Tabs
<1>3. /\ Incoming(c)' = Incoming(c)
      /\ post'[c].at = "sent" /\ post'[c].from = "tab" /\ post'[c].update = tab[c].queue
      /\ post'[c].ydoc = tab[c].content /\ post'[c].cursor = tab[c].cursor
      /\ post'[c].seed = {} /\ post'[c].ack = NoCursor
  BY <1>2 DEF Incoming, Request
<1>4. CursorsDrawn(c)' /\ Placed(c)' /\ Held(c)'
  BY <1>1, <1>2, <1>3 DEF Local, CursorsDrawn, Placed, Held, Posting, Polling
<1>5. Covered(c)' /\ Seeded(c)'
  BY <1>1, <1>2, <1>3 DEF Local, Covered, Seeded, Acked
<1>6. Recorded(c)' /\ Clean(c)' /\ Plain(c)'
  BY <1>1, <1>2, <1>3 DEF Local, Held, Recorded, Clean, Plain, Posting, Polling
<1> QED
  BY <1>4, <1>5, <1>6 DEF Local

\* Keeping the editor's content offline keeps the invariant.
LEMMA KeepOfflineKeeps ==
  ASSUME IInv, NEW c \in Clients, KeepOffline(c), OnlyIts(c)
  PROVE  Local(c)'
<1>1. /\ Local(c) /\ fresh \in Nat /\ tab \in [Clients -> Tabs] /\ kept \in [Clients -> Kepts]
  BY PageFacts
<1>2. /\ UNCHANGED <<saved, live, fresh, current, astray, post, poll, dirty>>
      /\ tab[c].at = "open" /\ post[c].at = "idle" /\ c \in dirty
      /\ tab'[c].at = "open" /\ tab'[c].cursor = tab[c].cursor /\ tab'[c].known = tab[c].known
      /\ tab'[c].content = tab[c].content /\ tab'[c].own = tab[c].own /\ tab'[c].queue = {}
      /\ kept'[c].content = tab[c].content /\ kept'[c].cursor = tab[c].cursor
  BY <1>1 DEF KeepOffline, Emptied, server, Tabs, Kepts
<1>3. Incoming(c)' = Incoming(c)
  BY <1>2 DEF Incoming
<1>4. CursorsDrawn(c)' /\ Placed(c)' /\ Held(c)'
  BY <1>1, <1>2 DEF Local, CursorsDrawn, Placed, Held, Posting, Polling
<1>5. Covered(c)' /\ Seeded(c)'
  BY <1>1, <1>2, <1>3 DEF Local, Covered, Seeded
<1>6. Recorded(c)' /\ Clean(c)' /\ Plain(c)'
  BY <1>1, <1>2, <1>3 DEF Local, Recorded, Clean, Plain, Posting, Polling
<1> QED
  BY <1>4, <1>5, <1>6 DEF Local

\* Asking for the document keeps the invariant: the poll names what is held.
LEMMA AskKeeps ==
  ASSUME IInv, NEW c \in Clients, Poll(c) \/ Replay(c), OnlyIts(c)
  PROVE  Local(c)'
<1>1. /\ Local(c) /\ fresh \in Nat /\ poll \in [Clients -> Requests] /\ NoCursor.generation <= fresh
  BY PageFacts
<1>2. PICK from, held, cursor :
        /\ Ask(c, from, held, cursor)
        /\ \/ from = "tab" /\ held = tab[c].content /\ cursor = tab[c].cursor /\ tab[c].at # "away"
           \/ /\ from = "replay" /\ held = kept[c].content /\ cursor = kept[c].cursor
              /\ post[c].at = "idle"
  BY Zenon DEF Poll, Replay
<1>3. /\ UNCHANGED <<saved, live, fresh, current, astray, tab, dirty, kept, post>>
      /\ poll' = [poll EXCEPT ![c] = [NoPoll EXCEPT !.at = "sent", !.from = from, !.held = held,
                                                    !.cursor = cursor, !.seed = saved]]
  BY <1>2 DEF Ask, server, browser
<1>4. /\ poll'[c].at = "sent" /\ poll'[c].from = from /\ poll'[c].held = held
      /\ poll'[c].cursor = cursor /\ poll'[c].seed = saved /\ poll'[c].ack = NoCursor
      /\ Incoming(c)' = {}
  BY <1>1, <1>3 DEF NoPoll, Incoming
<1>5. CursorsDrawn(c)' /\ Placed(c)' /\ Held(c)'
  BY <1>1, <1>2, <1>3, <1>4 DEF Local, CursorsDrawn, Placed, Held, Posting, Polling
<1>6. Covered(c)' /\ Seeded(c)'
  BY <1>1, <1>2, <1>3, <1>4 DEF Local, Covered, Seeded
<1>7. Recorded(c)' /\ Clean(c)' /\ Plain(c)'
  BY <1>1, <1>2, <1>3, <1>4 DEF Local, Recorded, Clean, Plain, Posting, Polling
<1> QED
  BY <1>5, <1>6, <1>7 DEF Local

\* An acknowledged cursor is of what the editor holds; a stored checkpoint leaves
\* an editor clean only when nothing was typed since.
LEMMA AcknowledgedKeeps ==
  ASSUME IInv, NEW c \in Clients, Persisted(c) \/ Applied(c), OnlyIts(c)
  PROVE  Local(c)'
<1>1. /\ TypeOK /\ Local(c) /\ fresh \in Nat /\ tab \in [Clients -> Tabs]
      /\ kept \in [Clients -> Kepts] /\ post \in [Clients -> Posts]
      /\ NoCursor.generation <= fresh /\ \A content : Holds(live, NoCursor, content)
  BY PageFacts
<1>2. /\ UNCHANGED <<saved, live, fresh, current, astray, poll>> /\ post[c].from # "gone"
      /\ post[c].at \in {"persisted", "applied"} /\ post'[c] = NoPost /\ tab' = Acknowledged(c)
      /\ kept' = kept \/ kept'[c] = NoRecord
      /\ \/ dirty' = dirty
         \/ /\ dirty' = dirty \ {c} /\ post[c].at = "persisted" /\ tab[c].queue = {}
            /\ kept'[c] = NoRecord
  BY <1>1 DEF Persisted, Applied, Answered, server
<1>3. /\ post'[c].at = "idle" /\ post'[c].cursor = NoCursor /\ post'[c].ack = NoCursor
      /\ post'[c].update = {} /\ post'[c].ydoc = {} /\ post'[c].seed = {}
      /\ Incoming(c)' = Incoming(c)
      /\ \/ kept'[c] = kept[c] /\ dirty' = dirty
         \/ kept'[c].content = {} /\ kept'[c].cursor = NoCursor
  BY <1>2 DEF NoPost, NoRecord, Incoming
<1>4. /\ tab'[c].at = tab[c].at /\ tab'[c].content = tab[c].content /\ tab'[c].own = tab[c].own
      /\ tab'[c].queue = tab[c].queue
      /\ IF tab[c].at = "away" THEN tab'[c].cursor = tab[c].cursor /\ tab'[c].known = post[c].ack
         ELSE tab'[c].cursor = post[c].ack /\ tab'[c].known = tab[c].known
  BY <1>1, <1>2 DEF Acknowledged, Tabs
<1>5. CursorsDrawn(c)' /\ Placed(c)' /\ Held(c)'
  BY <1>1, <1>2, <1>3, <1>4 DEF Local, CursorsDrawn, Placed, Held, Posting, Polling
<1>6. Holds(live, tab'[c].cursor, tab[c].content \cup astray)
  <2>1. CASE tab[c].at = "away"
    BY <2>1, <1>1, <1>4 DEF Local, Covered
  <2>2. CASE tab[c].at # "away"
    <3>1. post[c].ydoc \cup astray \subseteq tab[c].content \cup astray
      BY <2>2, <1>1, <1>2 DEF Local, Placed, Held, Posting, Posts
    <3>2. Holds(live, post[c].ack, post[c].ydoc \cup astray)
      BY <1>1, <1>2 DEF Local, Covered, Acked
    <3> QED
      BY <3>1, <3>2, <2>2, <1>4, HoldsMore
  <2> QED
    BY <2>1, <2>2
<1>k. Holds(live, tab'[c].known, Content)
  <2>1. Holds(live, post[c].ack, post[c].ydoc \cup astray) /\ post[c].ydoc \cup astray \subseteq Content
    BY <1>1, <1>2, Parts DEF Local, Covered, Acked, Posts
  <2> QED
    BY <2>1, <1>1, <1>4, HoldsMore DEF Local, Covered
<1>7. Covered(c)' /\ Seeded(c)'
  BY <1>1, <1>2, <1>3, <1>4, <1>6, <1>k DEF Local, Covered, Seeded, Acked
<1>8. Recorded(c)' /\ Plain(c)'
  BY <1>1, <1>2, <1>3, <1>4 DEF Local, Recorded, Plain, Posting, Polling
<1>9. Clean(c)'
  <2>1. post[c].at = "persisted" => post[c].ydoc \subseteq saved \cup astray
    BY <1>1 DEF Local, Seeded
  <2>2. tab[c].own \subseteq post[c].ydoc \cup tab[c].queue \cup saved \cup astray
    BY <1>1, <1>2 DEF Local, Clean
  <2> QED
    BY <2>1, <2>2, <1>1, <1>2, <1>3, <1>4 DEF Local, Clean
<1> QED
  BY <1>5, <1>7, <1>8, <1>9 DEF Local

\* Keeping a refused request, or one that failed, keeps the invariant.
LEMMA KeepKeeps ==
  ASSUME IInv, NEW c \in Clients, Keep(c) \/ AnsweredToNobody(c), OnlyIts(c)
  PROVE  Local(c)'
<1>1. /\ Local(c) /\ fresh \in Nat /\ kept \in [Clients -> Kepts] /\ post \in [Clients -> Posts]
      /\ NoCursor.generation <= fresh
  BY PageFacts
<1>2. /\ UNCHANGED <<saved, live, fresh, current, astray, tab, dirty, poll>>
      /\ post[c].at \in {"persisted", "applied", "rejected", "failed"} /\ post'[c] = NoPost
      /\ \/ kept'[c] = kept[c]
         \/ /\ kept'[c] = [content |-> post[c].ydoc, cursor |-> post[c].cursor] /\ post[c].from # "gone"
  BY <1>1 DEF Keep, Answered, AnsweredToNobody, server, browser
<1>3. /\ post'[c].at = "idle" /\ post'[c].cursor = NoCursor /\ post'[c].ack = NoCursor
      /\ post'[c].update = {} /\ post'[c].ydoc = {} /\ post'[c].seed = {}
      /\ Incoming(c)' = Incoming(c)
      /\ \/ kept'[c] = kept[c]
         \/ /\ kept'[c].content = post[c].ydoc /\ kept'[c].cursor = post[c].cursor
            /\ post[c].from \in {"tab", "replay"}
  BY <1>1, <1>2 DEF NoPost, Incoming, Posts
<1>4. CursorsDrawn(c)' /\ Placed(c)' /\ Held(c)'
  BY <1>1, <1>2, <1>3 DEF Local, CursorsDrawn, Placed, Held, Posting, Polling
<1>5. Covered(c)' /\ Seeded(c)'
  <2>1. Holds(live, kept'[c].cursor, kept'[c].content \cup astray)
    BY <1>1, <1>2, <1>3 DEF Local, Covered
  <2>2. Covered(c)'
    BY <2>1, <1>1, <1>2, <1>3 DEF Local, Covered, Acked
  <2>3. Seeded(c)'
    BY <1>1, <1>2, <1>3 DEF Local, Seeded
  <2> QED
    BY <2>2, <2>3
<1>6. Recorded(c)' /\ Clean(c)' /\ Plain(c)'
  BY <1>1, <1>2, <1>3 DEF Local, Placed, Held, Recorded, Clean, Plain, Posting, Polling
<1> QED
  BY <1>4, <1>5, <1>6 DEF Local

\* Opening the editor keeps the invariant: it holds the answer and the record.
LEMMA HydrateKeeps ==
  ASSUME IInv, NEW c \in Clients, Hydrate(c), OnlyIts(c)
  PROVE  Local(c)'
<1> DEFINE offline == kept[c].content
           all == tab[c].content \cup Incoming(c) \cup offline
           rest == offline \ (tab[c].content \cup poll[c].ydoc)
<1>1. /\ Local(c) /\ fresh \in Nat /\ tab \in [Clients -> Tabs] /\ poll \in [Clients -> Requests]
      /\ NoCursor.generation <= fresh
  BY PageFacts
<1>2. /\ UNCHANGED <<saved, live, fresh, current, astray, kept, post>> /\ tab[c].at = "opening"
      /\ poll[c].at = "answered" /\ poll[c].from = "tab" /\ poll'[c] = NoPoll
      /\ tab' = [tab EXCEPT ![c].at = "open", ![c].cursor = poll[c].ack,
                            ![c].content = all, ![c].queue = rest]
      /\ c \notin dirty' => offline = {}
  BY <1>1 DEF Hydrate, Polled, server, NoRecord
<1>3. /\ poll'[c].at = "idle" /\ poll'[c].held = {} /\ poll'[c].seed = {} /\ Incoming(c)' = {}
      /\ poll'[c].cursor = NoCursor /\ poll'[c].ack = NoCursor
  BY <1>2 DEF NoPoll, Incoming
<1>4. /\ rest \subseteq all /\ tab[c].content \subseteq all /\ offline \subseteq all /\ rest \subseteq offline
      /\ Addition \notin tab[c].content \cup Incoming(c) \cup offline => Addition \notin all
  OBVIOUS
<1>5. Holds(live, poll[c].ack, all \cup astray)
  BY <1>1, <1>2, HoldsMore DEF Local, Covered, Held, Polling
<1> HIDE DEF all, rest
<1>6. /\ tab'[c].at = "open" /\ tab'[c].cursor = poll[c].ack /\ tab'[c].known = tab[c].known
      /\ tab'[c].content = all /\ tab'[c].queue = rest /\ tab'[c].own = tab[c].own
  BY <1>1, <1>2 DEF Tabs
<1>7. ~Posting(c, "tab") /\ tab[c].own = {}
  BY <1>1, <1>2 DEF Local, Placed
<1>8. CursorsDrawn(c)' /\ Placed(c)' /\ Held(c)'
  BY <1>1, <1>2, <1>3, <1>4, <1>6, <1>7 DEF Local, CursorsDrawn, Placed, Held, Posting, Polling
<1>9. Covered(c)' /\ Seeded(c)'
  BY <1>1, <1>2, <1>3, <1>5, <1>6 DEF Local, Covered, Seeded
<1>10. Recorded(c)' /\ Clean(c)' /\ Plain(c)'
  BY <1>1, <1>2, <1>3, <1>4, <1>6, <1>7 DEF Local, Recorded, Clean, Plain, Posting, Polling
<1> QED
  BY <1>8, <1>9, <1>10 DEF Local

\* Opening the editor from the record alone keeps the invariant.
LEMMA HydrateOfflineKeeps ==
  ASSUME IInv, NEW c \in Clients, HydrateOffline(c), OnlyIts(c)
  PROVE  Local(c)'
<1> DEFINE offline == kept[c].content
           all == tab[c].content \cup offline
           rest == offline \ tab[c].content
<1>1. /\ Local(c) /\ fresh \in Nat /\ tab \in [Clients -> Tabs] /\ poll \in [Clients -> Requests]
      /\ NoCursor.generation <= fresh
  BY PageFacts
<1>2. /\ UNCHANGED <<saved, live, fresh, current, astray, kept, post>> /\ tab[c].at = "opening"
      /\ poll'[c] = NoPoll
      /\ tab' = [tab EXCEPT ![c].at = "open", ![c].queue = rest, ![c].content = all] /\ c \in dirty'
  BY <1>1 DEF HydrateOffline, server
<1>3. /\ poll'[c].at = "idle" /\ poll'[c].held = {} /\ poll'[c].seed = {} /\ Incoming(c)' = {}
      /\ poll'[c].cursor = NoCursor /\ poll'[c].ack = NoCursor
  BY <1>2 DEF NoPoll, Incoming
<1>4. /\ rest \subseteq all /\ tab[c].content \subseteq all /\ offline \subseteq all
      /\ Addition \notin tab[c].content \cup offline => Addition \notin all
  OBVIOUS
<1>5. Holds(live, tab[c].cursor, all \cup astray)
  BY <1>1, <1>4, HoldsMore DEF Local, Covered
<1> HIDE DEF all, rest
<1>6. /\ tab'[c].at = "open" /\ tab'[c].cursor = tab[c].cursor /\ tab'[c].known = tab[c].known
      /\ tab'[c].content = all /\ tab'[c].queue = rest /\ tab'[c].own = tab[c].own
  BY <1>1, <1>2 DEF Tabs
<1>7. ~Posting(c, "tab") /\ tab[c].own = {}
  BY <1>1, <1>2 DEF Local, Placed
<1>8. CursorsDrawn(c)' /\ Placed(c)' /\ Held(c)'
  BY <1>1, <1>2, <1>3, <1>4, <1>6, <1>7 DEF Local, CursorsDrawn, Placed, Held, Posting, Polling
<1>9. Covered(c)' /\ Seeded(c)'
  BY <1>1, <1>2, <1>3, <1>5, <1>6 DEF Local, Covered, Seeded
<1>10. Recorded(c)' /\ Clean(c)' /\ Plain(c)'
  BY <1>1, <1>2, <1>3, <1>4, <1>6, <1>7 DEF Local, Recorded, Clean, Plain, Posting, Polling
<1> QED
  BY <1>8, <1>9, <1>10 DEF Local

\* Merging an answer keeps the invariant, into an open editor or, with the record,
\* into one that is opening.
LEMMA MergeKeeps ==
  ASSUME IInv, NEW c \in Clients, Merge(c) \/ ReplayOpening(c), OnlyIts(c)
  PROVE  Local(c)'
<1>1. /\ Local(c) /\ fresh \in Nat /\ tab \in [Clients -> Tabs] /\ poll \in [Clients -> Requests]
      /\ kept \in [Clients -> Kepts]
      /\ NoCursor.generation <= fresh /\ \A content : Holds(live, NoCursor, content)
  BY PageFacts
<1>2. PICK all :
        /\ tab' = [tab EXCEPT ![c].cursor = poll[c].ack, ![c].content = all]
        /\ \/ /\ tab[c].at = "open" /\ poll[c].from = "tab" /\ kept' = kept
              /\ all = tab[c].content \cup Incoming(c)
           \/ /\ tab[c].at = "opening" /\ poll[c].from = "replay" /\ kept' = [kept EXCEPT ![c] = NoRecord]
              /\ all = tab[c].content \cup poll[c].held \cup Incoming(c)
  BY Zenon DEF Merge, ReplayOpening, Polled
<1>3. /\ UNCHANGED <<saved, live, fresh, current, astray, post, dirty>> /\ poll[c].at = "answered"
      /\ poll'[c] = NoPoll
  BY <1>1 DEF Merge, ReplayOpening, Polled, server
<1>4. /\ poll'[c].at = "idle" /\ poll'[c].held = {} /\ poll'[c].seed = {} /\ Incoming(c)' = {}
      /\ poll'[c].cursor = NoCursor /\ poll'[c].ack = NoCursor
  BY <1>3 DEF NoPoll, Incoming
<1>5. /\ kept'[c] = kept[c] \/ (kept'[c].content = {} /\ kept'[c].cursor = NoCursor)
      /\ tab[c].at = "open" => kept'[c] = kept[c]
  BY <1>1, <1>2 DEF NoRecord
<1>6. /\ tab'[c].at = tab[c].at /\ tab'[c].cursor = poll[c].ack /\ tab'[c].known = tab[c].known
      /\ tab'[c].content = all /\ tab'[c].queue = tab[c].queue /\ tab'[c].own = tab[c].own
  BY <1>1, <1>2 DEF Tabs
<1>7. /\ Holds(live, poll[c].ack, all \cup astray) /\ tab[c].content \subseteq all
      /\ Addition \notin tab[c].content \cup poll[c].held \cup Incoming(c) => Addition \notin all
  BY <1>1, <1>2, <1>3, HoldsMore DEF Local, Covered, Held, Polling
<1>8. CursorsDrawn(c)' /\ Placed(c)' /\ Held(c)'
  BY <1>1, <1>3, <1>4, <1>5, <1>6, <1>7 DEF Local, CursorsDrawn, Placed, Held, Posting, Polling
<1>9. Covered(c)' /\ Seeded(c)'
  <2>1. Holds(live, kept'[c].cursor, kept'[c].content \cup astray)
    BY <1>1, <1>5 DEF Local, Covered
  <2>2. Covered(c)'
    BY <2>1, <1>1, <1>3, <1>4, <1>6, <1>7 DEF Local, Covered
  <2>3. Seeded(c)'
    BY <1>1, <1>3 DEF Local, Seeded
  <2> QED
    BY <2>2, <2>3
<1>10. Recorded(c)' /\ Clean(c)' /\ Plain(c)'
  BY <1>1, <1>3, <1>4, <1>5, <1>6, <1>7 DEF Local, Recorded, Clean, Plain, Posting, Polling
<1> QED
  BY <1>8, <1>9, <1>10 DEF Local

\* Replaying a record without an editor keeps the invariant.
LEMMA ReplayHeadlessKeeps ==
  ASSUME IInv, NEW c \in Clients, ReplayHeadless(c), OnlyIts(c)
  PROVE  Local(c)'
<1> DEFINE new == poll[c].held \ poll[c].ydoc
           all == poll[c].held \cup Incoming(c)
<1>1. /\ TypeOK /\ Local(c) /\ fresh \in Nat /\ tab \in [Clients -> Tabs]
      /\ poll \in [Clients -> Requests] /\ kept \in [Clients -> Kepts] /\ post \in [Clients -> Posts]
      /\ NoCursor.generation <= fresh /\ \A content : Holds(live, NoCursor, content)
  BY PageFacts
<1>2. /\ UNCHANGED <<saved, live, fresh, current, astray, dirty>> /\ tab[c].at = "away"
      /\ poll[c].at = "answered" /\ poll[c].from = "replay" /\ poll'[c] = NoPoll
      /\ tab' = [tab EXCEPT ![c].known = poll[c].ack]
      /\ \/ new = {} /\ kept'[c] = NoRecord /\ post' = post
         \/ /\ new # {} /\ post[c].at = "idle" /\ kept' = kept
            /\ post'[c] = Request("replay", "checkpoint", new, all, poll[c].ack)
  BY <1>1 DEF ReplayHeadless, Polled, server
<1>3. new \subseteq all /\ poll[c].held \subseteq all
      /\ (Addition \notin poll[c].held \cup Incoming(c) => Addition \notin all)
  OBVIOUS
<1>4. Holds(live, poll[c].ack, all \cup astray)
  BY <1>1, <1>2 DEF Local, Covered
<1>k. Holds(live, poll[c].ack, Content)
  <2>1. all \cup astray \subseteq Content
    BY <1>1, Parts DEF Requests, Incoming
  <2> QED
    BY <2>1, <1>4, HoldsMore
<1> HIDE DEF new, all
<1>5. /\ poll'[c].at = "idle" /\ poll'[c].held = {} /\ poll'[c].seed = {} /\ Incoming(c)' = {}
      /\ poll'[c].cursor = NoCursor /\ poll'[c].ack = NoCursor
  BY <1>2 DEF NoPoll, Incoming
<1>6. /\ tab'[c].at = "away" /\ tab'[c].cursor = tab[c].cursor /\ tab'[c].known = poll[c].ack
      /\ tab'[c].content = tab[c].content /\ tab'[c].queue = tab[c].queue /\ tab'[c].own = tab[c].own
  BY <1>1, <1>2 DEF Tabs
<1>7. \/ /\ kept'[c].content = {} /\ kept'[c].cursor = NoCursor /\ post'[c] = post[c]
      \/ /\ new # {} /\ post[c].at = "idle" /\ kept'[c] = kept[c]
         /\ post'[c].at = "sent" /\ post'[c].from = "replay" /\ post'[c].update = new
         /\ post'[c].ydoc = all /\ post'[c].cursor = poll[c].ack
         /\ post'[c].seed = {} /\ post'[c].ack = NoCursor
  BY <1>2 DEF NoRecord, Request
<1>8. CursorsDrawn(c)' /\ Placed(c)' /\ Held(c)'
  BY <1>1, <1>2, <1>3, <1>5, <1>6, <1>7 DEF Local, CursorsDrawn, Placed, Held, Posting, Polling
<1>9. Covered(c)' /\ Seeded(c)'
  <2>1. Holds(live, kept'[c].cursor, kept'[c].content \cup astray)
    BY <1>1, <1>7 DEF Local, Covered
  <2>2. Covered(c)'
    BY <2>1, <1>1, <1>2, <1>4, <1>k, <1>5, <1>6, <1>7 DEF Local, Covered, Acked
  <2>3. Seeded(c)'
    BY <1>1, <1>2, <1>7 DEF Local, Seeded
  <2> QED
    BY <2>2, <2>3
<1>10. Recorded(c)' /\ Clean(c)' /\ Plain(c)'
  BY <1>1, <1>2, <1>3, <1>5, <1>6, <1>7 DEF Local, Placed, Recorded, Clean, Plain, Polling
<1> QED
  BY <1>8, <1>9, <1>10 DEF Local

\* Replaying a record into an open editor keeps the invariant.
LEMMA ReplayOpenKeeps ==
  ASSUME IInv, NEW c \in Clients, ReplayOpen(c), OnlyIts(c)
  PROVE  Local(c)'
<1> DEFINE new == poll[c].held \ (tab[c].content \cup poll[c].ydoc)
           all == tab[c].content \cup poll[c].held \cup Incoming(c)
           update == tab[c].queue \cup new
<1>1. /\ Local(c) /\ fresh \in Nat /\ tab \in [Clients -> Tabs] /\ poll \in [Clients -> Requests]
      /\ kept \in [Clients -> Kepts] /\ post \in [Clients -> Posts]
      /\ NoCursor.generation <= fresh /\ \A content : Holds(live, NoCursor, content)
  BY PageFacts
<1>2. /\ UNCHANGED <<saved, live, fresh, current, astray>> /\ tab[c].at = "open"
      /\ poll[c].at = "answered" /\ poll[c].from = "replay" /\ poll'[c] = NoPoll
      /\ tab' = [tab EXCEPT ![c].content = all, ![c].queue = {}]
  BY <1>1 DEF ReplayOpen, Polled, server
<1>3. \/ c \notin dirty /\ dirty' = dirty /\ kept'[c] = NoRecord /\ post' = post
      \/ /\ c \in dirty' /\ post[c].at = "idle" /\ kept' = kept
         /\ post'[c] = Request("tab", "checkpoint", update, all, poll[c].ack)
  BY <1>1 DEF ReplayOpen
<1>4. /\ tab[c].content \subseteq all /\ update \subseteq all
      /\ Addition \notin tab[c].content \cup poll[c].held \cup Incoming(c) => Addition \notin all
  BY <1>1 DEF Local, Held
<1>5. Holds(live, poll[c].ack, all \cup astray) /\ Holds(live, tab[c].cursor, all \cup astray)
  BY <1>1, <1>2, HoldsMore DEF Local, Covered
<1> HIDE DEF new, all, update
<1>6. /\ poll'[c].at = "idle" /\ poll'[c].held = {} /\ poll'[c].seed = {} /\ Incoming(c)' = {}
      /\ poll'[c].cursor = NoCursor /\ poll'[c].ack = NoCursor
  BY <1>2 DEF NoPoll, Incoming
<1>7. /\ tab'[c].at = "open" /\ tab'[c].cursor = tab[c].cursor /\ tab'[c].known = tab[c].known
      /\ tab'[c].content = all /\ tab'[c].queue = {} /\ tab'[c].own = tab[c].own
  BY <1>1, <1>2 DEF Tabs
<1>8. \/ /\ c \notin dirty /\ dirty' = dirty /\ post'[c] = post[c]
         /\ kept'[c].content = {} /\ kept'[c].cursor = NoCursor
      \/ /\ c \in dirty' /\ post[c].at = "idle" /\ kept'[c] = kept[c]
         /\ post'[c].at = "sent" /\ post'[c].from = "tab" /\ post'[c].update = update
         /\ post'[c].ydoc = all /\ post'[c].cursor = poll[c].ack
         /\ post'[c].seed = {} /\ post'[c].ack = NoCursor
  BY <1>3 DEF NoRecord, Request
<1>9. CursorsDrawn(c)' /\ Placed(c)' /\ Held(c)'
  BY <1>1, <1>2, <1>4, <1>6, <1>7, <1>8 DEF Local, CursorsDrawn, Placed, Held, Posting, Polling
<1>10. Covered(c)' /\ Seeded(c)'
  <2>1. Holds(live, kept'[c].cursor, kept'[c].content \cup astray)
    BY <1>1, <1>8 DEF Local, Covered
  <2>2. Covered(c)'
    BY <2>1, <1>1, <1>2, <1>5, <1>6, <1>7, <1>8 DEF Local, Covered, Acked
  <2>3. Seeded(c)'
    BY <1>1, <1>2, <1>8 DEF Local, Seeded
  <2> QED
    BY <2>2, <2>3
<1>11. Recorded(c)' /\ Plain(c)'
  BY <1>1, <1>2, <1>4, <1>6, <1>7, <1>8 DEF Local, Recorded, Plain, Posting, Polling
<1>12. Clean(c)'
  BY <1>1, <1>2, <1>4, <1>7, <1>8 DEF Local, Held, Clean, Posting
<1> QED
  BY <1>9, <1>10, <1>11, <1>12 DEF Local

-----------------------------------------------------------------------------
(* The theorems *)

\* The initial state satisfies the invariant.
LEMMA InitIInv == Init => IInv
<1> SUFFICES ASSUME Init PROVE IInv
  OBVIOUS
<1>1. /\ saved = {} /\ live = Gone /\ fresh = 0 /\ dirty = {} /\ current = {} /\ report = NoReport
      /\ \A c \in Clients : tab[c] = Away /\ kept[c] = NoRecord /\ post[c] = NoPost /\ poll[c] = NoPoll
  BY DEF Init
<1>2. TypeOK /\ Merged(Gone) = {} /\ Gone.mark = {}
  BY InitTypes, MergedOf, EmptyTypes
<1>3. Honest
  BY <1>1, <1>2 DEF Honest, MarkHonest, NoReport
<1>4. ASSUME NEW c \in Clients
      PROVE  Local(c)
  <2>1. /\ tab[c].at = "away" /\ tab[c].content = {} /\ tab[c].queue = {} /\ tab[c].own = {}
        /\ tab[c].cursor.generation = 0 /\ tab[c].known.generation = 0
        /\ kept[c].content = {} /\ kept[c].cursor.generation = 0
        /\ post[c].at = "idle" /\ post[c].update = {} /\ post[c].ydoc = {} /\ post[c].seed = {}
        /\ post[c].cursor.generation = 0 /\ post[c].ack.generation = 0
        /\ poll[c].at = "idle" /\ poll[c].held = {} /\ poll[c].seed = {} /\ Incoming(c) = {}
        /\ poll[c].cursor.generation = 0 /\ poll[c].ack.generation = 0
    BY <1>1 DEF Away, NoRecord, NoPost, NoPoll, NoCursor, Incoming
  <2>2. CursorsDrawn(c) /\ Placed(c) /\ Held(c) /\ Recorded(c) /\ Clean(c) /\ Plain(c)
    BY <2>1, <1>1 DEF CursorsDrawn, Placed, Held, Recorded, Clean, Plain, Posting, Polling
  <2>3. Covered(c) /\ Seeded(c)
    BY <2>1, <1>1 DEF Covered, Seeded, Holds, Acked
  <2> QED
    BY <2>2, <2>3 DEF Local
<1> QED
  BY <1>2, <1>3, <1>4 DEF IInv

\* A browser's step on its page keeps the invariant.
LEMMA PageKeeps ==
  ASSUME IInv, TypeOK', NEW c \in Clients, Page(c)
  PROVE  IInv' /\ OnlyIts(c)
<1>1. OnlyIts(c)
  BY PageTouchesOne DEF IInv
<1>2. Local(c)'
  BY <1>1, MountKeeps, LeaveKeeps, TypeKeeps, SendKeeps, KeepOfflineKeeps, AskKeeps, AcknowledgedKeeps,
     KeepKeeps, HydrateKeeps, HydrateOfflineKeeps, MergeKeeps, ReplayHeadlessKeeps, ReplayOpenKeeps
     DEF Page
<1> QED
  BY <1>1, <1>2, PageStands

\* What leaves a browser's record is durable, or an answer showed it in Redis, or it
\* is astray; but for a replay into an editor still opening.
LEMMA RecordStep ==
  ASSUME IInv, NEW c \in Clients, Page(c)
  PROVE  \/ kept[c].content \subseteq kept'[c].content \cup saved \cup poll[c].ydoc \cup astray
         \/ ReplayOpening(c)
<1>1. Local(c) /\ kept \in [Clients -> Kepts] /\ post[c] \in Posts
  BY PageFacts, Fields DEF IInv
<1>2. CASE kept'[c] = kept[c]
  BY <1>2
<1>3. CASE Persisted(c) \/ Keep(c)
  <2>1. kept[c].content \subseteq post[c].ydoc \cup astray
    BY <1>1, <1>3 DEF Local, Recorded, Persisted, Keep, Answered
  <2>2. CASE Persisted(c)
    BY <2>1, <2>2, <1>1 DEF Local, Seeded, Persisted, Answered
  <2>3. CASE Keep(c)
    BY <2>1, <2>3, <1>1 DEF Keep
  <2> QED
    BY <1>3, <2>2, <2>3
<1>4. CASE KeepOffline(c)
  BY <1>1, <1>4 DEF Local, Recorded, KeepOffline
<1>5. CASE ReplayHeadless(c)
  <2>1. kept[c].content \subseteq poll[c].held
    BY <1>1, <1>5 DEF Local, Recorded, ReplayHeadless, Polled, Polling
  <2>2. kept' = kept \/ poll[c].held \subseteq poll[c].ydoc
    BY <1>5 DEF ReplayHeadless
  <2> QED
    BY <2>1, <2>2
<1>6. CASE ReplayOpen(c)
  <2>1. tab[c].at = "open" /\ (kept' = kept \/ c \notin dirty)
    BY <1>6 DEF ReplayOpen
  <2> QED
    BY <2>1, <1>1 DEF Local, Recorded
<1>7. \/ kept'[c] = kept[c] \/ Persisted(c) \/ Keep(c) \/ KeepOffline(c)
      \/ ReplayHeadless(c) \/ ReplayOpen(c) \/ ReplayOpening(c)
  BY DEF Page, Mount, Leave, Type, Send, Poll, Replay, Ask, Applied, AnsweredToNobody, Hydrate, Merge,
     HydrateOffline, browser
<1> QED
  BY <1>2, <1>3, <1>4, <1>5, <1>6, <1>7

\* What a step may never do: take from the checkpoint, from Redis or from a record,
\* but for what is astray.
NothingLost ==
    /\ saved \subseteq saved' \cup astray'
    /\ live # Gone /\ live' # Gone => Merged(live) \subseteq Merged(live') \cup astray'
    /\ \A c \in Clients :
         \/ kept[c].content \subseteq kept'[c].content \cup saved \cup poll[c].ydoc \cup astray
         \/ ReplayOpening(c)

\* Every step keeps the invariant and loses nothing.
LEMMA NextIInv == IInv /\ [Next]_vars => IInv' /\ NothingLost
<1> SUFFICES ASSUME IInv, [Next]_vars PROVE IInv' /\ NothingLost
  OBVIOUS
<1>1. TypeOK'
  BY NextTypes DEF IInv
<1>2. CASE UNCHANGED vars
  <2>1. UNCHANGED <<saved, live, fresh, current, lock, tab, dirty, typed, kept, post, poll, report, astray>>
    BY <1>2 DEF vars, server, browser
  <2>2. Honest'
    BY <2>1 DEF IInv, Honest, MarkHonest
  <2>3. ASSUME NEW c \in Clients
        PROVE  Local(c)'
    <3>1. Local(c) /\ Incoming(c)' = Incoming(c)
      BY <2>1 DEF IInv, Incoming
    <3>2. CursorsDrawn(c)' /\ Placed(c)' /\ Held(c)' /\ Recorded(c)' /\ Clean(c)' /\ Plain(c)'
      BY <2>1, <3>1 DEF Local, CursorsDrawn, Placed, Held, Recorded, Clean, Plain, Posting, Polling
    <3>3. Covered(c)' /\ Seeded(c)'
      BY <2>1, <3>1 DEF Local, Covered, Seeded
    <3> QED
      BY <3>2, <3>3 DEF Local
  <2> QED
    BY <1>1, <2>1, <2>2, <2>3 DEF IInv, NothingLost
<1>3. ASSUME ServerGoesOn
      PROVE  NothingLost
  BY <1>3 DEF ServerGoesOn, Goes, NothingLost
<1>4. ASSUME NEW c \in Clients, Page(c)
      PROVE  IInv' /\ NothingLost
  <2>1. /\ IInv' /\ OnlyIts(c)
        /\ \/ kept[c].content \subseteq kept'[c].content \cup saved \cup poll[c].ydoc \cup astray
           \/ ReplayOpening(c)
    BY <1>1, <1>4, PageKeeps, RecordStep
  <2>2. \A d \in Clients \ {c} : kept'[d] = kept[d]
    BY <2>1 DEF OnlyIts
  <2> QED
    BY <2>1, <2>2 DEF OnlyIts, NothingLost
<1>5. ASSUME NEW c \in Clients, Sync(c)
      PROVE  IInv' /\ ServerGoesOn
  BY <1>1, <1>5, BeginKeeps, ReconcileKeeps, ApplyKeeps, StoreKeeps, RefreshKeeps, ServeKeeps DEF Sync
<1>6. CASE Report \/ Fault
  BY <1>1, <1>3, <1>6, ReportKeeps, FaultKeeps
<1> QED
  BY <1>2, <1>3, <1>4, <1>5, <1>6 DEF Next

\* The invariant holds in every reachable state.
LEMMA Invariance == Spec => []IInv
<1>1. IInv /\ [Next]_vars => IInv'
  BY NextIInv
<1> QED
  BY <1>1, InitIInv, PTL DEF Spec

\* No step from a reachable state loses anything.
LEMMA LosesNothing == Spec => [][NothingLost]_vars
<1>1. IInv /\ [Next]_vars => NothingLost
  BY NextIInv
<1> QED
  BY <1>1, Invariance, PTL DEF Spec

\* Editors, records, requests and answers in flight that name a cursor of the
\* current generation hold everything up to it but for the edits astray, so a
\* checkpoint that is accepted from an exact cursor is complete but for those.
THEOREM CursorsCover == Spec => []CursorCovers
<1>1. IInv => CursorCovers
  <2> SUFFICES ASSUME IInv, NEW c \in Clients
               PROVE  /\ Covers(tab[c].cursor, tab[c].content)
                      /\ Covers(kept[c].cursor, kept[c].content)
                      /\ post[c].at # "idle" => Covers(post[c].cursor, post[c].ydoc)
                      /\ poll[c].at = "answered" => Covers(poll[c].ack, poll[c].held \cup Incoming(c))
    BY DEF CursorCovers
  <2>1. \A cursor, content : Holds(live, cursor, content \cup astray) => Covers(cursor, content)
    BY DEF Holds, Covers
  <2>2. Covered(c)
    BY DEF IInv, Local
  <2> QED
    BY <2>1, <2>2 DEF Covered
<1> QED
  BY <1>1, Invariance, PTL

\* Redis never names a checkpoint whose edits it does not hold, so a reconciliation
\* that finds the mark it expects has nothing to merge but what is astray.
THEOREM MarksAreHonest == Spec => []MarkHonest
<1>1. IInv => MarkHonest
  BY DEF IInv, Honest
<1> QED
  BY <1>1, Invariance, PTL

\* An editor that shows no unsaved work has its user's edits in the durable
\* checkpoint, whatever was answered late, lost, replayed or refused.
THEOREM CleanMeansSaved == Spec => []CleanIsSaved
<1>1. IInv => CleanIsSaved
  BY DEF IInv, Local, Clean, CleanIsSaved
<1> QED
  BY <1>1, Invariance, PTL

\* A report's addition is in the durable checkpoint before Redis or an editor has it.
THEOREM AdditionIsDurableFirst == Spec => []AdditionDurableFirst
<1>1. IInv => AdditionDurableFirst
  BY DEF IInv, Honest, Local, Plain, AdditionDurableFirst
<1> QED
  BY <1>1, Invariance, PTL

\* No checkpoint, whoever stores it and however late, drops an edit of the one it replaces.
THEOREM CheckpointGrows == Spec => SavedGrows
<1>1. NothingLost => saved \subseteq saved' \cup astray'
  BY DEF NothingLost
<1> QED
  BY <1>1, LosesNothing, PTL DEF SavedGrows

\* While Redis keeps the state, no compaction, publication or refresh drops an edit.
THEOREM RedisGrows == Spec => LiveGrows
<1>1. NothingLost =>
        (live # Gone /\ live' # Gone => Merged(live) \subseteq Merged(live') \cup astray')
  BY DEF NothingLost
<1> QED
  BY <1>1, LosesNothing, PTL DEF LiveGrows

\* What leaves a record kept in the browser, replaced or deleted, is durable or was
\* seen in Redis by an answer, or is astray; but for a replay into an editor opening.
THEOREM RecordsOutlived == Spec => RecordOutlived
<1>1. NothingLost =>
        \A c \in Clients :
          \/ kept[c].content \subseteq kept'[c].content \cup saved \cup poll[c].ydoc \cup astray
          \/ ReplayOpening(c)
  BY DEF NothingLost
<1> QED
  BY <1>1, LosesNothing, PTL DEF RecordOutlived
=============================================================================
