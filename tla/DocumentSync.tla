---------------------------- MODULE DocumentSync ----------------------------
(***************************************************************************)
(* One collaborative document: its durable checkpoint, its working state in  *)
(* Redis, the browsers that edit it (SyncManager, CollaborativeDocument), the *)
(* records they keep in IndexedDB, POST /l/sync, document polls, and a report *)
(* that appends to the document.                                             *)
(*                                                                         *)
(* A document is the set of edits merged into it: Yjs updates commute and are *)
(* idempotent, and a deletion is an edit too. A fingerprint is the checkpoint *)
(* it was computed from. The compare-and-set on the asset metadata succeeds   *)
(* when no checkpoint was stored since the writer loaded it (current).        *)
(***************************************************************************)
EXTENDS Naturals, FiniteSets

CONSTANTS
    Clients, Edits,        \* browsers, each with one page; what a user may type
    Addition,              \* what the report appends
    Reporter,              \* the report's execution, as a holder of the write lock
    Free,                  \* nobody holds the write lock
    MaxFaults,             \* bound on lost answers, failed requests, expired locks, lost Redis states
    MaxChanges,            \* bound on the edits and reports under way
    MaxPosts,              \* bound on requests of POST /l/sync
    MaxMounts,             \* bound on editors mounted
    MaxPolls               \* bound on polls in flight at once

ASSUME DocumentAssumption ==
    /\ Addition \notin Edits
    /\ Reporter # Free /\ {Reporter, Free} \cap Clients = {}
    /\ MaxFaults \in Nat /\ MaxChanges \in Nat /\ MaxPosts \in Nat /\ MaxMounts \in Nat
    /\ MaxPolls \in Nat

VARIABLES
    saved,     \* the durable checkpoint
    live,      \* the Redis state, or Gone
    fresh,     \* the last generation drawn
    tab,       \* each browser's page and editor
    dirty,     \* browsers whose editor holds unsaved work
    typed,     \* edits a user has made
    kept,      \* each browser's IndexedDB record of the document
    post,      \* each browser's POST /l/sync in flight
    poll,      \* each browser's poll of the document in flight
    current,   \* writers at work whose loaded assets are still the stored ones
    lock,      \* the holder of the document's write lock
    report,    \* the report's execution
    mounts,    \* editors mounted so far
    posts,     \* requests of POST /l/sync so far
    faults,    \* faults so far
    astray     \* history: edits that one of the three weaknesses named below let go

server == <<saved, live, fresh, current, lock>>
browser == <<tab, dirty, typed, kept>>
vars == <<server, browser, post, poll, report, mounts, posts, faults, astray>>

Content == Edits \cup {Addition}
Writers == Clients \cup {Reporter}

-----------------------------------------------------------------------------
(* Values *)

NoCursor == [generation |-> 0, revision |-> 0]

Gone == [generation |-> 0, revision |-> 0, base |-> 0, ydoc |-> {}, updates |-> {}, mark |-> {}]

Away == [at |-> "away", content |-> {}, queue |-> {}, own |-> {},
         cursor |-> NoCursor, known |-> NoCursor]

NoRecord == [content |-> {}, cursor |-> NoCursor]

NoPost == [at |-> "idle", from |-> "tab", kind |-> "update", update |-> {}, ydoc |-> {},
           cursor |-> NoCursor, seed |-> {}, ack |-> NoCursor]

NoPoll == [at |-> "idle", from |-> "tab", held |-> {}, cursor |-> NoCursor, seed |-> {},
           ydoc |-> {}, updates |-> {}, ack |-> NoCursor]

NoReport == [at |-> "idle", seed |-> {}]

Merged(s) == s.ydoc \cup UNION {u.edits : u \in s.updates}

Cursor(s) == [generation |-> s.generation, revision |-> s.revision]

-----------------------------------------------------------------------------
(* The Redis state: pure transformations *)

NewState(seed, g) ==
    [generation |-> g, revision |-> 0, base |-> 0, ydoc |-> seed, updates |-> {}, mark |-> seed]

Drawn == IF live = Gone THEN fresh + 1 ELSE fresh
Initialised(seed) == IF live = Gone THEN NewState(seed, fresh + 1) ELSE live

\* Mistake: the publication replaces the working state by the checkpoint.
PublishedOver(s, seed, g) ==
    [generation |-> g, revision |-> s.revision + 1, base |-> s.revision + 1,
     ydoc |-> seed, updates |-> {}, mark |-> seed]

\* Mistake: the publication only records the fingerprint.
PublishedMarkOnly(s, seed, g) == [s EXCEPT !.generation = g, !.mark = seed]

\* The checkpoint and the working state, merged under a new generation.
Published(s, seed, g) ==
    [generation |-> g, revision |-> s.revision + 1, base |-> s.revision + 1,
     ydoc |-> seed \cup Merged(s), updates |-> {}, mark |-> seed]

Reconciles(seed) == live # Gone /\ live.mark # seed /\ seed # {}

\* Mistake: the client need only know the generation.
CurrentGeneration(s, cursor) == cursor.generation = s.generation

CurrentClient(s, cursor) == cursor = Cursor(s)

Appended(s, update) ==
    IF update = {} THEN s
    ELSE [s EXCEPT !.revision = s.revision + 1,
                   !.updates = s.updates \cup {[revision |-> s.revision + 1, edits |-> update]}]

\* Mistake: the compacted updates stay in the log.
CompactedKeeping(s, ydoc) == [s EXCEPT !.ydoc = ydoc, !.base = s.revision]

Compacted(s, ydoc) == [s EXCEPT !.ydoc = ydoc, !.base = s.revision, !.updates = {}]

\* Mistake: a cursor older than the base is answered with updates only.
NeedsSnapshotEver(s, cursor) == cursor.generation # s.generation

NeedsSnapshot(s, cursor) == cursor.generation # s.generation \/ cursor.revision < s.base

\* The snapshot a poll returns, empty for a delta, and its updates.
Snapshot(s, cursor) == IF NeedsSnapshot(s, cursor) THEN s.ydoc ELSE {}

Delta(s, cursor) ==
    LET start == IF NeedsSnapshot(s, cursor) THEN s.base ELSE cursor.revision
    IN  UNION {u.edits : u \in {v \in s.updates : v.revision > start}}

\* What a cursor says its holder has of a state.
Named(s, cursor) ==
    IF s = Gone \/ NeedsSnapshot(s, cursor) THEN {}
    ELSE s.ydoc \cup UNION {u.edits : u \in {v \in s.updates : v.revision <= cursor.revision}}

-----------------------------------------------------------------------------
(* The editor *)

\* An editor opens empty on the cursor that a headless replay left, and the answer to
\* one still in flight will move it to another.
Forgotten(c) ==
    Named(live, tab[c].known) \cup (IF post[c].from = "replay" THEN post[c].ydoc ELSE {})

Mount(c) ==
    /\ tab[c].at = "away" /\ poll[c].at = "idle"
    /\ tab' = [tab EXCEPT ![c].at = "opening", ![c].cursor = tab[c].known, ![c].known = NoCursor]
    /\ astray' = astray \cup Forgotten(c)
    /\ mounts < MaxMounts /\ mounts' = mounts + 1
    /\ UNCHANGED <<server, dirty, typed, kept, post, poll, report, posts, faults>>

\* The page is left: what was not sent or kept is forgotten, and a request in
\* flight is answered to nobody.
Leave(c) ==
    /\ tab[c] # Away \/ poll[c].at # "idle" \/ post[c].from = "replay"
    /\ tab' = [tab EXCEPT ![c] = Away]
    /\ dirty' = dirty \ {c}
    /\ post' = IF post[c].at = "idle" THEN post ELSE [post EXCEPT ![c].from = "gone"]
    /\ poll' = [poll EXCEPT ![c] = NoPoll]
    /\ UNCHANGED <<server, typed, kept, report, mounts, posts, faults, astray>>

Changes == Cardinality(typed) + IF report = NoReport THEN 0 ELSE 1

Type(c, e) ==
    /\ tab[c].at = "open" /\ e \notin typed /\ Changes < MaxChanges
    /\ tab' = [tab EXCEPT ![c].content = tab[c].content \cup {e},
                          ![c].queue = tab[c].queue \cup {e},
                          ![c].own = tab[c].own \cup {e}]
    /\ dirty' = dirty \cup {c} /\ typed' = typed \cup {e}
    /\ UNCHANGED <<server, kept, post, poll, report, mounts, posts, faults, astray>>

-----------------------------------------------------------------------------
(* The browser's requests *)

Request(from, kind, update, ydoc, cursor) ==
    [at |-> "sent", from |-> from, kind |-> kind, update |-> update, ydoc |-> ydoc,
     cursor |-> cursor, seed |-> {}, ack |-> NoCursor]

Emptied(c) == [tab EXCEPT ![c].queue = {}]

\* sendUpdates(false) and sendUpdates(true); packaging empties the queue.
Send(c, kind) ==
    /\ tab[c].at = "open" /\ post[c].at = "idle"
    /\ IF kind = "update" THEN tab[c].queue # {} ELSE c \in dirty
    /\ post' = [post EXCEPT ![c] =
                  Request("tab", kind, tab[c].queue, tab[c].content, tab[c].cursor)]
    /\ tab' = Emptied(c)
    /\ posts < MaxPosts /\ posts' = posts + 1
    /\ UNCHANGED <<server, dirty, typed, kept, poll, report, mounts, faults, astray>>

\* The same while the browser is offline: the record is kept.
KeepOffline(c) ==
    /\ tab[c].at = "open" /\ post[c].at = "idle" /\ c \in dirty
    /\ kept' = [kept EXCEPT ![c] = [content |-> tab[c].content, cursor |-> tab[c].cursor]]
    /\ tab' = Emptied(c)
    /\ UNCHANGED <<server, dirty, typed, post, poll, report, mounts, posts, faults, astray>>

Polls == Cardinality({c \in Clients : poll[c].at # "idle"})

\* The request reads the page's assets, in case Redis has no state.
Ask(c, from, held, cursor) ==
    /\ poll[c].at = "idle" /\ Polls < MaxPolls
    /\ poll' = [poll EXCEPT ![c] = [NoPoll EXCEPT !.at = "sent", !.from = from, !.held = held,
                                                  !.cursor = cursor, !.seed = saved]]
    /\ UNCHANGED <<server, browser, post, report, mounts, posts, faults, astray>>

Poll(c) == tab[c].at # "away" /\ Ask(c, "tab", tab[c].content, tab[c].cursor)

\* _register and _pollOfflineState: from the record's own cursor.
Replay(c) ==
    /\ kept[c] # NoRecord /\ post[c].at = "idle"
    /\ Ask(c, "replay", kept[c].content, kept[c].cursor)

-----------------------------------------------------------------------------
(* POST /l/sync *)

\* Releasing a lock that is no longer one's own fails the request.
Released(w) == IF lock = w THEN Free ELSE lock
Ends(c, answer) == IF lock = c THEN answer ELSE "failed"

\* The write lock, and the document read under it.
Begin(c) ==
    /\ post[c].at = "sent" /\ lock = Free
    /\ lock' = c
    /\ post' = [post EXCEPT ![c].at = "loaded", ![c].seed = saved]
    /\ current' = current \cup {c}
    /\ UNCHANGED <<saved, live, fresh, browser, poll, report, mounts, posts, faults, astray>>

Reconcile(c) ==
    LET seed == post[c].seed
    IN  /\ post[c].at = "loaded"
        /\ post' = [post EXCEPT ![c].at = "reconciled"]
        /\ live' = IF Reconciles(seed) THEN Published(live, seed, fresh + 1) ELSE Initialised(seed)
        /\ fresh' = IF Reconciles(seed) THEN fresh + 1 ELSE Drawn
        /\ UNCHANGED <<saved, current, lock, browser, poll, report, mounts, posts, faults, astray>>

\* A checkpoint sent again brings edits that no update announces: its queue was
\* emptied by an attempt that did not reach Redis.
Unannounced(p, before) == IF p.update = {} THEN p.ydoc \ Merged(before) ELSE {}

Apply(c) ==
    LET p == post[c]
        before == Initialised(p.seed)
        after == Appended(before, p.update)
        accepted == CurrentClient(before, p.cursor)
    IN  /\ p.at = "reconciled"
        /\ live' = IF accepted THEN Compacted(after, p.ydoc) ELSE after
        /\ fresh' = Drawn
        /\ astray' = IF accepted THEN astray \cup Unannounced(p, before) ELSE astray
        /\ IF accepted /\ p.kind = "checkpoint"
             THEN /\ post' = [post EXCEPT ![c] = [p EXCEPT !.at = "accepted", !.update = {},
                                                           !.seed = {}, !.ack = Cursor(after)]]
                  /\ UNCHANGED <<current, lock>>
             ELSE /\ post' = [post EXCEPT ![c] = [p EXCEPT
                                   !.at = Ends(c, IF accepted THEN "applied" ELSE "rejected"),
                                   !.update = {}, !.seed = {}, !.ack = Cursor(after)]]
                  /\ current' = current \ {c} /\ lock' = Released(c)
        /\ UNCHANGED <<saved, browser, poll, report, mounts, posts, faults>>

\* save_checkpoint: the write is refused when the assets were replaced.
Store(c) ==
    /\ post[c].at = "accepted"
    /\ IF c \in current
         THEN /\ saved' = post[c].ydoc /\ current' = {}
              /\ post' = [post EXCEPT ![c].at = "stored"]
              /\ UNCHANGED lock
         ELSE /\ post' = [post EXCEPT ![c].at = "failed"]
              /\ lock' = Released(c)
              /\ UNCHANGED <<saved, current>>
    /\ UNCHANGED <<live, fresh, browser, poll, report, mounts, posts, faults, astray>>

\* update_document_asset, and the answer. A state made since from older assets is
\* named after a checkpoint it does not hold.
Refresh(c) ==
    /\ post[c].at = "stored"
    /\ live' = [Initialised(post[c].ydoc) EXCEPT !.mark = post[c].ydoc]
    /\ astray' = astray \cup (post[c].ydoc \ Merged(Initialised(post[c].ydoc)))
    /\ fresh' = Drawn
    /\ post' = [post EXCEPT ![c].at = Ends(c, "persisted")]
    /\ lock' = Released(c)
    /\ UNCHANGED <<saved, current, browser, poll, report, mounts, posts, faults>>

-----------------------------------------------------------------------------
(* Answers of POST /l/sync *)

\* The cursor of the page's editor, or the one the page remembers for an editor
\* to come: a headless replay is answered to either.
Acknowledged(c) ==
    IF tab[c].at = "away" THEN [tab EXCEPT ![c].known = post[c].ack]
    ELSE [tab EXCEPT ![c].cursor = post[c].ack]

Answered(c, answer) ==
    /\ post[c].at = answer /\ post[c].from # "gone"
    /\ post' = [post EXCEPT ![c] = NoPost]

\* Mistake: the editor is clean whatever was typed since the request.
PersistedDiscarding(c) ==
    /\ Answered(c, "persisted")
    /\ tab' = Acknowledged(c)
    /\ dirty' = dirty \ {c}
    /\ kept' = [kept EXCEPT ![c] = NoRecord]
    /\ UNCHANGED <<server, typed, poll, report, mounts, posts, faults, astray>>

\* commitSavedBaseline keeps an edit made while the request was in flight.
Persisted(c) ==
    /\ Answered(c, "persisted")
    /\ tab' = Acknowledged(c)
    /\ dirty' = IF tab[c].queue = {} THEN dirty \ {c} ELSE dirty
    /\ kept' = [kept EXCEPT ![c] = NoRecord]
    /\ UNCHANGED <<server, typed, poll, report, mounts, posts, faults, astray>>

\* Mistake: the record is dropped when its update has reached Redis.
AppliedDropping(c) ==
    /\ Answered(c, "applied")
    /\ tab' = Acknowledged(c)
    /\ kept' = [kept EXCEPT ![c] = NoRecord]
    /\ UNCHANGED <<server, dirty, typed, poll, report, mounts, posts, faults, astray>>

Applied(c) ==
    /\ Answered(c, "applied")
    /\ tab' = Acknowledged(c)
    /\ UNCHANGED <<server, dirty, typed, kept, poll, report, mounts, posts, faults, astray>>

\* A rejected checkpoint and a failed request are kept, with the cursor they
\* were sent with.
Keep(c) ==
    /\ Answered(c, "failed") \/ Answered(c, "rejected")
    /\ kept' = IF post[c].at = "rejected" /\ post[c].kind = "update" THEN kept
               ELSE [kept EXCEPT ![c] = [content |-> post[c].ydoc, cursor |-> post[c].cursor]]
    /\ UNCHANGED <<server, tab, dirty, typed, poll, report, mounts, posts, faults, astray>>

AnsweredToNobody(c) ==
    /\ post[c].from = "gone" /\ post[c].at \in {"persisted", "applied", "rejected", "failed"}
    /\ post' = [post EXCEPT ![c] = NoPost]
    /\ UNCHANGED <<server, browser, poll, report, mounts, posts, faults, astray>>

-----------------------------------------------------------------------------
(* Document polls *)

Serve(c) ==
    LET s == Initialised(poll[c].seed)
    IN  /\ poll[c].at = "sent"
        /\ live' = s /\ fresh' = Drawn
        /\ poll' = [poll EXCEPT ![c].at = "answered", ![c].seed = {}, ![c].ack = Cursor(s),
                                ![c].ydoc = Snapshot(s, poll[c].cursor),
                                ![c].updates = Delta(s, poll[c].cursor)]
        /\ UNCHANGED <<saved, current, lock, browser, post, report, mounts, posts, faults, astray>>

Incoming(c) == poll[c].ydoc \cup poll[c].updates

Polled(c, from) ==
    /\ poll[c].at = "answered" /\ poll[c].from = from
    /\ poll' = [poll EXCEPT ![c] = NoPoll]

\* The first state of an editor, with the record merged into it: an editor that
\* had one is dirty, any other is the clean baseline.
Hydrate(c) ==
    LET offline == kept[c].content
    IN  /\ tab[c].at = "opening" /\ Polled(c, "tab")
        /\ tab' = [tab EXCEPT ![c].at = "open", ![c].cursor = poll[c].ack,
                              ![c].content = tab[c].content \cup Incoming(c) \cup offline,
                              ![c].queue = offline \ (tab[c].content \cup poll[c].ydoc)]
        /\ dirty' = IF kept[c] = NoRecord THEN dirty \ {c} ELSE dirty \cup {c}
        /\ UNCHANGED <<server, typed, kept, post, report, mounts, posts, faults, astray>>

Merge(c) ==
    /\ tab[c].at = "open" /\ Polled(c, "tab")
    /\ tab' = [tab EXCEPT ![c].cursor = poll[c].ack,
                          ![c].content = tab[c].content \cup Incoming(c)]
    /\ UNCHANGED <<server, dirty, typed, kept, post, report, mounts, posts, faults, astray>>

\* An editor that got no answer starts from the record. (Any other poll that fails
\* is asked again.)
HydrateOffline(c) ==
    LET offline == kept[c].content
    IN  /\ tab[c].at = "opening" /\ poll[c].at # "idle" /\ poll[c].from = "tab"
        /\ kept[c] # NoRecord
        /\ faults < MaxFaults /\ faults' = faults + 1
        /\ poll' = [poll EXCEPT ![c] = NoPoll]
        /\ tab' = [tab EXCEPT ![c].at = "open", ![c].queue = offline \ tab[c].content,
                              ![c].content = tab[c].content \cup offline]
        /\ dirty' = dirty \cup {c}
        /\ UNCHANGED <<server, typed, kept, post, report, mounts, posts, astray>>

-----------------------------------------------------------------------------
(* Replay of a kept record: _reconcile *)

\* With no editor in the page, a headless one merges the record and sends what
\* the snapshot does not hold; when it holds everything, the record is dropped.
ReplayHeadless(c) ==
    LET new == poll[c].held \ poll[c].ydoc
    IN  /\ tab[c].at = "away" /\ Polled(c, "replay")
        /\ tab' = [tab EXCEPT ![c].known = poll[c].ack]
        /\ IF new = {}
             THEN /\ kept' = [kept EXCEPT ![c] = NoRecord] /\ UNCHANGED <<post, posts>>
             ELSE /\ post[c].at = "idle" /\ UNCHANGED kept
                  /\ posts < MaxPosts /\ posts' = posts + 1
                  /\ post' = [post EXCEPT ![c] = Request("replay", "checkpoint", new,
                                   poll[c].held \cup Incoming(c), poll[c].ack)]
        /\ UNCHANGED <<server, dirty, typed, report, mounts, faults, astray>>

\* An editor that is not initialised yet merges the record and has nothing to
\* save: the record is dropped.
ReplayOpening(c) ==
    /\ tab[c].at = "opening" /\ Polled(c, "replay")
    /\ tab' = [tab EXCEPT ![c].cursor = poll[c].ack,
                          ![c].content = tab[c].content \cup poll[c].held \cup Incoming(c)]
    /\ kept' = [kept EXCEPT ![c] = NoRecord]
    /\ UNCHANGED <<server, dirty, typed, post, report, mounts, posts, faults, astray>>

ReplayOpen(c) ==
    LET new == poll[c].held \ (tab[c].content \cup poll[c].ydoc)
        all == tab[c].content \cup poll[c].held \cup Incoming(c)
        saves == c \in dirty \/ new # {}
    IN  /\ tab[c].at = "open" /\ Polled(c, "replay")
        /\ tab' = [tab EXCEPT ![c].content = all, ![c].queue = {}]
        /\ dirty' = IF saves THEN dirty \cup {c} ELSE dirty
        /\ IF saves
             THEN /\ post[c].at = "idle" /\ UNCHANGED kept
                  /\ posts < MaxPosts /\ posts' = posts + 1
                  /\ post' = [post EXCEPT ![c] = Request("tab", "checkpoint",
                                   tab[c].queue \cup new, all, poll[c].ack)]
             ELSE /\ kept' = [kept EXCEPT ![c] = NoRecord] /\ UNCHANGED <<post, posts>>
        /\ UNCHANGED <<server, typed, report, mounts, faults, astray>>

-----------------------------------------------------------------------------
(* A report that appends to the document *)

\* Its workspace loads the page; the receipt of an earlier commit ends it.
LoadPage ==
    /\ report.at = "idle" /\ Changes < MaxChanges
    /\ IF Addition \in saved
         THEN report' = [at |-> "done", seed |-> {}] /\ UNCHANGED current
         ELSE report' = [at |-> "loaded", seed |-> saved] /\ current' = current \cup {Reporter}
    /\ UNCHANGED <<saved, live, fresh, lock, browser, post, poll, mounts, posts, faults, astray>>

Abandoned == report' = NoReport /\ current' = current \ {Reporter}

Baseline(s, seed) == s.updates = {} /\ s.ydoc = seed

\* Mistake: the staged document reaches Redis.
StageLive ==
    LET s == Initialised(report.seed)
    IN  /\ report.at = "loaded" /\ lock = Free
        /\ fresh' = Drawn
        /\ IF Baseline(s, report.seed)
             THEN /\ report' = [report EXCEPT !.at = "staged"] /\ UNCHANGED current
                  /\ live' = [s EXCEPT !.ydoc = s.ydoc \cup {Addition}]
             ELSE Abandoned /\ live' = s
        /\ UNCHANGED <<saved, lock, browser, post, poll, mounts, posts, faults, astray>>

\* checkpointed_document under the write lock: pending edits stop the report.
Stage ==
    LET s == Initialised(report.seed)
    IN  /\ report.at = "loaded" /\ lock = Free
        /\ live' = s /\ fresh' = Drawn
        /\ IF Baseline(s, report.seed)
             THEN report' = [report EXCEPT !.at = "staged"] /\ UNCHANGED current
             ELSE Abandoned
        /\ UNCHANGED <<saved, lock, browser, post, poll, mounts, posts, faults, astray>>

\* commit: the lock is taken and the baseline compared again.
Check ==
    LET s == Initialised(report.seed)
    IN  /\ report.at = "staged" /\ lock = Free
        /\ live' = s /\ fresh' = Drawn
        /\ IF Baseline(s, report.seed)
             THEN lock' = Reporter /\ report' = [report EXCEPT !.at = "checked"] /\ UNCHANGED current
             ELSE Abandoned /\ UNCHANGED lock
        /\ UNCHANGED <<saved, browser, post, poll, mounts, posts, faults, astray>>

\* The write and the pending publication, refused when the assets were replaced.
Append ==
    /\ report.at = "checked"
    /\ IF Reporter \in current
         THEN /\ saved' = report.seed \cup {Addition} /\ current' = {}
              /\ report' = [at |-> "pending", seed |-> saved']
              /\ UNCHANGED lock
         ELSE Abandoned /\ lock' = Released(Reporter) /\ UNCHANGED saved
    /\ UNCHANGED <<live, fresh, browser, post, poll, mounts, posts, faults, astray>>

PublishSeed ==
    /\ live' = Published(Initialised(report.seed), report.seed, fresh + 1)
    /\ fresh' = fresh + 1
    /\ report' = [at |-> "done", seed |-> {}]
    /\ UNCHANGED <<saved, current, browser, post, poll, mounts, posts, faults, astray>>

Publish == report.at = "pending" /\ lock' = Released(Reporter) /\ PublishSeed

\* Recovery reads the page, then takes the lock.
Reload ==
    /\ report.at = "interrupted"
    /\ report' = [at |-> "reloaded", seed |-> saved]
    /\ UNCHANGED <<server, browser, post, poll, mounts, posts, faults, astray>>

Recover == report.at = "reloaded" /\ lock = Free /\ UNCHANGED lock /\ PublishSeed

-----------------------------------------------------------------------------
(* Faults *)

\* A request fails on the way: the lock was not free in time, an exception, or a
\* stopped process.
Fail(c) ==
    /\ post[c].at \in {"sent", "loaded", "reconciled", "accepted", "stored"}
    /\ post' = [post EXCEPT ![c].at = "failed", ![c].update = {}, ![c].seed = {}]
    /\ current' = current \ {c} /\ lock' = Released(c)
    /\ UNCHANGED <<saved, live, fresh, browser, poll, report, mounts, posts, astray>>

LoseAnswer(c) ==
    /\ post[c].at \in {"persisted", "applied", "rejected"}
    /\ post' = [post EXCEPT ![c].at = "failed"]
    /\ UNCHANGED <<server, browser, poll, report, mounts, posts, astray>>

ReportStops ==
    /\ report.at \in {"loaded", "staged", "checked", "pending"}
    /\ report' = IF report.at = "pending" THEN [report EXCEPT !.at = "interrupted"] ELSE NoReport
    /\ current' = current \ {Reporter} /\ lock' = Released(Reporter)
    /\ UNCHANGED <<saved, live, fresh, browser, post, poll, mounts, posts, astray>>

\* The lock expires under its holder.
Expire ==
    /\ lock # Free /\ lock' = Free
    /\ UNCHANGED <<saved, live, fresh, current, browser, post, poll, report, mounts, posts, astray>>

\* Redis loses the state: its time to live, a restart, clear_document.
Evict ==
    /\ live # Gone
    /\ live' = Gone
    /\ UNCHANGED <<saved, fresh, current, lock, browser, post, poll, report, mounts, posts, astray>>

Fault ==
    /\ faults < MaxFaults /\ faults' = faults + 1
    /\ (\E c \in Clients : Fail(c) \/ LoseAnswer(c)) \/ ReportStops \/ Expire \/ Evict

-----------------------------------------------------------------------------
Init ==
    /\ saved = {} /\ live = Gone /\ fresh = 0
    /\ tab = [c \in Clients |-> Away] /\ dirty = {} /\ typed = {}
    /\ kept = [c \in Clients |-> NoRecord]
    /\ post = [c \in Clients |-> NoPost] /\ poll = [c \in Clients |-> NoPoll]
    /\ current = {} /\ lock = Free /\ report = NoReport
    /\ mounts = 0 /\ posts = 0 /\ faults = 0 /\ astray = {}

Page(c) ==
    \/ Mount(c) \/ Leave(c) \/ (\E e \in Edits : Type(c, e))
    \/ (\E kind \in {"update", "checkpoint"} : Send(c, kind)) \/ KeepOffline(c)
    \/ Poll(c) \/ Replay(c)
    \/ Persisted(c) \/ Applied(c) \/ Keep(c) \/ AnsweredToNobody(c)
    \/ Hydrate(c) \/ Merge(c) \/ HydrateOffline(c)
    \/ ReplayHeadless(c) \/ ReplayOpening(c) \/ ReplayOpen(c)

Sync(c) == Begin(c) \/ Reconcile(c) \/ Apply(c) \/ Store(c) \/ Refresh(c) \/ Serve(c)

Report == LoadPage \/ Stage \/ Check \/ Append \/ Publish \/ Reload \/ Recover

Next == (\E c \in Clients : Page(c) \/ Sync(c)) \/ Report \/ Fault

Spec == Init /\ [][Next]_vars

-----------------------------------------------------------------------------
(* Properties *)

Cursors == [generation : Nat, revision : Nat]
Updates == [revision : Nat, edits : SUBSET Content]

States == [generation : Nat, revision : Nat, base : Nat, ydoc : SUBSET Content,
           updates : SUBSET Updates, mark : SUBSET Content]

\* Redis's own counters are consistent: the log holds the updates after the base,
\* at most one per revision, and no generation is drawn twice.
LogInOrder ==
    /\ live.base <= live.revision /\ live.generation <= fresh
    /\ \A u \in live.updates : live.base < u.revision /\ u.revision <= live.revision

TypeOK ==
    /\ saved \subseteq Content /\ astray \subseteq Content /\ live \in States /\ LogInOrder
    /\ fresh \in Nat /\ mounts \in Nat /\ posts \in Nat /\ faults \in Nat
    /\ tab \in [Clients -> [at : {"away", "opening", "open"}, content : SUBSET Content,
                            queue : SUBSET Content, own : SUBSET Content,
                            cursor : Cursors, known : Cursors]]
    /\ dirty \subseteq Clients /\ typed \subseteq Edits
    /\ kept \in [Clients -> [content : SUBSET Content, cursor : Cursors]]
    /\ post \in [Clients -> [at : {"idle", "sent", "loaded", "reconciled", "accepted", "stored",
                                   "persisted", "applied", "rejected", "failed"},
                             from : {"tab", "replay", "gone"}, kind : {"update", "checkpoint"},
                             update : SUBSET Content, ydoc : SUBSET Content, cursor : Cursors,
                             seed : SUBSET Content, ack : Cursors]]
    /\ poll \in [Clients -> [at : {"idle", "sent", "answered"}, from : {"tab", "replay"},
                             held : SUBSET Content, cursor : Cursors, seed : SUBSET Content,
                             ydoc : SUBSET Content, updates : SUBSET Content, ack : Cursors]]
    /\ current \subseteq Writers /\ lock \in Writers \cup {Free}
    /\ report \in [at : {"idle", "loaded", "staged", "checked", "pending", "interrupted",
                         "reloaded", "done"}, seed : SUBSET Content]

\* What a cursor of the current generation names, held but for the edits astray.
Covers(cursor, content) ==
    cursor.generation = live.generation /\ live # Gone =>
        /\ cursor.revision <= live.revision
        /\ cursor.revision >= live.base => live.ydoc \subseteq content \cup astray
        /\ \A u \in live.updates :
             u.revision <= cursor.revision => u.edits \subseteq content \cup astray

\* Whoever holds a cursor of the current generation holds everything up to it:
\* editors, records, requests and answers in flight. A checkpoint accepted from
\* an exact cursor is therefore complete.
CursorCovers ==
    \A c \in Clients :
        /\ Covers(tab[c].cursor, tab[c].content)
        /\ Covers(kept[c].cursor, kept[c].content)
        /\ post[c].at # "idle" => Covers(post[c].cursor, post[c].ydoc)
        /\ poll[c].at = "answered" => Covers(poll[c].ack, poll[c].held \cup Incoming(c))

\* Redis never names a checkpoint whose edits it does not hold.
MarkHonest == live.mark \subseteq Merged(live) \cup astray

\* An editor that reports no unsaved work has had its own edits stored.
CleanIsSaved ==
    \A c \in Clients :
        tab[c].at = "open" /\ c \notin dirty => tab[c].own \subseteq saved \cup astray

\* The report's addition reaches Redis and editors only after it is durable.
AdditionDurableFirst ==
    Addition \notin saved \cup astray =>
        /\ Addition \notin Merged(live)
        /\ \A c \in Clients : Addition \notin tab[c].content

\* No edit leaves the durable checkpoint, whoever writes it and however late.
SavedGrows == [][saved \subseteq saved' \cup astray']_vars

\* While Redis keeps the state, it loses no edit, through compaction, publication
\* and asset refreshes.
LiveGrows ==
    [][live # Gone /\ live' # Gone => Merged(live) \subseteq Merged(live') \cup astray']_vars


\* What leaves a browser's record, the record replaced or deleted, is durable, or an
\* answer showed it in Redis; but for the record that a replay merges into an editor
\* still opening.
RecordOutlived ==
    [][\A c \in Clients :
         \/ kept[c].content \subseteq kept'[c].content \cup saved \cup poll[c].ydoc \cup astray
         \/ ReplayOpening(c)]_vars
=============================================================================
