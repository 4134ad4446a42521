----------------------------- MODULE ChangeFeed -----------------------------
(***************************************************************************)
(* How a page learns that its data changed (src/src/change.rs, events and  *)
(* send_change_replay in src/src/api.rs, LiveUpdates.svelte).  A publisher *)
(* changes data, appends an event row and wakes the streams; a stream      *)
(* replays the rows after its cursor into a bounded channel; the page      *)
(* stores the cursor of each message and refetches what it names.          *)
(*                                                                         *)
(* One action is one statement, one message or one callback of the page.   *)
(* A kind of change stands for a resource and the queries that use it;     *)
(* every publisher names one.  The page looks at the scopes of a message   *)
(* only if it has no resources, as that of a reset.                        *)
(* Event ids are AUTOINCREMENT: positions in the sequence of all events.   *)
(* The value in the watch channel is read by nobody: a send is a wake-up.  *)
(***************************************************************************)
EXTENDS Naturals, Sequences, FiniteSetsExt

CONSTANTS
    Kinds,        \* of changes
    NoKind,       \* the kind of a publisher that is idle
    Publishers,   \* handlers, workers and observers that publish
    Tabs,         \* browser tabs, the pages below
    BatchLimit,   \* rows a replay reads at once
    PipeLimit     \* messages between a stream and its page

\* A replay reads at least one row (`limit`), the channel of a stream holds at
\* least one message, and an idle publisher works on no kind.
ConstantsFit ==
    /\ NoKind \notin Kinds
    /\ BatchLimit \in Nat \ {0} /\ PipeLimit \in Nat \ {0}

VARIABLES
    log,         \* every event ever appended; a row is its kind
    pruned,      \* how many of them retention has removed
    publisher,   \* what each publisher is doing
    stream,      \* the task that serves each page
    pipe,        \* what it sent and the page has not received
    page,        \* what each page knows, and what of it is out of date
    lost         \* history: changes a page cannot learn of, see below

feed == <<log, pruned, publisher, stream, pipe, page, lost>>

Publisher == [at : {"idle", "changed", "appended"}, kind : Kinds \cup {NoKind}]
Stream    == [at : {"closed", "subscribed", "measured", "replaying", "sending", "finishing",
                    "listening"},
              cursor : Nat, latest : Nat, wake : BOOLEAN, batch : SUBSET Kinds]
Message   == [cursor : Nat, kinds : SUBSET Kinds]
Page      == [cursor : Nat, pending : SUBSET Kinds, stale : SUBSET Kinds]

Idle == [at |-> "idle", kind |-> NoKind]
Closed == [at |-> "closed", cursor |-> 0, latest |-> 0, wake |-> FALSE, batch |-> {}]

FeedTypeOK ==
    /\ log \in Seq(Kinds) /\ pruned \in 0..Len(log)
    /\ publisher \in [Publishers -> Publisher]
    /\ \A u \in Publishers : publisher[u].at = "idle" <=> publisher[u].kind = NoKind
    /\ stream \in [Tabs -> Stream] /\ page \in [Tabs -> Page]
    /\ pipe \in [Tabs -> Seq(Message)] /\ lost \in [Tabs -> SUBSET Kinds]
    /\ \A p \in Tabs :
          /\ stream[p].cursor <= Len(log) /\ page[p].cursor <= Len(log)
          /\ Len(pipe[p]) <= PipeLimit
          \* the cursors a page receives grow, up to its stream's
          /\ stream[p].at # "closed" => \A i, j \in DOMAIN pipe[p] :
                i <= j => pipe[p][i].cursor <= pipe[p][j].cursor
                          /\ pipe[p][j].cursor <= stream[p].cursor

FeedInit ==
    /\ log = <<>> /\ pruned = 0
    /\ publisher = [u \in Publishers |-> Idle]
    /\ stream = [p \in Tabs |-> Closed] /\ pipe = [p \in Tabs |-> <<>>]
    /\ page = [p \in Tabs |-> [cursor |-> 0, pending |-> {}, stale |-> {}]]
    /\ lost = [p \in Tabs |-> {}]

Retained == pruned + 1 .. Len(log)
After(cursor) == {id \in Retained : id > cursor}
KindsOf(ids) == {log[id] : id \in ids}

\* Kinds that no page will hear of from its present cursor.
Losing(kinds) == lost' = [p \in Tabs |-> lost[p] \cup (kinds \cap page'[p].stale)]

-----------------------------------------------------------------------------
(***************************************************************************)
(* Publishers: AppState::publish after the data was changed.               *)
(***************************************************************************)
\* The change is committed: what pages show of it is out of date.
Change(u, k) ==
    /\ publisher[u].at = "idle"
    /\ publisher' = [publisher EXCEPT ![u] = [at |-> "changed", kind |-> k]]
    /\ page' = [p \in Tabs |-> [page[p] EXCEPT !.stale = @ \cup {k}]]
    /\ UNCHANGED <<log, pruned, stream, pipe, lost>>

AppendEvent(u) ==
    /\ publisher[u].at = "changed"
    /\ log' = Append(log, publisher[u].kind)
    /\ publisher' = [publisher EXCEPT ![u].at = "appended"]
    /\ UNCHANGED <<pruned, stream, pipe, page, lost>>

\* Mutant: only a stream that is waiting is woken.
AnnounceToWaiting(u) ==
    /\ publisher[u].at = "appended"
    /\ stream' = [p \in Tabs |->
          IF stream[p].at # "listening" THEN stream[p] ELSE [stream[p] EXCEPT !.wake = TRUE]]
    /\ publisher' = [publisher EXCEPT ![u] = Idle]
    /\ UNCHANGED <<log, pruned, pipe, page, lost>>

Announce(u) ==
    /\ publisher[u].at = "appended"
    /\ stream' = [p \in Tabs |->
          IF stream[p].at = "closed" THEN stream[p] ELSE [stream[p] EXCEPT !.wake = TRUE]]
    /\ publisher' = [publisher EXCEPT ![u] = Idle]
    /\ UNCHANGED <<log, pruned, pipe, page, lost>>

\* The insert fails, which is only logged, or the request the publisher works
\* for is dropped, before or after the row is in the table.
PublishingEnds(u) ==
    /\ publisher[u].at # "idle"
    /\ publisher' = [publisher EXCEPT ![u] = Idle]
    /\ UNCHANGED <<log, pruned, stream, pipe, page>>
    /\ Losing({publisher[u].kind})

-----------------------------------------------------------------------------
(***************************************************************************)
(* Streams.                                                                *)
(***************************************************************************)
\* The stream subscribes before it looks at the table.
Connect(p) ==
    /\ stream[p].at = "closed" /\ pipe[p] = <<>>
    /\ stream' = [stream EXCEPT ![p] =
          [Closed EXCEPT !.at = "subscribed", !.cursor = page[p].cursor]]
    /\ UNCHANGED <<log, pruned, publisher, pipe, page, lost>>

\* latest_change_cursor: 0 without rows, and when the query fails.
ReadLatest(p) ==
    /\ stream[p].at = "subscribed"
    /\ \E latest \in {0} \cup {id \in {Len(log)} : Retained # {}} :
          stream' = [stream EXCEPT ![p].at = "measured", ![p].latest = latest]
    /\ UNCHANGED <<log, pruned, publisher, pipe, page, lost>>

\* Mutant: retention is not looked at.
InvalidUnlessAhead(cursor, latest, oldest) == cursor > latest
\* `oldest` is the answer of oldest_change_cursor, {} for None.
Invalid(cursor, latest, oldest) ==
    cursor > latest \/ \E id \in oldest : cursor > 0 /\ cursor < id - 1

Oldest == {id \in Retained : id = pruned + 1}

\* An error of oldest_change_cursor counts as None.
Decide(p, oldest) ==
    LET cursor == stream[p].cursor
        latest == stream[p].latest
        reset  == cursor = 0 \/ Invalid(cursor, latest, oldest)
    IN  /\ stream[p].at = "measured" /\ oldest \in {Oldest, {}}
        /\ stream' = [stream EXCEPT
              ![p].at = IF reset THEN "listening" ELSE "replaying",
              ![p].cursor = IF reset THEN latest ELSE cursor, ![p].latest = 0]
        /\ pipe' = IF reset
                   THEN [pipe EXCEPT ![p] = Append(@, [cursor |-> latest, kinds |-> Kinds])]
                   ELSE pipe
        \* without an oldest row the gap below it goes unnoticed
        /\ lost' = IF ~reset /\ oldest = {}
                   THEN [lost EXCEPT ![p] = @ \cup KindsOf(cursor + 1 .. pruned)] ELSE lost
        /\ UNCHANGED <<log, pruned, publisher, page>>

\* change_events_after: the first rows above the cursor.
NextBatch(p) ==
    {id \in After(stream[p].cursor) : id <= Max({pruned, stream[p].cursor}) + BatchLimit}

\* One query of send_change_replay; it goes on after a full batch.
ReadBatch(p) ==
    LET batch == NextBatch(p)
        next  == IF Cardinality(batch) < BatchLimit THEN "finishing" ELSE "sending"
    IN  /\ stream[p].at = "replaying"
        /\ stream' = [stream EXCEPT ![p] =
              IF batch = {} THEN [@ EXCEPT !.at = "listening"]
              ELSE [@ EXCEPT !.at = next, !.cursor = Max(batch), !.batch = KindsOf(batch)]]
        /\ UNCHANGED <<log, pruned, publisher, pipe, page, lost>>

\* The send waits for room, while events go on being appended.
Send(p) ==
    /\ stream[p].at \in {"sending", "finishing"} /\ Len(pipe[p]) < PipeLimit
    /\ pipe' = [pipe EXCEPT ![p] =
          Append(@, [cursor |-> stream[p].cursor, kinds |-> stream[p].batch])]
    /\ stream' = [stream EXCEPT
          ![p].at = IF @ = "sending" THEN "replaying" ELSE "listening", ![p].batch = {}]
    /\ UNCHANGED <<log, pruned, publisher, page, lost>>

Wake(p) ==
    /\ stream[p].at = "listening" /\ stream[p].wake
    /\ stream' = [stream EXCEPT ![p].at = "replaying", ![p].wake = FALSE]
    /\ UNCHANGED <<log, pruned, publisher, pipe, page, lost>>

-----------------------------------------------------------------------------
(***************************************************************************)
(* The page.                                                               *)
(***************************************************************************)
Receive(p) ==
    /\ pipe[p] # <<>>
    /\ page' = [page EXCEPT ![p].cursor = Head(pipe[p]).cursor,
                            ![p].pending = @ \cup Head(pipe[p]).kinds]
    /\ pipe' = [pipe EXCEPT ![p] = Tail(@)]
    /\ UNCHANGED <<log, pruned, publisher, stream, lost>>

\* The flush timer: invalidateQueries refetches the queries that are shown.
Flush(p) ==
    /\ page[p].pending # {}
    /\ page' = [page EXCEPT ![p].stale = @ \ page[p].pending, ![p].pending = {}]
    /\ lost' = [lost EXCEPT ![p] = @ \ page[p].pending]
    /\ UNCHANGED <<log, pruned, publisher, stream, pipe>>

Disconnected(P) ==
    /\ stream' = [p \in Tabs |-> IF p \in P THEN Closed ELSE stream[p]]
    /\ pipe' = [p \in Tabs |-> IF p \in P THEN <<>> ELSE pipe[p]]

\* The network, the watchdog, a hidden page, a failed query of a replay.
Disconnect(p) ==
    /\ stream[p].at # "closed"
    /\ Disconnected({p})
    /\ UNCHANGED <<log, pruned, publisher, page, lost>>

\* sessionStorage outlives the page.
Reload(p) ==
    /\ Disconnected({p})
    /\ page' = [page EXCEPT ![p].stale = {}, ![p].pending = {}]
    /\ lost' = [lost EXCEPT ![p] = {}]
    /\ UNCHANGED <<log, pruned, publisher>>

-----------------------------------------------------------------------------
(***************************************************************************)
(* Retention and the end of the process.                                   *)
(***************************************************************************)
\* prune_change_events; a stream that is behind never sees the rows.
Prune(n) ==
    LET behind(p) == stream[p].at \notin {"closed", "subscribed", "measured"}
    IN  /\ n \in Retained
        /\ pruned' = n
        /\ lost' = [p \in Tabs |-> lost[p] \cup
              IF behind(p) THEN KindsOf({id \in After(stream[p].cursor) : id <= n}) ELSE {}]
        /\ UNCHANGED <<log, publisher, stream, pipe, page>>

ServerRestart ==
    /\ Disconnected(Tabs)
    /\ publisher' = [u \in Publishers |-> Idle]
    /\ UNCHANGED <<log, pruned, page>>
    /\ Losing({publisher[u].kind : u \in {v \in Publishers : publisher[v].at = "changed"}})

-----------------------------------------------------------------------------
Publishing(u) == AppendEvent(u) \/ Announce(u) \/ PublishingEnds(u)

Serving(p) ==
    \/ ReadLatest(p) \/ \E oldest \in {Oldest, {}} : Decide(p, oldest)
    \/ ReadBatch(p) \/ Send(p) \/ Wake(p)

FeedNext ==
    \/ \E u \in Publishers : Publishing(u) \/ \E k \in Kinds : Change(u, k)
    \/ \E p \in Tabs : Connect(p) \/ Serving(p) \/ Receive(p) \/ Flush(p)
                            \/ Disconnect(p) \/ Reload(p)
    \/ \E n \in Retained : Prune(n)
    \/ ServerRestart

FeedSpec == FeedInit /\ [][FeedNext]_feed

-----------------------------------------------------------------------------
(***************************************************************************)
(* Properties.  A change is lost to a page, until the page fetches it for  *)
(* another reason, if it was not published or nobody was woken for it, if  *)
(* retention overtook the page's stream, or if the oldest row was unknown  *)
(* when the stream decided that its cursor is good.                        *)
(***************************************************************************)
Unpublished == {publisher[u].kind : u \in {v \in Publishers : publisher[v].at = "changed"}}
Unannounced == {publisher[u].kind : u \in {v \in Publishers : publisher[v].at # "idle"}}

\* The cursor a page stores, and resumes from after any interruption, never
\* covers a change it does not know of: whatever is out of date is about to be
\* refetched or has an event above the cursor.
NothingIsSkipped ==
    \A p \in Tabs : \A k \in page[p].stale \ (lost[p] \cup Unpublished) :
        k \in page[p].pending \cup KindsOf(page[p].cursor + 1 .. Len(log))

\* A page whose stream listens and that has nothing left to do is up to date:
\* no order of appending, waking, subscribing and reading misses an event.
QuietIsFresh ==
    \A p \in Tabs :
        /\ stream[p].at = "listening" /\ ~stream[p].wake
        /\ pipe[p] = <<>> /\ page[p].pending = {}
        => page[p].stale \subseteq lost[p] \cup Unannounced
=============================================================================
