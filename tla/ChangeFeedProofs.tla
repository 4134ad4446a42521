-------------------------- MODULE ChangeFeedProofs --------------------------
(***************************************************************************)
(* Theorems about ChangeFeed for every set of kinds, publishers and pages  *)
(* and every size of a batch and of a stream's channel: type correctness,  *)
(* and that no page misses a change it could have heard of.                *)
(***************************************************************************)
EXTENDS ChangeFeed, FiniteSetTheorems, TLAPS

(***************************************************************************)
(* The inductive invariant, page by page.  NothingIsSkipped speaks of the  *)
(* cursor a page has stored; that is kept because every message on its way *)
(* would leave the page with as little to hear of: Promised says it of     *)
(* each prefix of the channel, Replayed of what the stream reads next, and *)
(* Finished that a stream which listens, unwoken, has read everything that *)
(* was announced.                                                          *)
(***************************************************************************)
FeedShape ==
    /\ log \in Seq(Kinds) /\ pruned \in Nat /\ pruned <= Len(log)
    /\ publisher \in [Publishers -> Publisher]
    /\ \A u \in Publishers : publisher[u].at = "idle" <=> publisher[u].kind = NoKind
    /\ stream \in [Tabs -> Stream] /\ page \in [Tabs -> Page]
    /\ pipe \in [Tabs -> Seq(Message)] /\ lost \in [Tabs -> SUBSET Kinds]

PageShape(p) ==
    /\ page[p].cursor <= Len(log) /\ stream[p].cursor <= Len(log)
    /\ stream[p].latest <= Len(log)
    /\ Len(pipe[p]) <= PipeLimit
    /\ \A i \in 1..Len(pipe[p]) : pipe[p][i].cursor <= stream[p].cursor
    /\ \A i, j \in 1..Len(pipe[p]) : i <= j => pipe[p][i].cursor <= pipe[p][j].cursor
    /\ stream[p].at \in {"closed", "subscribed", "measured"} => Len(pipe[p]) = 0
    /\ stream[p].at \in {"subscribed", "measured"} => stream[p].cursor = page[p].cursor
    /\ stream[p].at \notin {"sending", "finishing"} => stream[p].batch = {}

\* A page will refetch k once it has received the first n messages.
Told(pending, messages, n, k) ==
    k \in pending \/ \E i \in 1..n : k \in messages[i].kinds

Above(events, cursor, k) == \E id \in 1..Len(events) : id > cursor /\ events[id] = k

Promised(p) ==
    \A k \in page[p].stale \ (lost[p] \cup Unpublished) :
        /\ k \in page[p].pending \/ Above(log, page[p].cursor, k)
        /\ \A i \in 1..Len(pipe[p]) : Told(page[p].pending, pipe[p], i, k) \/ Above(log, pipe[p][i].cursor, k)

Replayed(p) ==
    stream[p].at \notin {"closed", "subscribed", "measured"} =>
        \A k \in page[p].stale \ (lost[p] \cup Unpublished) :
            \/ Told(page[p].pending, pipe[p], Len(pipe[p]), k) \/ k \in stream[p].batch
            \/ \E id \in 1..Len(log) : id > pruned /\ id > stream[p].cursor /\ log[id] = k

Finished(p) ==
    stream[p].at \in {"finishing", "listening"} /\ ~stream[p].wake =>
        \A k \in page[p].stale \ (lost[p] \cup Unannounced) :
            Told(page[p].pending, pipe[p], Len(pipe[p]), k) \/ k \in stream[p].batch

PageInv(p) == PageShape(p) /\ Promised(p) /\ Replayed(p) /\ Finished(p)
FeedInv == FeedShape /\ \A p \in Tabs : PageInv(p)

-----------------------------------------------------------------------------
(***************************************************************************)
(* What the operators of the model return.                                 *)
(***************************************************************************)
LEMMA MaxOfTwo ==
    ASSUME NEW a \in Nat, NEW b \in Nat
    PROVE  Max({a, b}) = IF a >= b THEN a ELSE b
BY DEF Max

\* A replay reads an interval that begins right above the cursor and what was
\* pruned; with fewer rows than it asked for it has read them all.
LEMMA BatchIsNext ==
    ASSUME ConstantsFit, FeedShape, NEW p \in Tabs, PageShape(p)
    PROVE  LET batch == NextBatch(p)
               low   == IF pruned >= stream[p].cursor THEN pruned ELSE stream[p].cursor
           IN  /\ batch = {} => \A id \in 1..Len(log) : id <= low
               /\ batch # {} =>
                    /\ Max(batch) \in Nat /\ Max(batch) > low /\ Max(batch) <= Len(log)
                    /\ \A id \in 1..Len(log) : id > low /\ id <= Max(batch) => id \in batch
                    /\ Cardinality(batch) < BatchLimit => Max(batch) = Len(log)
               /\ batch \subseteq 1..Len(log)
<1> DEFINE batch == NextBatch(p)
           low   == IF pruned >= stream[p].cursor THEN pruned ELSE stream[p].cursor
           high  == IF Len(log) <= low + BatchLimit THEN Len(log) ELSE low + BatchLimit
<1>1. /\ stream[p].cursor \in Nat /\ Len(log) \in Nat /\ pruned \in Nat
      /\ stream[p].cursor <= Len(log) /\ pruned <= Len(log)
      /\ BatchLimit \in Nat /\ BatchLimit > 0
  BY DEF ConstantsFit, FeedShape, PageShape, Stream
<1>2. low \in Nat /\ high \in Nat /\ low <= high /\ high <= Len(log)
  BY <1>1
<1>3. batch = low + 1 .. high
  <2>1. Max({pruned, stream[p].cursor}) = low
    BY <1>1, MaxOfTwo
  <2>2. batch = {id \in {i \in pruned + 1 .. Len(log) : i > stream[p].cursor} :
                    id <= low + BatchLimit}
    BY <2>1 DEF NextBatch, After, Retained
  <2> QED
    BY <1>1, <1>2, <2>2
<1> HIDE DEF batch, high
<1>4. batch = {} => high = low
  BY <1>2, <1>3
<1>5. high = low => low = Len(log)
  BY <1>1, <1>2 DEF high
<1>6. ASSUME batch # {}
      PROVE  Max(batch) = high /\ high > low
  <2>1. high > low
    BY <1>2, <1>3, <1>6
  <2>2. high \in batch /\ \A i \in batch : high >= i
    BY <1>2, <1>3, <2>1
  <2>3. \A x \in batch : x \in Int
    BY <1>3
  <2> QED
    BY <2>1, <2>2, <2>3 DEF Max
<1>7. Cardinality(batch) = high - low
  <2>1. PICK next \in Int : next = low + 1
    BY <1>2
  <2>2. high \in Int
    BY <1>2
  <2>3. Cardinality(next .. high) = IF next > high THEN 0 ELSE high - next + 1
    BY <2>1, <2>2, FS_Interval
  <2> QED
    BY <1>2, <1>3, <2>1, <2>3
<1>8. Cardinality(batch) < BatchLimit => high = Len(log)
  BY <1>1, <1>2, <1>7 DEF high
<1> HIDE DEF low
<1>9. /\ batch = {} => \A id \in 1..Len(log) : id <= low
      /\ batch # {} =>
           /\ Max(batch) \in Nat /\ Max(batch) > low /\ Max(batch) <= Len(log)
           /\ \A id \in 1..Len(log) : id > low /\ id <= Max(batch) => id \in batch
           /\ Cardinality(batch) < BatchLimit => Max(batch) = Len(log)
      /\ batch \subseteq 1..Len(log)
  BY <1>1, <1>2, <1>3, <1>4, <1>5, <1>6, <1>8
<1> QED
  BY <1>9 DEF batch, low

\* A page no step touches keeps its invariant.
LEMMA PageFrame ==
    ASSUME FeedInv, NEW q \in Tabs, page'[q] = page[q], stream'[q] = stream[q],
           pipe'[q] = pipe[q], lost'[q] = lost[q], UNCHANGED <<log, pruned, publisher>>
    PROVE  PageInv(q)'
<1>1. PageInv(q)
  BY DEF FeedInv
<1>2. Unpublished' = Unpublished /\ Unannounced' = Unannounced
  BY DEF Unpublished, Unannounced
<1>3. PageShape(q)'
  BY <1>1 DEF PageInv, PageShape
<1>4. Promised(q)'
  BY <1>1, <1>2 DEF PageInv, Promised, Told, Above
<1>5. Replayed(q)'
  BY <1>1, <1>2 DEF PageInv, Replayed, Told
<1>6. Finished(q)'
  BY <1>1, <1>2 DEF PageInv, Finished, Told
<1> QED
  BY <1>3, <1>4, <1>5, <1>6 DEF PageInv

LEMMA InvInit == ConstantsFit /\ FeedInit => FeedInv
<1> SUFFICES ASSUME ConstantsFit, FeedInit PROVE FeedInv
  OBVIOUS
<1>1. FeedShape
  <2>1. Idle \in Publisher /\ Idle.at = "idle" /\ Idle.kind = NoKind
    BY DEF Idle, Publisher
  <2>2. Closed \in Stream /\ [cursor |-> 0, pending |-> {}, stale |-> {}] \in Page
    BY DEF Closed, Stream, Page
  <2>3. log \in Seq(Kinds) /\ Len(log) = 0 /\ <<>> \in Seq(Message)
    BY DEF FeedInit
  <2>4. stream \in [Tabs -> Stream] /\ page \in [Tabs -> Page]
          /\ pipe \in [Tabs -> Seq(Message)] /\ lost \in [Tabs -> SUBSET Kinds]
    BY <2>2, <2>3 DEF FeedInit
  <2>5. publisher \in [Publishers -> Publisher]
          /\ \A u \in Publishers : publisher[u].at = "idle" /\ publisher[u].kind = NoKind
    BY <2>1 DEF FeedInit
  <2>6. pruned \in Nat /\ pruned <= Len(log)
    BY <2>3 DEF FeedInit
  <2> QED
    BY <2>3, <2>4, <2>5, <2>6 DEF FeedShape
<1>2. ASSUME NEW p \in Tabs
      PROVE  PageInv(p)
  <2>1. /\ page[p] = [cursor |-> 0, pending |-> {}, stale |-> {}]
        /\ stream[p] = Closed /\ pipe[p] = <<>> /\ lost[p] = {} /\ log = <<>>
    BY DEF FeedInit
  <2>2. PageShape(p)
    BY <2>1 DEF PageShape, Closed, ConstantsFit
  <2>3. Promised(p)
    BY <2>1 DEF Promised
  <2>4. Replayed(p) /\ Finished(p)
    BY <2>1 DEF Replayed, Finished, Closed
  <2> QED
    BY <2>2, <2>3, <2>4 DEF PageInv
<1> QED
  BY <1>1, <1>2 DEF FeedInv

-----------------------------------------------------------------------------
(***************************************************************************)
(* Every step keeps the shape of the feed.                                 *)
(***************************************************************************)
\* The columns of a page, of a stream and of a publisher.
LEMMA FeedColumns ==
    ASSUME ConstantsFit
    PROVE  /\ \A k \in Kinds : [at |-> "changed", kind |-> k] \in Publisher
           /\ \A r \in Publisher : [r EXCEPT !.at = "appended"] \in Publisher
           /\ \A r \in Page, k \in Kinds : [r EXCEPT !.stale = @ \cup {k}] \in Page
           /\ \A r \in Page :
                 /\ [r EXCEPT !.stale = @ \ r.pending, !.pending = {}] \in Page
                 /\ [r EXCEPT !.stale = {}, !.pending = {}] \in Page
                 /\ \A m \in Message :
                       [r EXCEPT !.cursor = m.cursor, !.pending = @ \cup m.kinds] \in Page
           /\ \A s \in Stream : [s EXCEPT !.wake = TRUE] \in Stream
           /\ Closed \in Stream /\ Idle \in Publisher
<1>1. /\ \A k \in Kinds : [at |-> "changed", kind |-> k] \in Publisher
      /\ \A r \in Publisher : [r EXCEPT !.at = "appended"] \in Publisher
      /\ Idle \in Publisher
  BY DEF Publisher, Idle
<1>2. ASSUME NEW r \in Page
      PROVE  /\ \A k \in Kinds : [r EXCEPT !.stale = @ \cup {k}] \in Page
             /\ [r EXCEPT !.stale = @ \ r.pending, !.pending = {}] \in Page
             /\ [r EXCEPT !.stale = {}, !.pending = {}] \in Page
  BY DEF Page
<1>3. ASSUME NEW r \in Page, NEW m \in Message
      PROVE  [r EXCEPT !.cursor = m.cursor, !.pending = @ \cup m.kinds] \in Page
  BY DEF Page, Message
<1>4. (\A s \in Stream : [s EXCEPT !.wake = TRUE] \in Stream) /\ Closed \in Stream
  BY DEF Stream, Closed
<1> QED
  BY <1>1, <1>2, <1>3, <1>4

LEMMA ShapePublishing ==
    ASSUME ConstantsFit, FeedInv, NEW u \in Publishers,
           Publishing(u) \/ \E k \in Kinds : Change(u, k)
    PROVE  FeedShape'
<1> USE DEF FeedInv
<1>0. FeedShape
  OBVIOUS
<1>1. ASSUME NEW k \in Kinds, Change(u, k)
      PROVE  FeedShape'
  <2>1. publisher' \in [Publishers -> Publisher]
          /\ \A v \in Publishers : publisher'[v].at = "idle" <=> publisher'[v].kind = NoKind
    BY <1>0, <1>1, FeedColumns DEF FeedShape, Change, ConstantsFit
  <2>2. page' \in [Tabs -> Page]
    BY <1>0, <1>1, FeedColumns DEF FeedShape, Change
  <2> QED
    BY <1>0, <1>1, <2>1, <2>2 DEF FeedShape, Change
<1>2. CASE AppendEvent(u)
  <2>1. publisher[u] \in Publisher /\ publisher[u].at = "changed" /\ publisher[u].kind \in Kinds
    BY <1>0, <1>2 DEF FeedShape, AppendEvent, Publisher
  <2>2. log' \in Seq(Kinds) /\ Len(log') = Len(log) + 1
    BY <1>0, <1>2, <2>1 DEF FeedShape, AppendEvent
  <2> DEFINE r == [publisher[u] EXCEPT !.at = "appended"]
  <2>3. r \in Publisher /\ r.at = "appended" /\ r.kind = publisher[u].kind
    BY <2>1 DEF Publisher
  <2>4. publisher' = [publisher EXCEPT ![u] = r]
    BY <1>2 DEF AppendEvent
  <2> HIDE DEF r
  <2>5. publisher' \in [Publishers -> Publisher]
          /\ \A v \in Publishers : publisher'[v].at = "idle" <=> publisher'[v].kind = NoKind
    BY <1>0, <2>1, <2>3, <2>4 DEF FeedShape, ConstantsFit
  <2> QED
    BY <1>0, <1>2, <2>2, <2>5 DEF FeedShape, AppendEvent
<1>3. ASSUME publisher' = [publisher EXCEPT ![u] = Idle]
      PROVE  publisher' \in [Publishers -> Publisher]
               /\ \A v \in Publishers : publisher'[v].at = "idle" <=> publisher'[v].kind = NoKind
  <2>1. Idle \in Publisher /\ Idle.at = "idle" /\ Idle.kind = NoKind
    BY FeedColumns DEF Idle
  <2> QED
    BY <1>0, <1>3, <2>1 DEF FeedShape
<1>4. CASE Announce(u)
  <2>1. stream' \in [Tabs -> Stream]
    BY <1>0, <1>4, FeedColumns DEF FeedShape, Announce
  <2> QED
    BY <1>0, <1>3, <1>4, <2>1 DEF FeedShape, Announce
<1>5. CASE PublishingEnds(u)
  <2>1. publisher[u].kind \in Kinds
    BY <1>0, <1>5 DEF FeedShape, PublishingEnds, Publisher
  <2>2. lost' \in [Tabs -> SUBSET Kinds]
    BY <1>0, <1>5, <2>1 DEF FeedShape, PublishingEnds, Losing
  <2> QED
    BY <1>0, <1>3, <1>5, <2>2 DEF FeedShape, PublishingEnds
<1> QED
  BY <1>1, <1>2, <1>4, <1>5 DEF Publishing

-----------------------------------------------------------------------------
(***************************************************************************)
(* Steps of one page and its stream.                                       *)
(***************************************************************************)
\* Such a step is a matter of that page alone.
LEMMA OnePage ==
    ASSUME FeedInv, NEW p \in Tabs, UNCHANGED <<log, pruned, publisher>>,
           stream' \in [Tabs -> Stream], page' \in [Tabs -> Page],
           pipe' \in [Tabs -> Seq(Message)], lost' \in [Tabs -> SUBSET Kinds],
           \A q \in Tabs \ {p} : /\ stream'[q] = stream[q] /\ page'[q] = page[q]
                                  /\ pipe'[q] = pipe[q] /\ lost'[q] = lost[q],
           PageInv(p)'
    PROVE  FeedInv'
<1>1. FeedShape'
  BY DEF FeedInv, FeedShape
<1>2. ASSUME NEW q \in Tabs PROVE PageInv(q)'
  BY PageFrame
<1> QED
  BY <1>1, <1>2 DEF FeedInv

\* A step of the stream leaves what was sent and what the page knows.
LEMMA StreamStep ==
    ASSUME FeedInv, NEW p \in Tabs, UNCHANGED <<log, pruned, publisher, pipe, page>>,
           NEW s \in Stream, stream' = [stream EXCEPT ![p] = s],
           lost' \in [Tabs -> SUBSET Kinds], lost[p] \subseteq lost'[p],
           \A q \in Tabs \ {p} : lost'[q] = lost[q],
           PageShape(p)', Replayed(p)', Finished(p)'
    PROVE  FeedInv'
<1>1. FeedShape /\ PageInv(p)
  BY DEF FeedInv
<1>2. Unpublished' = Unpublished
  BY DEF Unpublished
<1>3. Promised(p)'
  BY <1>1, <1>2 DEF PageInv, Promised, Told, Above
<1>4. stream' \in [Tabs -> Stream] /\ \A q \in Tabs \ {p} : stream'[q] = stream[q]
  BY <1>1 DEF FeedShape
<1> QED
  BY <1>1, <1>3, <1>4, OnePage DEF PageInv, FeedShape

LEMMA FeedConnect ==
    ASSUME ConstantsFit, FeedInv, NEW p \in Tabs, Connect(p) \/ ReadLatest(p) \/ Wake(p)
    PROVE  FeedInv'
<1>1. FeedShape /\ PageInv(p) /\ stream[p] \in Stream /\ page[p] \in Page
  BY DEF FeedInv, FeedShape
<1>2. log \in Seq(Kinds) /\ Len(log) \in Nat /\ Unpublished' = Unpublished
  BY <1>1 DEF FeedShape, Connect, ReadLatest, Wake, Unpublished
<1>3. CASE Connect(p)
  <2> DEFINE s == [Closed EXCEPT !.at = "subscribed", !.cursor = page[p].cursor]
  <2>1. s \in Stream /\ s.at = "subscribed" /\ s.cursor = page[p].cursor
          /\ s.latest = 0 /\ s.batch = {}
    BY <1>1 DEF Stream, Closed, Page
  <2>2. stream' = [stream EXCEPT ![p] = s] /\ pipe[p] = <<>>
    BY <1>3 DEF Connect
  <2> HIDE DEF s
  <2>3. stream'[p] = s /\ Len(pipe[p]) = 0 /\ UNCHANGED <<log, pruned, publisher, pipe, page, lost>>
    BY <1>1, <1>3, <2>2 DEF FeedShape, Connect
  <2>4. PageShape(p)'
    BY <1>1, <1>2, <2>1, <2>3 DEF PageInv, PageShape
  <2>5. Replayed(p)' /\ Finished(p)'
    BY <2>1, <2>3 DEF Replayed, Finished
  <2> QED
    BY <1>1, <2>1, <2>2, <2>3, <2>4, <2>5, StreamStep DEF FeedShape
<1>4. CASE ReadLatest(p)
  <2>1. PICK latest \in {0} \cup {id \in {Len(log)} : Retained # {}} :
           stream' = [stream EXCEPT ![p].at = "measured", ![p].latest = latest]
    BY <1>4 DEF ReadLatest
  <2>2. latest \in Nat /\ latest <= Len(log)
    BY <1>2
  <2> DEFINE s == [stream[p] EXCEPT !.at = "measured", !.latest = latest]
  <2>3. s \in Stream /\ s.at = "measured" /\ s.cursor = stream[p].cursor
          /\ s.latest = latest /\ s.batch = stream[p].batch
    BY <1>1, <2>2 DEF Stream
  <2>4. stream' = [stream EXCEPT ![p] = s] /\ stream[p].at = "subscribed"
    BY <1>4, <2>1 DEF ReadLatest
  <2> HIDE DEF s
  <2>5. stream'[p] = s /\ UNCHANGED <<log, pruned, publisher, pipe, page, lost>>
    BY <1>1, <1>4, <2>4 DEF FeedShape, ReadLatest
  <2>6. PageShape(p)'
    BY <1>1, <1>2, <2>2, <2>3, <2>4, <2>5 DEF PageInv, PageShape
  <2>7. Replayed(p)' /\ Finished(p)'
    BY <2>3, <2>5 DEF Replayed, Finished
  <2> QED
    BY <1>1, <2>3, <2>4, <2>5, <2>6, <2>7, StreamStep DEF FeedShape
<1>5. CASE Wake(p)
  <2> DEFINE s == [stream[p] EXCEPT !.at = "replaying", !.wake = FALSE]
  <2>1. s \in Stream /\ s.at = "replaying" /\ s.cursor = stream[p].cursor
          /\ s.latest = stream[p].latest /\ s.batch = stream[p].batch
    BY <1>1 DEF Stream
  <2>2. stream' = [stream EXCEPT ![p] = s] /\ stream[p].at = "listening"
    BY <1>5 DEF Wake
  <2> HIDE DEF s
  <2>3. stream'[p] = s /\ UNCHANGED <<log, pruned, publisher, pipe, page, lost>>
    BY <1>1, <1>5, <2>2 DEF FeedShape, Wake
  <2>4. PageShape(p)'
    BY <1>1, <1>2, <2>1, <2>2, <2>3 DEF PageInv, PageShape
  <2>5. Replayed(p)'
    BY <1>1, <1>2, <2>1, <2>2, <2>3 DEF PageInv, Replayed, Told
  <2>6. Finished(p)'
    BY <2>1, <2>3 DEF Finished
  <2> QED
    BY <1>1, <2>1, <2>2, <2>3, <2>4, <2>5, <2>6, StreamStep DEF FeedShape
<1> QED
  BY <1>3, <1>4, <1>5

\* A stream reads rows: whatever it has to tell is in its batch, above its
\* cursor, or told already; a short batch leaves nothing above the cursor.
LEMMA FeedRead ==
    ASSUME ConstantsFit, FeedInv, NEW p \in Tabs, ReadBatch(p)
    PROVE  FeedInv'
<1> DEFINE batch == NextBatch(p)
           next  == IF Cardinality(batch) < BatchLimit THEN "finishing" ELSE "sending"
           low   == IF pruned >= stream[p].cursor THEN pruned ELSE stream[p].cursor
<1>1. FeedShape /\ PageInv(p) /\ stream[p] \in Stream /\ PageShape(p)
  BY DEF FeedInv, FeedShape, PageInv
<1>2. /\ log \in Seq(Kinds) /\ Len(log) \in Nat /\ pruned \in Nat
      /\ Unpublished' = Unpublished /\ Unannounced' = Unannounced
      /\ stream[p].at = "replaying" /\ stream[p].batch = {} /\ stream[p].cursor \in Nat
      /\ UNCHANGED <<log, pruned, publisher, pipe, page, lost>>
      /\ pipe[p] \in Seq(Message) /\ Len(pipe[p]) \in Nat
      /\ stream' = [stream EXCEPT ![p] = IF batch = {} THEN [@ EXCEPT !.at = "listening"]
              ELSE [@ EXCEPT !.at = next, !.cursor = Max(batch), !.batch = KindsOf(batch)]]
  BY <1>1 DEF FeedShape, PageShape, ReadBatch, Unpublished, Unannounced, Stream
<1>3. /\ batch = {} => \A id \in 1..Len(log) : id <= low
      /\ batch # {} =>
           /\ Max(batch) \in Nat /\ Max(batch) > low /\ Max(batch) <= Len(log)
           /\ \A id \in 1..Len(log) : id > low /\ id <= Max(batch) => id \in batch
           /\ Cardinality(batch) < BatchLimit => Max(batch) = Len(log)
      /\ batch \subseteq 1..Len(log)
  BY <1>1, BatchIsNext
<1>4. \A id \in batch : log[id] \in Kinds
  BY <1>2, <1>3
<1>5. KindsOf(batch) \subseteq Kinds /\ \A id \in batch : log[id] \in KindsOf(batch)
  BY <1>4 DEF KindsOf
<1>6. next \in {"finishing", "sending"}
        /\ (next = "finishing" => Cardinality(batch) < BatchLimit)
  OBVIOUS
<1>7. stream[p].cursor <= low /\ pruned <= low /\ low \in Nat
        /\ \A id \in 1..Len(log) : id > low <=> id > pruned /\ id > stream[p].cursor
  BY <1>2
\* What the page has still to hear of is told or above `low`.
<1>8. \A k \in page[p].stale \ (lost[p] \cup Unpublished) :
         Told(page[p].pending, pipe[p], Len(pipe[p]), k) \/ \E id \in 1..Len(log) : id > low /\ log[id] = k
  BY <1>1, <1>2, <1>7 DEF PageInv, Replayed
<1> HIDE DEF batch, next, low
<1>9. CASE batch = {}
  <2> DEFINE s == [stream[p] EXCEPT !.at = "listening"]
  <2>1. s \in Stream /\ s.at = "listening" /\ s.cursor = stream[p].cursor
          /\ s.latest = stream[p].latest /\ s.batch = {}
    BY <1>1, <1>2 DEF Stream
  <2>2. stream' = [stream EXCEPT ![p] = s]
    BY <1>2, <1>9
  <2> HIDE DEF s
  <2>3. stream'[p] = s
    BY <1>1, <2>2 DEF FeedShape
  <2>4. PageShape(p)'
    BY <1>1, <1>2, <2>1, <2>3 DEF PageShape
  <2>5. \A k \in page[p].stale \ (lost[p] \cup Unpublished) : Told(page[p].pending, pipe[p], Len(pipe[p]), k)
    BY <1>3, <1>7, <1>8, <1>9
  <2>6. Replayed(p)'
    BY <1>2, <2>5 DEF Replayed, Told
  <2>7. Unpublished \subseteq Unannounced
    BY DEF Unpublished, Unannounced
  <2>8. Finished(p)'
    BY <1>2, <2>5, <2>7 DEF Finished, Told
  <2> QED
    BY <1>1, <1>2, <2>1, <2>2, <2>4, <2>6, <2>8, StreamStep DEF FeedShape
<1>10. CASE batch # {}
  <2> DEFINE s == [stream[p] EXCEPT !.at = next, !.cursor = Max(batch),
                                    !.batch = KindsOf(batch)]
  <2>1. s \in Stream /\ s.at = next /\ s.cursor = Max(batch)
          /\ s.latest = stream[p].latest /\ s.batch = KindsOf(batch)
    BY <1>1, <1>2, <1>3, <1>5, <1>6, <1>10 DEF Stream
  <2>2. stream' = [stream EXCEPT ![p] = s]
    BY <1>2, <1>10
  <2> HIDE DEF s
  <2>3. stream'[p] = s
    BY <1>1, <2>2 DEF FeedShape
  <2>4. stream[p].cursor <= Max(batch)
    BY <1>2, <1>3, <1>7, <1>10
  <2>5. PageShape(p)'
    <3>1. \A i \in 1..Len(pipe[p]) : pipe[p][i].cursor <= Max(batch)
      <4>1. ASSUME NEW i \in 1..Len(pipe[p]) PROVE pipe[p][i].cursor <= Max(batch)
        <5>0. pipe[p][i] \in Message
          BY <1>2
        <5>1. pipe[p][i].cursor \in Nat /\ pipe[p][i].cursor <= stream[p].cursor
          BY <1>1, <1>2, <5>0 DEF PageShape, Message
        <5> QED
          BY <1>2, <1>3, <1>10, <2>4, <5>1
      <4> QED
        BY <4>1
    <3> QED
      BY <1>1, <1>2, <1>3, <1>6, <1>10, <2>1, <2>3, <3>1 DEF PageShape
  <2>6. \A k \in page[p].stale \ (lost[p] \cup Unpublished) :
           \/ Told(page[p].pending, pipe[p], Len(pipe[p]), k) \/ k \in KindsOf(batch)
           \/ \E id \in 1..Len(log) : id > Max(batch) /\ log[id] = k
    <3> SUFFICES ASSUME NEW k \in page[p].stale \ (lost[p] \cup Unpublished),
                        ~Told(page[p].pending, pipe[p], Len(pipe[p]), k)
                 PROVE  \/ k \in KindsOf(batch)
                        \/ \E id \in 1..Len(log) : id > Max(batch) /\ log[id] = k
      OBVIOUS
    <3>1. PICK id \in 1..Len(log) : id > low /\ log[id] = k
      BY <1>8
    <3>2. CASE id <= Max(batch)
      BY <1>3, <1>5, <1>10, <3>1, <3>2
    <3>3. CASE ~(id <= Max(batch))
      BY <1>3, <1>10, <3>1, <3>3
    <3> QED
      BY <3>2, <3>3
  <2>7. \A id \in 1..Len(log) : id > Max(batch) => id > pruned
    <3>1. Max(batch) \in Nat /\ Max(batch) > pruned
      BY <1>2, <1>3, <1>7, <1>10
    <3> QED
      BY <1>2, <3>1
  <2>8. Replayed(p)'
    <3>1. \A k \in page[p].stale \ (lost[p] \cup Unpublished) :
             \/ Told(page[p].pending, pipe[p], Len(pipe[p]), k) \/ k \in s.batch
             \/ \E id \in 1..Len(log) : id > pruned /\ id > s.cursor /\ log[id] = k
      BY <2>1, <2>6, <2>7
    <3> QED
      BY <1>2, <2>3, <3>1 DEF Replayed, Told
  <2>9. Finished(p)'
    <3> SUFFICES ASSUME s.at \in {"finishing", "listening"}, ~s.wake,
                        NEW k \in page[p].stale \ (lost[p] \cup Unannounced)
                 PROVE  Told(page[p].pending, pipe[p], Len(pipe[p]), k) \/ k \in s.batch
      BY <1>2, <2>3 DEF Finished, Told
    <3>1. Max(batch) = Len(log)
      BY <1>3, <1>6, <1>10, <2>1
    <3>2. k \notin Unpublished
      BY DEF Unpublished, Unannounced
    <3>3. \A id \in 1..Len(log) : ~(id > Max(batch))
      BY <1>2, <3>1
    <3> QED
      BY <2>1, <2>6, <3>2, <3>3
  <2> QED
    BY <1>1, <1>2, <2>1, <2>2, <2>5, <2>8, <2>9, StreamStep DEF FeedShape
<1> QED
  BY <1>9, <1>10

\* A stream decides: it starts over with a message about everything, or it
\* resumes above a cursor nothing was pruned beyond, unless that is lost.
LEMMA FeedDecide ==
    ASSUME ConstantsFit, FeedInv, NEW p \in Tabs, NEW oldest \in {Oldest, {}}, Decide(p, oldest)
    PROVE  FeedInv'
<1> DEFINE cursor == stream[p].cursor
           latest == stream[p].latest
           reset  == cursor = 0 \/ Invalid(cursor, latest, oldest)
           s == [stream[p] EXCEPT !.at = IF reset THEN "listening" ELSE "replaying",
                                  !.cursor = IF reset THEN latest ELSE cursor, !.latest = 0]
<1>1. FeedShape /\ PageInv(p) /\ stream[p] \in Stream /\ page[p] \in Page /\ PageShape(p)
  BY DEF FeedInv, FeedShape, PageInv
<1>2. /\ log \in Seq(Kinds) /\ Len(log) \in Nat /\ pruned \in Nat /\ pruned <= Len(log)
      /\ Unpublished' = Unpublished /\ Unannounced' = Unannounced
      /\ stream[p].at = "measured" /\ stream[p].batch = {}
      /\ cursor \in Nat /\ latest \in Nat /\ latest <= Len(log)
      /\ cursor = page[p].cursor /\ cursor <= Len(log)
      /\ UNCHANGED <<log, pruned, publisher, page>>
      /\ pipe[p] \in Seq(Message) /\ Len(pipe[p]) = 0
  BY <1>1 DEF FeedShape, PageShape, Decide, Unpublished, Unannounced, Stream
<1>3. s \in Stream /\ s.batch = {} /\ s.latest = 0
        /\ s.at = (IF reset THEN "listening" ELSE "replaying")
        /\ s.cursor = (IF reset THEN latest ELSE cursor)
  BY <1>1, <1>2 DEF Stream
<1>4. stream' = [stream EXCEPT ![p] = s]
  BY DEF Decide
<1>5. /\ pipe' = IF reset
                 THEN [pipe EXCEPT ![p] = Append(@, [cursor |-> latest, kinds |-> Kinds])]
                 ELSE pipe
      /\ lost' = IF ~reset /\ oldest = {}
                 THEN [lost EXCEPT ![p] = @ \cup KindsOf(cursor + 1 .. pruned)] ELSE lost
  BY DEF Decide
<1>6. \A id \in cursor + 1 .. pruned : id \in 1..Len(log) /\ log[id] \in Kinds
                                        /\ log[id] \in KindsOf(cursor + 1 .. pruned)
  BY <1>2 DEF KindsOf
<1>7. KindsOf(cursor + 1 .. pruned) \subseteq Kinds
  BY <1>6 DEF KindsOf
<1>8. ~reset /\ oldest # {} => cursor >= pruned
  <2> SUFFICES ASSUME ~reset, oldest # {} PROVE cursor >= pruned
    OBVIOUS
  <2>1. PICK id \in Oldest : id = pruned + 1 /\ oldest = Oldest
    BY DEF Oldest
  <2>2. ~(cursor < id - 1) /\ cursor # 0 /\ cursor > 0
    BY <1>2, <2>1 DEF Invalid
  <2> QED
    BY <1>2, <2>1, <2>2
<1> HIDE DEF s, reset
<1>9. stream'[p] = s /\ \A q \in Tabs \ {p} : stream'[q] = stream[q]
  BY <1>1, <1>4 DEF FeedShape
<1>10. stream' \in [Tabs -> Stream]
  BY <1>1, <1>3, <1>4 DEF FeedShape
<1>11. CASE reset
  <2> DEFINE m == [cursor |-> latest, kinds |-> Kinds]
             told == Append(pipe[p], m)
  <2>1. m \in Message /\ m.cursor = latest /\ m.kinds = Kinds
    BY <1>2 DEF Message
  <2> HIDE DEF m
  <2>2. told \in Seq(Message) /\ Len(told) = 1 /\ told[1] = m
    BY <1>2, <2>1
  <2> HIDE DEF told
  <2>3. pipe' = [pipe EXCEPT ![p] = told] /\ lost' = lost
    BY <1>5, <1>11 DEF m, told
  <2>4. pipe' \in [Tabs -> Seq(Message)] /\ pipe'[p] = told
          /\ \A q \in Tabs \ {p} : pipe'[q] = pipe[q]
    BY <1>1, <2>2, <2>3 DEF FeedShape
  <2>5. PageShape(p)'
    <3>1. s.at = "listening" /\ s.cursor = latest
      BY <1>3, <1>11
    <3>2. \A i \in 1..Len(told) : told[i].cursor = latest
      BY <2>1, <2>2
    <3>3. Len(told) <= PipeLimit
      BY <2>2 DEF ConstantsFit
    <3>4. page'[p].cursor <= Len(log') /\ stream'[p].cursor <= Len(log')
            /\ stream'[p].latest <= Len(log')
      BY <1>1, <1>2, <1>3, <1>9, <3>1 DEF PageShape
    <3>5. \A i, j \in 1..Len(told) : told[i].cursor <= told[j].cursor
      BY <1>2, <3>2
    <3>6. \A i \in 1..Len(told) : told[i].cursor <= s.cursor
      BY <1>2, <3>1, <3>2
    <3> QED
      BY <1>3, <1>9, <2>4, <3>1, <3>3, <3>4, <3>5, <3>6 DEF PageShape
  <2>6. \A k \in page[p].stale : k \in Kinds
    BY <1>1 DEF Page
  <2>7. \A k \in page[p].stale : Told(page[p].pending, told, 1, k)
    BY <2>1, <2>2, <2>6 DEF Told
  <2>8. Promised(p)'
    BY <1>1, <1>2, <2>2, <2>3, <2>4, <2>7 DEF PageInv, Promised, Above, Told
  <2>9. Replayed(p)' /\ Finished(p)'
    BY <1>2, <2>2, <2>4, <2>7 DEF Replayed, Finished, Told
  <2> QED
    BY <1>1, <1>2, <1>9, <1>10, <2>3, <2>4, <2>5, <2>8, <2>9, OnePage DEF PageInv, FeedShape
<1>12. CASE ~reset
  <2>1. lost' \in [Tabs -> SUBSET Kinds] /\ lost[p] \subseteq lost'[p]
          /\ \A q \in Tabs \ {p} : lost'[q] = lost[q]
    BY <1>1, <1>5, <1>7 DEF FeedShape
  <2>2. oldest = {} => KindsOf(cursor + 1 .. pruned) \subseteq lost'[p]
    BY <1>1, <1>5, <1>12 DEF FeedShape
  <2>3. UNCHANGED pipe /\ s.at = "replaying" /\ s.cursor = cursor
    BY <1>3, <1>5, <1>12
  <2>4. PageShape(p)'
    BY <1>1, <1>2, <1>3, <1>9, <2>3 DEF PageShape
  <2>5. \A k \in page[p].stale \ (lost'[p] \cup Unpublished) :
           \/ k \in page[p].pending
           \/ \E id \in 1..Len(log) : id > pruned /\ id > s.cursor /\ log[id] = k
    <3> SUFFICES ASSUME NEW k \in page[p].stale \ (lost'[p] \cup Unpublished),
                        k \notin page[p].pending
                 PROVE  \E id \in 1..Len(log) : id > pruned /\ id > s.cursor /\ log[id] = k
      OBVIOUS
    <3>1. PICK id \in 1..Len(log) : id > cursor /\ log[id] = k
      BY <1>1, <1>2, <2>1 DEF PageInv, Promised, Above
    <3>2. ~(id <= pruned)
      BY <1>2, <1>6, <1>8, <1>12, <2>2, <3>1
    <3> QED
      BY <1>2, <2>3, <3>1, <3>2
  <2>6. Replayed(p)'
    BY <1>2, <1>9, <2>3, <2>5 DEF Replayed, Told
  <2>7. Finished(p)'
    BY <1>9, <2>3 DEF Finished
  <2> QED
    BY <1>2, <1>3, <1>4, <2>1, <2>3, <2>4, <2>6, <2>7, StreamStep
<1> QED
  BY <1>11, <1>12

\* What is sent moves from the batch to the channel.
LEMMA FeedSend ==
    ASSUME ConstantsFit, FeedInv, NEW p \in Tabs, Send(p)
    PROVE  FeedInv'
<1> DEFINE m == [cursor |-> stream[p].cursor, kinds |-> stream[p].batch]
           sent == Append(pipe[p], m)
           s == [stream[p] EXCEPT !.at = IF stream[p].at = "sending" THEN "replaying"
                                         ELSE "listening", !.batch = {}]
<1>1. FeedShape /\ PageInv(p) /\ stream[p] \in Stream /\ PageShape(p)
  BY DEF FeedInv, FeedShape, PageInv
<1>2. /\ log \in Seq(Kinds) /\ Len(log) \in Nat /\ pruned \in Nat
      /\ Unpublished' = Unpublished /\ Unannounced' = Unannounced
      /\ stream[p].at \in {"sending", "finishing"} /\ stream[p].cursor \in Nat
      /\ UNCHANGED <<log, pruned, publisher, page, lost>>
      /\ pipe[p] \in Seq(Message) /\ Len(pipe[p]) \in Nat /\ Len(pipe[p]) < PipeLimit
      /\ PipeLimit \in Nat
  BY <1>1 DEF FeedShape, PageShape, Send, Unpublished, Unannounced, Stream, ConstantsFit
<1>3. m \in Message /\ m.cursor = stream[p].cursor /\ m.kinds = stream[p].batch
  BY <1>1 DEF Stream, Message
<1>4. /\ s \in Stream /\ s.cursor = stream[p].cursor /\ s.latest = stream[p].latest
      /\ s.batch = {} /\ s.wake = stream[p].wake
      /\ s.at = (IF stream[p].at = "sending" THEN "replaying" ELSE "listening")
  BY <1>1 DEF Stream
<1>5. stream' = [stream EXCEPT ![p] = s] /\ pipe' = [pipe EXCEPT ![p] = sent]
  BY DEF Send
<1> HIDE DEF s, m
<1>6. /\ sent \in Seq(Message) /\ Len(sent) = Len(pipe[p]) + 1 /\ sent[Len(pipe[p]) + 1] = m
      /\ \A i \in 1..Len(pipe[p]) : sent[i] = pipe[p][i]
  BY <1>2, <1>3
<1> HIDE DEF sent
<1>7. /\ stream' \in [Tabs -> Stream] /\ pipe' \in [Tabs -> Seq(Message)]
      /\ stream'[p] = s /\ pipe'[p] = sent
      /\ \A q \in Tabs \ {p} : stream'[q] = stream[q] /\ pipe'[q] = pipe[q]
  BY <1>1, <1>4, <1>5, <1>6 DEF FeedShape
<1>8. PageShape(p)'
  <2>1. \A i \in 1..Len(sent) : sent[i].cursor <= s.cursor
    BY <1>1, <1>2, <1>3, <1>4, <1>6 DEF PageShape
  <2>2. \A i, j \in 1..Len(sent) : i <= j => sent[i].cursor <= sent[j].cursor
    <3> SUFFICES ASSUME NEW i \in 1..Len(sent), NEW j \in 1..Len(sent), i <= j
                 PROVE  sent[i].cursor <= sent[j].cursor
      OBVIOUS
    <3>1. CASE j = Len(pipe[p]) + 1
      BY <1>3, <1>4, <1>6, <2>1, <3>1
    <3>2. CASE j # Len(pipe[p]) + 1
      <4>1. i \in 1..Len(pipe[p]) /\ j \in 1..Len(pipe[p])
        BY <1>2, <1>6, <3>2
      <4> QED
        BY <1>1, <1>6, <4>1 DEF PageShape
    <3> QED
      BY <3>1, <3>2
  <2>3. Len(sent) <= PipeLimit
    BY <1>2, <1>6
  <2> QED
    BY <1>1, <1>2, <1>4, <1>7, <2>1, <2>2, <2>3 DEF PageShape
<1>9. ASSUME NEW k, NEW i \in 1..Len(pipe[p]), Told(page[p].pending, pipe[p], i, k)
      PROVE  \A n \in i..Len(sent) : Told(page[p].pending, sent, n, k)
  <2>1. CASE k \in page[p].pending
    BY <2>1 DEF Told
  <2>2. CASE k \notin page[p].pending
    <3>1. PICK j \in 1..i : k \in pipe[p][j].kinds
      BY <1>9, <2>2 DEF Told
    <3>2. j \in 1..Len(pipe[p]) /\ sent[j] = pipe[p][j]
      BY <1>2, <1>6, <3>1
    <3>3. \A n \in i..Len(sent) : j \in 1..n
      BY <1>2, <1>6, <3>1
    <3> QED
      BY <3>1, <3>2, <3>3 DEF Told
  <2> QED
    BY <2>1, <2>2
<1>10. ASSUME NEW k, Told(page[p].pending, pipe[p], Len(pipe[p]), k) \/ k \in stream[p].batch
       PROVE  Told(page[p].pending, sent, Len(sent), k)
  <2>1. Len(sent) \in 1..Len(sent)
    BY <1>2, <1>6
  <2>2. CASE k \in stream[p].batch
    BY <1>3, <1>6, <2>1, <2>2 DEF Told
  <2>3. CASE Told(page[p].pending, pipe[p], Len(pipe[p]), k) /\ Len(pipe[p]) = 0
    <3>1. k \in page[p].pending
      BY <2>3 DEF Told
    <3> QED
      BY <3>1 DEF Told
  <2>4. CASE Told(page[p].pending, pipe[p], Len(pipe[p]), k) /\ Len(pipe[p]) # 0
    <3>1. Len(pipe[p]) \in 1..Len(pipe[p]) /\ Len(sent) \in Len(pipe[p])..Len(sent)
      BY <1>2, <1>6, <2>4
    <3> QED
      BY <1>9, <2>4, <3>1
  <2> QED
    BY <1>10, <2>2, <2>3, <2>4
<1>11. Promised(p)'
  <2> SUFFICES ASSUME NEW k \in page[p].stale \ (lost[p] \cup Unpublished)
               PROVE  /\ k \in page[p].pending \/ Above(log, page[p].cursor, k)
                      /\ \A i \in 1..Len(sent) :
                            Told(page[p].pending, sent, i, k) \/ Above(log, sent[i].cursor, k)
    BY <1>2, <1>7 DEF Promised
  <2>1. k \in page[p].pending \/ Above(log, page[p].cursor, k)
    BY <1>1 DEF PageInv, Promised
  <2>2. ASSUME NEW i \in 1..Len(sent)
        PROVE  Told(page[p].pending, sent, i, k) \/ Above(log, sent[i].cursor, k)
    <3>1. CASE i = Len(pipe[p]) + 1
      <4>1. \/ Told(page[p].pending, pipe[p], Len(pipe[p]), k) \/ k \in stream[p].batch
            \/ Above(log, stream[p].cursor, k)
        BY <1>1, <1>2 DEF PageInv, Replayed, Above
      <4> QED
        BY <1>3, <1>6, <1>10, <3>1, <4>1
    <3>2. CASE i # Len(pipe[p]) + 1
      <4>1. i \in 1..Len(pipe[p]) 
        BY <1>2, <1>6, <3>2
      <4>2. Told(page[p].pending, pipe[p], i, k) \/ Above(log, pipe[p][i].cursor, k)
        BY <1>1, <4>1 DEF PageInv, Promised
      <4> QED
        BY <1>2, <1>6, <1>9, <4>1, <4>2
    <3> QED
      BY <3>1, <3>2
  <2> QED
    BY <2>1, <2>2
<1>12. Replayed(p)'
  <2>1. \A k \in page[p].stale \ (lost[p] \cup Unpublished) :
           \/ Told(page[p].pending, sent, Len(sent), k)
           \/ \E id \in 1..Len(log) : id > pruned /\ id > stream[p].cursor /\ log[id] = k
    BY <1>1, <1>2, <1>10 DEF PageInv, Replayed
  <2> QED
    BY <1>2, <1>4, <1>7, <2>1 DEF Replayed, Told
<1>13. Finished(p)'
  <2>1. s.at = "listening" /\ ~s.wake =>
           \A k \in page[p].stale \ (lost[p] \cup Unannounced) : Told(page[p].pending, sent, Len(sent), k)
    BY <1>1, <1>2, <1>4, <1>10 DEF PageInv, Finished
  <2> QED
    BY <1>2, <1>4, <1>7, <2>1 DEF Finished, Told
<1> QED
  BY <1>1, <1>2, <1>7, <1>8, <1>11, <1>12, <1>13, OnePage DEF PageInv, FeedShape

\* The page takes the first message: what every longer prefix told it, it
\* will now be told by one message less.
LEMMA FeedReceive ==
    ASSUME ConstantsFit, FeedInv, NEW p \in Tabs, Receive(p)
    PROVE  FeedInv'
<1> DEFINE m == Head(pipe[p])
           left == Tail(pipe[p])
           g == [page[p] EXCEPT !.cursor = m.cursor, !.pending = @ \cup m.kinds]
<1>1. FeedShape /\ PageInv(p) /\ stream[p] \in Stream /\ PageShape(p) /\ page[p] \in Page
  BY DEF FeedInv, FeedShape, PageInv
<1>2. /\ log \in Seq(Kinds) /\ Len(log) \in Nat /\ pruned \in Nat
      /\ Unpublished' = Unpublished /\ Unannounced' = Unannounced
      /\ stream[p].cursor \in Nat
      /\ UNCHANGED <<log, pruned, publisher, stream, lost>>
      /\ pipe[p] \in Seq(Message) /\ Len(pipe[p]) \in Nat /\ pipe[p] # <<>>
      /\ PipeLimit \in Nat
  BY <1>1 DEF FeedShape, PageShape, Receive, Unpublished, Unannounced, Stream, ConstantsFit
<1>3. /\ m = pipe[p][1] /\ m \in Message /\ left \in Seq(Message)
      /\ Len(left) = Len(pipe[p]) - 1 /\ Len(pipe[p]) > 0
      /\ \A i \in 1..Len(left) : left[i] = pipe[p][i + 1]
  BY <1>2
<1>4. /\ g \in Page /\ g.cursor = m.cursor /\ g.stale = page[p].stale
      /\ g.pending = page[p].pending \cup m.kinds
  BY <1>1, <1>3 DEF Page, Message
<1>5. page' = [page EXCEPT ![p] = g] /\ pipe' = [pipe EXCEPT ![p] = left]
  BY DEF Receive
<1> HIDE DEF g, m, left
<1>6. /\ page' \in [Tabs -> Page] /\ pipe' \in [Tabs -> Seq(Message)]
      /\ page'[p] = g /\ pipe'[p] = left
      /\ \A q \in Tabs \ {p} : page'[q] = page[q] /\ pipe'[q] = pipe[q]
  BY <1>1, <1>3, <1>4, <1>5 DEF FeedShape
<1>7. stream[p].at \notin {"closed", "subscribed", "measured"}
  BY <1>1, <1>3 DEF PageShape
<1>8. PageShape(p)'
  <2>1. 1 \in 1..Len(pipe[p]) /\ m.cursor \in Nat
    BY <1>3 DEF Message
  <2>2. m.cursor <= stream[p].cursor /\ stream[p].cursor <= Len(log)
    BY <1>1, <1>3, <2>1 DEF PageShape
  <2>3. m.cursor <= Len(log)
    BY <1>2, <2>1, <2>2
  <2>4. \A i \in 1..Len(left) : i + 1 \in 1..Len(pipe[p])
    BY <1>2, <1>3
  <2>5. \A i \in 1..Len(left) : left[i].cursor <= stream[p].cursor
    BY <1>1, <1>3, <2>4 DEF PageShape
  <2>6. ASSUME NEW i \in 1..Len(left), NEW j \in 1..Len(left), i <= j
        PROVE  left[i].cursor <= left[j].cursor
    <3>1. i + 1 <= j + 1
      BY <2>6
    <3> QED
      BY <1>1, <1>3, <2>4, <3>1 DEF PageShape
  <2>7. Len(left) <= PipeLimit
    BY <1>1, <1>2, <1>3 DEF PageShape
  <2> QED
    BY <1>1, <1>2, <1>4, <1>6, <1>7, <2>3, <2>5, <2>6, <2>7 DEF PageShape
<1>9. ASSUME NEW k, NEW n \in 1..Len(pipe[p]), Told(page[p].pending, pipe[p], n, k)
      PROVE  Told(g.pending, left, n - 1, k)
  <2>1. k \in page[p].pending \cup m.kinds \/ \E i \in 1..n - 1 : k \in left[i].kinds
    <3>1. CASE k \in page[p].pending
      BY <3>1
    <3>2. CASE k \notin page[p].pending
      <4>1. PICK j \in 1..n : k \in pipe[p][j].kinds
        BY <1>9, <3>2 DEF Told
      <4>2. CASE j = 1
        BY <1>3, <4>1, <4>2
      <4>3. CASE j # 1
        <5>1. PICK i \in 1..n - 1 : i = j - 1
          BY <1>2, <4>3
        <5>2. i \in 1..Len(left) /\ left[i] = pipe[p][j]
          BY <1>2, <1>3, <5>1
        <5> QED
          BY <4>1, <5>1, <5>2
      <4> QED
        BY <4>2, <4>3
    <3> QED
      BY <3>1, <3>2
  <2> QED
    BY <1>4, <2>1 DEF Told
<1>10. Promised(p)'
  <2> SUFFICES ASSUME NEW k \in page[p].stale \ (lost[p] \cup Unpublished)
               PROVE  /\ k \in g.pending \/ Above(log, m.cursor, k)
                      /\ \A i \in 1..Len(left) :
                            Told(g.pending, left, i, k) \/ Above(log, left[i].cursor, k)
    BY <1>2, <1>4, <1>6 DEF Promised
  <2>1. \A n \in 1..Len(pipe[p]) :
           Told(page[p].pending, pipe[p], n, k) \/ Above(log, pipe[p][n].cursor, k)
    BY <1>1 DEF PageInv, Promised
  <2>2. k \in g.pending \/ Above(log, m.cursor, k)
    <3>1. 1 \in 1..Len(pipe[p])
      BY <1>2, <1>3
    <3>2. Told(page[p].pending, pipe[p], 1, k) => Told(g.pending, left, 0, k)
      BY <1>9, <3>1
    <3>3. Told(g.pending, left, 0, k) => k \in g.pending
      BY DEF Told
    <3> QED
      BY <1>3, <2>1, <3>1, <3>2, <3>3
  <2>3. ASSUME NEW i \in 1..Len(left)
        PROVE  Told(g.pending, left, i, k) \/ Above(log, left[i].cursor, k)
    <3>1. PICK n \in 1..Len(pipe[p]) : n = i + 1
      BY <1>2, <1>3
    <3>2. n - 1 = i
      BY <3>1
    <3>3. Told(page[p].pending, pipe[p], n, k) => Told(g.pending, left, i, k)
      BY <1>9, <3>2
    <3> QED
      BY <1>3, <2>1, <3>1, <3>3
  <2> QED
    BY <2>2, <2>3
<1>11. \A k : Told(page[p].pending, pipe[p], Len(pipe[p]), k) =>
                Told(g.pending, left, Len(left), k)
  <2>1. Len(pipe[p]) \in 1..Len(pipe[p]) /\ Len(pipe[p]) - 1 = Len(left)
    BY <1>2, <1>3
  <2> QED
    BY <1>9, <2>1
<1>12. Replayed(p)'
  BY <1>1, <1>2, <1>4, <1>6, <1>7, <1>11 DEF PageInv, Replayed
<1>13. Finished(p)'
  BY <1>1, <1>2, <1>4, <1>6, <1>11 DEF PageInv, Finished
<1> QED
  BY <1>1, <1>2, <1>6, <1>8, <1>10, <1>12, <1>13, OnePage DEF PageInv, FeedShape

\* What the page fetches again is neither stale nor lost to it any more.
LEMMA FeedFlush ==
    ASSUME ConstantsFit, FeedInv, NEW p \in Tabs, Flush(p)
    PROVE  FeedInv'
<1> DEFINE g == [page[p] EXCEPT !.stale = @ \ page[p].pending, !.pending = {}]
<1>1. FeedShape /\ PageInv(p) /\ page[p] \in Page
  BY DEF FeedInv, FeedShape
<1>2. /\ Unpublished' = Unpublished /\ Unannounced' = Unannounced
      /\ UNCHANGED <<log, pruned, publisher, stream, pipe>>
      /\ page' = [page EXCEPT ![p] = g]
      /\ lost' = [lost EXCEPT ![p] = @ \ page[p].pending]
  BY DEF Flush, Unpublished, Unannounced
<1>3. /\ g \in Page /\ g.cursor = page[p].cursor /\ g.pending = {}
      /\ g.stale = page[p].stale \ page[p].pending
  BY <1>1 DEF Page
<1> HIDE DEF g
<1>4. /\ page' \in [Tabs -> Page] /\ lost' \in [Tabs -> SUBSET Kinds]
      /\ page'[p] = g /\ lost'[p] = lost[p] \ page[p].pending
      /\ \A q \in Tabs \ {p} : page'[q] = page[q] /\ lost'[q] = lost[q]
  BY <1>1, <1>2, <1>3 DEF FeedShape
<1>5. PageShape(p)'
  BY <1>1, <1>2, <1>3, <1>4 DEF PageInv, PageShape
\* Only kinds that are not refetched now are still due.
<1>6. \A S : \A k \in g.stale \ (lost'[p] \cup S) :
         k \in page[p].stale \ (lost[p] \cup S) /\ k \notin page[p].pending
  BY <1>3, <1>4
<1>7. \A n, k : k \notin page[p].pending /\ Told(page[p].pending, pipe[p], n, k) =>
                  Told(g.pending, pipe[p], n, k)
  BY DEF Told
<1>8. Promised(p)'
  BY <1>1, <1>2, <1>3, <1>4, <1>6, <1>7 DEF PageInv, Promised
<1>9. Replayed(p)'
  BY <1>1, <1>2, <1>4, <1>6, <1>7 DEF PageInv, Replayed
<1>10. Finished(p)'
  BY <1>1, <1>2, <1>4, <1>6, <1>7 DEF PageInv, Finished
<1> QED
  BY <1>1, <1>2, <1>4, <1>5, <1>8, <1>9, <1>10, OnePage DEF PageInv, FeedShape

\* A connection that ends leaves the page with the cursor it has stored.
LEMMA FeedCloses ==
    ASSUME FeedInv, NEW P \in SUBSET Tabs, NEW q \in P, Disconnected(P),
           UNCHANGED <<log, pruned>>, page'[q].cursor = page[q].cursor,
           ConstantsFit
    PROVE  /\ stream' \in [Tabs -> Stream] /\ pipe' \in [Tabs -> Seq(Message)]
           /\ PageShape(q)' /\ Replayed(q)' /\ Finished(q)'
           /\ stream'[q] = Closed /\ Len(pipe'[q]) = 0
<1>1. FeedShape /\ PageShape(q) /\ q \in Tabs
  BY DEF FeedInv, PageInv
<1>2. Closed \in Stream /\ <<>> \in Seq(Message) /\ Closed.at = "closed"
        /\ Closed.cursor = 0 /\ Closed.latest = 0 /\ Closed.batch = {}
  BY DEF Closed, Stream
<1>3. /\ stream' \in [Tabs -> Stream] /\ pipe' \in [Tabs -> Seq(Message)]
      /\ stream'[q] = Closed /\ pipe'[q] = <<>>
  BY <1>1, <1>2 DEF FeedShape, Disconnected
<1>4. log \in Seq(Kinds) /\ Len(log) \in Nat
  BY <1>1 DEF FeedShape
<1>5. PageShape(q)'
  BY <1>1, <1>2, <1>3, <1>4 DEF PageShape, ConstantsFit
<1>6. Replayed(q)' /\ Finished(q)'
  BY <1>2, <1>3 DEF Replayed, Finished
<1> QED
  BY <1>3, <1>5, <1>6

LEMMA FeedLeave ==
    ASSUME ConstantsFit, FeedInv, NEW p \in Tabs, Disconnect(p) \/ Reload(p)
    PROVE  FeedInv'
<1>1. FeedShape /\ PageInv(p) /\ page[p] \in Page
  BY DEF FeedInv, FeedShape
<1>2. /\ Unpublished' = Unpublished /\ UNCHANGED <<log, pruned, publisher>>
      /\ Disconnected({p})
  BY DEF Disconnect, Reload, Unpublished
<1>3. \A q \in Tabs \ {p} : stream'[q] = stream[q] /\ pipe'[q] = pipe[q]
  BY <1>2 DEF Disconnected
<1>4. CASE Disconnect(p)
  <2>1. UNCHANGED <<page, lost>>
    BY <1>4 DEF Disconnect
  <2>2. /\ stream' \in [Tabs -> Stream] /\ pipe' \in [Tabs -> Seq(Message)]
        /\ PageShape(p)' /\ Replayed(p)' /\ Finished(p)' /\ Len(pipe'[p]) = 0
    BY <1>2, <2>1, FeedCloses
  <2>3. Promised(p)'
    BY <1>1, <1>2, <2>1, <2>2 DEF PageInv, Promised, Above
  <2> QED
    BY <1>1, <1>2, <1>3, <2>1, <2>2, <2>3, OnePage DEF PageInv, FeedShape
<1>5. CASE Reload(p)
  <2> DEFINE g == [page[p] EXCEPT !.stale = {}, !.pending = {}]
  <2>1. g \in Page /\ g.cursor = page[p].cursor /\ g.stale = {}
    BY <1>1 DEF Page
  <2>2. page' = [page EXCEPT ![p] = g] /\ lost' = [lost EXCEPT ![p] = {}]
    BY <1>5 DEF Reload
  <2> HIDE DEF g
  <2>3. /\ page' \in [Tabs -> Page] /\ lost' \in [Tabs -> SUBSET Kinds] /\ page'[p] = g
        /\ \A q \in Tabs \ {p} : page'[q] = page[q] /\ lost'[q] = lost[q]
    BY <1>1, <2>1, <2>2 DEF FeedShape
  <2>4. /\ stream' \in [Tabs -> Stream] /\ pipe' \in [Tabs -> Seq(Message)]
        /\ PageShape(p)' /\ Replayed(p)' /\ Finished(p)'
    BY <1>2, <2>1, <2>3, FeedCloses
  <2>5. Promised(p)'
    BY <2>1, <2>3 DEF Promised
  <2> QED
    BY <1>2, <1>3, <2>3, <2>4, <2>5, OnePage DEF PageInv
<1> QED
  BY <1>4, <1>5

-----------------------------------------------------------------------------
(***************************************************************************)
(* Steps that every page is exposed to.                                    *)
(***************************************************************************)
LEMMA FeedAppend ==
    ASSUME ConstantsFit, FeedInv, NEW u \in Publishers, AppendEvent(u)
    PROVE  FeedInv'
<1> DEFINE kind == publisher[u].kind
<1>1. FeedShape /\ FeedShape'
  BY ShapePublishing DEF FeedInv, Publishing
<1>2. /\ UNCHANGED <<pruned, stream, pipe, page, lost>> /\ log' = Append(log, kind)
      /\ publisher[u].at = "changed"
      /\ publisher' = [publisher EXCEPT ![u].at = "appended"]
  BY DEF AppendEvent
<1>3. publisher[u] \in Publisher /\ kind \in Kinds /\ log \in Seq(Kinds) /\ Len(log) \in Nat
        /\ pruned \in Nat /\ pruned <= Len(log)
  BY <1>1, <1>2 DEF FeedShape, Publisher
<1>4. /\ Len(log') = Len(log) + 1 /\ log'[Len(log) + 1] = kind
      /\ \A id \in 1..Len(log) : log'[id] = log[id]
  BY <1>2, <1>3
<1>5. /\ publisher'[u].at = "appended" /\ publisher'[u].kind = kind
      /\ \A v \in Publishers \ {u} : publisher'[v] = publisher[v]
  BY <1>1, <1>2 DEF FeedShape, Publisher
<1>6. \A k \in Unpublished : k \in Unpublished' \/ k = kind
  BY <1>5 DEF Unpublished
<1>7. \A k \in Unannounced : k \in Unannounced'
  BY <1>2, <1>5 DEF Unannounced
<1> HIDE DEF kind
<1>8. \A c, k : Above(log, c, k) => Above(log', c, k)
  BY <1>3, <1>4 DEF Above
<1>9. \A c \in Nat : c <= Len(log) => Above(log', c, kind)
  <2> SUFFICES ASSUME NEW c \in Nat, c <= Len(log) PROVE Above(log', c, kind)
    OBVIOUS
  <2>1. Len(log) + 1 \in 1..Len(log') /\ Len(log) + 1 > c
    BY <1>3, <1>4
  <2> QED
    BY <1>4, <2>1 DEF Above
<1>10. ASSUME NEW q \in Tabs
       PROVE  PageInv(q)'
  <2>1. PageInv(q) /\ stream[q] \in Stream /\ page[q] \in Page /\ pipe[q] \in Seq(Message)
          /\ Len(pipe[q]) \in Nat /\ PageShape(q)
    BY <1>1 DEF FeedInv, FeedShape, PageInv
  <2>2. /\ page[q].cursor \in Nat /\ page[q].cursor <= Len(log)
        /\ stream[q].cursor \in Nat /\ stream[q].cursor <= Len(log)
        /\ stream[q].latest \in Nat /\ stream[q].latest <= Len(log)
    BY <2>1 DEF PageShape, Page, Stream
  <2>3. ASSUME NEW i \in 1..Len(pipe[q])
        PROVE  pipe[q][i].cursor \in Nat /\ pipe[q][i].cursor <= Len(log)
    <3>1. pipe[q][i] \in Message /\ pipe[q][i].cursor <= stream[q].cursor
      BY <2>1 DEF PageShape
    <3> QED
      BY <1>3, <2>2, <3>1 DEF Message
  <2>4. PageShape(q)'
    BY <1>2, <1>3, <1>4, <2>1, <2>2 DEF PageShape
  <2>5. Promised(q)'
    <3> SUFFICES ASSUME NEW k \in page[q].stale \ (lost[q] \cup Unpublished')
                 PROVE  /\ k \in page[q].pending \/ Above(log', page[q].cursor, k)
                        /\ \A i \in 1..Len(pipe[q]) :
                              \/ Told(page[q].pending, pipe[q], i, k)
                              \/ Above(log', pipe[q][i].cursor, k)
      BY <1>2 DEF Promised
    <3>1. CASE k = kind
      BY <1>9, <2>2, <2>3, <3>1
    <3>2. CASE k # kind
      BY <1>6, <1>8, <2>1, <3>2 DEF PageInv, Promised
    <3> QED
      BY <3>1, <3>2
  <2>6. Replayed(q)'
    <3> SUFFICES ASSUME stream[q].at \notin {"closed", "subscribed", "measured"},
                        NEW k \in page[q].stale \ (lost[q] \cup Unpublished')
                 PROVE  \/ Told(page[q].pending, pipe[q], Len(pipe[q]), k)
                        \/ k \in stream[q].batch
                        \/ \E id \in 1..Len(log') :
                              id > pruned /\ id > stream[q].cursor /\ log'[id] = k
      BY <1>2 DEF Replayed
    <3>1. CASE k = kind
      <4>1. Len(log) + 1 \in 1..Len(log') /\ Len(log) + 1 > pruned
              /\ Len(log) + 1 > stream[q].cursor
        BY <1>3, <1>4, <2>2
      <4> QED
        BY <1>4, <3>1, <4>1
    <3>2. CASE k # kind
      <4>1. \/ Told(page[q].pending, pipe[q], Len(pipe[q]), k) \/ k \in stream[q].batch
            \/ \E id \in 1..Len(log) : id > pruned /\ id > stream[q].cursor /\ log[id] = k
        BY <1>6, <2>1, <3>2 DEF PageInv, Replayed
      <4>2. \A id \in 1..Len(log) : id \in 1..Len(log')
        BY <1>3, <1>4
      <4> QED
        BY <1>4, <4>1, <4>2
    <3> QED
      BY <3>1, <3>2
  <2>7. Finished(q)'
    BY <1>2, <1>7, <2>1 DEF PageInv, Finished
  <2> QED
    BY <2>4, <2>5, <2>6, <2>7 DEF PageInv
<1> QED
  BY <1>1, <1>10 DEF FeedInv

\* A change is unpublished at first; a publisher that gives up loses its kind
\* to every page it is stale on; an announcement wakes every open stream.
LEMMA FeedPublishing ==
    ASSUME ConstantsFit, FeedInv, NEW u \in Publishers,
           Announce(u) \/ PublishingEnds(u) \/ \E k \in Kinds : Change(u, k)
    PROVE  FeedInv'
<1>1. FeedShape /\ FeedShape'
  BY ShapePublishing DEF FeedInv, Publishing
<1>2. log' = log /\ pruned' = pruned /\ pipe' = pipe
  BY DEF Announce, PublishingEnds, Change
<1> SUFFICES ASSUME NEW q \in Tabs PROVE PageInv(q)'
  BY <1>1 DEF FeedInv
<1>3. PageInv(q) /\ stream[q] \in Stream /\ page[q] \in Page /\ lost[q] \subseteq Kinds
  BY <1>1 DEF FeedInv, FeedShape
<1>4. CASE Announce(u)
  <2>1. /\ page' = page /\ lost' = lost /\ publisher[u].at = "appended"
        /\ publisher' = [publisher EXCEPT ![u] = Idle]
        /\ stream'[q] = IF stream[q].at = "closed" THEN stream[q]
                        ELSE [stream[q] EXCEPT !.wake = TRUE]
    BY <1>4 DEF Announce
  <2>2. /\ stream'[q].at = stream[q].at /\ stream'[q].cursor = stream[q].cursor
        /\ stream'[q].latest = stream[q].latest /\ stream'[q].batch = stream[q].batch
        /\ stream[q].at # "closed" => stream'[q].wake
    BY <1>3, <2>1 DEF Stream
  <2>3. Unpublished' = Unpublished
    BY <1>1, <2>1 DEF Unpublished, FeedShape, Idle
  <2>4. PageShape(q)'
    BY <1>2, <1>3, <2>1, <2>2 DEF PageInv, PageShape
  <2>5. Promised(q)'
    BY <1>2, <1>3, <2>1, <2>3 DEF PageInv, Promised
  <2>6. Replayed(q)'
    BY <1>2, <1>3, <2>1, <2>2, <2>3 DEF PageInv, Replayed
  <2>7. Finished(q)'
    BY <2>2 DEF Finished
  <2> QED
    BY <2>4, <2>5, <2>6, <2>7 DEF PageInv
<1>5. CASE PublishingEnds(u)
  <2> DEFINE kind == publisher[u].kind
  <2>1. /\ page' = page /\ stream' = stream
        /\ publisher' = [publisher EXCEPT ![u] = Idle]
        /\ lost'[q] = lost[q] \cup ({kind} \cap page[q].stale)
    BY <1>5 DEF PublishingEnds, Losing
  <2>2. \A k \in Unpublished : k \in Unpublished' \/ k = kind
    BY <1>1, <2>1 DEF Unpublished, FeedShape
  <2>3. \A k \in Unannounced : k \in Unannounced' \/ k = kind
    BY <1>1, <2>1 DEF Unannounced, FeedShape
  <2> HIDE DEF kind
  <2>4. /\ \A k \in page[q].stale \ (lost'[q] \cup Unpublished') :
              k \in page[q].stale \ (lost[q] \cup Unpublished)
        /\ \A k \in page[q].stale \ (lost'[q] \cup Unannounced') :
              k \in page[q].stale \ (lost[q] \cup Unannounced)
    BY <2>1, <2>2, <2>3
  <2>5. PageShape(q)'
    BY <1>2, <1>3, <2>1 DEF PageInv, PageShape
  <2>6. Promised(q)'
    BY <1>2, <1>3, <2>1, <2>4 DEF PageInv, Promised
  <2>7. Replayed(q)'
    BY <1>2, <1>3, <2>1, <2>4 DEF PageInv, Replayed
  <2>8. Finished(q)'
    BY <1>2, <1>3, <2>1, <2>4 DEF PageInv, Finished
  <2> QED
    BY <2>5, <2>6, <2>7, <2>8 DEF PageInv
<1>6. ASSUME NEW kind \in Kinds, Change(u, kind)
      PROVE  PageInv(q)'
  <2>1. /\ lost' = lost /\ stream' = stream /\ publisher[u].at = "idle"
        /\ publisher' = [publisher EXCEPT ![u] = [at |-> "changed", kind |-> kind]]
        /\ page'[q] = [page[q] EXCEPT !.stale = @ \cup {kind}]
    BY <1>6 DEF Change
  <2>2. /\ page'[q].cursor = page[q].cursor /\ page'[q].pending = page[q].pending
        /\ page'[q].stale = page[q].stale \cup {kind}
    BY <1>3, <2>1 DEF Page
  <2>3. kind \in Unpublished' /\ kind \in Unannounced'
    BY <1>1, <2>1 DEF Unpublished, Unannounced, FeedShape
  <2>4. Unpublished \subseteq Unpublished' /\ Unannounced \subseteq Unannounced'
    BY <1>1, <2>1 DEF Unpublished, Unannounced, FeedShape
  <2>5. /\ \A k \in page'[q].stale \ (lost'[q] \cup Unpublished') :
              k \in page[q].stale \ (lost[q] \cup Unpublished)
        /\ \A k \in page'[q].stale \ (lost'[q] \cup Unannounced') :
              k \in page[q].stale \ (lost[q] \cup Unannounced)
    BY <2>1, <2>2, <2>3, <2>4
  <2>6. PageShape(q)'
    BY <1>2, <1>3, <2>1, <2>2 DEF PageInv, PageShape
  <2>7. Promised(q)'
    BY <1>2, <1>3, <2>1, <2>2, <2>5 DEF PageInv, Promised
  <2>8. Replayed(q)'
    BY <1>2, <1>3, <2>1, <2>2, <2>5 DEF PageInv, Replayed
  <2>9. Finished(q)'
    BY <1>2, <1>3, <2>1, <2>2, <2>5 DEF PageInv, Finished
  <2> QED
    BY <2>6, <2>7, <2>8, <2>9 DEF PageInv
<1> QED
  BY <1>4, <1>5, <1>6

\* What retention removes is lost to the streams it overtakes.
LEMMA FeedPrune ==
    ASSUME ConstantsFit, FeedInv, NEW n \in Retained, Prune(n)
    PROVE  FeedInv'
<1> DEFINE behind(p) == stream[p].at \notin {"closed", "subscribed", "measured"}
           gone(p) == KindsOf({id \in After(stream[p].cursor) : id <= n})
<1>1. FeedShape /\ log \in Seq(Kinds) /\ Len(log) \in Nat /\ pruned \in Nat
  BY DEF FeedInv, FeedShape
<1>2. /\ n \in Nat /\ pruned < n /\ n <= Len(log) /\ pruned' = n
      /\ UNCHANGED <<log, publisher, stream, pipe, page>>
      /\ lost' = [p \in Tabs |-> lost[p] \cup IF behind(p) THEN gone(p) ELSE {}]
      /\ Unpublished' = Unpublished /\ Unannounced' = Unannounced
  BY <1>1 DEF Prune, Retained, Unpublished, Unannounced
<1>3. ASSUME NEW p \in Tabs
      PROVE  /\ gone(p) \subseteq Kinds
             /\ \A id \in 1..Len(log) :
                   id > pruned /\ id > stream[p].cursor /\ id <= n => log[id] \in gone(p)
  <2>1. \A id \in After(stream[p].cursor) : id \in 1..Len(log) /\ log[id] \in Kinds
    BY <1>1 DEF After, Retained
  <2>2. \A id \in 1..Len(log) :
           id > pruned /\ id > stream[p].cursor => id \in After(stream[p].cursor)
    BY <1>1 DEF After, Retained
  <2> QED
    BY <2>1, <2>2 DEF KindsOf
<1> HIDE DEF gone
<1>4. lost' \in [Tabs -> SUBSET Kinds]
  BY <1>1, <1>2, <1>3 DEF FeedShape
<1>5. FeedShape'
  BY <1>1, <1>2, <1>4 DEF FeedShape
<1>6. ASSUME NEW p \in Tabs
      PROVE  PageInv(p)'
  <2>1. PageInv(p)
    BY DEF FeedInv
  <2>2. lost'[p] = lost[p] \cup IF behind(p) THEN gone(p) ELSE {}
    BY <1>2
  <2>3. PageShape(p)' /\ Promised(p)'
    BY <1>2, <2>1, <2>2 DEF PageInv, PageShape, Promised
  <2>4. Replayed(p)'
    <3> SUFFICES ASSUME behind(p), NEW k \in page[p].stale \ (lost'[p] \cup Unpublished)
                 PROVE  \/ Told(page[p].pending, pipe[p], Len(pipe[p]), k)
                        \/ k \in stream[p].batch
                        \/ \E id \in 1..Len(log) : id > n /\ id > stream[p].cursor /\ log[id] = k
      BY <1>2 DEF Replayed
    <3>1. \/ Told(page[p].pending, pipe[p], Len(pipe[p]), k) \/ k \in stream[p].batch
          \/ \E id \in 1..Len(log) : id > pruned /\ id > stream[p].cursor /\ log[id] = k
      BY <2>1, <2>2 DEF PageInv, Replayed
    <3>2. \A id \in 1..Len(log) : id > pruned /\ id > stream[p].cursor /\ log[id] = k => id > n
      BY <1>1, <1>2, <1>3, <2>2
    <3> QED
      BY <3>1, <3>2
  <2>5. Finished(p)'
    BY <1>2, <2>1, <2>2 DEF PageInv, Finished
  <2> QED
    BY <2>3, <2>4, <2>5 DEF PageInv
<1> QED
  BY <1>5, <1>6 DEF FeedInv

\* A restart voids the streams and the publishers, not the cursors.
LEMMA InvRestart ==
    ASSUME ConstantsFit, FeedInv, ServerRestart
    PROVE  FeedInv'
<1>1. FeedShape
  BY DEF FeedInv
<1>2. /\ Disconnected(Tabs) /\ UNCHANGED <<log, pruned, page>>
      /\ publisher' = [u \in Publishers |-> Idle]
      /\ lost' = [p \in Tabs |-> lost[p] \cup (Unpublished \cap page[p].stale)]
  BY DEF ServerRestart, Losing, Unpublished
<1>3. publisher' \in [Publishers -> Publisher]
        /\ \A u \in Publishers : publisher'[u].at = "idle" /\ publisher'[u].kind = NoKind
  BY <1>2 DEF Idle, Publisher
<1>4. Unpublished \subseteq Kinds
  BY <1>1 DEF Unpublished, FeedShape, Publisher
<1>5. lost' \in [Tabs -> SUBSET Kinds]
  BY <1>1, <1>2, <1>4 DEF FeedShape
<1>6. ASSUME NEW p \in Tabs
      PROVE  /\ stream' \in [Tabs -> Stream] /\ pipe' \in [Tabs -> Seq(Message)]
             /\ PageInv(p)'
  <2>1. /\ stream' \in [Tabs -> Stream] /\ pipe' \in [Tabs -> Seq(Message)]
        /\ PageShape(p)' /\ Replayed(p)' /\ Finished(p)' /\ Len(pipe'[p]) = 0
    BY <1>2, FeedCloses
  <2>2. \A k \in page[p].stale \ (lost'[p] \cup Unpublished') :
           k \in page[p].stale \ (lost[p] \cup Unpublished)
    BY <1>2
  <2>3. Promised(p)'
    BY <1>2, <2>1, <2>2 DEF FeedInv, PageInv, Promised
  <2> QED
    BY <2>1, <2>3 DEF PageInv
<1>7. stream' \in [Tabs -> Stream] /\ pipe' \in [Tabs -> Seq(Message)]
  <2>1. Closed \in Stream /\ <<>> \in Seq(Message)
    BY DEF Closed, Stream
  <2> QED
    BY <1>2, <2>1 DEF Disconnected
<1> QED
  BY <1>1, <1>2, <1>3, <1>5, <1>6, <1>7 DEF FeedInv, FeedShape

LEMMA InvNext == ConstantsFit /\ FeedInv /\ [FeedNext]_feed => FeedInv'
<1> SUFFICES ASSUME ConstantsFit, FeedInv, [FeedNext]_feed PROVE FeedInv'
  OBVIOUS
<1>1. ASSUME NEW u \in Publishers, Publishing(u) \/ \E k \in Kinds : Change(u, k)
      PROVE  FeedInv'
  BY <1>1, FeedAppend, FeedPublishing DEF Publishing
<1>2. ASSUME NEW p \in Tabs,
             Connect(p) \/ Serving(p) \/ Receive(p) \/ Flush(p) \/ Disconnect(p) \/ Reload(p)
      PROVE  FeedInv'
  BY <1>2, FeedConnect, FeedDecide, FeedRead, FeedSend, FeedReceive, FeedFlush, FeedLeave
     DEF Serving
<1>3. CASE UNCHANGED feed
  <2>1. FeedShape'
    BY <1>3 DEF FeedInv, FeedShape, feed
  <2>2. ASSUME NEW q \in Tabs PROVE PageInv(q)'
    BY <1>3, PageFrame DEF feed
  <2> QED
    BY <2>1, <2>2 DEF FeedInv
<1> QED
  BY <1>1, <1>2, <1>3, FeedPrune, InvRestart DEF FeedNext

\* Every reachable state of the feed has its type; in particular the cursors a
\* page receives never fall back while its stream lives.
THEOREM TypeCorrect == ASSUME ConstantsFit PROVE FeedSpec => []FeedTypeOK
<1>1. FeedInv => FeedTypeOK
  <2> SUFFICES ASSUME FeedInv PROVE FeedTypeOK
    OBVIOUS
  <2>1. FeedShape /\ pruned \in 0..Len(log)
    BY DEF FeedInv, FeedShape
  <2>2. ASSUME NEW p \in Tabs
        PROVE  /\ stream[p].cursor <= Len(log) /\ page[p].cursor <= Len(log)
               /\ Len(pipe[p]) <= PipeLimit
               /\ \A i, j \in DOMAIN pipe[p] :
                     i <= j => pipe[p][i].cursor <= pipe[p][j].cursor
                               /\ pipe[p][j].cursor <= stream[p].cursor
    <3>1. DOMAIN pipe[p] = 1..Len(pipe[p])
      BY <2>1 DEF FeedShape
    <3> QED
      BY <3>1 DEF FeedInv, PageInv, PageShape
  <2> QED
    BY <2>1, <2>2 DEF FeedTypeOK, FeedShape
<1> QED
  BY <1>1, InvInit, InvNext, PTL DEF FeedSpec

\* Whatever the connection, the process and retention do between two of its
\* messages, a page that resumes from its stored cursor hears of every change
\* it has not fetched, if it can be heard of at all.
THEOREM CursorsSkipNothing == ASSUME ConstantsFit PROVE FeedSpec => []NothingIsSkipped
<1>1. FeedInv => NothingIsSkipped
  <2> SUFFICES ASSUME FeedInv, NEW p \in Tabs,
                      NEW k \in page[p].stale \ (lost[p] \cup Unpublished)
               PROVE  k \in page[p].pending \cup KindsOf(page[p].cursor + 1 .. Len(log))
    BY DEF NothingIsSkipped
  <2>1. k \in page[p].pending \/ Above(log, page[p].cursor, k)
    BY DEF FeedInv, PageInv, Promised
  <2>2. log \in Seq(Kinds) /\ page[p] \in Page
    BY DEF FeedInv, FeedShape
  <2>3. page[p].cursor \in Nat /\ Len(log) \in Nat
    BY <2>2 DEF Page
  <2> QED
    BY <2>1, <2>3 DEF Above, KindsOf
<1> QED
  BY <1>1, InvInit, InvNext, PTL DEF FeedSpec

\* No interleaving of an append, its wake-up, a subscription and a replay
\* leaves a page quiet and out of date about something that was announced.
THEOREM QuietPagesAreFresh == ASSUME ConstantsFit PROVE FeedSpec => []QuietIsFresh
<1>1. FeedInv => QuietIsFresh
  <2> SUFFICES ASSUME FeedInv, NEW p \in Tabs,
                      stream[p].at = "listening", ~stream[p].wake,
                      pipe[p] = <<>>, page[p].pending = {},
                      NEW k \in page[p].stale \ (lost[p] \cup Unannounced)
               PROVE  FALSE
    BY DEF QuietIsFresh
  <2>1. stream[p].batch = {}
    BY DEF FeedInv, PageInv, PageShape
  <2>2. Told(page[p].pending, pipe[p], Len(pipe[p]), k)
    BY <2>1 DEF FeedInv, PageInv, Finished
  <2>3. Len(pipe[p]) = 0
    OBVIOUS
  <2> QED
    BY <2>2, <2>3 DEF Told
<1> QED
  BY <1>1, InvInit, InvNext, PTL DEF FeedSpec
=============================================================================
