---------------------------- MODULE ChannelPacks ----------------------------
(***************************************************************************)
(* The decision about one pack of a channel (src/src/api.rs,               *)
(* src/src/channel.rs, src/src/db.rs): requests accept it, reject it, plan *)
(* it again or attach a release to one of its items, all at the same time  *)
(* and each in several queries, while the downloads they start go on.      *)
(*                                                                         *)
(* An item of the pack is a record that Acquisition projects.  A plan is   *)
(* the torrent it downloads; a replacement is an item whose plan replaces  *)
(* a trumped download and therefore needs an import task as well.  Items   *)
(* that have only a clean-up left to do, and no plan, are those of         *)
(* ReplacementImports and PackPlanning.                                    *)
(***************************************************************************)
EXTENDS Naturals, Sequences, FiniteSets

CONSTANTS
    Size,         \* the items of the pack are 1..Size
    Replacements, \* those that replace a trumped download
    Torrents,     \* what can be planned
    Accepts, Rejects, Replans, Attaches, \* the requests, each made once
    ReleaseImports, \* the sets of import states a release can have
    Nil,          \* no torrent, job, key or fingerprint
    MaxFaults     \* bound: failed queries and crashes

Ordinals == 1..Size
PackRequests == Accepts \cup Rejects \cup Replans \cup Attaches

\* What the constants are.
ASSUME ChannelPacksAssumption ==
    /\ Size \in Nat \ {0} /\ Replacements \subseteq Ordinals /\ MaxFaults \in Nat
    /\ Nil \notin Torrents
    /\ Accepts \cap (Rejects \cup Replans \cup Attaches) = {}
    /\ Rejects \cap (Replans \cup Attaches) = {} /\ Replans \cap Attaches = {}

VARIABLES
    pack,       \* channel_pack and its channel_pack_item rows
    jobs,       \* download_job of each torrent, for the one profile there is
    imports,    \* torrents with the import task of a replacement
    request,    \* the state of each request
    current,    \* the fingerprint of the preferences, which change once
    faults,     \* bound: failed queries and crashes so far
    overlapped, \* history: two requests were at work on the pack
    passed      \* history: the items that the accept passed over

packs == <<pack, jobs, imports, request, current, faults, overlapped, passed>>

A == INSTANCE Acquisition WITH None <- Nil

MintedKeys == Ordinals \X (1..Cardinality(PackRequests) + 1)

Item == [planState : {"executable", "policy_blocked", "already_downloading", "excluded",
                      "submitted"},
         plan : Torrents \cup {Nil}, job : Torrents \cup {Nil}]
PackJob == [state : {"none", "queued", "active", "complete", "failed"},
            key : MintedKeys \cup {Nil}]
Pack == [decision : {"open", "accepted", "rejected"}, version : 1..Cardinality(PackRequests) + 1,
         fingerprint : 1..2, items : [Ordinals -> Item]]

\* at: what the request does next, to which item.
Request == [at : {"idle", "project", "item", "enqueue", "import", "record", "decide", "replace",
                  "done"},
            item : 0..Size + 1, version : 0..Cardinality(PackRequests) + 1, fingerprint : 0..2,
            items : [Ordinals -> Item], selected : SUBSET Ordinals, selectable : SUBSET Ordinals,
            passed : SUBSET Ordinals, job : Torrents \cup {Nil}]

NoItem    == [planState |-> "policy_blocked", plan |-> Nil, job |-> Nil]
NoJob     == [state |-> "none", key |-> Nil]
NoRequest == [at |-> "idle", item |-> 0, version |-> 0, fingerprint |-> 0,
              items |-> [o \in Ordinals |-> NoItem], selected |-> {}, selectable |-> {},
              passed |-> {}, job |-> Nil]

Coordinated(items) ==
    \A o, p \in Ordinals :
        o # p /\ items[o].planState = "executable" /\ items[p].planState = "executable"
            => items[o].plan # items[p].plan

\* The keys of the downloads are those of this pack, every key names one, and no
\* two items are to download the same torrent, whoever wrote them.
PacksTypeOK ==
    /\ pack \in Pack /\ jobs \in [Torrents -> PackJob] /\ imports \subseteq Torrents
    /\ request \in [PackRequests -> Request] /\ current \in 1..2 /\ faults \in 0..MaxFaults
    /\ overlapped \in BOOLEAN /\ passed \subseteq Ordinals
    /\ \A t, u \in Torrents : t # u /\ jobs[t].key # Nil => jobs[t].key # jobs[u].key
    /\ Coordinated(pack.items)

----------------------------------------------------------------------------
(* Plans.  What a plan chooses is the matter of PackPlanner; here it is    *)
(* any choice of different torrents that are not on their way.             *)

Started(t) == jobs[t].state \in {"queued", "active", "complete"}

PlansOf(o) ==
    {[planState |-> "executable", plan |-> t, job |-> Nil] : t \in {t \in Torrents : ~Started(t)}}
    \cup {NoItem}
    \cup {[NoItem EXCEPT !.planState = "already_downloading"] :
            t \in {t \in Torrents : Started(t)}}

\* What an accept sees of an item besides its rows: how far the clients are with
\* its torrent, whether it is in the library, and the imports of its release,
\* which need not be those of this pack.  Nothing ties it to the job: a client is
\* asked by info hash, which may be unknown as yet, and may have the torrent from
\* elsewhere.
Sight == [progress : {"none", "partial", "done"}, library : BOOLEAN, states : ReleaseImports]

ClientHas(progress) ==
    IF progress = "none" THEN {}
    ELSE {[id |-> "client", done |-> progress = "done", state |-> "downloading"]}

\* project_pack_fulfillment: the recorded job of an item, or the job of its plan.
JobShown(item) ==
    LET torrent == IF item.job # Nil THEN item.job ELSE item.plan
    IN  IF torrent = Nil \/ jobs[torrent].state = "none" THEN Nil
        ELSE [state |-> jobs[torrent].state, variant |-> torrent]

Projected(o, item, sight) ==
    LET live      == ClientHas(sight.progress)
        downloads == {[live |-> d, inLibrary |-> sight.library] : d \in live}
    IN  A!Project([matched |-> TRUE, released |-> TRUE, planState |-> item.planState,
                   plan |-> item.plan, job |-> JobShown(item),
                   variants |-> {[key |-> item.plan, inLibrary |-> sight.library,
                                  eligible |-> TRUE, downloads |-> live]},
                   downloads |-> IF o \in Replacements THEN {} ELSE downloads,
                   replacement |-> IF o \in Replacements
                                   THEN [variant |-> item.plan, complete |-> FALSE,
                                         downloads |-> downloads] ELSE Nil],
                  sight.states, <<>>)

\* An item is passed over for what is known of it elsewhere: it is there, it is on
\* its way without a job of this program, or one of its imports is to be reviewed.
PassedOver(item, shown) ==
    /\ ~shown.selectable
    /\ \/ shown.satisfaction = "satisfied" \/ shown.disposition = "review"
       \/ shown.disposition = "waiting" /\ JobShown(item) = Nil

Views(o, item) ==
    {[selectable |-> shown.selectable, passed |-> PassedOver(item, shown)] :
        shown \in {Projected(o, item, sight) : sight \in Sight}}

----------------------------------------------------------------------------
PacksInit ==
    /\ jobs = [t \in Torrents |-> NoJob] /\ imports = {} /\ current = 1
    /\ \E items \in [Ordinals -> UNION {PlansOf(o) : o \in Ordinals}] :
          /\ Coordinated(items)
          /\ pack = [decision |-> "open", version |-> 1, fingerprint |-> 1, items |-> items]
    /\ request = [r \in PackRequests |-> NoRequest]
    /\ faults = 0 /\ overlapped = FALSE /\ passed = {}

Busy(r) == request[r].at \notin {"idle", "done"}

RequestGoes(r, at) == request' = [request EXCEPT ![r].at = at]
Ends(r)     == request' = [request EXCEPT ![r] = [NoRequest EXCEPT !.at = "done"]]

Loaded(r, at) ==
    /\ request' = [request EXCEPT ![r] = [NoRequest EXCEPT !.at = at, !.items = pack.items,
          !.version = pack.version, !.fingerprint = current]]
    /\ overlapped' = (overlapped \/ \E other \in PackRequests : Busy(other))

\* load_open_pack, for the version the caller has seen.
LoadOpenPack(r, at) ==
    /\ request[r].at = "idle" /\ pack.decision = "open" /\ pack.fingerprint = current
    /\ Loaded(r, at)
    /\ UNCHANGED <<pack, jobs, imports, current, faults, passed>>

\* A failed query ends the request; what it wrote before stays.
Fail(r) ==
    /\ Busy(r) /\ faults < MaxFaults /\ faults' = faults + 1 /\ Ends(r)
    /\ UNCHANGED <<pack, jobs, imports, current, overlapped, passed>>

Crash ==
    /\ faults < MaxFaults /\ faults' = faults + 1
    /\ request' = [r \in PackRequests |->
                      IF Busy(r) THEN [NoRequest EXCEPT !.at = "done"] ELSE request[r]]
    /\ UNCHANGED <<pack, jobs, imports, current, overlapped, passed>>

----------------------------------------------------------------------------
(* accept_channel_pack.                                                    *)

\* The jobs, the clients and the imports are read after the pack.  Either all of
\* the pack is accepted or a selection of it, which must still be selectable.
Project(r) ==
    LET views == [o \in Ordinals |-> Views(o, request[r].items[o])] IN
    /\ request[r].at = "project"
    /\ \E view \in [Ordinals -> UNION {views[o] : o \in Ordinals}] :
          LET selectable == {o \in Ordinals : view[o].selectable}
              over       == {o \in Ordinals : view[o].passed}
              Goes(selected) == request' = [request EXCEPT ![r].at = "item", ![r].item = 1,
                  ![r].selected = selected, ![r].selectable = selectable, ![r].passed = over]
          IN  /\ \A o \in Ordinals : view[o] \in views[o]
              /\ \/ Goes(Ordinals)
                 \/ \E selected \in SUBSET Ordinals \ {{}} :
                       IF selected \subseteq selectable THEN Goes(selected) ELSE Ends(r)
    /\ UNCHANGED <<pack, jobs, imports, current, faults, overlapped, passed>>

Following(r) == [request EXCEPT ![r].at = "item", ![r].item = @ + 1, ![r].job = Nil]

\* The next item: skipped, excluded, or submitted.
Choose(r) ==
    LET o == request[r].item IN
    /\ request[r].at = "item"
    /\ CASE o > Size -> RequestGoes(r, "decide") /\ UNCHANGED pack
         [] o <= Size /\ o \notin request[r].selectable ->
               request' = Following(r) /\ UNCHANGED pack
         [] o <= Size /\ o \in request[r].selectable \ request[r].selected ->
               /\ pack' = [pack EXCEPT !.items[o] =
                     [planState |-> "excluded", plan |-> Nil, job |-> request[r].items[o].job]]
               /\ request' = Following(r)
         [] OTHER -> /\ RequestGoes(r, IF request[r].items[o].plan # Nil THEN "enqueue" ELSE "import")
                     /\ UNCHANGED pack
    /\ UNCHANGED <<jobs, imports, current, faults, overlapped, passed>>

\* create_job: a known key stands for its job whatever became of it; a failed
\* job starts again under the new key.
CreateJob(torrent, key) ==
    IF \E t \in Torrents : jobs[t].key = key THEN jobs
    ELSE IF jobs[torrent].state \in {"none", "failed"}
         THEN [jobs EXCEPT ![torrent] = [state |-> "queued", key |-> key]] ELSE jobs

JobOf(torrent, key) ==
    IF \E t \in Torrents : jobs[t].key = key THEN CHOOSE t \in Torrents : jobs[t].key = key
    ELSE torrent

Enqueue(r) ==
    LET o   == request[r].item
        key == <<o, request[r].version>>
    IN  /\ request[r].at = "enqueue"
        /\ jobs' = CreateJob(request[r].items[o].plan, key)
        /\ request' = [request EXCEPT ![r].job = JobOf(request[r].items[o].plan, key),
              ![r].at = IF o \in Replacements THEN "import" ELSE "record"]
        /\ UNCHANGED <<pack, imports, current, faults, overlapped, passed>>

\* create_replacement_import and its job.
Import(r) ==
    /\ request[r].at = "import" /\ RequestGoes(r, "record")
    /\ imports' = imports \cup ({request[r].job} \ {Nil})
    /\ UNCHANGED <<pack, jobs, current, faults, overlapped, passed>>

\* update_channel_pack_item, whatever the row is by now.
Record(r) ==
    LET o == request[r].item IN
    /\ request[r].at = "record" /\ request' = Following(r)
    /\ pack' = [pack EXCEPT !.items[o] = [planState |-> "submitted",
          plan |-> request[r].items[o].plan, job |-> request[r].job]]
    /\ UNCHANGED <<jobs, imports, current, faults, overlapped, passed>>

\* decide_channel_pack, of an accept or a reject.
Decide(r) ==
    /\ request[r].at = "decide" /\ Ends(r)
    /\ pack' = [pack EXCEPT !.decision = IF r \in Accepts THEN "accepted" ELSE "rejected"]
    /\ passed' = request[r].passed
    /\ UNCHANGED <<jobs, imports, current, faults, overlapped>>

Accept(r) == LoadOpenPack(r, "project") \/ Project(r) \/ Choose(r) \/ Enqueue(r) \/ Import(r)
                \/ Record(r) \/ Decide(r)

Reject(r) == LoadOpenPack(r, "decide") \/ Decide(r)

----------------------------------------------------------------------------
(* replan_channel_pack and attach_channel_pack_item.                       *)

\* A stale plan may be replaced by a new one.
LoadForReplan(r) ==
    /\ request[r].at = "idle" /\ pack.decision = "open" /\ Loaded(r, "replace")
    /\ UNCHANGED <<pack, jobs, imports, current, faults, passed>>

\* replace_channel_plan: one transaction, whatever was decided meanwhile.
ReplaceChannelPlan(r, items) ==
    [pack EXCEPT !.version = @ + 1, !.fingerprint = request[r].fingerprint, !.items = items]

Replan(r) ==
    \/ LoadForReplan(r)
    \/ /\ request[r].at = "replace" /\ Ends(r)
       /\ \E items \in [Ordinals -> UNION {PlansOf(o) : o \in Ordinals}] :
             Coordinated(items) /\ pack' = ReplaceChannelPlan(r, items)
       /\ UNCHANGED <<jobs, imports, current, faults, overlapped, passed>>

\* The other items are those that were read, some of them perhaps submitted.
Attach(r) ==
    \/ LoadOpenPack(r, "replace")
    \/ /\ request[r].at = "replace" /\ Ends(r)
       /\ \E o \in Ordinals : \E item \in PlansOf(o) :
             LET items == [request[r].items EXCEPT ![o] = item] IN
                Coordinated(items) /\ pack' = ReplaceChannelPlan(r, items)
       /\ UNCHANGED <<jobs, imports, current, faults, overlapped, passed>>

----------------------------------------------------------------------------
(* The rest of the program: downloads go on, preferences change.           *)

JobGoesOn(t) ==
    /\ \/ /\ jobs[t].state = "queued"
          /\ \E state \in {"active", "failed"} : jobs' = [jobs EXCEPT ![t].state = state]
       \/ /\ jobs[t].state = "active"
          /\ \E state \in {"complete", "failed"} : jobs' = [jobs EXCEPT ![t].state = state]
    /\ UNCHANGED <<pack, imports, request, current, faults, overlapped, passed>>

ChangePreferences ==
    /\ current = 1 /\ current' = 2
    /\ UNCHANGED <<pack, jobs, imports, request, faults, overlapped, passed>>

PacksNext ==
    \/ \E r \in Accepts : Accept(r)
    \/ \E r \in Rejects : Reject(r)
    \/ \E r \in Replans : Replan(r)
    \/ \E r \in Attaches : Attach(r)
    \/ \E r \in PackRequests : Fail(r)
    \/ Crash \/ ChangePreferences \/ \E t \in Torrents : JobGoesOn(t)

PacksSpec == PacksInit /\ [][PacksNext]_packs

----------------------------------------------------------------------------
(* Properties.                                                             *)

\* However often an accept broke off before, a pack that ends up accepted has
\* everything it planned: the download of each item, and the import of each
\* replacement.  Only requests that overlap can leave something out, and what the
\* accept that decided passed over: items that were there by then, were on their
\* way without this program, or had an import to be reviewed.  So a replacement
\* that an accept broke off had asked for, and that finished before the next one,
\* keeps its download and gets no import.
AcceptedIsRequested ==
    pack.decision = "accepted" /\ ~overlapped =>
        \A o \in Ordinals \ passed : LET item == pack.items[o] IN
            item.planState \in {"executable", "submitted"} /\ item.plan # Nil =>
                /\ jobs[item.plan].state # "none"
                /\ o \in Replacements => item.plan \in imports
=============================================================================
