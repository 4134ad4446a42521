----------------------------- MODULE Acquisition -----------------------------
(***************************************************************************)
(* What is known of the release behind a recommendation, and what can be   *)
(* done about it (src/src/acquisition.rs): pure functions of a pack item,  *)
(* the states of the imports of its release and the inventory of its       *)
(* downloads, evaluated whenever a pack is shown and when it is accepted.  *)
(*                                                                         *)
(* An item is a record                                                     *)
(*   [matched, released : BOOLEAN, planState, plan : a variant or None,    *)
(*    replacement : [variant, complete, downloads] or None,                *)
(*    job : [state, variant] or None,                                      *)
(*    variants : set of [key, inLibrary, eligible, downloads],             *)
(*    downloads : set of [live, inLibrary]]                                *)
(* where a live download is [id, done, state], its id standing for client  *)
(* and info hash and done for a progress of 1.  Scores, sizes and texts    *)
(* are left out.                                                           *)
(***************************************************************************)
EXTENDS Naturals, Sequences

CONSTANT None  \* absent: a plan, a job, a replacement, a variant

Queueing  == {"queued", "fetching_metadata", "submitting"}
Importing == {"resolving", "ready", "processing"}

Phases == {"owned", "importing", "downloaded", "downloading", "queued", "needs_review",
           "failed", "missing"}

\* Mutant: a failure hides what happens since.
PhaseFailedFirst(signals) ==
    LET order == <<"failed", "owned", "importing", "downloaded", "downloading", "queued",
                   "needs_review">>
        seen  == {i \in DOMAIN order : order[i] \in signals}
    IN  IF seen = {} THEN "missing" ELSE order[CHOOSE i \in seen : \A j \in seen : i <= j]

\* AcquisitionSignals::phase: the first signal in this order decides.
Phase(signals) ==
    LET order == <<"owned", "importing", "downloaded", "downloading", "queued",
                   "needs_review", "failed">>
        seen  == {i \in DOMAIN order : order[i] \in signals}
    IN  IF seen = {} THEN "missing" ELSE order[CHOOSE i \in seen : \A j \in seen : i <= j]

Disposition(phase, planState, hasPlan, replacement) ==
    CASE replacement /\ planState = "cleanup_ready" -> "cleanup"
      [] phase = "owned" -> "resolved"
      [] phase \in {"queued", "downloading", "downloaded", "importing"} -> "waiting"
      [] phase = "failed" /\ hasPlan -> "actionable"
      [] phase = "missing" /\ planState = "executable" -> "actionable"
      [] phase = "missing" /\ planState = "cleanup_ready" -> "cleanup"
      [] phase = "missing" /\ planState \in {"already_owned", "excluded", "submitted"} ->
            "resolved"
      [] phase = "missing" /\ planState = "already_downloading" -> "waiting"
      [] OTHER -> "review"

----------------------------------------------------------------------------
(* build_holdings: what is held, by variant.  A live download is listed    *)
(* once for a variant; the variant's own answer replaces the inventory's.  *)

Over(new, old) == new \cup {d \in old : \A n \in new : n.id # d.id}

\* inventory: a sequence of [variant, present, inLibrary, live], of which the
\* first present one with a download counts.
Inventoried(inventory, variant) ==
    {inventory[i].live : i \in {i \in DOMAIN inventory :
        /\ inventory[i].variant = variant /\ inventory[i].present /\ inventory[i].live # None
        /\ \A j \in 1..(i - 1) :
              inventory[j].variant = variant /\ inventory[j].present /\ inventory[j].live # None
                => inventory[j].live.id # inventory[i].live.id}}

Holding(item, inventory, variant) ==
    LET recorded == {inventory[i] : i \in {i \in DOMAIN inventory : inventory[i].variant = variant}}
        listed   == {v \in item.variants : v.key = variant}
        own      == IF variant = None THEN item.downloads ELSE {}
    IN  [variant   |-> variant,
         inLibrary |-> \E x \in recorded \cup listed \cup own : x.inLibrary,
         present   |-> \/ \E r \in recorded : r.present
                       \/ \E v \in listed : v.downloads # {}
                       \/ own # {},
         downloads |-> Over({d.live : d \in own} \cup UNION {v.downloads : v \in listed},
                            Inventoried(inventory, variant))]

Holdings(item, inventory) ==
    LET variants == {inventory[i].variant : i \in DOMAIN inventory}
                        \cup {v.key : v \in item.variants} \cup {None}
    IN  {h \in {Holding(item, inventory, v) : v \in variants} : h.inLibrary \/ h.present}

----------------------------------------------------------------------------
\* fulfillment_satisfaction: a replacement asks for one variant, anything else
\* for the release.
Satisfaction(item, holdings) ==
    CASE item.planState = "excluded" -> "not_required"
      [] item.planState # "excluded" /\ ~(item.matched /\ item.released) -> "unknown"
      [] OTHER ->
            IF \/ /\ item.replacement = None
                  /\ \/ \E h \in holdings : h.inLibrary
                     \/ item.planState = "already_owned"
               \/ /\ item.replacement # None
                  /\ \/ item.replacement.complete
                     \/ \E h \in holdings :
                           /\ h.variant = item.replacement.variant
                           /\ h.inLibrary \/ \E d \in h.downloads : d.done
            THEN "satisfied" ELSE "unsatisfied"

ActivityOf(state) ==
    CASE state = "downloading" -> "downloading"
      [] state \in {"seeding", "complete"} -> "seeding"
      [] state = "error" -> "failed"
      [] OTHER -> state  \* paused, queued, checking and stalled keep their names

\* build_activities, as the set of their kinds and variants.
Activities(item, imports, holdings, satisfaction) ==
    LET clients == UNION {{[kind |-> ActivityOf(d.state), target |-> h.variant] :
                            d \in {d \in h.downloads : d.state # "unknown"}} : h \in holdings}
        job     == IF item.job = None THEN {} ELSE
            LET kind ==
                CASE item.job.state \in Queueing -> "queued"
                  [] item.job.state = "active" -> "downloading"
                  [] item.job.state = "failed" -> "failed"
                  [] item.job.state = "complete" /\ satisfaction # "satisfied"
                        /\ (\A a \in clients : a.target # item.job.variant) -> "downloaded"
                  [] OTHER -> None
            IN  {a \in {[kind |-> kind, target |-> item.job.variant]} : a.kind # None}
        importing == {[kind |-> IF s = "downloading" THEN "downloading"
                                ELSE IF s \in Importing THEN "importing" ELSE "failed",
                       target |-> None] :
                        s \in imports \ {"complete", "needs_review", "dismissed"}}
    IN  clients \cup job \cup importing

\* build_actions, as the set of their kinds.
Actions(item, holdings, satisfaction, activities) ==
    LET active == \E a \in activities :
            a.kind \in {"queued", "downloading", "downloaded", "importing"}
        add == IF satisfaction = "unsatisfied" /\ ~active /\ item.plan # None
               THEN {IF item.job # None /\ item.job.state = "failed" THEN "retry" ELSE "add"}
               ELSE {}
        another == {v \in item.variants :
            v.eligible /\ \A h \in holdings : h.variant # v.key}
    IN  IF ~(item.matched /\ item.released) THEN {"review_match"}
        ELSE {"change_match"} \cup
             (IF item.planState = "cleanup_ready" THEN {"cleanup"}
              ELSE add \cup IF satisfaction = "satisfied" /\ item.replacement = None /\ another # {}
                            THEN {"add_another"} ELSE {})

Signals(item, imports, inventory, satisfaction) ==
    LET downloads == IF item.replacement = None THEN item.downloads ELSE item.replacement.downloads
        job       == IF item.job = None THEN None ELSE item.job.state
        when(condition, signal) == IF condition THEN {signal} ELSE {}
    IN  when(satisfaction = "satisfied", "owned")
        \cup when(imports \cap Importing # {}, "importing")
        \cup when((\E d \in downloads : d.live.done) \/ job = "complete" \/ "complete" \in imports,
                  "downloaded")
        \cup when(\/ \E i \in DOMAIN inventory : LET r == inventory[i] IN
                        r.present /\ ~r.inLibrary /\ r.live # None /\ ~r.live.done
                  \/ \E d \in downloads : ~d.inLibrary /\ ~d.live.done
                  \/ \E v \in item.variants : \E d \in v.downloads : ~d.done
                  \/ job = "active" \/ "downloading" \in imports, "downloading")
        \cup when(job \in Queueing, "queued")
        \cup when(~item.matched \/ imports \cap {"needs_review", "blocked"} # {}, "needs_review")
        \cup when(job = "failed" \/ "failed" \in imports, "failed")

\* Mutant: a replacement under way cannot be asked for again.
SelectableOnce(item, disposition) == disposition \in {"actionable", "cleanup"}

\* A replacement under way can be asked for again, which tracks its import.
Selectable(item, disposition) ==
    \/ disposition \in {"actionable", "cleanup"}
    \/ item.replacement # None /\ disposition = "waiting"

\* project_channel_item.
Project(item, imports, inventory) ==
    LET holdings     == Holdings(item, inventory)
        satisfaction == Satisfaction(item, holdings)
        activities   == Activities(item, imports, holdings, satisfaction)
        phase        == Phase(Signals(item, imports, inventory, satisfaction))
        disposition  ==
            CASE item.replacement # None /\ item.planState = "cleanup_ready" -> "cleanup"
              [] satisfaction \in {"satisfied", "not_required"}
                    /\ ~(item.replacement # None /\ item.planState = "cleanup_ready") -> "resolved"
              [] OTHER -> Disposition(phase, item.planState, item.plan # None,
                                      item.replacement # None)
    IN  [phase |-> phase, satisfaction |-> satisfaction, activities |-> activities,
         actions |-> Actions(item, holdings, satisfaction, activities),
         disposition |-> disposition,
         selectable |-> Selectable(item, disposition)]
=============================================================================
