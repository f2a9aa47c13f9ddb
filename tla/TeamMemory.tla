----------------------------- MODULE TeamMemory -----------------------------
(***************************************************************************)
(* Team memory: the bundle of associations committed with a project, and   *)
(* one machine's store, whose `shared' namespace inherits it.  Session     *)
(* starts and builds import the bundle, a developer publishes, retracts    *)
(* and reviews, and git brings what teammates committed.                   *)
(*                                                                         *)
(* Each read and each write of the bundle file, of the store and of its    *)
(* meta table is a step: nothing else holds a run together, and several    *)
(* processes may run.  The content hash of a bundle is the bundle; it also *)
(* covers the weights, so that one of the same pairs may hash differently. *)
(*                                                                         *)
(* Left out: weights, counts and transitions (the review gate and the      *)
(* merge, which score them, promote, queue or reject any edge), what the   *)
(* personal namespace holds and the publishing policy lets through (a      *)
(* publish may find any set of Learned), the audit record, the staleness   *)
(* pass, a checkout that takes the bundle back to an older commit, and a   *)
(* merge by hand that leaves the content_hash of one of its sides in the   *)
(* header.                                                                 *)
(***************************************************************************)
EXTENDS Naturals

CONSTANTS Proc, Pair, None,
          Learned,    \* the sets of pairs that a publish may find in the store, learned
                      \* and within the policy
          MaxPulls,   \* bound: bundles that git brings
          MaxEvents   \* bound: commands, failures and kills

\* A bundle, and its absence, which is None.
Bundle == [edges : SUBSET Pair, retracted : SUBSET Pair]

ASSUME TeamAssumption ==
    /\ Learned \subseteq SUBSET Pair /\ {MaxPulls, MaxEvents} \subseteq Nat
    /\ None \notin Pair \cup Proc \cup Bundle

VARIABLES bundle,   \* the file: [edges, retracted], or None
          broken,   \* it can't be parsed now: bundle is what it said before
          shared,   \* pairs in the shared namespace
          pending,  \* meta team_pending_review, as a set of pairs
          imported, \* meta team_bundle_imported_hash
          job,      \* what each process is doing
          pulls,    \* bundles git brought
          events,   \* commands, failures and kills
          excuse    \* history: one of the cases named below has come about since

vars == <<bundle, broken, shared, pending, imported, job, pulls, events, excuse>>

(*  late     a run writes to the store what another has overtaken            *)
(*  unsaved  the review queue couldn't be written, or read                   *)
(*  skipped  a bundle is marked as imported that was edited, not imported    *)
(*  clobber  a bundle is written over one that was changed since it was read,*)
(*           or that can't be parsed                                         *)

\* What a run can't rely on: the file changed under it, another run
\* overlaps, a step of its own failed.
Changes == {"bundle", "run", "step"}

Idle == [op |-> "none"]

TypeOK ==
    /\ bundle \in Bundle \cup {None} /\ imported \in Bundle \cup {None} /\ broken \in BOOLEAN
    /\ shared \subseteq Pair /\ pending \subseteq Pair
    /\ \A p \in Proc : job[p] = Idle \/
        /\ job[p].op \in {"import", "publish", "retract", "approve", "reject"}
        /\ job[p].at \in {"check", "write", "delete", "load", "drop", "gate", "read", "add",
                          "promote", "mark"}
        /\ job[p].bundle \in Bundle /\ job[p].queue \subseteq Pair
        /\ job[p].todo \cup job[p].promote \subseteq Pair
        /\ job[p].changed \subseteq Changes
        /\ job[p].op = "import" => job[p].promote \cap job[p].bundle.retracted = {}
    /\ pulls \in 0..MaxPulls /\ events \in 0..MaxEvents /\ excuse \in BOOLEAN

\* A clone, with a bundle of every pair or without one.
Init ==
    /\ bundle \in {None, [edges |-> Pair, retracted |-> {}]} /\ imported = None
    /\ broken = FALSE /\ shared = {} /\ pending = {}
    /\ job = [p \in Proc |-> Idle]
    /\ pulls = 0 /\ events = 0 /\ excuse = FALSE

--------------------------------------------------------------------------------
Empty == [edges |-> {}, retracted |-> {}]
OnDisk == IF bundle = None THEN Empty ELSE bundle

\* What publish gets to know of it: _read_bundle gives None for a file it can't parse.
Read == IF broken THEN Empty ELSE OnDisk

Job(op, at, b, q, todo, queue) ==
    [op |-> op, at |-> at, bundle |-> b, pair |-> q, todo |-> todo, queue |-> queue,
     promote |-> {}, unread |-> op \in {"publish", "retract"} /\ (broken \/ bundle # imported),
     changed |-> IF \A p \in Proc : job[p] = Idle THEN {} ELSE {"run"}]

Tell(jobs, p, what) ==
    [r \in Proc |-> IF r = p \/ jobs[r] = Idle THEN jobs[r]
                     ELSE [jobs[r] EXCEPT !.changed = @ \cup {what}]]

Begin(p, j) == job[p] = Idle /\ job' = Tell([job EXCEPT ![p] = j], p, "run")

Event == events < MaxEvents /\ events' = events + 1

Goto(p, at) == job' = [job EXCEPT ![p].at = at]

Done(p) == job' = [job EXCEPT ![p] = Idle]

\* A run with a step that failed isn't undisturbed any more.
Failed(fails) == IF fails THEN {"step"} ELSE {}

\* The file is not what the run found, or it adds a pair that another
\* run has begun to retract.
Overtaken(p) ==
    \/ "bundle" \in job[p].changed
    \/ "run" \in job[p].changed /\ job[p].promote \cap OnDisk.retracted # {}

Excused(why) == excuse' = (excuse \/ why)

--------------------------------------------------------------------------------
\* What a merge comes to: teammates' edges, and all of the retractions they know of.
\* A retracted pair may stay among the edges.
Merged ==
    /\ \E b \in Bundle : OnDisk.retracted \subseteq b.retracted /\ bundle' = b
    /\ broken' = FALSE

\* git pull, which merges, or leaves the marks of a conflict in the file.
Pull ==
    /\ ~broken /\ pulls < MaxPulls /\ pulls' = pulls + 1
    /\ Merged \/ (broken' = TRUE /\ UNCHANGED bundle)
    /\ job' = Tell(job, None, "bundle")
    /\ UNCHANGED <<shared, pending, imported, events, excuse>>

\* Someone ends the merge by hand.
Repair ==
    /\ broken /\ Merged
    /\ job' = Tell(job, None, "bundle")
    /\ UNCHANGED <<shared, pending, imported, pulls, events, excuse>>

--------------------------------------------------------------------------------
\* maybe_import_team_memory
StartImport(p) ==
    /\ bundle # None /\ ~broken
    /\ Begin(p, Job("import", "check", bundle, None, bundle.retracted, {}))
    /\ UNCHANGED <<bundle, broken, shared, pending, imported, pulls, events, excuse>>

\* Mutant of AfterDeletes: what the bundle retracts is kept out of the import only.
NoDeletes(j) == "gate"
AfterDeletes(j) == IF j.todo = {} THEN "gate" ELSE "delete"

CheckHash(p) ==
    /\ job[p].op = "import" /\ job[p].at = "check"
    /\ (imported = job[p].bundle /\ Done(p)) \/ Goto(p, AfterDeletes(job[p]))
    /\ UNCHANGED <<bundle, broken, shared, pending, imported, pulls, events, excuse>>

\* delete_edge from shared, pair by pair; then the review queue.
DeleteEdge(p) ==
    /\ job[p] # Idle /\ job[p].at = "delete"
    /\ \E q \in job[p].todo :
        /\ shared' = shared \ {q}
        /\ job' = [job EXCEPT ![p].todo = @ \ {q},
                              ![p].at = IF job[p].todo = {q} THEN "load" ELSE "delete"]
    /\ UNCHANGED <<bundle, broken, pending, imported, pulls, events, excuse>>

\* _load_pending_review: empty when the read fails.
LoadQueue(p, fails) ==
    /\ job[p] # Idle /\ job[p].at \in {"load", "read"}
    /\ IF fails THEN Event ELSE UNCHANGED events
    /\ job' = [job EXCEPT ![p].queue = IF fails THEN {} ELSE pending,
                          ![p].changed = @ \cup Failed(fails),
                          ![p].at = IF @ = "load" THEN "drop" ELSE "add"]
    /\ Excused(fails)   \* unsaved
    /\ UNCHANGED <<bundle, broken, shared, pending, imported, pulls>>

\* _save_pending_review, which hides that it failed.
SaveQueue(p, queue, fails) ==
    /\ IF fails THEN Event ELSE UNCHANGED events
    /\ pending' = IF fails THEN pending ELSE queue
    /\ Excused(fails \/ pending # job[p].queue \/ Overtaken(p))   \* unsaved, late

Dropped(p) ==
    CASE job[p].op = "import" -> job[p].bundle.retracted
      [] OTHER -> {job[p].pair}

AfterDrop(p) ==
    CASE job[p].op = "import" -> "gate"
      [] job[p].op = "retract" -> "mark"
      [] job[p].op = "approve" -> "promote"
      [] job[p].op = "reject" -> "done"

DropPending(p, fails) ==
    /\ job[p] # Idle /\ job[p].at = "drop"
    /\ IF job[p].queue \cap Dropped(p) = {} THEN UNCHANGED <<pending, events, excuse>> /\ ~fails
       ELSE SaveQueue(p, job[p].queue \ Dropped(p), fails)
    /\ IF AfterDrop(p) = "done" THEN Done(p)
       ELSE job' = [job EXCEPT ![p].at = AfterDrop(p), ![p].queue = {},
                               ![p].changed = @ \cup Failed(fails)]
    /\ UNCHANGED <<bundle, broken, shared, imported, pulls>>

\* The merge and the review gate: what they promote, queue and reject.
\* Mutant of Incoming: a stray copy of a retracted pair is imported.
IncomingStray(b) == b.edges
Incoming(b) == b.edges \ b.retracted

Gate(p) ==
    /\ job[p].op = "import" /\ job[p].at = "gate"
    /\ \E promote \in SUBSET Incoming(job[p].bundle) :
       \E review \in SUBSET (Incoming(job[p].bundle) \ promote) :
          job' = [job EXCEPT ![p].promote = promote, ![p].todo = review,
                              ![p].at = IF review = {} THEN "promote" ELSE "read"]
    /\ UNCHANGED <<bundle, broken, shared, pending, imported, pulls, events, excuse>>

AddPending(p, fails) ==
    /\ job[p] # Idle /\ job[p].at = "add"
    /\ \E q \in job[p].todo :
        /\ SaveQueue(p, job[p].queue \cup {q}, fails)
        /\ job' = [job EXCEPT ![p].todo = @ \ {q},
                              ![p].queue = {}, ![p].changed = @ \cup Failed(fails),
                              ![p].at = IF job[p].todo = {q} THEN "promote" ELSE "read"]
    /\ UNCHANGED <<bundle, broken, shared, imported, pulls>>

\* import_edges, of an import or of an approval.
Promote(p) ==
    /\ job[p] # Idle /\ job[p].at = "promote"
    /\ shared' = shared \cup job[p].promote
    /\ Excused(Overtaken(p))   \* late
    /\ IF job[p].op = "approve" THEN Done(p) ELSE Goto(p, "mark")
    /\ UNCHANGED <<bundle, broken, pending, imported, pulls, events>>

\* set_meta, whose failure is hidden.  An import that nothing disturbed puts
\* right what went wrong before it.
MarkImported(p, fails) ==
    /\ job[p] # Idle /\ job[p].at = "mark"
    /\ IF fails THEN Event ELSE UNCHANGED events
    /\ imported' = IF fails THEN imported ELSE job[p].bundle
    /\ excuse' = IF job[p].op = "import" /\ job[p].changed = {} /\ ~fails THEN FALSE
                 ELSE excuse \/ job[p].unread   \* skipped
    /\ Done(p)
    /\ UNCHANGED <<bundle, broken, shared, pending, pulls>>

--------------------------------------------------------------------------------
\* publish_team_memory: the retractions carried forward, and edges from the store,
\* read after the bundle and filtered by the policy.
\* Mutant of Published: the old bundle's retractions are not carried forward.
PublishedAfresh(edges) == [edges |-> edges, retracted |-> {}]
Published(edges) == [edges |-> edges \ Read.retracted, retracted |-> Read.retracted]

StartPublish(p) ==
    /\ Event
    /\ \E edges \in Learned :
          Begin(p, Job("publish", "write", Published(edges), None, {}, {}))
    /\ UNCHANGED <<bundle, broken, shared, pending, imported, pulls, excuse>>

\* What the run is about to write over is not what it read.
Unread(p) == broken \/ "bundle" \in job[p].changed

Retracting(q) == [edges |-> OnDisk.edges \ {q}, retracted |-> OnDisk.retracted \cup {q}]

\* retract_team_edge, which refuses a bundle it can't parse.
StartRetract(p, q) ==
    /\ ~broken /\ Event
    /\ Begin(p, Job("retract", "write", Retracting(q), q, {q}, {}))
    /\ UNCHANGED <<bundle, broken, shared, pending, imported, pulls, excuse>>

WriteBundle(p) ==
    /\ job[p] # Idle /\ job[p].at = "write"
    /\ bundle' = job[p].bundle /\ broken' = FALSE
    /\ job' = Tell([job EXCEPT ![p].at = IF job[p].op = "retract" THEN "delete" ELSE "mark"],
                   p, "bundle")
    /\ Excused(Unread(p))   \* clobber
    /\ UNCHANGED <<shared, pending, imported, pulls, events>>

\* memory review-approve and review-reject
StartReview(p, op, q) ==
    /\ q \in pending /\ Event
    /\ Begin(p, [Job(op, "drop", Empty, q, {}, pending) EXCEPT !.promote = {q}])
    /\ UNCHANGED <<bundle, broken, shared, pending, imported, pulls, excuse>>

--------------------------------------------------------------------------------
\* A step that raises ends an import (fail-open) and a command; so does a kill.
Stop(p) ==
    /\ job[p] # Idle /\ Event /\ Done(p)
    /\ UNCHANGED <<bundle, broken, shared, pending, imported, pulls, excuse>>

ImportSteps(p) ==
    \/ CheckHash(p) \/ DeleteEdge(p) \/ Gate(p) \/ Promote(p)
    \/ \E fails \in BOOLEAN :
        LoadQueue(p, fails) \/ DropPending(p, fails) \/ AddPending(p, fails) \/ MarkImported(p, fails)

Next ==
    \/ Pull \/ Repair
    \/ \E p \in Proc :
        \/ StartImport(p) \/ ImportSteps(p) \/ WriteBundle(p) \/ Stop(p)
        \/ StartPublish(p)
        \/ \E q \in Pair : StartRetract(p, q) \/ StartReview(p, "approve", q)
                            \/ StartReview(p, "reject", q)

Spec == Init /\ [][Next]_vars

--------------------------------------------------------------------------------
\* Once the machine counts the bundle as imported, no pair it retracts is in shared
\* or waits for a review (maybe_import_team_memory, retract_team_edge).
RetractedStaysOut ==
    bundle # None /\ imported = bundle => (shared \cup pending) \cap bundle.retracted = {}

\* The same, whatever fails or is killed at whatever step and whatever git brings
\* meanwhile, until one of the named cases; and an import nothing disturbs then
\* makes it so again.
RetractedStaysOutUndisturbed ==
    ~excuse => RetractedStaysOut

\* A retraction that reached the bundle stays in it, published over, retracted over
\* and pulled over (publish_team_memory: "retractions already in the committed bundle
\* are carried forward"), unless a run writes over what it hasn't read: a bundle that
\* was changed since, or one that publish couldn't parse.
RetractionsTravel ==
    [][OnDisk.retracted \subseteq OnDisk'.retracted
        \/ \E p \in Proc : job[p] # Idle /\ job[p].at = "write" /\ job[p] # job'[p] /\ Unread(p)]_vars
==================================================
