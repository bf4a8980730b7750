------------------------- MODULE InstallPublication -------------------------
(***************************************************************************)
(* Protected publication of one installation, the engine behind            *)
(* usk_protected_install_publisher.cpp.  On one volume a worker turns a    *)
(* reviewed plan into an installed tree through durable phase records:     *)
(*                                                                         *)
(*   lab-reviewed-plan, staged files, lab-prepared-evidence, rename into   *)
(*   the destination, lab-visible-evidence, lab-installed-state, public    *)
(*   audit chain, ownership and installed state, consumer read access.     *)
(*                                                                         *)
(* A worker may die between any two writes, and inside a phase record,     *)
(* which then stays torn; the next worker reads what is left, finishes it  *)
(* forward or refuses.  The volume guard admits one worker at a time.      *)
(* Digests are the values digested.  The unregistered laboratory service   *)
(* ("lab") and the registered child worker ("child") share the engine: the *)
(* child also keeps an operation intent, an installation lease and         *)
(* consumer grants, the laboratory has test gates.                         *)
(***************************************************************************)
EXTENDS Naturals, FiniteSets

CONSTANTS
    Plan,       \* reviewed plans for this installation: strings
    File,       \* files every plan writes, with a content of its own
    Route,      \* routes an instance may have: subsets of {"lab", "child"}
    MaxAttempts,  \* publication bootstraps an operation may reserve (64)
    MaxFaults,  \* bound on interruptions
    MaxEdits    \* bound on changes by others between requests

ASSUME PublicationAssumption ==
    /\ Plan \cap {"none", "torn", "edited"} = {}
    /\ IsFiniteSet(File) /\ File # {} /\ "root" \notin File
    /\ Route \subseteq {"lab", "child"}
    /\ MaxAttempts \in Nat /\ MaxFaults \in Nat /\ MaxEdits \in Nat

VARIABLES
    d,        \* the volume: everything durable
    w,        \* the worker, with its reply while it is idle
    route,    \* how the volume is served
    source,   \* the archive is still the reviewed one
    markers,  \* readiness markers of gates that were reached
    faults,   \* interruptions so far
    edits     \* changes by others so far

env == <<route, source, markers, faults, edits>>
vars == <<d, w, env>>

Gate == {"poststage", "prepublish", "postrename", "postjournal"}
Object == File \cup {"root"}
Content == Plan \cup {"none", "torn", "edited"}
Anchors == 5   \* publication, staging, destination, state, journal

(* What json_tree records of a tree: identities and contents.              *)
Seal(t) == [id |-> t.id, files |-> t.files]
Sealed == [id : 0 .. 1, files : [File -> Content]]
Blank == [f \in File |-> "none"]
Payload(p) == [f \in File |-> p]

NoPrepared == [rec |-> "none", plan |-> "none", fresh |-> FALSE, auth |-> FALSE,
               seal |-> [id |-> 0, files |-> Blank]]
NoVisible == [rec |-> "none", of |-> NoPrepared, claim |-> "none"]
NoCompletion == [rec |-> "none", prepared |-> NoPrepared, visible |-> NoVisible]
NoTree == [at |-> "none", id |-> 0, files |-> Blank]
NoWorker == [pc |-> "idle", kind |-> "none", plan |-> "none", gate |-> "none",
             mode |-> "none", claim |-> "none", renamed |-> FALSE, wrote |-> FALSE,
             reply |-> "none"]

Control == {"idle", "admit", "route", "intent", "lease", "reserve", "move", "anchors", "snapshot",
            "snapshot_flush", "candidate", "stage", "seal", "setup", "prepared",
            "prepared_flush", "commit", "visible", "visible_flush", "completion",
            "completion_flush", "enter", "closure", "finalize", "readback", "grant", "finish",
            "reenter", "recover"}
Kind == {"apply", "recover", "snapshot_only", "observe", "forward", "verify"}
Reply == {"none", "pass", "stale", "failed", "recovery_required"}
Rec == {"none", "torn", "ok"}

Prepared == [rec : Rec, plan : Plan \cup {"none"}, fresh : BOOLEAN, auth : BOOLEAN,
             seal : Sealed]
Visible == [rec : Rec, of : Prepared, claim : {"none", "renamed", "observed"}]
Completion == [rec : Rec, prepared : Prepared, visible : Visible]
Tree == [at : {"none", "staging", "destination"}, id : 0 .. 1, files : [File -> Content]]
Public == [chain : 0 .. 3, ownership : BOOLEAN, installed : BOOLEAN]

Volume ==
    [anchors : 0 .. Anchors, reviewed : Plan \cup {"none", "torn"},
     prepared : Prepared, visible : Visible, completion : Completion,
     tree : Tree, public : Public, granted : SUBSET Object, setup : BOOLEAN,
     intent : SUBSET Plan, lease : Plan \cup {"none"},
     attempts : [Plan -> 0 .. MaxAttempts],
     last : [Plan -> {"none", "open", "moving", "closed"}]]

Employed ==
    [pc : Control, kind : Kind \cup {"none"}, plan : Plan \cup {"none"},
     gate : Gate \cup {"none"}, mode : {"none", "first", "reentry", "recover"},
     claim : {"none", "renamed", "observed"}, renamed : BOOLEAN,
     wrote : BOOLEAN, reply : Reply]

(* Every variable keeps its type.                                          *)
TypeOK ==
    /\ d \in Volume /\ w \in Employed
    /\ route \in Route /\ source \in BOOLEAN /\ markers \subseteq Gate
    /\ faults \in 0 .. MaxFaults /\ edits \in 0 .. MaxEdits

Init ==
    /\ d = [anchors |-> 0, reviewed |-> "none", prepared |-> NoPrepared,
            visible |-> NoVisible, completion |-> NoCompletion,
            tree |-> NoTree,
            public |-> [chain |-> 0, ownership |-> FALSE, installed |-> FALSE],
            granted |-> {}, setup |-> FALSE, intent |-> {}, lease |-> "none",
            attempts |-> [p \in Plan |-> 0], last |-> [p \in Plan |-> "none"]]
    /\ w = NoWorker
    /\ route \in Route /\ source = TRUE /\ markers = {}
    /\ faults = 0 /\ edits = 0

----------------------------------------------------------------------------
(* Control.                                                                *)

Goto(l) == w' = [w EXCEPT !.pc = l] /\ UNCHANGED <<d, env>>

(* A durable write, after which the worker goes on at l.                   *)
Write(l, volume) ==
    /\ d' = volume
    /\ w' = [w EXCEPT !.pc = l, !.wrote = TRUE]
    /\ UNCHANGED env

Done(r) ==
    w' = [NoWorker EXCEPT !.kind = w.kind, !.plan = w.plan, !.wrote = w.wrote,
                          !.reply = r]

(* The call returns or throws; its handles, guards and lease object go.    *)
End(r) == Done(r) /\ UNCHANGED <<d, env>>

First == w.mode = "first"

(* The plan the worker acts on: its request's, or the durable snapshot's.  *)
Acting == IF First THEN w.plan ELSE d.reviewed

----------------------------------------------------------------------------
(* The request and its admission.                                          *)

(* ScopedExecution: one request at a time, consistent with its route.      *)
ScopedExecution(k, p, g) ==
    /\ w.pc = "idle"
    /\ route = "child" => k \in {"apply", "recover", "verify"} /\ g = "none"
    /\ IF k = "apply" \/ (k = "recover" /\ route = "child")
       THEN p \in Plan
       ELSE p = "none"
    /\ g # "none" => k = "apply"
    /\ w' = [NoWorker EXCEPT !.pc = "admit", !.kind = k, !.plan = p, !.gate = g]
    /\ UNCHANGED <<d, env>>

(* require_initial_state_revision: no installed state yet.                 *)
require_initial_state_revision == ~d.public.installed

(* partial_tree: a prefix of the anchors and of the snapshot of this       *)
(* operation.                                                              *)
partial_tree == d.reviewed \in {"none", "torn", w.plan}

(* Mutant: whatever the operation left is put aside.                       *)
bootstrap_resume_always == d.attempts[w.plan] > 0 /\ ~d.public.installed

(* bootstrap_resume_required: the operation reserved a publication and     *)
(* died before the candidate; a candidate or a prepared record belongs to  *)
(* staged recovery.                                                        *)
bootstrap_resume_required ==
    d.attempts[w.plan] > 0 /\ d.tree.at # "staging" /\ d.prepared.rec = "none"

(* The registered worker looks up the operation of an apply.  An unknown   *)
(* one needs an installation without state.  A known one that died before  *)
(* its candidate starts again, from the original source and under a new    *)
(* lease; any other goes on from what the volume holds.                    *)
operation_context_apply ==
    /\ w.pc = "admit" /\ w.kind = "apply" /\ route = "child"
    /\ \/ /\ w.plan \notin d.intent
          /\ IF require_initial_state_revision THEN Goto("route") ELSE End("stale")
       \/ /\ w.plan \in d.intent /\ ~bootstrap_resume_required
          /\ Goto("route")
       \/ /\ w.plan \in d.intent /\ bootstrap_resume_required
          /\ IF partial_tree /\ source THEN Goto("intent") ELSE End("failed")

(* A recovery names an operation with an intent and a publication that is  *)
(* past its bootstrap.                                                     *)
operation_context_recover ==
    /\ w.pc = "admit" /\ w.kind = "recover" /\ route = "child"
    /\ IF w.plan \notin d.intent \/ d.anchors = 0 \/ bootstrap_resume_required
       THEN End("failed")
       ELSE Goto("route")

admit_unregistered ==
    /\ w.pc = "admit"
    /\ route = "lab" \/ w.kind = "verify"
    /\ Goto("route")

----------------------------------------------------------------------------
(* Reading the phase records.                                              *)

present == d.anchors > 0

(* A torn record is no canonical document: read_phase_record throws.       *)
Readable == d.reviewed \in Plan

(* recovery_journal_has_snapshot_only: all anchors, and a journal that     *)
(* holds the reviewed plan (readable or not) and nothing else.             *)
recovery_journal_has_snapshot_only ==
    /\ d.anchors = Anchors /\ d.reviewed # "none"
    /\ d.prepared.rec = "none" /\ d.visible.rec = "none"

(* require_candidate_snapshot_apply_binding: whether the submitted request *)
(* is the one of the durable snapshot.                                     *)
require_candidate_snapshot_apply_binding ==
    w.plan \in Plan => w.plan = d.reviewed

(* start_installation_lease: durable intent, then the protected setup      *)
(* root, then the ownership record, refused while another operation is     *)
(* unfinished, then prepare_publication.                                   *)
prepare_intent ==
    /\ w.pc = "intent"
    /\ IF require_initial_state_revision
       THEN Write("lease", [d EXCEPT !.intent = @ \cup {w.plan}])
       ELSE End("failed")

start_installation_lease ==
    /\ w.pc = "lease"
    /\ IF d.lease \in {"none", w.plan}
       THEN Write("reserve", [d EXCEPT !.setup = TRUE, !.lease = w.plan])
       ELSE d' = [d EXCEPT !.setup = TRUE] /\ Done("failed") /\ UNCHANGED env

(* prepare_publication closes the last reservation of the operation.  What *)
(* it left of a publication is announced by a preserve record and moved to *)
(* the name retained for its generation; if it left nothing, that is       *)
(* recorded.                                                               *)
preserve_publication ==
    /\ w.pc = "reserve" /\ present
    /\ IF d.last[w.plan] \in {"open", "moving"} /\ partial_tree
       THEN Write("move", [d EXCEPT !.last[w.plan] = "moving"])
       ELSE End("failed")

move_publication ==
    /\ w.pc = "move"
    /\ IF partial_tree
       THEN Write("reserve", [d EXCEPT !.anchors = 0, !.reviewed = "none", !.tree = NoTree,
                                       !.prepared = NoPrepared, !.visible = NoVisible,
                                       !.completion = NoCompletion,
                                       !.last[w.plan] = "closed"])
       ELSE End("failed")

record_absence ==
    /\ w.pc = "reserve" /\ ~present /\ d.last[w.plan] = "open"
    /\ Write("reserve", [d EXCEPT !.last[w.plan] = "closed"])

(* Then it reserves the name for the generation of this lease, within the  *)
(* budget of attempts.  A resumed bootstrap goes on like a first apply.    *)
reserve_publication ==
    /\ w.pc = "reserve" /\ ~present /\ d.last[w.plan] \in {"none", "closed"}
    /\ IF d.attempts[w.plan] < MaxAttempts
       THEN Write(IF First THEN "anchors" ELSE "route",
                  [d EXCEPT !.attempts[w.plan] = @ + 1, !.last[w.plan] = "open"])
       ELSE End("failed")

(* The snapshot is compared before anything else by the registered worker, *)
(* and by every worker while the journal holds nothing but the snapshot.   *)
snapshot_refuses ==
    /\ ~require_candidate_snapshot_apply_binding
    /\ route = "child" \/ recovery_journal_has_snapshot_only

(* A publication is there: the registered worker takes the lease of the    *)
(* snapshot's operation; then the journal decides how to go on.            *)
dispatch_present ==
    /\ w.pc = "route" /\ present /\ w.kind \in {"apply", "recover", "snapshot_only"}
    /\ \/ ~Readable /\ End("failed")
       \/ Readable /\ snapshot_refuses /\ End("stale")
       \/ /\ Readable /\ ~snapshot_refuses
          /\ w.kind = "snapshot_only" /\ ~recovery_journal_has_snapshot_only
          /\ End("failed")
       \/ /\ Readable /\ ~snapshot_refuses
          /\ w.kind = "snapshot_only" => recovery_journal_has_snapshot_only
          /\ d' = IF route = "child" THEN [d EXCEPT !.lease = d.reviewed] ELSE d
          /\ w' = [w EXCEPT !.pc = IF recovery_journal_has_snapshot_only
                                   THEN "reenter" ELSE "recover",
                            !.mode = IF recovery_journal_has_snapshot_only
                                     THEN "reentry" ELSE "recover",
                            !.wrote = @ \/ route = "child"]
          /\ UNCHANGED env

(* No publication: an apply plans again from the source (require_reviewed_ *)
(* selected_plan) and goes on to the public command; a recovery has        *)
(* nothing to recover.                                                     *)
require_reviewed_selected_plan == source

dispatch_absent ==
    /\ w.pc = "route" /\ ~present /\ w.kind \in {"apply", "recover", "snapshot_only"}
    /\ IF w.kind = "apply" /\ require_reviewed_selected_plan
       THEN w' = [w EXCEPT !.mode = "first", !.pc = "enter"] /\ UNCHANGED <<d, env>>
       ELSE End("failed")

(* The lease object of this worker: before its first anchor only a resumed *)
(* bootstrap has made one, and only it has written.                        *)
installation_lease == w.wrote

(* The public command rebuilds the plan, which a changed source makes      *)
(* stale, and calls back: source and, if registered, installed revision    *)
(* are looked at once more.  A refusal is known to be stale only if no     *)
(* bootstrap of this worker came before it.                                *)
apply_in_candidate_publisher_context ==
    /\ w.pc = "enter"
    /\ \/ ~source /\ End("failed")
       \/ ~source /\ ~w.wrote /\ End("stale")
       \/ /\ source
          /\ IF route = "child" /\ ~require_initial_state_revision
             THEN End(IF w.wrote THEN "failed" ELSE "stale")
             ELSE Goto(IF route = "child" /\ ~installation_lease
                       THEN "intent" ELSE "anchors")

dispatch_recover_prepared ==
    /\ w.pc = "route" /\ w.kind \in {"observe", "forward"}
    /\ w' = [w EXCEPT !.pc = "recover", !.mode = "recover"]
    /\ UNCHANGED <<d, env>>

----------------------------------------------------------------------------
(* observe_protected_anchors: the first apply, and the reentry into a      *)
(* staged tree that has only its snapshot.                                 *)

(* The five anchor directories, in the order they are created.             *)
create_anchor ==
    /\ w.pc = "anchors"
    /\ Write(IF d.anchors + 1 = Anchors THEN "snapshot" ELSE "anchors",
             [d EXCEPT !.anchors = @ + 1])

(* write_journal_phase: a create-only file, then its bytes and a readback. *)
create_snapshot ==
    /\ w.pc = "snapshot"
    /\ Write("snapshot_flush", [d EXCEPT !.reviewed = "torn"])

flush_snapshot ==
    /\ w.pc = "snapshot_flush"
    /\ Write("candidate", [d EXCEPT !.reviewed = w.plan])

create_candidate ==
    /\ w.pc = "candidate"
    /\ IF source
       THEN Write("stage", [d EXCEPT !.tree.at = "staging"])
       ELSE End("failed")

(* stage_selected_archive_files streams one verified file after the other. *)
stage_selected_archive_file(f) ==
    /\ w.pc = "stage"
    /\ \/ /\ d.tree.files[f] = "none" /\ \A g \in File : d.tree.files[g] # "torn"
          /\ Write("stage", [d EXCEPT !.tree.files[f] = "torn"])
       \/ /\ d.tree.files[f] = "torn"
          /\ IF source
             THEN Write("stage", [d EXCEPT !.tree.files[f] = w.plan])
             ELSE End("failed")

staged_all ==
    /\ w.pc = "stage" /\ \A f \in File : d.tree.files[f] \notin {"none", "torn"}
    /\ Goto("seal")

(* Reentry opens what is there: an empty destination and state, and the    *)
(* candidate.                                                              *)
reopen_anchors ==
    /\ w.pc = "reenter"
    /\ IF d.tree.at = "staging" /\ d.completion.rec = "none"
       THEN Goto("seal")
       ELSE End("failed")

(* The readiness marker of a gate is create-only: a gate works once.  Only *)
(* observe_protected_anchors has gates.                                    *)
Waits(g) == w.gate = g /\ (First \/ (w.mode = "reentry" /\ g # "poststage"))

(* wait_for_poststage_gate never returns: it waits for the power to go.    *)
wait_for_poststage_gate ==
    /\ markers' = markers \cup {"poststage"}
    /\ Done("failed") /\ UNCHANGED <<d, route, source, faults, edits>>

(* The other gates are released, or stopped, or time out; a marker left by *)
(* an earlier worker is refused.                                           *)
wait_for_gate(g, l) ==
    /\ markers' = markers \cup {g}
    /\ \/ Done("failed")
       \/ g \notin markers /\ w' = [w EXCEPT !.pc = l, !.gate = "none"]
    /\ UNCHANGED <<d, route, source, faults, edits>>

(* Mutant: the staged files are taken as they are.                         *)
exact_file_closure_assumed == d.tree.at = "staging"

(* require_publisher_tree_exact_file_closure.                              *)
exact_file_closure == d.tree.files = Payload(Acting)

wait_for_prepublish_gate == wait_for_gate("prepublish", "commit")
wait_for_postrename_gate == wait_for_gate("postrename", "visible")
wait_for_postjournal_gate == wait_for_gate("postjournal", "completion")

(* The registered child's native phases need descendants authenticated     *)
(* since the tree was created, which a reopened tree cannot show:          *)
(* capture_native_execution_phase throws.                                  *)
capture_native_execution_phase == route = "child" => w.mode # "reentry"

seal_candidate ==
    /\ w.pc = "seal"
    /\ \/ ~(exact_file_closure /\ capture_native_execution_phase) /\ End("failed")
       \/ /\ exact_file_closure /\ capture_native_execution_phase
          /\ \/ Waits("poststage") /\ wait_for_poststage_gate
             \/ ~Waits("poststage") /\ Goto("setup")

(* initialize_setup_root_for_publisher, then the snapshot is read again.   *)
initialize_setup_root ==
    /\ w.pc = "setup"
    /\ d.reviewed = Acting
    /\ Write("prepared", [d EXCEPT !.setup = TRUE])

(* The prepared record binds the snapshot, the anchors and the sealed      *)
(* tree, and says whether this worker created the tree and under an        *)
(* authenticated owner.                                                    *)
PreparedRecord ==
    [rec |-> "ok", plan |-> d.reviewed, fresh |-> First,
     auth |-> route = "child" /\ First, seal |-> Seal(d.tree)]

create_prepared ==
    /\ w.pc = "prepared"
    /\ Write("prepared_flush", [d EXCEPT !.prepared.rec = "torn"])

flush_prepared ==
    /\ w.pc = "prepared_flush"
    /\ Write("commit", [d EXCEPT !.prepared = PreparedRecord])

----------------------------------------------------------------------------
(* The publication proper: rename, visible record, completion record.      *)

(* require_current_registered_publication_admission: only a record of an   *)
(* authenticated owner is published by a registered worker.                *)
require_current_registered_publication_admission ==
    route = "child" => d.prepared.auth

(* require_publisher_tree_phase_match against the sealed tree.             *)
SealedStill == Seal(d.tree) = d.prepared.seal

(* observe_visible_publisher_tree_against_seal.                            *)
VisibleStill == d.tree.at = "destination" /\ SealedStill

(* require_reviewed_plan_snapshot: the prepared record binds the snapshot. *)
require_reviewed_plan_snapshot == d.prepared.plan = d.reviewed

(* require_prepared_execution_phases: an authenticated record is of a tree *)
(* its own worker created.                                                 *)
require_prepared_execution_phases == d.prepared.auth => d.prepared.fresh

(* require_visible_execution_phase: the visible record is of this prepared *)
(* record, by the worker that renamed or by one that found it.             *)
require_visible_execution_phase ==
    d.visible.of = d.prepared /\ d.visible.claim \in {"renamed", "observed"}

(* The tree is still the sealed one and moves to the destination under a   *)
(* held handle, without replacing anything.  A call whose outcome is       *)
(* uncertain is not repeated: the worker fails, whether or not it moved.   *)
probe_publisher_bound_rename_no_replace ==
    /\ w.pc = "commit"
    /\ \/ /\ Waits("prepublish") /\ wait_for_prepublish_gate
       \/ /\ ~Waits("prepublish")
          /\ ~(SealedStill /\ require_current_registered_publication_admission)
          /\ End("failed")
       \/ /\ ~Waits("prepublish")
          /\ SealedStill /\ require_current_registered_publication_admission
          /\ d' = [d EXCEPT !.tree.at = "destination"]
          /\ w' = [w EXCEPT !.pc = "visible", !.claim = "renamed", !.renamed = TRUE,
                            !.wrote = TRUE]
          /\ UNCHANGED env

rename_uncertain ==
    /\ w.pc = "commit" /\ ~Waits("prepublish") /\ faults < MaxFaults
    /\ SealedStill /\ require_current_registered_publication_admission
    /\ d' = [d EXCEPT !.tree.at = "destination"]
    /\ faults' = faults + 1
    /\ w' = [NoWorker EXCEPT !.kind = w.kind, !.plan = w.plan, !.wrote = TRUE,
                             !.reply = "failed"]
    /\ UNCHANGED <<route, source, markers, edits>>

(* lab_visible_record: the visible tree, the prepared record it follows,   *)
(* and whether this worker renamed it or found it there.                   *)
lab_visible_record == [rec |-> "ok", of |-> d.prepared, claim |-> w.claim]

create_visible ==
    /\ w.pc = "visible"
    /\ \/ Waits("postrename") /\ wait_for_postrename_gate
       \/ /\ ~Waits("postrename")
          /\ IF VisibleStill
             THEN Write("visible_flush", [d EXCEPT !.visible.rec = "torn"])
             ELSE End("failed")

flush_visible ==
    /\ w.pc = "visible_flush"
    /\ Write("completion", [d EXCEPT !.visible = lab_visible_record])

(* complete_selected_lab_state writes the completion once and afterwards   *)
(* only compares it.                                                       *)
lab_selected_installed_record ==
    [rec |-> "ok", prepared |-> d.prepared, visible |-> d.visible]

complete_selected_lab_state ==
    /\ w.pc = "completion"
    /\ \/ Waits("postjournal") /\ wait_for_postjournal_gate
       \/ /\ ~Waits("postjournal") /\ d.completion.rec = "none"
          /\ Write("completion_flush", [d EXCEPT !.completion.rec = "torn"])
       \/ /\ ~Waits("postjournal") /\ d.completion.rec # "none"
          /\ IF d.completion = lab_selected_installed_record
             THEN Goto("closure") ELSE End("failed")

flush_completion ==
    /\ w.pc = "completion_flush"
    /\ Write("closure", [d EXCEPT !.completion = lab_selected_installed_record])

(* The closure of records, tree and names is observed once more.           *)
final_closure ==
    /\ w.pc = "closure"
    /\ IF /\ d.completion = lab_selected_installed_record
          /\ require_visible_execution_phase /\ require_reviewed_plan_snapshot
          /\ VisibleStill
       THEN Goto("finalize")
       ELSE End("failed")

----------------------------------------------------------------------------
(* finalize_protected_visible_install: the public audit chain, ownership,  *)
(* verification and installed state.  Each is an atomic publication; what  *)
(* an earlier worker wrote is compared and kept.                           *)

(* require_held_publisher_evidence.                                        *)
require_held_publisher_evidence ==
    /\ d.completion = lab_selected_installed_record
    /\ require_visible_execution_phase /\ require_reviewed_plan_snapshot

(* A prefix of the order of writes, or the finalization is incompatible.   *)
compatible_prefix ==
    /\ d.public.installed => d.public.chain >= 2 /\ d.public.ownership
    /\ d.public.ownership => d.public.chain >= 2
    /\ d.public.chain = 3 => d.public.installed

verify_manifest == d.tree.at = "destination" /\ d.tree.files = Payload(d.reviewed)

Finalized == d.public = [chain |-> 3, ownership |-> TRUE, installed |-> TRUE]

finalize_protected_visible_install ==
    /\ w.pc = "finalize"
    /\ IF require_held_publisher_evidence /\ compatible_prefix
       THEN \/ /\ d.public.chain < 2
               /\ Write("finalize", [d EXCEPT !.public.chain = @ + 1])
            \/ /\ d.public.chain >= 2 /\ ~d.public.ownership
               /\ Write("finalize", [d EXCEPT !.public.ownership = TRUE])
            \/ /\ d.public.ownership /\ ~verify_manifest
               /\ End("failed")
            \/ /\ d.public.ownership /\ verify_manifest /\ ~d.public.installed
               /\ Write("finalize", [d EXCEPT !.public.installed = TRUE])
            \/ /\ d.public.installed /\ verify_manifest /\ d.public.chain = 2
               /\ Write("finalize", [d EXCEPT !.public.chain = 3])
            \/ /\ Finalized /\ verify_manifest
               /\ Goto("readback")
       ELSE End("failed")

(* finalize_reviewed_public_state: the public commands read the same state *)
(* back.                                                                   *)
finalize_reviewed_public_state ==
    /\ w.pc = "readback"
    /\ IF Finalized /\ verify_manifest
       THEN Goto(IF route = "child" THEN "grant" ELSE "finish")
       ELSE End("failed")

----------------------------------------------------------------------------
(* Consumer read access, and the end of the operation.                     *)

(* require_completed_consumer_install.                                     *)
require_completed_consumer_install == d.completion.rec = "ok" /\ Finalized

(* grant_publisher_consumer_read: children before the root; an object that *)
(* has the entry is passed over.                                           *)
grant_publisher_consumer_read(o) ==
    /\ w.pc = "grant"
    /\ require_completed_consumer_install /\ VisibleStill
    /\ o \in Object \ d.granted
    /\ o = "root" => File \subseteq d.granted
    /\ Write("grant", [d EXCEPT !.granted = @ \cup {o}])

(* Mutant: the operation finishes with objects left out.                   *)
granted_some ==
    /\ w.pc = "grant"
    /\ Goto("finish")

granted_all ==
    /\ w.pc = "grant"
    /\ IF require_completed_consumer_install /\ VisibleStill
       THEN d.granted = Object /\ Goto("finish")
       ELSE End("failed")

finish_operation ==
    /\ w.pc = "finish"
    /\ d' = [d EXCEPT !.lease = "none"]
    /\ Done("pass") /\ UNCHANGED env

----------------------------------------------------------------------------
(* observe_prepared_recovery: what a later worker finds.                   *)

(* The prepared record and every other record present can be read; a       *)
(* registered child continues only what an authenticated child prepared.   *)
recovery_records ==
    /\ d.anchors = Anchors
    /\ d.prepared.rec = "ok" /\ d.reviewed \in Plan
    /\ d.visible.rec # "torn" /\ d.completion.rec # "torn"
    /\ route = "child" => d.prepared.auth

(* The snapshot is the one the prepared record binds, and the completion   *)
(* follows a visible record.                                               *)
recovery_bindings ==
    /\ require_reviewed_plan_snapshot /\ require_prepared_execution_phases
    /\ d.completion.rec = "ok" => d.visible.rec = "ok"

(* An apply that names another plan: known to be stale once completed.     *)
recovery_request ==
    w.kind = "apply" => require_candidate_snapshot_apply_binding

(* Mutant: a visible tree needs its record.                                *)
recovery_namespace_strict ==
    /\ d.tree.at \in {"staging", "destination"}
    /\ d.visible.rec = "ok" <=> d.tree.at = "destination"
    /\ d.granted # {} => require_completed_consumer_install

(* The tree is in one of the two places, and in the destination if a       *)
(* visible record says so; a grant follows completion.                     *)
recovery_namespace ==
    /\ d.tree.at \in {"staging", "destination"}
    /\ d.visible.rec = "ok" => d.tree.at = "destination"
    /\ d.granted # {} => require_completed_consumer_install

(* The tree is the sealed one, identities included, and the records follow *)
(* one another.                                                            *)
recovery_tree ==
    /\ SealedStill
    /\ d.visible.rec = "ok" => require_visible_execution_phase
    /\ d.completion.rec = "ok" => d.completion = lab_selected_installed_record

Recoverable ==
    recovery_records /\ recovery_bindings /\ recovery_request /\ recovery_namespace
    /\ recovery_tree

(* Forward without a visible record: rename what is staged, or record what *)
(* is already visible.                                                     *)
recover_forward ==
    /\ w.pc = "recover" /\ w.kind # "observe" /\ Recoverable
    /\ d.visible.rec = "none"
    /\ \/ d.tree.at = "staging" /\ Goto("commit")
       \/ /\ d.tree.at = "destination"
          /\ w' = [w EXCEPT !.pc = "visible", !.claim = "observed"]
          /\ UNCHANGED <<d, env>>

(* Forward with one: complete what is recorded.                            *)
recover_recorded ==
    /\ w.pc = "recover" /\ w.kind # "observe" /\ Recoverable
    /\ d.visible.rec = "ok"
    /\ Goto("completion")

(* A plain observation of a recoverable publication changes nothing.       *)
recover_observe ==
    /\ w.pc = "recover" /\ w.kind = "observe" /\ Recoverable
    /\ End("recovery_required")

recover_refused ==
    /\ w.pc = "recover" /\ ~Recoverable
    /\ IF /\ recovery_records /\ recovery_bindings /\ ~recovery_request
          /\ d.completion.rec = "ok"
       THEN End("stale")
       ELSE End("failed")

(* observe_completed_verification_boundary and the verification command:   *)
(* read-only, and only of a completed publication.                         *)
observe_completed_verification_boundary ==
    /\ recovery_records /\ recovery_bindings /\ recovery_namespace
    /\ d.visible.rec = "ok" /\ d.completion.rec = "ok" /\ recovery_tree
    /\ Finalized /\ (route = "child" => d.granted = Object)

verify_completed_install_in_service ==
    /\ w.pc = "route" /\ w.kind = "verify"
    /\ IF observe_completed_verification_boundary THEN End("pass") ELSE End("failed")

----------------------------------------------------------------------------
(* The surroundings.                                                       *)

(* The worker dies or throws: power, a stop event, a failed call.          *)
Interrupt ==
    /\ w.pc # "idle" /\ faults < MaxFaults
    /\ faults' = faults + 1
    /\ Done("none")
    /\ UNCHANGED <<d, route, source, markers, edits>>

(* The archive is changed.                                                 *)
ChangeSource ==
    /\ source /\ source' = FALSE
    /\ UNCHANGED <<d, w, route, markers, faults, edits>>

(* Someone changes a file of the tree, or puts a copy in its place.        *)
Edit ==
    /\ d.tree.at # "none" /\ edits < MaxEdits
    /\ edits' = edits + 1
    /\ \/ \E f \in File : d' = [d EXCEPT !.tree.files[f] = "edited"]
       \/ d' = [d EXCEPT !.tree.id = 1]
    /\ UNCHANGED <<w, route, source, markers, faults>>

Publish ==
    \/ create_anchor \/ create_snapshot \/ flush_snapshot \/ create_candidate
    \/ (\E f \in File : stage_selected_archive_file(f)) \/ staged_all \/ reopen_anchors
    \/ seal_candidate \/ initialize_setup_root \/ create_prepared \/ flush_prepared
    \/ probe_publisher_bound_rename_no_replace \/ create_visible \/ flush_visible
    \/ complete_selected_lab_state \/ flush_completion \/ final_closure

Worker ==
    \/ operation_context_apply \/ operation_context_recover \/ admit_unregistered
    \/ prepare_intent \/ start_installation_lease \/ preserve_publication
    \/ move_publication \/ record_absence \/ reserve_publication
    \/ dispatch_present \/ dispatch_absent \/ apply_in_candidate_publisher_context
    \/ dispatch_recover_prepared
    \/ Publish
    \/ finalize_protected_visible_install \/ finalize_reviewed_public_state
    \/ (\E o \in Object : grant_publisher_consumer_read(o)) \/ granted_all
    \/ finish_operation
    \/ recover_forward \/ recover_recorded \/ recover_observe \/ recover_refused
    \/ verify_completed_install_in_service

Request ==
    \E k \in Kind, p \in Plan \cup {"none"}, g \in Gate \cup {"none"} :
        ScopedExecution(k, p, g)

(* The operator asks again for what the volume holds.                      *)
AskRecovery ==
    ScopedExecution("recover", IF route = "child" THEN d.reviewed ELSE "none", "none")

Next ==
    \/ Worker \/ Request \/ rename_uncertain \/ Interrupt \/ ChangeSource \/ Edit

Spec == Init /\ [][Next]_vars

(* A worker that is not interrupted goes on, and recovery is asked for     *)
(* again and again.                                                        *)
FairSpec == Spec /\ WF_vars(Worker) /\ SF_vars(AskRecovery)

----------------------------------------------------------------------------
(* Properties.                                                             *)

(* The phase a reader of the volume sees, from its latest evidence.        *)
Phase ==
    CASE d.public.installed -> 7
      [] ~d.public.installed /\ d.completion.rec = "ok" -> 6
      [] d.completion.rec # "ok" /\ d.visible.rec = "ok" -> 5
      [] d.visible.rec # "ok" /\ d.tree.at = "destination" -> 4
      [] d.tree.at # "destination" /\ d.prepared.rec = "ok" -> 3
      [] d.prepared.rec # "ok" /\ d.tree.at = "staging" -> 2
      [] d.prepared.rec # "ok" /\ d.tree.at = "none" /\ Readable -> 1
      [] OTHER -> 0

(* The operation that owns the publication: by its snapshot, and before it *)
(* by the lease that a registered worker takes first.                      *)
Owner == IF Readable THEN d.reviewed ELSE d.lease

Phases == INSTANCE PublicationPhases WITH phase <- Phase, owner <- Owner, NoPlan <- "none"

(* Whatever is interrupted, retried or refused, the publication belongs to *)
(* one plan for good and goes through its phases in order; only before a   *)
(* candidate exists may its owner start it again (the order of writes of   *)
(* observe_protected_anchors and observe_prepared_recovery, and            *)
(* prepare_publication).                                                   *)
PhasesInOrder == Phases!Spec

(* A tree in the destination is the prepared one: its prepared record is   *)
(* intact, binds the stored snapshot and seals exactly the plan's files,   *)
(* and only an edit makes the tree differ from the seal.                   *)
VisibleIsPrepared ==
    d.tree.at = "destination" =>
        /\ d.prepared.rec = "ok" /\ d.prepared.plan = d.reviewed
        /\ edits = 0 => d.prepared.seal.files = Payload(d.reviewed) /\ SealedStill

(* Consumers read nothing before the installation is complete: a granted   *)
(* object has a completion record for the visible tree and a finished      *)
(* public record (require_completed_consumer_install).                     *)
GrantsFollowCompletion ==
    d.granted # {} =>
        /\ d.tree.at = "destination" /\ d.completion.rec = "ok" /\ Finalized
        /\ d.completion.visible = d.visible /\ d.visible.of = d.prepared

(* What can be seen and read is an installation: the destination holds the *)
(* prepared tree, and consumers reach it only when it is complete          *)
(* (probe_publisher_bound_rename_no_replace, grant_publisher_consumer_     *)
(* read).                                                                  *)
ReadersSeeInstallations == TypeOK /\ VisibleIsPrepared /\ GrantsFollowCompletion

(* A visible record that claims the rename was written by the worker that  *)
(* renamed; one that observed says so (lab_visible_record's transition).   *)
ClaimIsTruthful ==
    d'.visible.rec = "ok" /\ d.visible.rec # "ok" =>
        (d'.visible.claim = "renamed") = w.renamed

(* A worker that answers that the request is stale, or that only observes  *)
(* or verifies, has written nothing (StaleReviewedInstallRequest).         *)
RefusalWroteNothing ==
    (w'.reply \in {"stale", "recovery_required"} \/ w'.kind \in {"observe", "verify"})
        => ~w'.wrote

(* A pass answer means the whole installation: its plan is the stored one, *)
(* the public state is finished and consumers have access; an apply or a   *)
(* recovery also leaves no operation open (the tail of execute).           *)
PassIsComplete ==
    w'.reply = "pass" /\ w.reply # "pass" =>
        /\ d.completion = lab_selected_installed_record /\ Finalized
        /\ w.plan \in {"none", d.reviewed}
        /\ edits = 0 => d.tree.files = Payload(d.reviewed)
        /\ route = "child" => d'.granted = Object
        /\ w.kind # "verify" => d'.lease = "none"

(* What a worker records or answers about its own work is true, whoever    *)
(* was interrupted before it: its claim of the rename, its refusal and its *)
(* pass (lab_visible_record, StaleReviewedInstallRequest, execute).        *)
ReportsAreTruthful ==
    [][ClaimIsTruthful /\ RefusalWroteNothing /\ PassIsComplete]_vars

Torn == d.reviewed = "torn" \/ "torn" \in {d.prepared.rec, d.visible.rec, d.completion.rec}

(* What is prepared gets installed and accessible once interruptions end,  *)
(* unless a phase record was torn or the tree edited, which stay refused.  *)
PreparedGetsInstalled ==
    []<>(d.prepared.rec = "ok" =>
           \/ Finalized /\ (route = "child" => d.granted = Object)
           \/ Torn \/ edits > 0)
=============================================================================
