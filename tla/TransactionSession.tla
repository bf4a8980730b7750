------------------------- MODULE TransactionSession -------------------------
(***************************************************************************)
(* usk::transaction::TransactionSession: a journaled session stages a      *)
(* payload into its own directory and publishes it with one no-replace     *)
(* directory rename.  Several transactions compete for one target root,    *)
(* each driven by at most one live session; a session may die between any  *)
(* two durable effects and the transaction is then picked up again from    *)
(* its journal alone.                                                      *)
(*                                                                         *)
(* Data is abstracted to what recovery tells apart.  A directory identity  *)
(* is the transaction that created the directory (staging roots are        *)
(* created exclusively, once per transaction).  The transition chain is    *)
(* its last state, its length and whether it ever entered "committing".    *)
(* File contents are good unless the file is missing or not recorded.      *)
(***************************************************************************)
EXTENDS Naturals, FiniteSets

CONSTANTS
    Tx,         \* transaction identifiers
    File,       \* relative payload paths
    Foreign,    \* identity of a directory made by somebody else
    None,       \* an absent path, journal or transaction
    MaxFaults   \* bound on crashes, I/O failures and target removals

ASSUME TxAssumption ==
    /\ Foreign \notin Tx
    /\ None \notin Tx \cup File
    /\ None # Foreign
    /\ MaxFaults \in Nat

VARIABLES
    journal,    \* journal[t]: the published journal snapshot, or None
    tmp,        \* tmp[t]: numbers n of the files <journal>.tmp.n on disk
    stage,      \* stage[t]: content of .usk-stage-<t>, or None
    target,     \* identity of the directory at the target path, or None
    mem,        \* mem[t]: fields of the live TransactionSession object
    pc,         \* pc[t]: where the session's current call stands
    published,  \* history: transactions whose commit rename has happened
    faults      \* crashes, I/O failures and target removals so far

vars == <<journal, tmp, stage, target, mem, pc, published, faults>>

-----------------------------------------------------------------------------
(* The journal document and the in-memory session.                         *)

States == {"", "created", "validated", "planned", "staging", "staged", "verified",
           "committing", "committed", "completed", "refused", "recovery_required",
           "rolled_back"}

Phases == {"none", "intent", "writing", "complete"}

Snapshots == [state: States, len: Nat, files: SUBSET File, phase: Phases, commit: BOOLEAN]

Session == [state: States, len: Nat, started: BOOLEAN, stream: BOOLEAN,
            commit: BOOLEAN, ident: BOOLEAN, pub: BOOLEAN, files: SUBSET File,
            entry: File \cup {None}, phase: Phases, verified: BOOLEAN,
            origin: Tx \cup {None}, osnap: Snapshots \cup {None}, bound: BOOLEAN]

Blank == [state |-> "", len |-> 0, started |-> FALSE, stream |-> FALSE,
          commit |-> FALSE, ident |-> FALSE, pub |-> FALSE, files |-> {},
          entry |-> None, phase |-> "none", verified |-> FALSE,
          origin |-> None, osnap |-> None, bound |-> FALSE]

\* The bytes a snapshot digest pins, as far as lineage checks tell them apart.
Snapshot(j) == [state |-> j.state, len |-> j.len, files |-> j.files,
                phase |-> j.phase, commit |-> j.commit]

valid_transition(from, to) ==
    CASE from = "" -> to = "created"
      [] from = "created" -> to = "validated"
      [] from = "validated" -> to = "planned"
      [] from = "planned" -> to = "staging"
      [] from = "staging" -> to \in {"staged", "recovery_required", "refused"}
      [] from = "staged" -> to \in {"verified", "recovery_required", "refused"}
      [] from = "verified" -> to \in {"committing", "recovery_required", "refused"}
      [] from = "committing" -> to \in {"committed", "recovery_required"}
      [] from = "committed" -> to \in {"completed", "recovery_required"}
      [] from = "recovery_required" -> to \in {"committing", "rolled_back"}
      [] OTHER -> FALSE

\* A serialized journal withholds the staging identity once either retain-only
\* latch is set, and never carries the volatile verified closure.
render_journal(m) ==
    [m EXCEPT !.ident = m.ident /\ ~m.stream /\ ~m.commit, !.verified = FALSE]

\* StableFile refuses a journal that still has its first temporary as a second
\* hard link: the state left by a death between link() and unlink().
Readable(t) == journal[t] # None /\ 0 \notin tmp[t]

\* A staging root.  "foreign" is the entry of somebody else in it, "late" if it
\* appeared after the last observation of the closure.
StageContents ==
    [files: SUBSET File, streamed: SUBSET File, foreign: {"none", "early", "late"}]

\* None stands for an absent document or directory, so it is neither.
ASSUME NoneAssumption == None \notin Session \cup StageContents

EmptyStage == [files |-> {}, streamed |-> {}, foreign |-> "none"]

\* Mutant: only the recorded files are looked for.
ClosureIntact_recorded(t, recorded) == stage[t] # None /\ stage[t].files = recorded

\* verify_recorded_staging_closure, observe_commit_closure: the staging root
\* holds the recorded files and nothing else.
ClosureIntact(t, recorded) ==
    /\ stage[t] # None
    /\ stage[t].files = recorded
    /\ stage[t].foreign = "none"

Points == {"dead", "start", "idle", "open", "read", "catch", "observe", "rename",
           "remove", "unlink"}

Init ==
    /\ journal = [t \in Tx |-> None]
    /\ tmp = [t \in Tx |-> {}]
    /\ stage = [t \in Tx |-> None]
    /\ target = None
    /\ mem = [t \in Tx |-> Blank]
    /\ pc = [t \in Tx |-> "dead"]
    /\ published = {}
    /\ faults = 0

-----------------------------------------------------------------------------
(* Journal persistence.  A persist renders the session, creates the next   *)
(* numbered temporary exclusively and publishes it over the journal.       *)
(* Transition n and every snapshot taken after transition n - 1 use the    *)
(* same temporary number, the length of the chain before the persist.      *)
(* Nobody else reads a temporary, so one step covers the whole call; every *)
(* point at which it can fail or the process can die is an outcome.        *)

Goto(t, point) == pc' = [pc EXCEPT ![t] = point]

Spend == faults < MaxFaults /\ faults' = faults + 1

Die(t) == Goto(t, "dead") /\ mem' = [mem EXCEPT ![t] = Blank]

\* atomic_write_journal of m, and control afterwards: at "then" with memory m,
\* or, when it throws, at "fail" with memory base.
Persist(t, m, base, then, fail) ==
    LET n == base.len
        published_m == journal' = [journal EXCEPT ![t] = render_journal(m)]
        thrown == IF fail = "dead" THEN Die(t)
                  ELSE mem' = [mem EXCEPT ![t] = base] /\ Goto(t, fail)
        left == tmp' = [tmp EXCEPT ![t] = @ \cup {n}]
    IN
    \/ /\ n \notin tmp[t]                       \* success
       /\ published_m
       /\ mem' = [mem EXCEPT ![t] = m] /\ Goto(t, then)
       /\ UNCHANGED <<tmp, faults>>
    \/ /\ n \in tmp[t]                          \* exclusive create fails
       /\ thrown
       /\ UNCHANGED <<journal, tmp, faults>>
    \/ /\ Spend /\ n \notin tmp[t]              \* write or flush fails, temporary stays
       /\ left /\ thrown
       /\ UNCHANGED journal
    \/ /\ Spend /\ n \notin tmp[t]              \* published, but the directory flush throws
       /\ published_m /\ thrown
       /\ UNCHANGED tmp
    \/ /\ Spend /\ n \notin tmp[t]              \* death with the temporary on disk
       /\ left /\ Die(t)
       /\ UNCHANGED journal
    \/ /\ Spend /\ n = 0 /\ n \notin tmp[t]     \* death between link() and unlink()
       /\ left /\ published_m /\ Die(t)
    \/ /\ Spend                                 \* throws before it exists or removes it
       /\ thrown
       /\ UNCHANGED <<journal, tmp>>
    \/ /\ Spend                                 \* death before the temporary exists
       /\ Die(t)
       /\ UNCHANGED <<journal, tmp>>

advance(m, next) ==
    [m EXCEPT !.state = next, !.len = @ + 1, !.started = @ \/ next = "committing"]

persist_transition(t, next, then, fail) ==
    /\ valid_transition(mem[t].state, next)
    /\ Persist(t, advance(mem[t], next), mem[t], then, fail)

persist_snapshot(t, m, then, fail) == Persist(t, m, m, then, fail)

-----------------------------------------------------------------------------
(* Construction.                                                           *)

\* TransactionSession(spec) and begin_streaming: roots are free and the
\* journal does not exist.  A spec that requires staged_child_bound_v1 latches
\* retention from the first record.
Begin(t, streaming, bound) ==
    /\ pc[t] = "dead" /\ journal[t] = None
    /\ target = None /\ stage[t] = None
    /\ mem' = [mem EXCEPT ![t] =
                 [Blank EXCEPT !.stream = streaming, !.commit = bound, !.bound = bound]]
    /\ Goto(t, "start")
    /\ UNCHANGED <<journal, tmp, stage, target, published, faults>>

\* created, validated, planned, staging, each durable on its own.
PersistInitial(t) ==
    /\ pc[t] = "start" /\ mem[t].state # "staging"
    /\ \E next \in {"created", "validated", "planned", "staging"} :
          persist_transition(t, next, "start", "dead")
    /\ UNCHANGED <<stage, target, published>>

create_staging_root(t) ==
    /\ pc[t] = "start" /\ mem[t].state = "staging"
    /\ stage[t] = None
    /\ stage' = [stage EXCEPT ![t] = EmptyStage]
    /\ persist_snapshot(t, [mem[t] EXCEPT !.ident = TRUE, !.pub = mem[t].stream], "idle", "dead")
    /\ UNCHANGED <<target, published>>

-----------------------------------------------------------------------------
(* Staging.                                                                *)

InState(t, states) == pc[t] = "idle" /\ mem[t].state \in states

\* The file is written first and recorded afterwards.
stage_file(t, f) ==
    /\ InState(t, {"staging"}) /\ stage[t] # None
    /\ f \notin mem[t].files /\ f \notin stage[t].files
    /\ stage' = [stage EXCEPT ![t].files = @ \cup {f}]
    /\ persist_snapshot(t, [mem[t] EXCEPT !.files = @ \cup {f}], "idle", "idle")
    /\ UNCHANGED <<target, published>>

\* The write fails part way: the file stays, unrecorded.
stage_file_fails(t, f) ==
    /\ InState(t, {"staging"}) /\ stage[t] # None
    /\ f \notin mem[t].files /\ f \notin stage[t].files
    /\ Spend
    /\ stage' = [stage EXCEPT ![t].files = @ \cup {f}]
    /\ UNCHANGED <<journal, tmp, target, mem, pc, published>>

\* stage_file_stream: retention and the entry's intent are durable before the
\* output file exists.
stage_file_stream(t, f) ==
    /\ InState(t, {"staging"}) /\ stage[t] # None
    /\ f \notin mem[t].files
    /\ mem[t].phase \in {"none", "complete"}
    /\ persist_snapshot(t, [mem[t] EXCEPT !.stream = TRUE, !.pub = TRUE,
                                          !.entry = f, !.phase = "intent"], "open", "idle")
    /\ UNCHANGED <<stage, target, published>>

OpenStream(t) ==
    /\ pc[t] = "open"
    /\ LET f == mem[t].entry IN
       IF f \in stage[t].files
       THEN Goto(t, "catch") /\ UNCHANGED <<journal, tmp, mem, stage, faults>>
       ELSE /\ stage' = [stage EXCEPT ![t].files = @ \cup {f}, ![t].streamed = @ \cup {f}]
            /\ persist_snapshot(t, [mem[t] EXCEPT !.phase = "writing"], "read", "catch")
    /\ UNCHANGED <<target, published>>

\* The source was read to its end with the reviewed size and digest.
FinishStream(t) ==
    /\ pc[t] = "read"
    /\ persist_snapshot(t, [mem[t] EXCEPT !.phase = "complete",
                                          !.files = @ \cup {mem[t].entry}], "idle", "catch")
    /\ UNCHANGED <<stage, target, published>>

\* A short, oversized or changed source, or a write error.
StreamFails(t) ==
    /\ pc[t] = "read"
    /\ Spend
    /\ Goto(t, "catch")
    /\ UNCHANGED <<journal, tmp, stage, target, mem, published>>

\* The handlers that record recovery_required best-effort and rethrow.
RecordRecovery(t) ==
    /\ pc[t] = "catch"
    /\ persist_transition(t, "recovery_required", "idle", "idle")
    /\ UNCHANGED <<stage, target, published>>

bind_stream_source(t) ==
    /\ InState(t, {"staging"}) /\ mem[t].phase = "none"
    /\ persist_snapshot(t, [mem[t] EXCEPT !.stream = TRUE, !.pub = TRUE], "idle", "idle")
    /\ UNCHANGED <<stage, target, published>>

mark_staged(t) ==
    /\ InState(t, {"staging"}) /\ stage[t] # None /\ mem[t].files # {}
    /\ mem[t].phase \in {"none", "complete"}
    /\ persist_transition(t, "staged", "idle", "idle")
    /\ UNCHANGED <<stage, target, published>>

-----------------------------------------------------------------------------
(* Verification and commit.                                                *)

mark_verified(t) ==
    /\ InState(t, {"staged"}) /\ ClosureIntact(t, mem[t].files)
    /\ LET seen == [mem[t] EXCEPT !.verified = TRUE] IN
       Persist(t, advance(seen, "verified"), seen, "idle", "idle")
    /\ UNCHANGED <<stage, target, published>>

\* commit_effect: a target that appeared since planning refuses; otherwise the
\* retain-only latch becomes durable before any staged child is examined.
commit_effect(t) ==
    /\ InState(t, {"verified"}) /\ stage[t] # None
    /\ IF target # None
       THEN persist_transition(t, "refused", "idle", "idle")
       ELSE persist_snapshot(t, [mem[t] EXCEPT !.commit = TRUE], "observe", "idle")
    /\ UNCHANGED <<stage, target, published>>

\* Mutant: the commit authority requirement is not enforced.
ObserveCommitClosure_unbound(t) ==
    /\ pc[t] = "observe"
    /\ IF mem[t].verified /\ ClosureIntact(t, mem[t].files)
       THEN persist_transition(t, "committing", "rename", "idle")
       ELSE persist_transition(t, "recovery_required", "idle", "idle")
    /\ UNCHANGED <<stage, target, published>>

\* commit_effect: the authority and the verified closure are checked again; no
\* publisher is qualified for staged_child_bound_v1.
ObserveCommitClosure(t) ==
    /\ pc[t] = "observe"
    /\ IF ~mem[t].bound /\ mem[t].verified /\ ClosureIntact(t, mem[t].files)
       THEN persist_transition(t, "committing", "rename", "idle")
       ELSE persist_transition(t, "recovery_required", "idle", "idle")
    /\ UNCHANGED <<stage, target, published>>

\* commit_effect: rename_directory_no_replace.
RenameDirectoryNoReplace(t) ==
    /\ pc[t] = "rename" /\ target = None
    /\ target' = t
    /\ stage' = [stage EXCEPT ![t] = None]
    /\ published' = published \cup {t}
    /\ Goto(t, "idle")
    /\ UNCHANGED <<journal, tmp, mem, faults>>

\* commit_effect: the target appeared before the rename could take its name.
RenameFindsTarget(t) ==
    /\ pc[t] = "rename" /\ target # None
    /\ persist_transition(t, "recovery_required", "idle", "idle")
    /\ UNCHANGED <<stage, target, published>>

\* commit_effect: the host lacks the no-replace primitive or the rename fails.
RenameFails(t) ==
    /\ pc[t] = "rename" /\ target = None
    /\ Spend
    /\ Goto(t, "catch")
    /\ UNCHANGED <<journal, tmp, stage, target, mem, published>>

\* Mutant: a staging root that is still there is not noticed.
VisibleOnly_target(t) == target # None

\* The staging root is gone and some directory is at the target path.
VisibleOnly(t) == stage[t] = None /\ target # None

mark_committed(t) ==
    /\ InState(t, {"committing"}) /\ ~mem[t].bound /\ VisibleOnly(t)
    /\ persist_transition(t, "committed", "idle", "idle")
    /\ UNCHANGED <<stage, target, published>>

mark_completed(t) ==
    /\ InState(t, {"committed"}) /\ ~mem[t].bound
    /\ persist_transition(t, "completed", "idle", "idle")
    /\ UNCHANGED <<stage, target, published>>

\* Callers take this from their exception handlers only, so it costs a fault.
mark_recovery_required(t) ==
    /\ InState(t, {"committing", "committed"})
    /\ Spend
    /\ Goto(t, "catch")
    /\ UNCHANGED <<journal, tmp, stage, target, mem, published>>

\* Mutant: a transaction with the retain-only latch is not resumed.
resume_committing_unlatched(t) ==
    /\ InState(t, {"recovery_required"}) /\ ~mem[t].bound /\ ~mem[t].commit /\ VisibleOnly(t)
    /\ persist_transition(t, "committing", "idle", "idle")
    /\ UNCHANGED <<stage, target, published>>

resume_committing(t) ==
    /\ InState(t, {"recovery_required"}) /\ ~mem[t].bound /\ VisibleOnly(t)
    /\ persist_transition(t, "committing", "idle", "idle")
    /\ UNCHANGED <<stage, target, published>>

-----------------------------------------------------------------------------
(* Rollback.                                                               *)

RollbackStates == {"staging", "staged", "verified", "committing", "recovery_required"}

rollback(t) ==
    /\ InState(t, RollbackStates) /\ target = None
    /\ IF mem[t].state = "recovery_required"
       THEN Goto(t, "remove") /\ UNCHANGED <<journal, tmp, mem, faults>>
       ELSE persist_transition(t, "recovery_required", "remove", "idle")
    /\ UNCHANGED <<stage, target, published>>

\* remove_recorded_staging_closure: refuse under a latch or with anything
\* unrecorded or missing, before the first deletion.
RemoveClosureStart(t) ==
    /\ pc[t] = "remove"
    /\ IF ~mem[t].stream /\ ~mem[t].commit /\ mem[t].ident /\ ClosureIntact(t, mem[t].files)
       THEN Goto(t, "unlink")
       ELSE Goto(t, "idle")
    /\ UNCHANGED <<journal, tmp, stage, target, mem, published, faults>>

RemoveRecordedFile(t, f) ==
    /\ pc[t] = "unlink" /\ f \in stage[t].files \cap mem[t].files
    /\ stage' = [stage EXCEPT ![t].files = @ \ {f}]
    /\ UNCHANGED <<journal, tmp, target, mem, pc, published, faults>>

\* Mutant: a root that holds foreign content is left and reported as removed.
RemoveStagingRoot_unchecked(t) ==
    /\ pc[t] = "unlink" /\ stage[t].files \cap mem[t].files = {}
    /\ IF stage[t].foreign # "none"
       THEN UNCHANGED stage
       ELSE stage' = [stage EXCEPT ![t] = None]
    /\ persist_transition(t, "rolled_back", "idle", "idle")
    /\ UNCHANGED <<target, published>>

RemoveStagingRoot(t) ==
    /\ pc[t] = "unlink" /\ stage[t].files \cap mem[t].files = {}
    /\ IF stage[t].foreign # "none"
       THEN Goto(t, "idle") /\ UNCHANGED <<journal, tmp, mem, stage, faults>>
       ELSE /\ stage' = [stage EXCEPT ![t] = None]
            /\ persist_transition(t, "rolled_back", "idle", "idle")
    /\ UNCHANGED <<target, published>>

-----------------------------------------------------------------------------
(* Recovery from the journal.                                              *)

PublicationChanged(t) == target # None /\ journal[t].pub /\ target # t

RollbackCandidate(t) ==
    /\ journal[t].state \in RollbackStates
    /\ target = None
    /\ journal[t].ident
    /\ ClosureIntact(t, journal[t].files)

\* Mutant: the identity of the published root is not compared.
inspect_recovery_by_name(t) ==
    LET s == journal[t].state IN
    CASE journal[t].bound -> "retain_for_operator"
      [] ~journal[t].bound /\ VisibleOnly(t) -> IF s \in {"committing", "committed", "recovery_required"}
                                               THEN "resume" ELSE "retain_for_operator"
      [] OTHER -> IF RollbackCandidate(t) /\ stage[t] # None THEN "rollback" ELSE "abandon"

\* inspect_recovery_impl: the action a read-only inspection offers.
inspect_recovery(t) ==
    LET s == journal[t].state IN
    CASE PublicationChanged(t) \/ journal[t].bound -> "retain_for_operator"
      [] /\ ~PublicationChanged(t) /\ ~journal[t].bound
         /\ s \in {"committing", "committed", "recovery_required"} /\ VisibleOnly(t) -> "resume"
      [] /\ ~journal[t].bound
         /\ s \in RollbackStates /\ stage[t] # None /\ target = None ->
            IF RollbackCandidate(t) THEN "rollback" ELSE "retain_for_operator"
      [] /\ ~journal[t].bound
         /\ s \in {"created", "validated", "planned", "staging"}
         /\ stage[t] = None /\ target = None -> "abandon"
      [] OTHER -> IF s \in {"completed", "rolled_back", "refused"} THEN "none"
                  ELSE "retain_for_operator"

resume_finalization(t) ==
    /\ pc[t] = "dead" /\ Readable(t) /\ ~journal[t].bound
    /\ journal[t].state \in {"committing", "committed", "recovery_required"}
    /\ VisibleOnly(t)
    /\ journal[t].stream => journal[t].pub /\ target = t
    /\ mem' = [mem EXCEPT ![t] = journal[t]]
    /\ Goto(t, "idle")
    /\ UNCHANGED <<journal, tmp, stage, target, published, faults>>

resume_rollback(t) ==
    /\ pc[t] = "dead" /\ Readable(t)
    /\ RollbackCandidate(t)
    /\ mem' = [mem EXCEPT ![t] = journal[t]]
    /\ Goto(t, "idle")
    /\ UNCHANGED <<journal, tmp, stage, target, published, faults>>

\* restart_streaming: no commit was ever started and nothing is visible; a
\* missing staging root counts only before its identity was recorded.
replayable(t) ==
    /\ Readable(t)
    /\ journal[t].state \in {"created", "validated", "planned", "staging", "staged",
                             "verified", "recovery_required"}
    /\ ~journal[t].started /\ target = None
    /\ stage[t] # None \/ ~journal[t].pub

\* The transactions reached from t by following recorded origins.
Lineage(t) ==
    LET up[n \in 0..Cardinality(Tx)] ==
          IF n = 0 THEN {t}
          ELSE up[n - 1] \cup {journal[u].origin : u \in {v \in up[n - 1] \cap Tx : journal[v] # None}}
    IN  up[Cardinality(Tx)] \ {None}

restart_streaming(t, prior) ==
    /\ pc[t] = "dead" /\ journal[t] = None /\ stage[t] = None
    /\ t # prior
    /\ journal[prior] # None /\ journal[prior].stream /\ ~journal[prior].bound
    /\ t \notin Lineage(prior)
    /\ \A u \in Lineage(prior) :
          /\ replayable(u)
          /\ journal[u].origin # None =>
                journal[u].osnap = Snapshot(journal[journal[u].origin])
    /\ mem' = [mem EXCEPT ![t] =
                 [Blank EXCEPT !.stream = TRUE, !.origin = prior,
                               !.osnap = Snapshot(journal[prior])]]
    /\ Goto(t, "start")
    /\ UNCHANGED <<journal, tmp, stage, target, published, faults>>

-----------------------------------------------------------------------------
(* The environment.                                                        *)

\* The process dies, or the caller drops the session object.
Crash(t) ==
    /\ pc[t] # "dead"
    /\ Spend /\ Die(t)
    /\ UNCHANGED <<journal, tmp, stage, target, published>>

\* Somebody else creates a directory at the target path.
ForeignTarget ==
    /\ target = None
    /\ target' = Foreign
    /\ UNCHANGED <<journal, tmp, stage, mem, pc, published, faults>>

\* Somebody else removes the directory at the target path.
TargetRemoved ==
    /\ target # None
    /\ Spend
    /\ target' = None
    /\ UNCHANGED <<journal, tmp, stage, mem, pc, published>>

\* Somebody else drops a file into a staging root, perhaps between the last
\* observation of the commit effect and its rename.
ForeignChild(t) ==
    /\ stage[t] # None /\ stage[t].foreign = "none"
    /\ stage' = [stage EXCEPT ![t].foreign = IF pc[t] = "rename" THEN "late" ELSE "early"]
    /\ UNCHANGED <<journal, tmp, target, mem, pc, published, faults>>

Construction(t) ==
    \/ \E streaming, bound \in BOOLEAN : Begin(t, streaming, bound)
    \/ PersistInitial(t) \/ create_staging_root(t)

Staging(t) ==
    \/ \E f \in File : stage_file(t, f) \/ stage_file_fails(t, f) \/ stage_file_stream(t, f)
    \/ OpenStream(t) \/ FinishStream(t) \/ StreamFails(t) \/ RecordRecovery(t)
    \/ bind_stream_source(t) \/ mark_staged(t)

Commit(t) ==
    \/ mark_verified(t) \/ commit_effect(t) \/ ObserveCommitClosure(t)
    \/ RenameDirectoryNoReplace(t) \/ RenameFindsTarget(t) \/ RenameFails(t)
    \/ mark_committed(t) \/ mark_completed(t)
    \/ mark_recovery_required(t) \/ resume_committing(t)

Rollback(t) ==
    \/ rollback(t) \/ RemoveClosureStart(t) \/ RemoveStagingRoot(t)
    \/ \E f \in File : RemoveRecordedFile(t, f)

Recovery(t) ==
    \/ resume_finalization(t) \/ resume_rollback(t)
    \/ \E prior \in Tx : restart_streaming(t, prior)

Next ==
    \/ \E t \in Tx : Construction(t) \/ Staging(t) \/ Commit(t)
                     \/ Rollback(t) \/ Recovery(t) \/ Crash(t) \/ ForeignChild(t)
    \/ ForeignTarget \/ TargetRemoved

Spec == Init /\ [][Next]_vars

\* A running session keeps taking steps, and somebody keeps reopening an
\* interrupted finalization and driving it on, as recover_install_finalization
\* and recovery.apply do.
Fairness ==
    \A t \in Tx :
        /\ WF_vars(RecordRecovery(t))
        /\ WF_vars(resume_finalization(t))
        /\ WF_vars(resume_committing(t))
        /\ WF_vars(mark_committed(t))
        /\ WF_vars(mark_completed(t))

FairSpec == Spec /\ Fairness

-----------------------------------------------------------------------------
(* Properties.                                                             *)

\* Every variable keeps its type.
TypeOK ==
    /\ journal \in [Tx -> Session \cup {None}]
    /\ tmp \in [Tx -> SUBSET Nat]
    /\ stage \in [Tx -> StageContents \cup {None}]
    /\ target \in Tx \cup {Foreign, None}
    /\ mem \in [Tx -> Session]
    /\ pc \in [Tx -> Points]
    /\ published \subseteq Tx
    /\ faults \in 0..MaxFaults

\* Intent is durable before visibility: a root that was ever published by the
\* commit rename has a journal that records the commit attempt and the
\* retain-only latch, whatever failed or was reopened since.
PublishedHasIntent ==
    \A t \in published :
        /\ journal[t] # None
        /\ journal[t].started
        /\ journal[t].commit
        /\ stage[t] = None

\* A journal that says "rolled_back" belongs to a transaction that published
\* nothing and left no staging root.
RolledBackLeavesNothing ==
    \A t \in Tx : journal[t] # None /\ journal[t].state = "rolled_back" =>
        t \notin published /\ stage[t] = None

\* Once a session has bound a stream it never deletes its staging root, so
\* only its own commit rename can take the root away: "committed" and
\* "completed" are recorded for a streaming transaction only after its staging
\* root became the target, whoever finalizes it and however often it died.
StreamCompletionIsTruthful ==
    \A t \in Tx :
        /\ journal[t] # None /\ journal[t].stream
        /\ journal[t].state \in {"committed", "completed"}
        => t \in published

\* stage_file_stream latches retention durably before it creates a file, so a
\* streamed file never sits under a journal that still grants rollback.
StreamedFilesAreRetained ==
    \A t \in Tx : stage[t] # None /\ stage[t].streamed # {} =>
        journal[t] # None /\ journal[t].stream /\ ~journal[t].ident

DeletionGranted(t) ==
    /\ stage[t] # None
    /\ stage'[t] = None \/ ~(stage[t].files \subseteq stage'[t].files)
    => \/ target' = t /\ stage'[t] = None
       \/ journal[t].ident /\ t \notin published /\ journal[t].state = "recovery_required"

\* Deletion needs durable authority: a step removes a staged file or the
\* staging root only by publishing it or while the journal on disk grants
\* rollback (staging identity present, no latch) and nothing was published
\* under this transaction's name.
DeletionNeedsAuthority == [][\A t \in Tx : DeletionGranted(t)]_vars

LatchKept(t) ==
    journal[t] # None =>
        /\ journal'[t] # None
        /\ journal[t].stream => journal'[t].stream /\ ~journal'[t].ident
        /\ journal[t].commit => journal'[t].commit /\ ~journal'[t].ident

\* A retain-only latch on disk is permanent and rollback authority is never
\* regained: no later journal of the transaction carries a staging identity.
LatchIsPermanent == [][\A t \in Tx : LatchKept(t)]_vars

ClosurePublished(t) ==
    target' = t /\ target # t =>
        /\ target = None
        /\ stage[t].files = journal[t].files /\ journal[t].files # {}
        /\ stage[t].foreign # "early"

\* The commit rename takes the recorded files, all of them, to a free target
\* and nothing else that was in the staging root when commit_effect observed
\* its closure for the last time.  What others drop there between that
\* observation and the rename goes along: the window the code admits.
PublishesRecordedClosure == [][\A t \in Tx : ClosurePublished(t)]_vars

\* A transaction that requires staged_child_bound_v1 never becomes visible,
\* and everything it staged is retained: no rollback is recorded for it.
BoundIsRetained ==
    \A t \in Tx : journal[t] # None /\ journal[t].bound =>
        t \notin published /\ journal[t].commit /\ journal[t].state # "rolled_back"

\* A leftover temporary holds the number that the next persist needs, or the
\* journal itself is not readable.
Blocked(t) ==
    \/ 0 \in tmp[t]
    \/ journal[t] # None /\ journal[t].len \in tmp[t]
    \/ pc[t] # "dead" /\ mem[t].len \in tmp[t]

\* Finalization is live: a published transaction whose target stays in place
\* is eventually recorded as completed, unless a leftover journal temporary
\* holds the number its next record needs.
PublishedGetsCompleted ==
    \A t \in Tx :
        t \in published ~>
            \/ journal[t] # None /\ journal[t].state = "completed"
            \/ Blocked(t)
            \/ target # t

\* A read-only inspection offers exactly what can be done: "resume" and
\* "rollback" are offered when, and only when, reopening the journal for it is
\* accepted.  inspect_recovery_impl and the resuming constructors derive this
\* separately from journal, staging root and target.
OfferedActionsWork ==
    \A t \in Tx : pc[t] = "dead" /\ Readable(t) =>
        /\ inspect_recovery(t) = "resume" <=> ENABLED resume_finalization(t)
        /\ inspect_recovery(t) = "rollback" <=> stage[t] # None /\ ENABLED resume_rollback(t)
=============================================================================
