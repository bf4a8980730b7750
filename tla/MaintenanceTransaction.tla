----------------------- MODULE MaintenanceTransaction -----------------------
(***************************************************************************)
(* One repair, move or uninstall of an installation and its recovery:      *)
(* begin_maintenance, apply_repair, apply_move and apply_uninstall, the    *)
(* MaintenanceEffectJournal they write, and recover_maintenance_transaction*)
(* with the reconciler it rests on.  Every effect is bracketed by an       *)
(* intent and a completion record; the process may die or fail between any *)
(* two durable steps; outsiders may edit the installed files meanwhile.    *)
(*                                                                         *)
(* The transaction journal is its current state and what its history says  *)
(* (commit started, commit confirmed); TransactionSession has its detail.  *)
(* Files are numbered in manifest order.  A file object is told apart by   *)
(* who made it, which stands for its native identity and digest together.  *)
(* Nested directories are left out: the installed root and the operation   *)
(* target are the directories that are removed.                            *)
(***************************************************************************)
EXTENDS Naturals, Sequences

CONSTANTS
    NFiles,     \* number of files the ownership manifest lists
    Ops,        \* the operations considered
    AuditLimit, \* events of an audit chain that recovery reads; 256 in the code
    MaxFaults,  \* bound on process deaths and failing calls
    MaxEdits    \* bound on changes outsiders make

File == 1..NFiles

ASSUME MaintenanceAssumption ==
    /\ NFiles \in Nat
    /\ Ops \subseteq {"repair", "move", "uninstall"}
    /\ AuditLimit \in Nat \ {0}
    /\ MaxFaults \in Nat /\ MaxEdits \in Nat

VARIABLES
    orig,   \* the reviewed plan and the original observations
    disk,   \* installed root, staging root and operation target
    meta,   \* ownership, installed-state, audit and reviewed-plan records
    tx,     \* transaction journal
    hist,   \* effect journal
    proc,   \* the running apply or recovery call
    faults, \* process deaths and failing calls so far
    edits   \* outside changes so far

vars == <<orig, disk, meta, tx, hist, proc, faults, edits>>

-----------------------------------------------------------------------------
(* Objects, records and observations.                                      *)

\* "orig": the object the installation had when it was planned; "staged": the
\* one this transaction staged; "user": one that somebody else wrote since.
Objects == {"absent", "orig", "staged", "user"}

\* Whether an object at path f has the bytes the ownership manifest records.
Good(f, object) == object = "staged" \/ (object = "orig" /\ orig.plan[f] = "present")

\* verify_manifest over the files of one root.
verify_manifest(files, dir, unknown) ==
    IF dir /\ \A f \in File : Good(f, files[f]) THEN (IF unknown THEN "warn" ELSE "pass")
    ELSE "fail"

Affected == {f \in File : orig.plan[f] # "present"}

Records == {"absent", "torn", "written"}

Slot(kind, role, f) == [kind |-> kind, role |-> role, f |-> f]

Single(kind) == <<Slot(kind, "", 0)>>

PerFile(kind, role) == [f \in File |-> Slot(kind, role, f)]

\* backup then replacement, file by file
Replacements ==
    [i \in 1..(2 * NFiles) |->
        IF i % 2 = 1 THEN Slot("backup_file", "", (i + 1) \div 2)
                     ELSE Slot("replace_file", "", i \div 2)]

Results == Single("write_installed") \o Single("append_audit")

RemoveRoot(role) == <<Slot("remove_directory", role, 0)>>

RemoveMarker == <<Slot("remove_file", "operation_target", 0)>>

\* The effects of each apply function in program order, before the ones that
\* the observed tree makes unnecessary are dropped.  "mark_committed" is the
\* transition of the transaction journal and has no effect record.
apply_repair ==
    Single("publish_target") \o Replacements \o Single("write_ownership") \o Results
    \o Single("mark_committed") \o PerFile("remove_file", "operation_target")
    \o RemoveRoot("operation_target")

apply_move ==
    Single("publish_target") \o Single("write_ownership") \o Results \o Single("mark_committed")

apply_uninstall ==
    Single("publish_target") \o PerFile("remove_file", "installed") \o RemoveRoot("installed")
    \o Results \o Single("mark_committed") \o RemoveMarker \o RemoveRoot("operation_target")

Slots ==
    CASE orig.op = "repair" -> apply_repair [] orig.op = "move" -> apply_move
      [] OTHER -> apply_uninstall

Effect(slot, seen) == [kind |-> slot.kind, role |-> slot.role, f |-> slot.f, seen |-> seen]

\* hist is the sequence of records below, the last one possibly torn.
Record(phase, effect, outcome) == [phase |-> phase, effect |-> effect, outcome |-> outcome]

NoEffect == Effect(Slot("", "", 0), "")

Torn == hist.torn

Sealed == hist.log # <<>> /\ hist.log[Len(hist.log)].phase = "sealed"

Pending == hist.log # <<>> /\ hist.log[Len(hist.log)].phase = "intent"

PendingEffect == hist.log[Len(hist.log)].effect

Completed == SelectSeq(hist.log, LAMBDA r : r.phase = "complete")

Points == {"review", "begin", "context", "plan", "stage", "next", "effect", "rename",
           "complete", "sealed", "catch", "dead", "recover", "recovered", "done", "refused"}

NoFiles == [f \in File |-> "absent"]

\* The owned files as planning found them.
OrigRoot == [f \in File |-> IF orig.plan[f] = "missing" THEN "absent" ELSE "orig"]

\* An installation as planning found it: files intact, damaged or missing,
\* with or without content the manifest does not know, or no root at all.  Its
\* audit chain has room for one more event within the limit, or not.
Init ==
    /\ orig \in [op: Ops, plan: [File -> {"present", "modified", "missing"}],
                 dir: BOOLEAN, unknown: BOOLEAN, events: {AuditLimit - 1, AuditLimit},
                 obs: {NoFiles}, obsdir: {FALSE}]
    /\ ~orig.dir => ~orig.unknown /\ OrigRoot = NoFiles /\ orig.op # "move"
    /\ orig.op = "repair" => Affected # {}
    /\ orig.op = "move" => Affected = {}
    /\ disk = [root |-> OrigRoot, dir |-> orig.dir, unknown |-> orig.unknown, out |-> NoFiles, backup |-> NoFiles,
               marker |-> FALSE, stage |-> FALSE, target |-> FALSE]
    /\ meta = [own |-> "absent", inst |-> "absent", audit |-> <<>>, auditTorn |-> FALSE,
               plan |-> "absent"]
    /\ tx = [state |-> "", started |-> FALSE, confirmed |-> FALSE]
    /\ hist = [log |-> <<>>, torn |-> FALSE]
    /\ proc = [pc |-> "review", pos |-> 1, verdict |-> "", outcome |-> ""]
    /\ faults = 0
    /\ edits = 0

Goto(point) == proc' = [proc EXCEPT !.pc = point]

Spend == faults < MaxFaults /\ faults' = faults + 1

\* MaintenanceEffectJournal::persist and the file write below it.  The record
\* is created under its final name, so a death or a failure inside the write
\* leaves a torn record behind; the object then refuses every later record.
persist(record, after, failed) ==
    \/ /\ hist' = [hist EXCEPT !.log = Append(@, record)]
       /\ proc' = after
       /\ UNCHANGED faults
    \/ /\ Spend
       /\ hist' = [hist EXCEPT !.torn = TRUE]
       /\ \E point \in {failed, "dead"} : Goto(point)

Transition(state) ==
    tx' = [state |-> state,
           started |-> tx.started \/ state \in {"committing", "committed", "completed"},
           confirmed |-> tx.confirmed \/ state \in {"committed", "completed"}]

-----------------------------------------------------------------------------
(* Review and begin_maintenance.                                           *)

PlanHolds ==
    IF orig.op = "repair"
    THEN Affected = {f \in File : ~Good(f, disk.root[f])}
    ELSE disk.unknown = orig.unknown /\ disk.root = OrigRoot

\* The checks at the head of apply_repair, apply_move and apply_uninstall: the
\* closure must still be the one that was reviewed.
apply_review ==
    /\ proc.pc = "review"
    /\ Goto(IF PlanHolds THEN "begin" ELSE "refused")
    /\ UNCHANGED <<orig, disk, meta, tx, hist, faults, edits>>

\* begin_maintenance, first half: observe every owned object, then publish the
\* first transaction journal, which binds those observations, and the staging
\* root.
begin_streaming ==
    /\ proc.pc = "begin"
    /\ orig' = [orig EXCEPT !.obs = disk.root, !.obsdir = disk.dir]
    /\ Transition("staging")
    /\ disk' = [disk EXCEPT !.stage = TRUE]
    /\ Goto("context")
    /\ UNCHANGED <<meta, hist, faults, edits>>

\* The effect journal's constructor.  An exception here has no handler.
open_effect_journal ==
    /\ proc.pc = "context"
    /\ persist(Record("context", NoEffect, ""), [proc EXCEPT !.pc = "plan"], "dead")
    /\ UNCHANGED <<orig, disk, meta, tx, edits>>

write_reviewed_plan ==
    /\ proc.pc = "plan"
    /\ \/ /\ meta' = [meta EXCEPT !.plan = "written"]
          /\ Goto("stage")
          /\ UNCHANGED faults
       \/ /\ Spend
          /\ meta' = [meta EXCEPT !.plan = "torn"]
          /\ Goto("dead")
    /\ UNCHANGED <<orig, disk, tx, hist, edits>>

-----------------------------------------------------------------------------
(* apply_repair, apply_move, apply_uninstall.                              *)

\* Stage the payload, mark staged, mark verified.  A move copies the files it
\* planned and refuses one that has changed.
stage_payload ==
    /\ proc.pc = "stage"
    /\ IF orig.op = "move" /\ disk.root # OrigRoot
       THEN Goto("catch") /\ UNCHANGED <<disk, tx>>
       ELSE /\ disk' = [disk EXCEPT !.marker = (orig.op = "uninstall"),
                            !.out = [f \in File |->
                                IF orig.op = "move" \/ (orig.op = "repair" /\ f \in Affected)
                                THEN "staged" ELSE "absent"]]
            /\ Transition("verified")
            /\ Goto("next")
    /\ UNCHANGED <<orig, meta, hist, faults, edits>>

\* What apply decides at its next statement from the tree as it is now.
DueNow(slot) ==
    CASE slot.kind = "backup_file" -> slot.f \in Affected /\ disk.root[slot.f] # "absent"
      [] slot.kind = "replace_file" -> slot.f \in Affected
      [] slot.kind = "remove_file" /\ slot.role = "installed" -> Good(slot.f, disk.root[slot.f])
      [] slot.kind = "remove_file" /\ slot.f # 0 -> disk.backup[slot.f] # "absent"
      [] slot.kind = "remove_directory" /\ slot.role = "installed" -> disk.dir
      [] OTHER -> TRUE

\* The observation an intent records.
Seen(slot, verdict) ==
    CASE slot.kind = "backup_file" -> disk.root[slot.f]
      [] slot.kind = "replace_file" -> disk.out[slot.f]
      [] slot.kind = "remove_file" /\ slot.role = "installed" -> disk.root[slot.f]
      [] slot.kind = "remove_file" /\ slot.f # 0 -> disk.backup[slot.f]
      [] slot.kind \in {"write_installed", "append_audit"} -> verdict
      [] OTHER -> ""

\* The verification result an operation records, computed where it computes it.
Verdict(slot) ==
    CASE orig.op = "repair" /\ slot.kind = "write_ownership" ->
            verify_manifest(disk.root, disk.dir, disk.unknown)
      [] orig.op = "move" /\ slot.kind = "write_installed" ->
            verify_manifest(disk.out, disk.target, orig.unknown)
      [] orig.op = "uninstall" /\ slot.kind = "write_installed" ->
            IF disk.dir THEN "warn" ELSE "pass"
      [] OTHER -> proc.verdict

\* remove_empty_owned_tree refuses an operation root that still holds a file.
EmptyTarget == \A f \in File : disk.out[f] = "absent" /\ disk.backup[f] = "absent"

Precondition(slot) ==
    /\ Verdict(slot) # "fail"
    /\ slot.kind = "remove_directory" /\ slot.role = "operation_target" =>
            EmptyTarget /\ ~disk.marker

AtSlot == proc.pc = "next" /\ proc.pos <= Len(Slots)

Current == Slots[proc.pos]

Advance == [proc EXCEPT !.pc = "next", !.pos = @ + 1]

skip_slot ==
    /\ AtSlot /\ ~DueNow(Current)
    /\ proc' = Advance
    /\ UNCHANGED <<orig, disk, meta, tx, hist, faults, edits>>

\* MaintenanceEffectJournal::begin_effect, after the checks before it.
begin_effect ==
    /\ AtSlot /\ Current.kind # "mark_committed" /\ DueNow(Current)
    /\ IF Precondition(Current)
       THEN LET verdict == Verdict(Current)
            IN persist(Record("intent", Effect(Current, Seen(Current, verdict)), ""),
                       [proc EXCEPT !.pc = "effect", !.verdict = verdict], "catch")
       ELSE Goto("catch") /\ UNCHANGED <<hist, faults>>
    /\ UNCHANGED <<orig, disk, meta, tx, edits>>

FileEffects == {"backup_file", "replace_file", "remove_file", "remove_directory"}

\* Mutant: the replacement is renamed over whatever is there.
Doable_replacing(e) ==
    CASE e.kind = "backup_file" -> disk.root[e.f] # "absent" /\ disk.backup[e.f] = "absent"
      [] e.kind = "remove_file" /\ e.role = "installed" -> disk.root[e.f] # "absent"
      [] OTHER -> disk.dir \/ e.kind # "replace_file"

\* Whether the file system call of an effect can succeed, by pathname.
Doable(e) ==
    CASE e.kind = "backup_file" -> disk.root[e.f] # "absent" /\ disk.backup[e.f] = "absent"
      [] e.kind = "replace_file" -> disk.dir /\ disk.root[e.f] = "absent"
      [] e.kind = "remove_file" /\ e.role = "installed" -> disk.root[e.f] # "absent"
      [] OTHER -> TRUE

RootEmpty == ~disk.unknown /\ \A f \in File : disk.root[f] = "absent"

\* The tree after a file effect.  An installed root that is not empty stays.
DiskAfter(e) ==
    CASE e.kind = "backup_file" ->
            [disk EXCEPT !.backup[e.f] = disk.root[e.f], !.root[e.f] = "absent"]
      [] e.kind = "replace_file" ->
            [disk EXCEPT !.root[e.f] = disk.out[e.f], !.out[e.f] = "absent"]
      [] e.kind = "remove_file" /\ e.role = "installed" ->
            [disk EXCEPT !.root[e.f] = "absent"]
      [] e.kind = "remove_file" /\ e.f # 0 -> [disk EXCEPT !.backup[e.f] = "absent"]
      [] e.kind = "remove_file" -> [disk EXCEPT !.marker = FALSE]
      [] e.role = "installed" -> [disk EXCEPT !.dir = ~RootEmpty]
      [] OTHER -> [disk EXCEPT !.target = FALSE]

\* Repair compares what it moved with what it meant to move, afterwards.
Matched(e) == e.kind = "backup_file" => disk.root[e.f] = e.seen

apply_file_effect ==
    /\ proc.pc = "effect" /\ PendingEffect.kind \in FileEffects
    /\ LET e == PendingEffect IN
       IF Doable(e)
       THEN /\ disk' = DiskAfter(e)
            /\ proc' = [proc EXCEPT
                    !.pc = IF Matched(e) THEN "complete" ELSE "catch",
                    !.outcome = IF e.role = "installed" /\ e.kind = "remove_directory" /\ ~RootEmpty
                                THEN "retained" ELSE "applied"]
       ELSE Goto("catch") /\ UNCHANGED disk
    /\ UNCHANGED <<orig, meta, tx, hist, faults, edits>>

\* publish_target: TransactionSession::commit_effect records the commit, then
\* renames the staging root.
commit_effect ==
    /\ proc.pc = "effect" /\ PendingEffect.kind = "publish_target"
    /\ Transition("committing")
    /\ Goto("rename")
    /\ UNCHANGED <<orig, disk, meta, hist, faults, edits>>

rename_staging_root ==
    /\ proc.pc = "rename"
    /\ disk' = [disk EXCEPT !.stage = FALSE, !.target = TRUE]
    /\ proc' = [proc EXCEPT !.pc = "complete", !.outcome = "applied"]
    /\ UNCHANGED <<orig, meta, tx, hist, faults, edits>>

\* A record written under its final name: whole, or torn and the call fails.
WriteRecord(whole, torn, after, failed) ==
    \/ meta' = whole /\ proc' = after /\ UNCHANGED faults
    \/ Spend /\ meta' = torn /\ \E point \in {failed, "dead"} : Goto(point)

\* StateRepository::write_ownership and write_installed, AuditRepository::append.
write_metadata(e, after, failed) ==
    \/ /\ e.kind = "write_ownership"
       /\ WriteRecord([meta EXCEPT !.own = "written"], [meta EXCEPT !.own = "torn"],
                      after, failed)
    \/ /\ e.kind = "write_installed"
       /\ WriteRecord([meta EXCEPT !.inst = e.seen], [meta EXCEPT !.inst = "torn"],
                      after, failed)
    \/ /\ e.kind = "append_audit"
       /\ WriteRecord([meta EXCEPT !.audit = Append(@, e.seen)], [meta EXCEPT !.auditTorn = TRUE],
                      after, failed)

apply_metadata_effect ==
    /\ proc.pc = "effect"
    /\ write_metadata(PendingEffect, [proc EXCEPT !.pc = "complete", !.outcome = "applied"],
                      "catch")
    /\ UNCHANGED <<orig, disk, tx, hist, edits>>

complete_effect ==
    /\ proc.pc = "complete"
    /\ persist(Record("complete", PendingEffect, proc.outcome), Advance, "catch")
    /\ UNCHANGED <<orig, disk, meta, tx, edits>>

VisibleOnly == disk.target /\ ~disk.stage

mark_committed ==
    /\ AtSlot /\ Current.kind = "mark_committed"
    /\ IF VisibleOnly THEN Transition("committed") /\ proc' = Advance
                      ELSE Goto("catch") /\ UNCHANGED tx
    /\ UNCHANGED <<orig, disk, meta, hist, faults, edits>>

seal ==
    /\ proc.pc = "next" /\ proc.pos > Len(Slots)
    /\ persist(Record("sealed", NoEffect, ""), [proc EXCEPT !.pc = "sealed"], "catch")
    /\ UNCHANGED <<orig, disk, meta, tx, edits>>

mark_completed ==
    /\ proc.pc = "sealed"
    /\ Transition("completed")
    /\ Goto("done")
    /\ UNCHANGED <<orig, disk, meta, hist, faults, edits>>

\* The exception handlers.  Before the commit repair and move ask for a
\* rollback, which a streaming session records and then refuses to carry out;
\* uninstall leaves the journal alone.  The handler is best effort.
catch ==
    /\ proc.pc = "catch"
    /\ \/ /\ tx.state \in {"committing", "committed"} \/ orig.op # "uninstall"
          /\ Transition("recovery_required")
          /\ UNCHANGED faults
       \/ /\ tx.state \notin {"committing", "committed"} /\ orig.op = "uninstall"
          /\ UNCHANGED <<tx, faults>>
       \/ Spend /\ UNCHANGED tx
    /\ Goto("dead")
    /\ UNCHANGED <<orig, disk, meta, hist, edits>>

-----------------------------------------------------------------------------
(* Recovery.                                                               *)

\* reconcile_maintenance_effect: where a pending effect stands, judged from
\* the objects alone.
Both(before, after) ==
    CASE before /\ ~after -> "before" [] after /\ ~before -> "after" [] OTHER -> "indeterminate"

Moved(from, to, seen) ==
    Both(from = seen /\ to = "absent", from = "absent" /\ to = seen)

Removed(object, seen) == Both(object = seen, object = "absent")

Written(record, expected) == Both(record = "absent", record = expected)

\* Mutant: an event of the transaction in the chain goes unnoticed.
Audited_unnoticed(e) == "before"

\* The bounded read of the chain: a longer one is refused, also by a recovery
\* that only wants to see that its event is missing.
read_and_validate_chain_bounded ==
    ~meta.auditTorn /\ orig.events + Len(meta.audit) <= AuditLimit

Audited(e) ==
    IF read_and_validate_chain_bounded
    THEN Both(meta.audit = <<>>, meta.audit = <<e.seen>>) ELSE "indeterminate"

reconcile(e) ==
    CASE e.kind = "publish_target" ->
            Both(disk.stage /\ ~disk.target, ~disk.stage /\ disk.target)
      [] e.kind = "backup_file" /\ disk.dir /\ disk.target ->
            Moved(disk.root[e.f], disk.backup[e.f], e.seen)
      [] e.kind = "replace_file" /\ disk.dir /\ disk.target ->
            Moved(disk.out[e.f], disk.root[e.f], e.seen)
      [] e.kind = "remove_file" /\ e.role = "installed" /\ disk.dir ->
            Removed(disk.root[e.f], e.seen)
      [] e.kind = "remove_file" /\ e.role # "installed" /\ e.f # 0 /\ disk.target ->
            Removed(disk.backup[e.f], e.seen)
      [] e.kind = "remove_file" /\ e.role # "installed" /\ e.f = 0 /\ disk.target ->
            Both(disk.marker, ~disk.marker)
      [] e.kind = "remove_directory" /\ e.role = "installed" -> Both(disk.dir, ~disk.dir)
      [] e.kind = "remove_directory" /\ e.role # "installed" -> Both(disk.target, ~disk.target)
      [] e.kind = "write_ownership" /\ disk.target -> Written(meta.own, "written")
      [] e.kind = "write_installed" /\ disk.target -> Written(meta.inst, e.seen)
      [] e.kind = "append_audit" /\ disk.target -> Audited(e)
      [] OTHER -> "indeterminate"

\* The order in which inspect_maintenance_prefix expects the effects.
ExpectedSlots ==
    Single("publish_target")
    \o (CASE orig.op = "repair" -> Replacements
          [] orig.op = "uninstall" -> PerFile("remove_file", "installed") \o RemoveRoot("installed")
          [] OTHER -> <<>>)
    \o (IF orig.op # "uninstall" THEN Single("write_ownership") ELSE <<>>)
    \o Results
    \o (CASE orig.op = "repair" -> PerFile("remove_file", "operation_target")
          [] orig.op = "uninstall" -> RemoveMarker
          [] OTHER -> <<>>)
    \o (IF orig.op # "move" THEN RemoveRoot("operation_target") ELSE <<>>)

\* Mutant: a backup is expected of a file that was missing.
DueOrig_missing(slot) ==
    CASE slot.f = 0 -> TRUE
      [] slot.role = "installed" -> Good(slot.f, orig.obs[slot.f])
      [] OTHER -> slot.f \in Affected

\* Which of them the operation has, decided from the original observations.
DueOrig(slot) ==
    CASE slot.kind = "backup_file" \/ (slot.role = "operation_target" /\ slot.f # 0) ->
            slot.f \in Affected /\ orig.obs[slot.f] # "absent"
      [] slot.kind = "replace_file" -> slot.f \in Affected
      [] slot.kind = "remove_file" /\ slot.role = "installed" -> Good(slot.f, orig.obs[slot.f])
      [] slot.kind = "remove_directory" /\ slot.role = "installed" -> orig.obsdir
      [] OTHER -> TRUE

RecoveryVerdict ==
    CASE orig.op = "repair" -> verify_manifest(disk.root, disk.dir, disk.unknown)
      [] orig.op = "move" -> verify_manifest(disk.out, disk.target, orig.unknown)
      [] OTHER -> IF disk.dir THEN "warn" ELSE "pass"

SeenOrig(slot) ==
    CASE slot.kind = "replace_file" -> "staged"
      [] slot.f # 0 -> orig.obs[slot.f]
      [] slot.kind \in {"write_installed", "append_audit"} -> RecoveryVerdict
      [] OTHER -> ""

Expected ==
    LET due == SelectSeq(ExpectedSlots, DueOrig)
    IN [i \in DOMAIN due |-> Effect(due[i], SeenOrig(due[i]))]

Done == Len(Completed)

EffectsComplete == Done = Len(Expected)

Metadata == {"write_ownership", "write_installed", "append_audit"}

\* How far the selection walks past the completed effects: it re-examines the
\* results of the file effects before it considers a metadata write, and the
\* verification once ownership is written.
Ahead(expected) == {expected[i] : i \in Done + 1 .. Len(expected)}

PastFiles(ahead) == \A e \in ahead : e.kind \in Metadata \/ e.role = "operation_target"

PastOwnership(ahead) == PastFiles(ahead) /\ \A e \in ahead : e.kind # "write_ownership"

OutputsInPlace ==
    CASE orig.op = "repair" -> disk.dir /\ \A f \in Affected : disk.root[f] = "staged"
      [] orig.op = "move" -> disk.target /\ \A f \in File : disk.out[f] = "staged"
      [] OTHER -> TRUE

RootRemovalAgrees ==
    orig.op = "uninstall" =>
        disk.dir = \E i \in DOMAIN hist.log :
            /\ hist.log[i].phase = "complete"
            /\ hist.log[i].effect.kind = "remove_directory"
            /\ hist.log[i].effect.role = "installed"
            /\ hist.log[i].outcome = "retained"

\* A completed audit effect is read again: its one event must be found within
\* the bound of the reader.
AuditStands ==
    (\E i \in 1..Done : Completed[i].effect.kind = "append_audit") =>
        read_and_validate_chain_bounded /\ Len(meta.audit) = 1

\* inspect_maintenance_prefix: the recorded history is a prefix of the expected
\* effects and its results still stand.
Selectable ==
    LET expected == Expected
        completed == Completed
        done == Len(completed)
        ahead == Ahead(expected)
    IN  /\ done <= Len(expected)
        /\ \A i \in 1..done : completed[i].effect = expected[i]
        /\ Pending => done < Len(expected) /\ PendingEffect = expected[done + 1]
        /\ Sealed => done = Len(expected)
        /\ PastFiles(ahead) => OutputsInPlace
        /\ PastOwnership(ahead) => RecoveryVerdict # "fail" /\ RootRemovalAgrees
        /\ AuditStands

NextExpected == Expected[Done + 1]

Cleanup == ~EffectsComplete /\ NextExpected.role = "operation_target"

\* Mutant: only a transaction that announced its failure is taken up.
Recoverable_announced ==
    /\ ~Torn /\ meta.plan = "written" /\ tx.started
    /\ tx.state \in {"committed", "recovery_required", "completed"}

\* recover_maintenance_transaction, entry.
Recoverable ==
    /\ ~Torn /\ meta.plan = "written" /\ tx.started
    /\ tx.state \in {"committing", "committed", "recovery_required", "completed"}

recover ==
    /\ proc.pc \in {"dead", "done"} /\ Recoverable
    /\ Goto("recover")
    /\ UNCHANGED <<orig, disk, meta, tx, hist, faults, edits>>

\* Each pass selects again; a pass that cannot go on ends the call.
recover_refuses ==
    /\ proc.pc = "recover"
    /\ \/ ~Selectable
       \/ /\ Selectable /\ Pending
          /\ (Cleanup /\ ~tx.confirmed) \/ reconcile(PendingEffect) = "indeterminate"
    /\ Goto("dead")
    /\ UNCHANGED <<orig, disk, meta, tx, hist, faults, edits>>

Resumable == proc.pc = "recover" /\ Selectable

\* The pending effect did not happen: the backend applies it to the matching
\* objects, under operation authority held outside this code.
recover_apply ==
    /\ Pending /\ Resumable /\ (Cleanup => tx.confirmed)
    /\ reconcile(PendingEffect) = "before"
    /\ LET e == PendingEffect IN
       \/ /\ e.kind \in FileEffects \union {"publish_target"}
          /\ disk' = IF e.kind = "publish_target"
                     THEN [disk EXCEPT !.stage = FALSE, !.target = TRUE] ELSE DiskAfter(e)
          /\ proc' = [proc EXCEPT !.pc = "recovered", !.outcome =
                        IF e.kind = "remove_directory" /\ e.role = "installed" /\ ~RootEmpty
                        THEN "retained" ELSE "applied"]
          /\ UNCHANGED <<meta, faults>>
       \/ /\ write_metadata(e, [proc EXCEPT !.pc = "recovered", !.outcome = "applied"], "dead")
          /\ UNCHANGED disk
    /\ UNCHANGED <<orig, tx, hist, edits>>

\* The effect is observed again before its completion is recorded.
recover_complete ==
    /\ \/ /\ proc.pc = "recovered"
          /\ reconcile(PendingEffect) = IF proc.outcome = "retained" THEN "before" ELSE "after"
          /\ persist(Record("complete", PendingEffect, proc.outcome),
                     [proc EXCEPT !.pc = "recover"], "dead")
       \/ /\ Pending /\ Resumable /\ (Cleanup => tx.confirmed)
          /\ reconcile(PendingEffect) = "after"
          /\ persist(Record("complete", PendingEffect, "applied"), proc, "dead")
    /\ UNCHANGED <<orig, disk, meta, tx, edits>>

recover_postcondition_fails ==
    /\ proc.pc = "recovered"
    /\ reconcile(PendingEffect) # IF proc.outcome = "retained" THEN "before" ELSE "after"
    /\ Goto("dead")
    /\ UNCHANGED <<orig, disk, meta, tx, hist, faults, edits>>

\* One session records several transitions and may die after any but the last.
Climb(through, last, after) ==
    \/ Transition(last) /\ Goto(after) /\ UNCHANGED faults
    \/ Spend /\ Goto("dead") /\ \E state \in through : Transition(state)

NeedsCommit ==
    /\ ~Pending /\ ~Sealed /\ tx.state # "committed" /\ Resumable
    /\ Cleanup \/ (EffectsComplete /\ disk.target)

\* Before cleanup the transaction is committed, as apply does.
recover_commit ==
    /\ NeedsCommit
    /\ IF VisibleOnly /\ tx.state # "completed"
       THEN Climb({"committing"} \ {tx.state}, "committed", "recover")
       ELSE Goto("dead") /\ UNCHANGED <<tx, faults>>
    /\ UNCHANGED <<orig, disk, meta, hist, edits>>

recover_begin_effect ==
    /\ ~Pending /\ ~Sealed /\ Resumable /\ ~EffectsComplete /\ ~NeedsCommit
    /\ persist(Record("intent", NextExpected, ""), proc, "dead")
    /\ UNCHANGED <<orig, disk, meta, tx, edits>>

recover_seal ==
    /\ ~Pending /\ ~Sealed /\ Resumable /\ EffectsComplete /\ ~NeedsCommit
    /\ persist(Record("sealed", NoEffect, ""), proc, "dead")
    /\ UNCHANGED <<orig, disk, meta, tx, edits>>

Finalizable ==
    /\ ~disk.stage
    /\ IF orig.op = "move" THEN disk.target ELSE tx.confirmed /\ ~disk.target

finalize_maintenance ==
    /\ Sealed /\ Resumable
    /\ IF Finalizable
       THEN Climb(CASE tx.state = "recovery_required" -> {"committing", "committed"}
                    [] tx.state = "committing" -> {"committed"} [] OTHER -> {},
                  "completed", "done")
       ELSE Goto("dead") /\ UNCHANGED <<tx, faults>>
    /\ UNCHANGED <<orig, disk, meta, hist, edits>>

-----------------------------------------------------------------------------
(* Failures and outsiders.                                                 *)

TryPoints == {"stage", "next", "effect", "rename", "complete", "sealed"}

\* A call of the try block fails without an effect.
Fail ==
    /\ proc.pc \in TryPoints
    /\ Spend
    /\ Goto("catch")
    /\ UNCHANGED <<orig, disk, meta, tx, hist, edits>>

\* The process dies, or recovery throws.
Crash ==
    /\ proc.pc \in TryPoints \union {"context", "plan", "catch", "recover", "recovered"}
    /\ Spend
    /\ Goto("dead")
    /\ UNCHANGED <<orig, disk, meta, tx, hist, edits>>

Edit(after) ==
    /\ edits < MaxEdits /\ edits' = edits + 1
    /\ disk' = after /\ disk' # disk
    /\ UNCHANGED <<orig, meta, tx, hist, proc, faults>>

EditFile == disk.dir /\ \E f \in File, object \in {"user", "absent"} :
                            Edit([disk EXCEPT !.root[f] = object])

AddUnknown == disk.dir /\ Edit([disk EXCEPT !.unknown = TRUE])

EditMoved == disk.target /\ orig.op = "move" /\
                \E f \in File : Edit([disk EXCEPT !.out[f] = "user"])

Apply ==
    \/ apply_review \/ begin_streaming \/ open_effect_journal \/ write_reviewed_plan
    \/ stage_payload \/ skip_slot \/ begin_effect \/ apply_file_effect \/ commit_effect
    \/ rename_staging_root \/ apply_metadata_effect \/ complete_effect \/ mark_committed
    \/ seal \/ mark_completed \/ catch

Recover ==
    \/ recover \/ recover_refuses \/ recover_apply \/ recover_complete
    \/ recover_postcondition_fails \/ recover_commit \/ recover_begin_effect
    \/ recover_seal \/ finalize_maintenance

Next == Apply \/ Recover \/ Fail \/ Crash \/ EditFile \/ AddUnknown \/ EditMoved

Spec == Init /\ [][Next]_vars

\* When Apply or Recover is enabled, written out.
Runnable == proc.pc # "refused" /\ (proc.pc \in {"dead", "done"} => Recoverable)

\* A call that runs keeps running, and an operator retries the recovery: weak
\* fairness of Apply \/ Recover.
FairSpec == Spec /\ ([]<>~Runnable \/ []<><<Apply \/ Recover>>_vars)

-----------------------------------------------------------------------------
(* Properties.                                                             *)

Verdicts == {"pass", "warn"}

Effects ==
    [kind: {"", "publish_target"} \union FileEffects \union Metadata,
     role: {"", "installed", "operation_target"}, f: 0..NFiles,
     seen: {""} \union Objects \union Verdicts]

\* Every variable keeps its type: the effect journal, the tree, the records and
\* the transaction of a maintenance call.
TypeOK ==
    /\ orig \in [op: Ops, plan: [File -> {"present", "modified", "missing"}], dir: BOOLEAN,
                 unknown: BOOLEAN, events: Nat, obs: [File -> Objects], obsdir: BOOLEAN]
    /\ disk \in [root: [File -> Objects], dir: BOOLEAN, unknown: BOOLEAN,
                 out: [File -> Objects], backup: [File -> Objects],
                 marker: BOOLEAN, stage: BOOLEAN, target: BOOLEAN]
    /\ meta \in [own: Records, inst: {"absent", "torn"} \union Verdicts,
                 audit: Seq(Verdicts), auditTorn: BOOLEAN, plan: Records]
    /\ tx \in [state: {"", "staging", "verified", "committing", "committed", "completed",
                       "recovery_required"}, started: BOOLEAN, confirmed: BOOLEAN]
    /\ hist \in [log: Seq([phase: {"context", "intent", "complete", "sealed"},
                           effect: Effects, outcome: {"", "applied", "retained"}]),
                 torn: BOOLEAN]
    /\ proc \in [pc: Points, pos: Nat, verdict: {""} \union Verdicts,
                 outcome: {"", "applied", "retained"}]
    /\ faults \in 0..MaxFaults
    /\ edits \in 0..MaxEdits

\* However often apply and recovery are interrupted and repeated, the audit
\* chain holds at most one event of the transaction, and that event reports the
\* result that the installed-state record reports.
AuditedOnce ==
    /\ Len(meta.audit) <= 1
    /\ meta.audit # <<>> => meta.audit[1] = meta.inst

\* The installed state is truthful when nobody interferes: a repair or a move is
\* recorded only over a tree whose owned files are all good, and at any time an
\* uninstall is recorded as retired exactly when the installed root is gone.
InstalledRecordIsTruthful ==
    meta.inst \in Verdicts =>
        CASE orig.op = "repair" -> edits = 0 => \A f \in File : Good(f, disk.root[f])
          [] orig.op = "move" -> edits = 0 => disk.target /\ disk.out = [f \in File |-> "staged"]
          [] OTHER -> (meta.inst = "pass") = ~disk.dir

\* A completed transaction has nothing left to do: every expected effect has a
\* completion in a sealed journal, the three records are whole, and no staging
\* root, backup or operation marker remains.
CompletedMeansDone ==
    tx.state = "completed" =>
        /\ Sealed /\ Len(meta.audit) = 1 /\ meta.inst \in Verdicts
        /\ orig.op # "uninstall" => meta.own = "written"
        /\ ~disk.stage /\ ~disk.marker /\ disk.backup = NoFiles
        /\ disk.target = (orig.op = "move")

\* The records of an operation tell the truth, and each outcome once, through
\* every interruption of apply_repair, apply_move, apply_uninstall and of
\* recover_maintenance_transaction.
RecordsAreTruthful ==
    TypeOK /\ AuditedOnce /\ InstalledRecordIsTruthful /\ CompletedMeansDone

\* Recovery never refuses what apply or an earlier recovery did: as long as no
\* outsider interferes, no record is torn, the installed root existed and the
\* audit chain had room within what recovery reads, every pass accepts the
\* journal and can tell where the pending effect stands.  The effects and their
\* order are derived twice in the code, once by apply from the tree as it finds
\* it and once by recovery from the first observations.
RecoveryAcceptsItsOwnWork ==
    /\ proc.pc = "recover" /\ edits = 0 /\ orig.obsdir
    /\ meta.own # "torn" /\ meta.inst # "torn" /\ ~meta.auditTorn
    /\ orig.events < AuditLimit
    => /\ Selectable
       /\ Pending => reconcile(PendingEffect) # "indeterminate" /\ (Cleanup => tx.confirmed)

\* A step of the program, as opposed to one of an outsider.
Program == edits' = edits

\* The installed tree and the operation target change only under a durable
\* commit and a pending intent that names the very object, except that the
\* payload is staged before.
EffectsAreIntended ==
    proc.pc # "stage" =>
        \A f \in File :
            \/ /\ disk'.root[f] = disk.root[f] /\ disk'.backup[f] = disk.backup[f]
               /\ disk'.out[f] = disk.out[f]
            \/ tx.started /\ Pending /\ PendingEffect.f = f

\* Repair destroys nothing before it is committed and audited: an object of the
\* installed root or of the backup directory that this transaction did not
\* stage stays in one of the two.
RepairLosesNothing ==
    orig.op = "repair" /\ ~(tx.confirmed /\ meta.audit # <<>>) =>
        \A f \in File : \A object \in {"orig", "user"} :
            object \in {disk.root[f], disk.backup[f]} =>
                object \in {disk'.root[f], disk'.backup[f]}

\* Uninstall and its recovery remove no file whose content had already changed
\* when its removal was decided.
ChangedFilesAreRetained ==
    orig.op = "uninstall" =>
        \A f \in File : disk'.root[f] # disk.root[f] =>
            Pending /\ Good(f, PendingEffect.seen)

\* Apply and recovery change files only as announced, and what is not theirs to
\* destroy survives: the intent that MaintenanceEffectJournal records before
\* each effect, the backup of a repair and the exact removal of an uninstall.
EffectsAreAuthorized ==
    [][Program => EffectsAreIntended /\ RepairLosesNothing /\ ChangedFilesAreRetained]_vars

\* Once the commit has started, an operator who keeps retrying brings the
\* transaction to completion, unless a write left a torn record, the installed
\* root was missing when a repair began, the event that completes the audit is
\* the first beyond what recovery reads, or an outsider changed the tree.
StartedGetsCompleted ==
    tx.started ~> \/ tx.state = "completed" \/ edits > 0
                  \/ orig.events >= AuditLimit
                  \/ hist.torn \/ meta.auditTorn \/ "torn" \in {meta.own, meta.inst}
                  \/ (orig.op = "repair" /\ ~orig.dir)

=============================================================================
