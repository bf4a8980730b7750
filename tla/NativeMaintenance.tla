-------------------------- MODULE NativeMaintenance --------------------------
(***************************************************************************)
(* The native custody of one reviewed maintenance operation.  The worker   *)
(* that owns the operation holds every object it may touch, and beside     *)
(* each native effect it writes a record that says what it did.  When the  *)
(* worker dies, a recovery worker replays the records and goes on only if  *)
(* the disk is, object by object, what the replay says it must be.         *)
(*                                                                         *)
(* A record is published by renaming a finished file, so it is there in    *)
(* full or not at all; the call that published it may still fail.          *)
(***************************************************************************)
EXTENDS Naturals, Sequences, FiniteSets, SequencesExt

CONSTANTS NFiles,       \* owned files of the installation
          Ops,          \* the operations explored
          MaxFaults,    \* failed calls, failed reads and deaths in a behaviour
          MaxEdits      \* objects an outsider changes

ASSUME NativeConstants ==
    /\ NFiles \in Nat \ {0} /\ MaxFaults \in Nat /\ MaxEdits \in Nat
    /\ Ops \subseteq {"repair", "move", "uninstall"}

VARIABLES orig,     \* the operation and the installation it was reviewed for
          disk,     \* where each object is, which grant readers access, which metadata exists
          changed,  \* objects an outsider has changed
          recs,     \* the custody records of the operation
          tx,       \* the transaction journal: snapshot number, commit mark
          hist,     \* the effect journal: effects completed, intent pending, sealed
          owner,    \* the process that owns the operation
          faults

vars == <<orig, disk, changed, recs, tx, hist, owner, faults>>

File == 1..NFiles

Orig(f) == <<"orig", f>>
New(f) == <<"new", f>>
Root == <<"root", 0>>
Payload == <<"payload", 0>>
Backup == <<"backup", 0>>
Parent == <<"parent", 0>>
Installed == <<"installed", 0>>

Object == {Orig(f) : f \in File} \union {New(f) : f \in 0..NFiles}
            \union {Root, Payload, Backup, Parent, Installed}

Metadata == {"write_ownership", "write_installed", "append_audit"}

\* The objects a worker creates below its staging root.
Created ==
    CASE orig.op = "repair" -> {Root, Payload} \union {New(f) : f \in File}
      [] orig.op = "move" -> {Root} \union {New(f) : f \in File}
      [] OTHER -> {Root, New(0)}

Effect(kind, object) == [kind |-> kind, object |-> object]

Each(kind, role(_), files) ==
    LET due == SelectSeq([f \in File |-> f], LAMBDA f : f \in files)
    IN [i \in DOMAIN due |-> Effect(kind, role(due[i]))]

Replacement(f, missing) ==
    (IF f \in missing THEN <<>> ELSE <<Effect("backup_file", Orig(f))>>)
        \o <<Effect("replace_file", New(f))>>

\* The effects of an operation on an installation that lacks some files, up to
\* the commit mark, and those of its cleanup.
WorkOf ==
    [op \in Ops, missing \in SUBSET File |->
        <<Effect("publish_target", Root)>> \o
        (CASE op = "repair" -> FlattenSeq([f \in File |-> Replacement(f, missing)])
                                \o <<Effect("write_ownership", Installed)>>
           [] op = "move" -> <<Effect("write_ownership", Installed)>>
           [] OTHER -> Each("remove_file", Orig, File) \o <<Effect("remove_directory", Installed)>>)
        \o <<Effect("write_installed", Installed), Effect("append_audit", Installed)>>]

CleanupOf ==
    [op \in Ops, missing \in SUBSET File |->
        CASE op = "repair" ->
                Each("remove_file", Orig, File \ missing) \o <<Effect("remove_directory", Payload)>>
                \o (IF missing = File THEN <<>> ELSE <<Effect("remove_directory", Backup)>>)
                \o <<Effect("remove_directory", Root)>>
          [] op = "move" -> <<>>
          [] OTHER -> <<Effect("remove_file", New(0)), Effect("remove_directory", Root)>>]

ProgramOf ==
    [op \in Ops, missing \in SUBSET File |-> WorkOf[op, missing] \o CleanupOf[op, missing]]

Work == WorkOf[orig.op, orig.missing]

Program == ProgramOf[orig.op, orig.missing]

Pos == hist.done + 1

Pending == Program[Pos]

-----------------------------------------------------------------------------
(* The installation and the first owner.                                   *)

AtReview ==
    [o \in Object |->
        IF o = Installed \/ (o[1] = "orig" /\ o[2] \notin orig.missing)
        THEN "installed" ELSE "none"]

NoOwner == [pc |-> "dead", restored |-> FALSE, at |-> <<>>, ace |-> {}, pub |-> "no",
            outcomes |-> {}, attempted |-> {}, active |-> <<>>, installed |-> "no",
            failed |-> {}, sequence |-> 0]

Init ==
    /\ orig \in [op: Ops, missing: SUBSET File, noparent: BOOLEAN, unknown: BOOLEAN,
                 consumer: BOOLEAN]
    /\ orig.op # "repair" => orig.missing = {}
    /\ orig.noparent => orig.missing # {}
    /\ orig.unknown => orig.op = "uninstall"
    /\ disk = [at |-> AtReview, ace |-> {}, meta |-> {}]
    /\ changed = {}
    /\ recs = [original |-> FALSE, dirs |-> FALSE, snaps |-> {}, created |-> 0, custody |-> <<>>]
    /\ tx = [snap |-> 0, committed |-> FALSE]
    /\ hist = [done |-> 0, pending |-> FALSE, sealed |-> FALSE]
    /\ owner = [NoOwner EXCEPT !.pc = "admit"]
    /\ faults = 0

Spend == faults < MaxFaults /\ faults' = faults + 1

At(point) == [owner EXCEPT !.pc = point]

\* An exception: the latches its handlers set stay set for the whole life of
\* the owner.
Throws(latches) == [owner EXCEPT !.pc = "catch", !.failed = @ \union latches]

\* The latches of the call that is running: a payload effect, or the commit.
Running == IF owner.active # <<>> THEN {"payload_failed"} ELSE {}

-----------------------------------------------------------------------------
(* Fences.                                                                 *)

\* The latches every fence reads.  The metadata session has one of its own for a
\* failed record write, which is set together with custody_failed.
Latched == owner.failed # {}

\* The installed record a live owner must find: its own once confirmed, either
\* one while its rename is under way, the reviewed one before.
InstalledBinding ==
    CASE owner.installed = "confirmed" -> "write_installed" \in disk.meta
      [] owner.installed = "issued" -> TRUE
      [] OTHER -> "write_installed" \notin disk.meta

\* require_authority_state, the predicates of every fence: nothing has failed
\* before, the running effect still has its transaction snapshot and its intent,
\* and the installed record is the bound one.
require_authority ==
    /\ ~Latched
    /\ owner.active # <<>> => owner.active = <<tx.snap, Pos>> /\ hist.pending
    /\ InstalledBinding

\* require_entry: a held object still has the facts this owner knows.
require_entry(o) ==
    /\ o \notin changed
    /\ owner.at[o] = disk.at[o]
    /\ (o \in owner.ace) = (o \in disk.ace)

\* require_pending: the journal still holds the intent, under full authority.
require_pending(kind) == require_authority /\ hist.pending /\ Pending.kind = kind

\* A record written through PublisherMetadataSession::write_record: published
\* by rename and confirmed, or failed on either side of the rename.
write_record(after, ok, latches) ==
    IF require_authority
    THEN \/ recs' = after /\ owner' = ok /\ UNCHANGED faults
         \/ /\ Spend
            /\ recs' \in {recs, after}
            /\ owner' = Throws({"custody_failed"} \union latches)
    ELSE owner' = Throws(latches) /\ UNCHANGED <<recs, faults>>

\* persist_native_custody: the next record of the chain.  The sequence advances
\* only after the read-back, so a failed write leaves it behind.
persist_native_custody(kind, o, outcome, ok) ==
    write_record([recs EXCEPT !.custody = Append(@,
                    [kind |-> kind, object |-> o, intent |-> Pos, outcome |-> outcome,
                     snap |-> tx.snap])],
                 [ok EXCEPT !.sequence = @ + 1], Running \union {"custody_failed"})

\* PublisherMetadataSession::persist_journal and the latch of its binding.
persist_journal(txAfter, histAfter, ok) ==
    IF require_authority
    THEN \/ tx' = txAfter /\ hist' = histAfter /\ owner' = ok /\ UNCHANGED faults
         \/ /\ Spend
            /\ \/ UNCHANGED <<tx, hist>>
               \/ tx' = txAfter /\ hist' = histAfter
            /\ owner' = Throws({"custody_failed"})
    ELSE owner' = Throws({}) /\ UNCHANGED <<tx, hist, faults>>

Snapshot(committed) == [snap |-> tx.snap + 1, committed |-> committed]

\* retained_transaction_text: keep the journal an effect is issued under.
retained_transaction_text(ok, latches) ==
    IF tx.snap \in recs.snaps
    THEN owner' = ok /\ UNCHANGED <<recs, faults>>
    ELSE write_record([recs EXCEPT !.snaps = @ \union {tx.snap}], ok, latches)

-----------------------------------------------------------------------------
(* A fresh owner: admission, staging, commit.                              *)

\* admit_original_payload: every original is held and observed.  An object that
\* is not as reviewed ends the attempt before anything is written.
admit_original_payload ==
    /\ owner.pc = "admit"
    /\ owner' = IF changed = {} THEN [At("record") EXCEPT !.at = AtReview] ELSE At("refused")
    /\ UNCHANGED <<orig, disk, changed, recs, tx, hist, faults>>

\* persist_original_admission: the record, then its two directories.
persist_original_admission ==
    /\ \/ /\ owner.pc = "record"
          /\ write_record([recs EXCEPT !.original = TRUE], At("dirs"), {})
       \/ /\ owner.pc = "dirs"
          /\ write_record([recs EXCEPT !.dirs = TRUE], At("begin"), {})
    /\ UNCHANGED <<orig, disk, changed, tx, hist>>

begin ==
    /\ owner.pc = "begin"
    /\ persist_journal(Snapshot(FALSE), hist, At("stage"))
    /\ UNCHANGED <<orig, disk, changed, recs>>

Placed(objects, place) == [o \in Object |-> IF o \in objects THEN place ELSE disk.at[o]]

\* A native call: it succeeds, or it fails before or after its effect.
native_call(after, ok, latches) ==
    \/ disk' = after /\ owner' = ok /\ UNCHANGED faults
    \/ Spend /\ disk' \in {disk, after} /\ owner' = Throws(latches)

create_staging ==
    /\ owner.pc = "stage" /\ require_authority
    /\ LET at == Placed({Root}, "staging")
       IN native_call([disk EXCEPT !.at = at], [At("streams") EXCEPT !.at = at], {})
    /\ UNCHANGED <<orig, changed, recs, tx, hist>>

\* ensure_parent, open_stream and finish_stream, for each file.
create_files ==
    /\ owner.pc = "streams" /\ require_authority
    /\ IF require_entry(Root)
       THEN LET at == Placed(Created, "staging")
            IN native_call([disk EXCEPT !.at = at], [At("verify") EXCEPT !.at = at], {})
       ELSE owner' = Throws({"entry_readback_failed"}) /\ UNCHANGED <<disk, faults>>
    /\ UNCHANGED <<orig, changed, recs, tx, hist>>

verify ==
    /\ owner.pc = "verify"
    /\ persist_journal(Snapshot(FALSE), hist, At("next"))
    /\ UNCHANGED <<orig, disk, changed, recs>>

\* TransactionSession::commit_effect announces the rename.
commit_started ==
    /\ owner.pc = "commit"
    /\ persist_journal(Snapshot(FALSE), hist, At("commit_snapshot"))
    /\ UNCHANGED <<orig, disk, changed, recs>>

\* observe_created_closure: the tree is what this owner created.
observe_created_closure == \A o \in Created : require_entry(o)

\* commit, up to its record of the created closure.
commit_retains ==
    /\ \/ /\ owner.pc = "commit_snapshot"
          /\ IF require_pending("publish_target")
             THEN retained_transaction_text(At("created"), {})
             ELSE owner' = Throws({}) /\ UNCHANGED <<recs, faults>>
       \/ /\ owner.pc = "created"
          /\ IF observe_created_closure
             THEN write_record([recs EXCEPT !.created = tx.snap], At("rename"), {})
             ELSE owner' = Throws({"entry_readback_failed"}) /\ UNCHANGED <<recs, faults>>
    /\ UNCHANGED <<orig, disk, changed, tx, hist>>

\* commit: descendants are closed, the root is renamed and all is read back.
commit_renames ==
    /\ owner.pc = "rename"
    /\ IF require_authority /\ observe_created_closure
       THEN LET at == Placed(Created, "target")
            IN /\ native_call([disk EXCEPT !.at = at],
                     [At("published") EXCEPT !.at = at, !.pub = "confirmed"], {"custody_failed"})
       ELSE owner' = Throws({"custody_failed"}) /\ UNCHANGED <<disk, faults>>
    /\ UNCHANGED <<orig, changed, recs, tx, hist>>

commit_confirms ==
    /\ owner.pc = "published"
    /\ persist_native_custody("confirmed_publication", Root, "applied", At("grant"))
    /\ UNCHANGED <<orig, disk, changed, tx, hist>>

-----------------------------------------------------------------------------
(* One effect.                                                             *)

\* Between two effects.
NewStep == owner.pc = "next" /\ ~hist.pending

\* The next effect is announced, cleanup only after the commit mark.
begin_effect ==
    /\ NewStep /\ Pos <= Len(Program)
    /\ Pos = Len(Work) + 1 => tx.committed
    /\ persist_journal(tx, [hist EXCEPT !.pending = TRUE],
                       At(CASE Pos = 1 -> "commit" [] owner.restored -> "appended"
                            [] OTHER -> "apply"))
    /\ UNCHANGED <<orig, disk, changed, recs>>

\* A recovery owner reads the intent it appended back before it acts on it.
validate_appended_intent ==
    /\ owner.pc = "appended"
    /\ owner' = IF require_pending(Pending.kind) THEN At("apply") ELSE Throws({})
    /\ UNCHANGED <<orig, disk, changed, recs, tx, hist, faults>>

mark_committed ==
    /\ NewStep /\ Pos = Len(Work) + 1 /\ ~tx.committed
    /\ persist_journal(Snapshot(TRUE), hist, owner)
    /\ UNCHANGED <<orig, disk, changed, recs>>

NeedsDirectory == Pending.kind \in {"backup_file", "replace_file"}

\* apply_selected_effect: an intent is attempted once by an owner, under a
\* transaction journal it keeps a copy of.
apply_effect ==
    /\ owner.pc = "apply"
    /\ IF require_pending(Pending.kind) /\ owner.pub = "confirmed" /\ Pos \notin owner.attempted
       THEN retained_transaction_text(
                [At(IF NeedsDirectory THEN "parent" ELSE "effect") EXCEPT
                    !.attempted = @ \union {Pos}, !.active = <<tx.snap, Pos>>],
                {"payload_failed", "custody_failed"})
       ELSE owner' = Throws({}) /\ UNCHANGED <<recs, faults>>
    /\ UNCHANGED <<orig, disk, changed, tx, hist>>

\* The directory an object is in, at a place.
ParentOf(o, place) ==
    CASE o[1] = "new" /\ place = "target" -> IF orig.op = "repair" THEN Payload ELSE Root
      [] o[1] = "new" -> IF orig.noparent /\ o[2] \in orig.missing THEN Parent ELSE Installed
      [] o[1] = "orig" -> IF place = "backup" THEN Backup ELSE Installed
      [] o = Parent -> Installed
      [] o \in {Payload, Backup} -> Root
      [] OTHER -> <<"volume", 0>>

\* The directory an effect must create first: target_directory for a backup,
\* repair_parent for an owned directory that was missing.
Destination ==
    IF Pending.kind = "backup_file" THEN Backup ELSE ParentOf(Pending.object, "installed")

\* create_directory: refused when the name is taken, whoever took it.
create_directory ==
    /\ owner.pc = "parent"
    /\ LET d == Destination
           at == [disk.at EXCEPT ![d] = IF d = Parent THEN "installed" ELSE "target"] IN
       IF owner.at[d] # "none"
       THEN /\ owner' = IF require_entry(d) THEN At("effect")
                        ELSE Throws({"payload_failed", "entry_readback_failed"})
            /\ UNCHANGED <<disk, faults>>
       ELSE IF disk.at[d] # "none" \/ ~require_pending(Pending.kind)
       THEN owner' = Throws({"payload_failed"}) /\ UNCHANGED <<disk, faults>>
       ELSE native_call([disk EXCEPT !.at = at],
                [At("parent_record") EXCEPT !.at[d] = at[d]], {"payload_failed"})
    /\ UNCHANGED <<orig, changed, recs, tx, hist>>

record_directory ==
    /\ owner.pc = "parent_record"
    /\ persist_native_custody(
            IF Destination = Parent THEN "created_owned_parent" ELSE "later_created_directory",
            Destination, "applied", At("effect"))
    /\ UNCHANGED <<orig, disk, changed, tx, hist>>

\* Whether a directory still holds something.
NonEmpty(d) ==
    \/ d = Installed /\ orig.unknown
    \/ \E o \in Object : disk.at[o] \notin {"none", "gone"} /\ o # d /\ ParentOf(o, disk.at[o]) = d

\* Where the object is after its effect.
PlaceAfter(kind) ==
    CASE kind = "backup_file" -> "backup" [] kind = "replace_file" -> "installed"
      [] OTHER -> "gone"

AtAfter(e) == [disk.at EXCEPT ![e.object] = PlaceAfter(e.kind)]

FileEffects == {"backup_file", "replace_file", "remove_file", "remove_directory"}

rename_file ==
    /\ owner.pc = "effect" /\ NeedsDirectory
    /\ IF require_authority /\ require_entry(Pending.object)
       THEN native_call([disk EXCEPT !.at = AtAfter(Pending)],
                [At("confirm") EXCEPT !.at = AtAfter(Pending)], {"payload_failed"})
       ELSE /\ owner' = Throws({"payload_failed", "entry_readback_failed"})
            /\ UNCHANGED <<disk, faults>>
    /\ UNCHANGED <<orig, changed, recs, tx, hist>>

\* remove_entry answers "retained", with no native call, for an installed
\* directory that is not empty, and refuses a created one.
remove_entry ==
    /\ owner.pc = "effect" /\ Pending.kind \in {"remove_file", "remove_directory"}
    /\ IF ~require_authority \/ ~require_entry(Pending.object)
       THEN /\ owner' = Throws({"payload_failed", "entry_readback_failed"})
            /\ UNCHANGED <<disk, faults>>
       ELSE IF Pending.kind = "remove_directory" /\ NonEmpty(Pending.object)
       THEN /\ owner' = IF Pending.object = Installed THEN At("retained")
                                                      ELSE Throws({"payload_failed"})
            /\ UNCHANGED <<disk, faults>>
       ELSE native_call([disk EXCEPT !.at = AtAfter(Pending)],
                [At("confirm") EXCEPT !.at = AtAfter(Pending)], {"payload_failed"})
    /\ UNCHANGED <<orig, changed, recs, tx, hist>>

\* metadata_prepare and metadata_before_issue: the installed record is prepared
\* once, and its issue is latched right before the rename.
metadata_prepare ==
    /\ owner.pc = "effect" /\ Pending.kind \in Metadata
    /\ IF require_authority /\ Pending.kind \notin disk.meta
          /\ (Pending.kind = "write_installed" => owner.installed = "no" /\ owner.pub = "confirmed")
       THEN owner' = [At("issue") EXCEPT !.installed =
                        IF Pending.kind = "write_installed" THEN "issued" ELSE @]
       ELSE owner' = Throws({"payload_failed", "custody_failed"})
    /\ UNCHANGED <<orig, disk, changed, recs, tx, hist, faults>>

metadata_failed ==
    {"custody_failed"} \union
    (IF owner.installed = "issued" THEN {"installed_uncertain"} ELSE {})

\* publish_record_no_replace: the rename that publishes a metadata record.
metadata_issue ==
    /\ owner.pc = "issue"
    /\ native_call([disk EXCEPT !.meta = @ \union {Pending.kind}],
            [At("metadata_record") EXCEPT !.installed =
                IF Pending.kind = "write_installed" THEN "confirmed" ELSE @],
            {"payload_failed"} \union metadata_failed)
    /\ UNCHANGED <<orig, changed, recs, tx, hist>>

\* metadata_confirm and persist_metadata_creation.
metadata_confirm ==
    /\ owner.pc = "metadata_record"
    /\ persist_native_custody("created_metadata", Pending.object, "applied", At("confirm"))
    /\ UNCHANGED <<orig, disk, changed, tx, hist>>

\* apply_selected_effect, its end: the outcome goes on record.
confirm_effect ==
    /\ owner.pc \in {"confirm", "retained"}
    /\ persist_native_custody("confirmed_effect", Pending.object,
            IF owner.pc = "retained" THEN "retained" ELSE "applied",
            [At("grant") EXCEPT !.outcomes = @ \union {Pos}])
    /\ UNCHANGED <<orig, disk, changed, tx, hist>>

-----------------------------------------------------------------------------
(* Reader access, and the completion of an effect.                         *)

\* complete_consumer_access: the objects readers must reach once this effect is
\* complete, children before their directory.
Readers ==
    CASE ~orig.consumer -> <<>>
      [] orig.op = "repair" /\ Pending.kind = "replace_file" ->
            <<Pending.object>> \o
            (IF ParentOf(Pending.object, "installed") = Parent THEN <<Parent>> ELSE <<>>)
      [] orig.op = "move" /\ Pending.kind = "publish_target" ->
            [f \in File |-> New(f)] \o <<Root>>
      [] OTHER -> <<>>

Ungranted == SelectSeq(Readers, LAMBDA o : o \notin owner.ace)

\* A resumed completion may run under a newer journal than its effect did, and
\* keeps a copy of that one first.
begin_grants ==
    /\ owner.pc = "grant" /\ Readers # <<>> /\ owner.active = <<>>
    /\ IF require_pending(Pending.kind)
       THEN retained_transaction_text([owner EXCEPT !.active = <<tx.snap, Pos>>],
                                      {"payload_failed", "custody_failed"})
       ELSE owner' = Throws({}) /\ UNCHANGED <<recs, faults>>
    /\ UNCHANGED <<orig, disk, changed, tx, hist>>

\* grant_created_payload: set the access entry, then record it.
grant_created_payload ==
    /\ owner.pc = "grant" /\ owner.active # <<>> /\ Ungranted # <<>>
    /\ LET o == Head(Ungranted) IN
       IF require_authority /\ require_entry(o)
       THEN native_call([disk EXCEPT !.ace = @ \union {o}],
                [At("grant_record") EXCEPT !.ace = @ \union {o}],
                {"payload_failed", "custody_failed"})
       ELSE /\ owner' = Throws({"payload_failed", "entry_readback_failed"})
            /\ UNCHANGED <<disk, faults>>
    /\ UNCHANGED <<orig, changed, recs, tx, hist>>

Granted == SelectSeq(Readers, LAMBDA o : o \in owner.ace)

RecordedGrants ==
    {recs.custody[i].object : i \in {k \in DOMAIN recs.custody :
                                        recs.custody[k].kind = "consumer_read_grant"}}

\* Mutant: the record of a grant is written once the last object has its access.
record_grant_late ==
    /\ owner.pc = "grant_record"
    /\ LET missing == SelectSeq(Granted, LAMBDA o : o \notin RecordedGrants)
       IN IF Ungranted # <<>> THEN owner' = At("grant") /\ UNCHANGED <<recs, faults>>
          ELSE persist_native_custody("consumer_read_grant", Head(missing), "applied",
                    At(IF Len(missing) = 1 THEN "grant" ELSE "grant_record"))
    /\ UNCHANGED <<orig, disk, changed, tx, hist>>

record_grant ==
    /\ owner.pc = "grant_record"
    /\ LET missing == SelectSeq(Granted, LAMBDA o : o \notin RecordedGrants)
       IN persist_native_custody("consumer_read_grant", Head(missing), "applied", At("grant"))
    /\ UNCHANGED <<orig, disk, changed, tx, hist>>

\* Mutant: the first object that can be read is enough.
end_grants_early ==
    /\ owner.pc = "grant" /\ (owner.active # <<>> \/ Readers = <<>>)
    /\ Len(Ungranted) < Len(Readers) \/ Readers = <<>>
    /\ owner' = [At("complete") EXCEPT !.active = <<>>]
    /\ UNCHANGED <<orig, disk, changed, recs, tx, hist, faults>>

end_grants ==
    /\ owner.pc = "grant" /\ (owner.active # <<>> \/ Readers = <<>>) /\ Ungranted = <<>>
    /\ owner' = [At("complete") EXCEPT !.active = <<>>]
    /\ UNCHANGED <<orig, disk, changed, recs, tx, hist, faults>>

\* confirm_effect_completion: only an outcome this owner confirmed, or restored
\* as confirmed, may be completed in the effect journal.
confirmed_outcome == IF Pos = 1 THEN owner.pub = "confirmed" ELSE Pos \in owner.outcomes

\* A recovery owner completes an effect that grants nothing in one reading scope.
ReadOnlyCompletion == owner.restored /\ Pos # 1 /\ Readers = <<>>

\* read_recovery_prefix: the journals still are what recovery selected.
require_recovery_prefix == hist.pending /\ require_authority

complete_recovery_effect ==
    /\ owner.pc = "complete" /\ ReadOnlyCompletion
    /\ IF require_recovery_prefix /\ confirmed_outcome
       THEN persist_journal(tx, [hist EXCEPT !.done = @ + 1, !.pending = FALSE], At("next"))
       ELSE owner' = Throws({"entry_readback_failed"}) /\ UNCHANGED <<tx, hist, faults>>
    /\ UNCHANGED <<orig, disk, changed, recs>>

complete_effect ==
    /\ owner.pc = "complete" /\ ~ReadOnlyCompletion
    /\ IF confirmed_outcome /\ (Pos = 1 => \A o \in Created : require_entry(o))
       THEN persist_journal(tx, [hist EXCEPT !.done = @ + 1, !.pending = FALSE], At("next"))
       ELSE owner' = Throws({}) /\ UNCHANGED <<tx, hist, faults>>
    /\ UNCHANGED <<orig, disk, changed, recs>>

AllDone == NewStep /\ hist.done = Len(Program) /\ tx.committed

seal ==
    /\ AllDone /\ ~hist.sealed
    /\ persist_journal(tx, [hist EXCEPT !.sealed = TRUE], owner)
    /\ UNCHANGED <<orig, disk, changed, recs>>

mark_completed ==
    /\ AllDone /\ hist.sealed
    /\ persist_journal(Snapshot(TRUE), hist, At("done"))
    /\ UNCHANGED <<orig, disk, changed, recs>>

\* The exception handler of apply asks for a recovery_required transition; the
\* journal write passes the same fence.  Then the worker exits.
catch ==
    /\ owner.pc = "catch"
    /\ \/ ~owner.restored /\ require_authority /\ tx.snap > 0 /\ tx' = Snapshot(tx.committed)
       \/ (owner.restored \/ ~require_authority \/ tx.snap = 0) /\ UNCHANGED tx
    /\ owner' = NoOwner
    /\ UNCHANGED <<orig, disk, changed, recs, hist, faults>>

-----------------------------------------------------------------------------
(* Restoration.                                                            *)

Having(kind, intent) ==
    {i \in DOMAIN recs.custody : recs.custody[i].kind = kind /\ recs.custody[i].intent = intent}

\* restore_custody replays the records in order.  These place an object, in the
\* order in which they do; the others leave it where it was.
Placing(o) ==
    {i \in DOMAIN recs.custody :
        LET r == recs.custody[i] IN
        /\ r.object = o /\ r.outcome = "applied"
        /\ \/ r.kind \in {"later_created_directory", "created_owned_parent"}
           \/ r.kind = "confirmed_effect" /\ Program[r.intent].kind \in FileEffects}

ReplayedPlace(o) ==
    LET steps == Placing(o)
        last == recs.custody[Max(steps)]
    IN CASE steps = {} -> IF o \in Created THEN "target" ELSE AtReview[o]
         [] last.kind = "later_created_directory" -> "target"
         [] last.kind = "created_owned_parent" -> "installed"
         [] OTHER -> PlaceAfter(Program[last.intent].kind)

\* Mutant: a grant on a directory leaves what is remembered of its children.
KnownParent_old(o, place) ==
    \E i \in DOMAIN recs.custody :
        /\ recs.custody[i].kind = "consumer_read_grant"
        /\ recs.custody[i].object = ParentOf(o, place)
        /\ \E k \in Placing(o) : k > i

\* Whether the facts an object's directory is remembered under include a grant:
\* one given before the object came is read with it, one given later updates
\* every child.
KnownParent(o, place) ==
    \E i \in DOMAIN recs.custody :
        /\ recs.custody[i].kind = "consumer_read_grant"
        /\ recs.custody[i].object = ParentOf(o, place)

Recorded(kind, o) ==
    \E i \in DOMAIN recs.custody : recs.custody[i].kind = kind /\ recs.custody[i].object = o

Outcomes == {i \in DOMAIN Program : Having("confirmed_effect", i) # {}}

\* read_restoration_custody: the original admission, the created closure and
\* the journal it was published under are all on record.
OriginalRecords == recs.original /\ recs.dirs /\ recs.created \in recs.snaps

\* The custody records form one chain that starts with the publication, and each
\* belongs to a completed effect or to the pending one.
CustodyChain ==
    /\ recs.custody # <<>> /\ recs.custody[1].kind = "confirmed_publication"
    /\ \A i \in DOMAIN recs.custody :
            /\ recs.custody[i].snap \in recs.snaps /\ recs.custody[i].snap <= tx.snap
            /\ recs.custody[i].intent <= hist.done + (IF hist.pending THEN 1 ELSE 0)
    /\ \A i \in DOMAIN Program : Cardinality(Having("confirmed_effect", i)) <= 1

read_restoration_custody ==
    OriginalRecords /\ CustodyChain /\ \A i \in 2..hist.done : i \in Outcomes

\* A surviving object has the facts and the parent of the replay; a removed
\* one, and one that was never there, is absent below its surviving parent.
RestoredObject(o) ==
    /\ disk.at[o] = ReplayedPlace(o)
    /\ disk.at[o] \notin {"none", "gone"} =>
            /\ o \notin changed
            /\ (o \in disk.ace) = (o \in RecordedGrants)
            /\ (ParentOf(o, disk.at[o]) \in disk.ace) = KnownParent(o, disk.at[o])

\* A backup directory without a record was never promised to be absent.
Tracked == IF Placing(Backup) = {} THEN Object \ {Backup} ELSE Object

InstalledIntent == CHOOSE i \in DOMAIN Program : Program[i].kind = "write_installed"

RestoredInstalled == IF InstalledIntent \in Outcomes THEN "confirmed" ELSE "no"

MetadataPostimages ==
    \A i \in Outcomes : Program[i].kind \in Metadata =>
        Having("created_metadata", i) # {} /\ Program[i].kind \in disk.meta

restore_custody ==
    /\ \A o \in Tracked : RestoredObject(o)
    /\ MetadataPostimages
    /\ (RestoredInstalled = "confirmed") = ("write_installed" \in disk.meta)

Restorable == read_restoration_custody /\ restore_custody

RestoredOwner(point) ==
    [NoOwner EXCEPT !.pc = point, !.restored = TRUE, !.ace = RecordedGrants,
        !.at = [o \in Object |-> ReplayedPlace(o)],
        !.pub = "confirmed", !.outcomes = Outcomes, !.attempted = Outcomes,
        !.installed = RestoredInstalled, !.sequence = Len(recs.custody)]

\* The recovery constructor.
restore ==
    /\ owner.pc = "dead"
    /\ owner' = IF Restorable THEN RestoredOwner("next") ELSE At("refused")
    /\ UNCHANGED <<orig, disk, changed, recs, tx, hist, faults>>

\* reconcile_maintenance_effect, as far as it can differ from the replay.
Happened == Pending.kind \in disk.meta

\* require_recovery_authority: an effect that has happened must have an outcome
\* on record; seeing it is not enough.
require_recovery_authority == require_recovery_prefix /\ (Happened => confirmed_outcome)

\* observe_owned_file: the object of the effect is the one this owner holds.
Observed == require_entry(Pending.object)

PendingRecovery == owner.pc = "next" /\ hist.pending

\* Mutant: recovery issues every pending effect again.
apply_recovery_effect_again ==
    /\ PendingRecovery
    /\ owner' = IF require_authority /\ Observed
                THEN At("apply") ELSE Throws({"entry_readback_failed"})
    /\ UNCHANGED <<orig, disk, changed, recs, tx, hist, faults>>

\* apply_recovery_effect: a confirmed effect only gets its readers and its
\* completion, never another native call.
apply_recovery_effect ==
    /\ PendingRecovery
    /\ owner' = CASE ~require_recovery_authority -> Throws({"entry_readback_failed"})
                  [] require_recovery_authority /\ confirmed_outcome -> At("grant")
                  [] OTHER -> IF Observed
                              THEN At("apply") ELSE Throws({"entry_readback_failed"})
    /\ UNCHANGED <<orig, disk, changed, recs, tx, hist, faults>>

\* A read-only owner: it restores the same custody and reports only what still
\* holds when it is asked.
inspect ==
    /\ owner.pc = "dead" /\ Restorable
    /\ owner' = RestoredOwner("inspecting")
    /\ UNCHANGED <<orig, disk, changed, recs, tx, hist, faults>>

\* Mutant: what was restored is reported without another look.
inspect_recovery_once ==
    /\ owner.pc = "inspecting"
    /\ owner' = At("inspected")
    /\ UNCHANGED <<orig, disk, changed, recs, tx, hist, faults>>

inspect_recovery ==
    /\ owner.pc = "inspecting"
    /\ owner' = IF Restorable THEN At("inspected") ELSE NoOwner
    /\ UNCHANGED <<orig, disk, changed, recs, tx, hist, faults>>

inspect_ends ==
    /\ owner.pc = "inspected"
    /\ owner' = NoOwner
    /\ UNCHANGED <<orig, disk, changed, recs, tx, hist, faults>>

-----------------------------------------------------------------------------
(* Failures and outsiders.                                                 *)

Alive == owner.pc \notin {"dead", "refused", "done", "catch"}

\* Where an owner reads held entries back (require_entry_batch), where the
\* native proof of a fence runs (require_authority), and where a restored owner
\* composes its reads in a scope that must be finished (PrefixReadRecipe).
EntryPoints == {"streams", "created", "rename", "parent", "effect", "grant"}

FencePoints ==
    {"record", "dirs", "begin", "stage", "verify", "commit", "commit_snapshot", "published",
     "parent_record", "issue", "metadata_record", "confirm", "retained", "grant_record"}

RecipePoints == IF owner.restored THEN {"next", "appended", "apply", "complete"} ELSE {}

\* A read-back fails; whichever it was, it is latched.
ReadFails ==
    /\ owner.pc \in EntryPoints \union FencePoints \union RecipePoints /\ Spend
    /\ owner' = Throws({"entry_readback_failed"} \union Running)
    /\ UNCHANGED <<orig, disk, changed, recs, tx, hist>>

Crash ==
    /\ Alive /\ Spend
    /\ owner' = NoOwner
    /\ UNCHANGED <<orig, disk, changed, recs, tx, hist>>

\* An outsider changes an object of the operation that is there.
Edit ==
    /\ Cardinality(changed) < MaxEdits
    /\ \E o \in Object : disk.at[o] \notin {"none", "gone"} /\ changed' = changed \union {o}
    /\ UNCHANGED <<orig, disk, recs, tx, hist, owner, faults>>

Own ==
    \/ admit_original_payload \/ persist_original_admission \/ begin
    \/ create_staging \/ create_files \/ verify
    \/ commit_started \/ commit_retains \/ commit_renames \/ commit_confirms
    \/ begin_effect \/ validate_appended_intent \/ mark_committed \/ apply_effect \/ create_directory \/ record_directory
    \/ rename_file \/ remove_entry \/ metadata_prepare \/ metadata_issue \/ metadata_confirm
    \/ confirm_effect \/ begin_grants \/ grant_created_payload \/ record_grant \/ end_grants
    \/ complete_effect \/ complete_recovery_effect \/ seal \/ mark_completed \/ catch \/ apply_recovery_effect

Next == Own \/ restore \/ inspect \/ inspect_recovery \/ inspect_ends
        \/ ReadFails \/ Crash \/ Edit

Spec == Init /\ [][Next]_vars

\* A worker that runs keeps running, and the recovery is tried again.
FairSpec == Spec /\ WF_vars(Own) /\ SF_vars(restore) /\ WF_vars(inspect_recovery \/ inspect_ends)

-----------------------------------------------------------------------------
(* Properties.                                                             *)

\* An effect as the disk alone shows it.
Visible(i) ==
    LET e == Program[i] IN
    CASE e.kind = "publish_target" -> disk.at[Root] \notin {"none", "staging"}
      [] e.kind = "backup_file" -> disk.at[e.object] \in {"backup", "gone"}
      [] e.kind \in Metadata -> e.kind \in disk.meta
      [] OTHER -> disk.at[e.object] = PlaceAfter(e.kind)

OnRecord(i) ==
    IF i = 1 THEN Recorded("confirmed_publication", Root)
    ELSE \E r \in Having("confirmed_effect", i) : recs.custody[r].outcome = "applied"

\* Effects whose traces restoration itself compares with the disk.
Compared == {i \in DOMAIN Program : Program[i].kind \notin {"write_ownership", "append_audit"}}

Explained ==
    /\ \A i \in Compared : Visible(i) = OnRecord(i)
    /\ \A o \in disk.ace : Recorded("consumer_read_grant", o)
    /\ disk.at[Parent] = "installed" => Recorded("created_owned_parent", Parent)

\* A dead worker's operation can be restored exactly when every native effect
\* that happened is on record, wherever the worker died and whichever call
\* failed: an effect, a reader grant or a created owned directory with no record
\* closes the way for good, and nothing else does (restore_custody,
\* read_restoration_custody).
RestorationIsExact ==
    owner.pc = "dead" /\ changed = {} /\ Recorded("confirmed_publication", Root) =>
        (Restorable <=> Explained)

\* What the effect journal calls complete, native custody confirms exactly once,
\* and after the publication (confirm_effect_completion, persist_native_custody).
CompletionHasCustody ==
    \A i \in 1..hist.done :
        IF i = 1 THEN recs.custody # <<>> /\ recs.custody[1].kind = "confirmed_publication"
        ELSE Cardinality(Having("confirmed_effect", i)) = 1

\* A sealed journal means the reviewed result is on disk, readers included, and
\* nothing of the operation is left over, however many workers it took.
SealedMeansDone ==
    hist.sealed =>
        /\ CASE orig.op = "repair" -> \A f \in File : /\ disk.at[New(f)] = "installed"
                                                      /\ disk.at[Orig(f)] \in {"none", "gone"}
             [] orig.op = "move" -> \A f \in File : disk.at[New(f)] = "target"
             [] OTHER -> /\ \A f \in File : disk.at[Orig(f)] = "gone"
                         /\ disk.at[Installed] = IF orig.unknown THEN "installed" ELSE "gone"
        /\ {"write_installed", "append_audit"} \subseteq disk.meta
        /\ orig.consumer /\ orig.op # "uninstall" =>
                {o \in Object : \/ o[1] = "new" /\ disk.at[o] # "none"
                                \/ o = Parent /\ disk.at[o] = "installed"
                                \/ o = Root /\ disk.at[o] = "target"} \subseteq disk.ace
        /\ orig.op # "move" => {disk.at[Root], disk.at[Payload], disk.at[Backup]} \subseteq {"none", "gone"}

\* The effect journal is backed by what it stands for: each completion by one
\* record of native custody, and the seal by the reviewed result.
JournalIsBacked == CompletionHasCustody /\ SealedMeansDone

\* What native custody has no record of: effects, reader grants and directories
\* that are on disk.
Unrecorded ==
    {<<Program[i].kind, Program[i].object>> : i \in {k \in DOMAIN Program : Visible(k) /\ ~OnRecord(k)}}
    \union {<<"grant", o>> : o \in disk.ace \ RecordedGrants}
    \union {<<"directory", d>> : d \in {d \in {Backup, Parent} :
                disk.at[d] \notin {"none", "gone"} /\ Placing(d) = {}}}

\* The acts the pending intent stands for.
Intended ==
    {<<Pending.kind, Pending.object>>, <<"directory", Destination>>}
    \union {<<"grant", o>> : o \in ToSet(Readers)}

\* At every moment, and so wherever a worker stops, at most one native act is
\* without its record, and it is an act of the pending intent; no record runs
\* ahead of its act.  A failed call, a failed record or another worker never adds
\* a second doubt to the first (apply_selected_effect, grant_created_payload,
\* repair_parent and the latches after them).
OneActInDoubt ==
    /\ Cardinality(Unrecorded) <= 1
    /\ Unrecorded # {} => hist.pending /\ Unrecorded \subseteq Intended
    /\ \A i \in DOMAIN Program : OnRecord(i) => Visible(i)

\* A read-only report is given only for an operation whose every object still
\* has its recorded postimage when the report is made; a backup directory the
\* worker did not live to record is no object of the operation (inspect_recovery).
InspectedIsExact ==
    [][owner.pc = "inspecting" /\ owner'.pc = "inspected" =>
        /\ \A o \in changed : \/ disk.at[o] = "gone"
                              \/ o = Backup /\ ~Recorded("later_created_directory", o)
        /\ \A i \in 2..Len(Program) : i \in Compared => Visible(i) = OnRecord(i)]_vars

\* An interrupted operation whose effects are all on record is finished by its
\* recovery, when nothing else fails and nobody interferes.
InterruptedGetsSealed ==
    (/\ owner.pc = "dead" /\ Restorable /\ faults = MaxFaults /\ changed = {}
     /\ disk.at[Backup] # "none" => Recorded("later_created_directory", Backup)
     /\ \A i \in DOMAIN Program : Program[i].kind \in disk.meta => i \in Outcomes)
    ~> hist.sealed \/ changed # {}

=============================================================================
