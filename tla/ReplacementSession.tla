------------------------- MODULE ReplacementSession -------------------------
(***************************************************************************)
(* The retained-root exchange of usk_replacement_session.cpp.  A session   *)
(* moves the old root aside (live -> retained) and then the new root into  *)
(* place (staged -> live), and keeps an append-only journal of its phases. *)
(* Nothing resumes an interrupted exchange: inspect() classifies what is   *)
(* left for an operator.                                                   *)
(*                                                                         *)
(* Several sessions may be open on one live root.  Each has its own staged *)
(* root, its own retained name and its own journal directory; the new root *)
(* of session t is written t.  A root is known by its native identity, and *)
(* `intact' holds the roots whose content still has the reviewed snapshot  *)
(* digest.  The matches_root() calls of one check are one step; checks,    *)
(* renames and journal records are separate steps.                         *)
(***************************************************************************)
CONSTANTS
    Tx,       \* replacement transactions on one live root
    BoundTx,  \* those that require staged_child_bound_v1
    Old,      \* the root that is being replaced
    Foreign,  \* directories other programs may make
    None      \* no directory

ASSUME ReplacementAssumption ==
    /\ BoundTx \subseteq Tx
    /\ Old # None
    /\ Old \notin Tx \cup Foreign /\ None \notin Tx \cup Foreign
    /\ \A t \in Tx : t \notin Foreign

VARIABLES
    root,    \* what each of the named places holds
    intact,  \* the reviewed roots whose content is unchanged
    journal, \* each transaction's durable journal
    phase,   \* phase_ of the session object
    pc,      \* where each session is
    made     \* the directories other programs made

vars == <<root, intact, journal, phase, pc, made>>

Live == <<"live", "root">>
Staged(t) == <<"staged", t>>
Retained(t) == <<"retained", t>>
Place == {Live} \cup {Staged(t) : t \in Tx} \cup {Retained(t) : t \in Tx}

Reviewed == {Old} \cup Tx

Phases == {"intent", "old_retire_prepared", "old_retired",
           "new_activate_prepared", "new_active", "state_published", "completed"}

valid_transition(from, to) ==
    <<from, to>> \in {<<"empty", "intent">>,
                      <<"intent", "old_retire_prepared">>,
                      <<"old_retire_prepared", "old_retired">>,
                      <<"old_retired", "new_activate_prepared">>,
                      <<"new_activate_prepared", "new_active">>,
                      <<"new_active", "state_published">>,
                      <<"state_published", "completed">>}

(* "absent": no journal directory; "empty": a directory without a record;  *)
(* torn: the file of the next record exists but cannot be read.            *)
Journal == [last : {"absent", "empty"} \cup Phases, torn : BOOLEAN]

Control == {"none", "create", "idle", "retire_check", "retire_rename",
            "retire_verify", "retire_record", "activate_check",
            "activate_rename", "activate_verify", "activate_record", "dead"}

(* Every variable keeps its type: the roots, the phase journals and the   *)
(* control of every session.                                              *)
TypeOK ==
    /\ root \in [Place -> Reviewed \cup Foreign \cup {None}]
    /\ intact \subseteq Reviewed
    /\ journal \in [Tx -> Journal]
    /\ phase \in [Tx -> {"empty"} \cup Phases]
    /\ pc \in [Tx -> Control]
    /\ made \subseteq Foreign

Init ==
    /\ root = [p \in Place |-> CASE p = Live -> Old
                                 [] p \in {Staged(t) : t \in Tx} -> p[2]
                                 [] OTHER -> None]
    /\ intact = Reviewed
    /\ journal = [t \in Tx |-> [last |-> "absent", torn |-> FALSE]]
    /\ phase = [t \in Tx |-> "empty"]
    /\ pc = [t \in Tx |-> "none"]
    /\ made = {}

exists(p) == root[p] # None
matches_root(p, o) == root[p] = o /\ o \in intact

Goto(t, l) == pc' = [pc EXCEPT ![t] = l]

----------------------------------------------------------------------------
(* The journal.                                                            *)

(* write_new_durable_text refuses a file that exists: one a failed call    *)
(* left behind, torn or complete, ends the journal.                        *)
Writable(t) == ~journal[t].torn /\ journal[t].last = phase[t]

persist(t, next, then) ==
    /\ valid_transition(phase[t], next)
    /\ Writable(t)
    /\ journal' = [journal EXCEPT ![t] = [last |-> next, torn |-> FALSE]]
    /\ phase' = [phase EXCEPT ![t] = next]
    /\ Goto(t, then)
    /\ UNCHANGED <<root, intact, made>>

(* The call throws or the process dies: before the file exists, with part  *)
(* of it written, or with all of it written and the directory not synced.  *)
persist_fails(t, next) ==
    /\ journal' \in {journal} \cup
         (IF Writable(t)
          THEN {[journal EXCEPT ![t] = [last |-> phase[t], torn |-> TRUE]],
                [journal EXCEPT ![t] = [last |-> next, torn |-> FALSE]]}
          ELSE {})
    /\ \E l \in {"idle", "dead"} : (pc[t] = "create" => l = "dead") /\ Goto(t, l)
    /\ UNCHANGED <<root, intact, phase, made>>

Record(t, next, then) == persist(t, next, then) \/ persist_fails(t, next)

----------------------------------------------------------------------------
(* The session.                                                            *)

RootsAsReviewed(t) ==
    /\ matches_root(Live, Old)
    /\ matches_root(Staged(t), t)
    /\ ~exists(Retained(t))

construct(t) ==
    /\ pc[t] = "none"
    /\ journal[t].last = "absent"
    /\ RootsAsReviewed(t)
    /\ journal' = [journal EXCEPT ![t] = [last |-> "empty", torn |-> FALSE]]
    /\ Goto(t, "create")
    /\ UNCHANGED <<root, intact, phase, made>>

RecordIntent(t) == pc[t] = "create" /\ Record(t, "intent", "idle")

(* retire_old_root: require_commit_authority throws for a bound one.       *)
retire_old_root(t) ==
    /\ pc[t] = "idle" /\ phase[t] = "intent"
    /\ t \notin BoundTx
    /\ Record(t, "old_retire_prepared", "retire_check")

(* The checks of a call: the session goes on or the call throws.           *)
Check(t, at, ok, then) ==
    /\ pc[t] = at
    /\ Goto(t, IF ok THEN then ELSE "idle")
    /\ UNCHANGED <<root, intact, journal, phase, made>>

CheckRetire(t) == Check(t, "retire_check", RootsAsReviewed(t), "retire_rename")

(* Mutant: a plain rename(2), which replaces its destination.                      *)
rename_replacing(t, from, to, then) ==
    /\ exists(from)
    /\ root' = [root EXCEPT ![from] = None, ![to] = root[from]]
    /\ Goto(t, then)
    /\ UNCHANGED <<intact, journal, phase, made>>

(* The rename names its source: it moves whatever is there by now.         *)
rename_no_replace(t, from, to, then) ==
    /\ IF exists(from) /\ ~exists(to)
       THEN /\ root' = [root EXCEPT ![from] = None, ![to] = root[from]]
            /\ Goto(t, then)
       ELSE Goto(t, "idle") /\ UNCHANGED root
    /\ UNCHANGED <<intact, journal, phase, made>>

RenameOld(t) ==
    /\ pc[t] = "retire_rename"
    /\ rename_no_replace(t, Live, Retained(t), "retire_verify")

VerifyRetired(t) ==
    Check(t, "retire_verify", matches_root(Retained(t), Old) /\ ~exists(Live),
          "retire_record")

RecordRetired(t) == pc[t] = "retire_record" /\ Record(t, "old_retired", "idle")

activate_new_root(t) ==
    /\ pc[t] = "idle" /\ phase[t] = "old_retired"
    /\ Record(t, "new_activate_prepared", "activate_check")

CheckActivate(t) ==
    Check(t, "activate_check",
          /\ ~exists(Live)
          /\ matches_root(Retained(t), Old)
          /\ matches_root(Staged(t), t), "activate_rename")

RenameNew(t) ==
    /\ pc[t] = "activate_rename"
    /\ rename_no_replace(t, Staged(t), Live, "activate_verify")

Exchanged(t) == matches_root(Live, t) /\ matches_root(Retained(t), Old)

VerifyActive(t) == Check(t, "activate_verify", Exchanged(t), "activate_record")

RecordActive(t) == pc[t] = "activate_record" /\ Record(t, "new_active", "idle")

mark_state_published(t) ==
    /\ pc[t] = "idle" /\ phase[t] = "new_active"
    /\ Exchanged(t)
    /\ Record(t, "state_published", "idle")

mark_completed(t) ==
    /\ pc[t] = "idle" /\ phase[t] = "state_published"
    /\ Record(t, "completed", "idle")

Crash(t) ==
    /\ pc[t] \notin {"none", "dead"}
    /\ Goto(t, "dead")
    /\ UNCHANGED <<root, intact, journal, phase, made>>

----------------------------------------------------------------------------
(* Other programs create a directory at a free name, or change the content *)
(* of a root.                                                              *)

ForeignRoot(p, x) ==
    /\ ~exists(p)
    /\ root' = [root EXCEPT ![p] = x]
    /\ made' = made \cup {x}
    /\ UNCHANGED <<intact, journal, phase, pc>>

ContentChanges(o) ==
    /\ intact' = intact \ {o}
    /\ UNCHANGED <<root, journal, phase, pc, made>>

Step(t) ==
    \/ construct(t) \/ RecordIntent(t)
    \/ retire_old_root(t) \/ CheckRetire(t) \/ RenameOld(t)
    \/ VerifyRetired(t) \/ RecordRetired(t)
    \/ activate_new_root(t) \/ CheckActivate(t) \/ RenameNew(t)
    \/ VerifyActive(t) \/ RecordActive(t)
    \/ mark_state_published(t) \/ mark_completed(t)
    \/ Crash(t)

Next ==
    \/ \E t \in Tx : Step(t)
    \/ \E p \in Place, x \in Foreign \ made : ForeignRoot(p, x)
    \/ \E o \in intact : ContentChanges(o)

Spec == Init /\ [][Next]_vars

----------------------------------------------------------------------------
(* inspect(): what an operator is told of a transaction.                   *)

Corrupt(t) == journal[t].torn \/ journal[t].last \in {"absent", "empty"}

(* Mutant: the phase test forgets that the rename precedes its record.             *)
disposition_recorded(t) ==
    IF Corrupt(t) THEN "indeterminate"
    ELSE CASE RootsAsReviewed(t) /\ journal[t].last \in {"intent", "old_retire_prepared"}
           -> "no_replacement_effect"
      [] /\ ~exists(Live)
         /\ matches_root(Staged(t), t)
         /\ matches_root(Retained(t), Old)
         /\ journal[t].last \in {"old_retired", "new_activate_prepared"}
           -> "old_retired"
      [] /\ Exchanged(t)
         /\ ~exists(Staged(t))
         /\ journal[t].last \in {"new_activate_prepared", "new_active",
                                 "state_published", "completed"}
           -> IF journal[t].last = "completed" THEN "completed" ELSE "new_active"
      [] OTHER -> "indeterminate"

disposition(t) ==
    IF Corrupt(t) THEN "indeterminate"
    ELSE CASE RootsAsReviewed(t) /\ journal[t].last \in {"intent", "old_retire_prepared"}
           -> "no_replacement_effect"
      [] /\ ~exists(Live)
         /\ matches_root(Staged(t), t)
         /\ matches_root(Retained(t), Old)
         /\ journal[t].last \in {"old_retire_prepared", "old_retired",
                                 "new_activate_prepared"}
           -> "old_retired"
      [] /\ Exchanged(t)
         /\ ~exists(Staged(t))
         /\ journal[t].last \in {"new_activate_prepared", "new_active",
                                 "state_published", "completed"}
           -> IF journal[t].last = "completed" THEN "completed" ELSE "new_active"
      [] OTHER -> "indeterminate"

----------------------------------------------------------------------------
(* Properties.                                                             *)

(* The journal of t holds at least the record of the phase named.          *)
RetirePrepared(t) == journal[t].last \in Phases \ {"intent"}
Retired(t) == journal[t].last \in Phases \ {"intent", "old_retire_prepared"}
ActivatePrepared(t) ==
    journal[t].last \in Phases \ {"intent", "old_retire_prepared", "old_retired"}

(* The exchange never loses or overwrites a directory: the old root, every *)
(* new root and every directory another program made are each in exactly   *)
(* one of the named places, whatever sessions compete, crash, or find a    *)
(* directory in the way.  This is what the no-replace renames of           *)
(* retire_old_root and activate_new_root are for.                          *)
NothingLost ==
    \A o \in Reviewed \cup made : \E p \in Place : \A q \in Place : root[q] = o <=> q = p

(* A root leaves its place only after the journal of the session that moved*)
(* it durably holds the prepared phase of that move: an operator never     *)
(* finds a moved root that no journal announces.                           *)
IntentBeforeMove ==
    \A t \in Tx :
        /\ root[Retained(t)] \in Reviewed => RetirePrepared(t)
        /\ root[Staged(t)] # t => ActivatePrepared(t)

(* Of the sessions that compete for one live root at most one records that *)
(* it retired the old root, so at most one ever activates: the check after *)
(* the rename catches a session that moved somebody else's root aside.     *)
OneRetires ==
    \A t, u \in Tx : Retired(t) /\ Retired(u) => t = u

(* No other session, no foreign directory and no changed content.          *)
Undisturbed(t) ==
    /\ \A u \in Tx \ {t} : journal[u].last = "absent"
    /\ intact = Reviewed /\ made = {}

(* Every point at which an undisturbed exchange can stop has a definite    *)
(* classification in inspect(), unless a journal record is missing or torn:*)
(* the phases it accepts for each layout of the roots cover the window     *)
(* between a rename and its record.                                        *)
CrashIsClassified ==
    \A t \in Tx :
        Undisturbed(t) /\ ~Corrupt(t) => disposition(t) # "indeterminate"

=============================================================================
