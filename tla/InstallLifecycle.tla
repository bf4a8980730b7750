-------------------------- MODULE InstallLifecycle --------------------------
(***************************************************************************)
(* Install, its finalization after an interruption, replay, uninstall and  *)
(* reinstall of one installation identity: apply_install_impl and          *)
(* recover_install_finalization (usk_lifecycle.cpp) over the transaction   *)
(* journal, the ownership and installed-state records                      *)
(* (usk_state_repository.cpp) and the audit chains                         *)
(* (usk_audit_repository.cpp, usk_install_restart.cpp).                    *)
(*                                                                         *)
(* The transaction is seen from outside: what its journal says, whether    *)
(* its staging root exists and what stands at the target; its inside is    *)
(* module TransactionSession, and the inside of uninstall is module        *)
(* MaintenanceTransaction.  The portable lifecycle takes no lock, so       *)
(* transactions and an uninstall interleave; one transaction is run by one *)
(* caller at a time.                                                       *)
(***************************************************************************)
EXTENDS Naturals, Sequences, FiniteSets, FiniteSetsExt

CONSTANTS
    Tx,         \* install transactions of one install id and one target
    Sources,    \* the choices of transactions bound to an archive source
    Un,         \* uninstall transactions
    None,
    Torn,       \* a record cut short
    Foreign,    \* a directory the program did not make
    MaxFaults,  \* bound on crashes, torn writes and I/O failures
    MaxEdits    \* bound on outside changes of the target

ASSUME InstallAssumption ==
    /\ Sources \subseteq SUBSET Tx /\ Tx \cap Un = {}
    /\ None \notin Tx \cup Un /\ Torn \notin Tx \cup Un \cup {None}
    /\ Foreign \notin Tx \cup {None}
    /\ IsFiniteSet(Tx \cup Un)
    /\ MaxFaults \in Nat /\ MaxEdits \in Nat

VARIABLES
    streamed,   \* the transactions bound to an archive source
    journal,    \* what each transaction's journal says
    attempted,  \* transactions whose journal has a commit attempt
    origin,     \* the transaction each one replays, and its journal then
    stage,      \* transactions whose staging root exists
    target,     \* what stands at the target
    published,  \* transactions whose commit rename succeeded (history)
    owner,      \* each transaction's ownership record
    installed,  \* installed-state records by transaction
    chain,      \* audit chains
    pc, call,   \* where each caller is, and the call it is in
    faults, edits

disk == <<journal, attempted, origin, stage, target, published, owner, installed, chain>>
vars == <<streamed, disk, pc, call, faults, edits>>

Chain == {<<"audit">>} \cup {<<"cycle", u>> : u \in Un} \cup {<<"replay", t>> : t \in Tx}
Replay(c) == c[1] = "replay"

Event == [tx : Tx \cup Un, op : {"install_local", "recovery", "uninstall"},
          phase : {"validated", "completed"}, pass : BOOLEAN]
Record == [at : Nat, ref : Tx, chain : Chain,
           status : {"installed", "retired", "uninstall_blocked"}]
Call == [mode : {"apply", "recovery"}, at : Nat, chain : Chain, ref : Tx \cup {None},
         gone : BOOLEAN]

Target == [by : Tx \cup {Foreign}, exact : BOOLEAN]
JournalState == {"none", "open", "refused", "committing", "committed", "recovery_required",
                 "rolled_back", "completed"}
Control == {"idle", "chain", "genesis", "session", "commit", "rename", "ownership",
            "installed", "audit", "committed", "completed", "replay"}

(* None stands for what is absent and Torn for what cannot be read, so     *)
(* neither is a document.                                                  *)
ASSUME NoneAssumption ==
    /\ None \notin Record \cup Call \cup Target \cup Tx \X JournalState
    /\ None \notin Seq(Event \cup {Torn}) /\ Torn \notin Record \cup Event

(* Every variable keeps its type: the journals, the installed and         *)
(* ownership records, the audit chains and the control of every call.     *)
TypeOK ==
    /\ streamed \in Sources
    /\ journal \in [Tx -> JournalState]
    /\ attempted \subseteq Tx /\ stage \subseteq Tx /\ published \subseteq Tx
    /\ origin \in [Tx -> {None} \cup (Tx \X JournalState)]
    /\ target \in Target \cup {None}
    /\ owner \in [Tx -> {"none", Torn, "written"}]
    /\ installed \in [Tx \cup Un -> Record \cup {None, Torn}]
    /\ chain \in [Chain -> Seq(Event \cup {Torn}) \cup {None}]
    /\ pc \in [Tx \cup Un -> Control]
    /\ call \in [Tx \cup Un -> Call \cup {None}]
    /\ faults \in 0 .. MaxFaults /\ edits \in 0 .. MaxEdits

Init ==
    /\ streamed \in Sources
    /\ journal = [t \in Tx |-> "none"]
    /\ attempted = {} /\ origin = [t \in Tx |-> None]
    /\ stage = {} /\ target = None /\ published = {}
    /\ owner = [t \in Tx |-> "none"]
    /\ installed = [x \in Tx \cup Un |-> None]
    /\ chain = [c \in Chain |-> None]
    /\ pc = [x \in Tx \cup Un |-> "idle"]
    /\ call = [x \in Tx \cup Un |-> None]
    /\ faults = 0 /\ edits = 0

----------------------------------------------------------------------------
(* The repositories.                                                       *)

Recorded == {x \in Tx \cup Un : installed[x] # None}

(* read_installed throws on any unreadable record, and on the latest one   *)
(* when its ownership manifest is unreadable.                              *)
Latest(x) == \A y \in Recorded : installed[y].at <= installed[x].at
Readable == \A x \in Recorded : installed[x] # Torn
read_installed ==
    IF ~Readable THEN Torn
    ELSE IF Recorded = {} THEN None
    ELSE LET x == CHOOSE y \in Recorded : Latest(y)
         IN  IF owner[installed[x].ref] = "written" THEN x ELSE Torn

(* read_and_validate_chain.                                                *)
ChainValid(c) == chain[c] # None /\ \A k \in 1 .. Len(chain[c]) : chain[c][k] # Torn

(* The timestamp of a call: later than every time on record or in use by   *)
(* an apply.  Clocks do not run backwards.                                 *)
Times == {installed[x].at : x \in {y \in Recorded : installed[y] # Torn}}
         \cup {call[x].at : x \in {y \in Tx \cup Un : call[y] # None /\ call[y].mode = "apply"}}
Now == Max(Times \cup {0}) + 1

(* A durable create-only write succeeds, or is cut short by a crash.       *)
Fault == faults < MaxFaults /\ faults' = faults + 1
NoFault == UNCHANGED faults

----------------------------------------------------------------------------
(* Control.                                                                *)

Goto(x, l) == pc' = [pc EXCEPT ![x] = l]
Enter(x, l, c) == Goto(x, l) /\ call' = [call EXCEPT ![x] = c]
Return(x) == Enter(x, "idle", None)

(* The process dies here, leaving a write half done.                       *)
Dies(x) == Fault /\ Return(x)

(* The append read the chain as valid before it wrote.  The two are one    *)
(* step here: who read the same head as another and loses the exclusive    *)
(* creation of the next event fails, which is a Fault of throw.            *)
Append1(c, e) == chain' = [chain EXCEPT ![c] = Append(@, e)]
append(x, c, e, l) ==
    /\ ChainValid(c)
    /\ \/ Append1(c, e) /\ NoFault /\ Goto(x, l) /\ UNCHANGED call
       \/ Append1(c, Torn) /\ Dies(x)

----------------------------------------------------------------------------
(* apply_install_impl.                                                     *)

(* next_install_audit_chain_id, after the checks on a retired identity.    *)
Retired(u) ==
    /\ u \in Un /\ installed[u].status = "retired"
    /\ LET c == installed[u].chain
       IN  /\ ChainValid(c) /\ chain[c] # <<>>
           /\ chain[c][Len(chain[c])] = [tx |-> u, op |-> "uninstall", phase |-> "completed", pass |-> TRUE]

(* The target is absent and the identity is new or cleanly retired; that   *)
(* selects the audit generation.  Transaction ids are fresh: the exclusive *)
(* creation of the journal refuses a used one.                             *)
apply_install(t) ==
    /\ pc[t] = "idle" /\ journal[t] = "none"
    /\ target = None
    /\ LET current == read_installed
           Begin(c) == Enter(t, "chain", [mode |-> "apply", at |-> Now, chain |-> c, ref |-> None,
                                        gone |-> FALSE])
       IN  \/ current = None /\ chain[<<"audit">>] = None /\ Begin(<<"audit">>)
           \/ current \notin {None, Torn} /\ Retired(current) /\ Begin(<<"cycle", current>>)
    /\ UNCHANGED <<disk, faults, edits>>

(* Mutant: takes a chain that already exists.                              *)
initialize_chain_shared(t) ==
    /\ pc[t] = "chain"
    /\ chain' = [chain EXCEPT ![call[t].chain] = IF @ = None THEN <<>> ELSE @]
    /\ Goto(t, "genesis")
    /\ UNCHANGED <<journal, attempted, origin, stage, target, published, owner, installed, call, faults, edits>>

(* The exclusive creation of the generation's directory.                   *)
initialize_chain(t) ==
    /\ pc[t] = "chain"
    /\ chain[call[t].chain] = None
    /\ chain' = [chain EXCEPT ![call[t].chain] = <<>>]
    /\ Goto(t, "genesis")
    /\ UNCHANGED <<journal, attempted, origin, stage, target, published, owner, installed, call, faults, edits>>

(* The first event: the reviewed plan revalidated, or the replay genesis.  *)
append_validated(t) ==
    /\ pc[t] = "genesis"
    /\ LET c == call[t].chain
           e == [tx |-> t, op |-> IF Replay(c) THEN "recovery" ELSE "install_local",
                 phase |-> "validated", pass |-> TRUE]
       IN  append(t, c, e, IF Replay(c) THEN "commit" ELSE "session")
    /\ UNCHANGED <<journal, attempted, origin, stage, target, published, owner, installed, edits>>

(* TransactionSession, begin_streaming, and the staging of the payload; a  *)
(* process may die between the journal and the staging root.               *)
OpenSession(t, l) ==
    /\ journal' = [journal EXCEPT ![t] = "open"]
    /\ \/ stage' = stage \cup {t} /\ NoFault /\ Goto(t, l) /\ UNCHANGED call
       \/ UNCHANGED stage /\ Dies(t)
    /\ UNCHANGED <<attempted, target, published, owner, installed, chain, edits>>

begin_session(t) == pc[t] = "session" /\ OpenSession(t, "commit") /\ UNCHANGED origin

(* The audit chain of a transaction, found again from the current state;   *)
(* None where the code throws.                                             *)
resolve_install_audit_chain_id(t) ==
    LET current == read_installed
    IN  IF origin[t] # None THEN <<"replay", t>>
        ELSE IF current = None THEN <<"audit">>
        ELSE IF current = Torn THEN None
        ELSE IF current = t THEN installed[t].chain
        ELSE IF installed[current].status = "retired" THEN <<"cycle", current>>
        ELSE None

(* restart_install: a source-bound transaction that never attempted its    *)
(* commit, like all it replays in turn, each with its first event alone in *)
(* its chain, is replayed under a new journal and a new chain.  Its        *)
(* staging root must be there unless it never was made, which is so of     *)
(* every such transaction: only a rename takes it away.                    *)
Closed(S) == \A a \in S : origin[a] # None => origin[a][1] \in S
Lineage(s) == {a \in Tx : \A S \in SUBSET Tx : s \in S /\ Closed(S) => a \in S}

Replayable(s) ==
    /\ s \in streamed
    /\ \A a \in Lineage(s) :
         /\ journal[a] \in {"open", "recovery_required"}
         /\ a \notin attempted
         /\ origin[a] # None => journal[origin[a][1]] = origin[a][2]
         /\ LET c == resolve_install_audit_chain_id(a)
            IN  /\ c # None /\ ChainValid(c)
                /\ Len(chain[c]) = 1
                /\ chain[c][1].tx = a /\ chain[c][1].phase = "validated"

(* Mutant: the replay is not bound to the source again.                    *)
restart_install_unbound(t, s) ==
    /\ pc[t] = "idle" /\ journal[t] = "none"
    /\ target = None
    /\ Replayable(s)
    /\ Enter(t, "replay", [mode |-> "apply", at |-> Now, chain |-> <<"replay", t>>, ref |-> s,
                            gone |-> FALSE])
    /\ UNCHANGED <<disk, faults, edits>>

(* inspect_install_replay: the request, before restart_streaming.          *)
restart_install(t, s) ==
    /\ pc[t] = "idle" /\ journal[t] = "none" /\ t \in streamed
    /\ target = None
    /\ Replayable(s)
    /\ Enter(t, "replay", [mode |-> "apply", at |-> Now, chain |-> <<"replay", t>>, ref |-> s,
                            gone |-> FALSE])
    /\ UNCHANGED <<disk, faults, edits>>

(* restart_streaming: the new journal precedes the new chain.              *)
restart_streaming(t) ==
    /\ pc[t] = "replay"
    /\ target = None
    /\ LET s == call[t].ref
       IN  Replayable(s) /\ origin' = [origin EXCEPT ![t] = <<s, journal[s]>>]
    /\ OpenSession(t, "chain")

(* commit_effect up to the rename: a target that appeared since ends the   *)
(* transaction as refused.                                                 *)
commit_intent(t) ==
    /\ pc[t] = "commit"
    /\ \/ /\ target = None
          /\ journal' = [journal EXCEPT ![t] = "committing"]
          /\ attempted' = attempted \cup {t}
          /\ Goto(t, "rename") /\ UNCHANGED call
       \/ /\ target # None
          /\ journal' = [journal EXCEPT ![t] = "refused"]
          /\ Return(t) /\ UNCHANGED attempted
    /\ UNCHANGED <<origin, stage, target, published, owner, installed, chain, faults, edits>>

(* The no-replace commit rename.                                           *)
rename(t) ==
    /\ pc[t] = "rename"
    /\ target = None
    /\ target' = [by |-> t, exact |-> TRUE]
    /\ stage' = stage \ {t} /\ published' = published \cup {t}
    /\ Goto(t, "ownership")
    /\ UNCHANGED <<journal, attempted, origin, owner, installed, chain, call, faults, edits>>

(* Mutant: does not compare the target with the published root.            *)
recover_any_target(t) ==
    /\ pc[t] = "idle"
    /\ journal[t] \in {"committing", "committed", "recovery_required"}
    /\ t \notin stage \/ t \in streamed
    /\ target # None
    /\ journal' = [journal EXCEPT ![t] = IF @ = "recovery_required" THEN "committing" ELSE @]
    /\ attempted' = attempted \cup {t}
    /\ Enter(t, "ownership", [mode |-> "recovery", at |-> Now, chain |-> <<"audit">>, ref |-> None,
                               gone |-> FALSE])
    /\ UNCHANGED <<origin, stage, target, published, owner, installed, chain, faults, edits>>

(* Mutant: does not reopen a journal that needs recovery.                  *)
Resumable_not_required(t) ==
    /\ pc[t] = "idle"
    /\ journal[t] \in {"committing", "committed"}
    /\ t \notin stage /\ target # None
    /\ t \in streamed => target.by = t

(* resume_finalization: the journal announced or recorded the commit, or   *)
(* needs recovery, no staging root is left and something stands at the     *)
(* target; for a source-bound transaction, its own root.                   *)
Resumable(t) ==
    /\ pc[t] = "idle"
    /\ journal[t] \in {"committing", "committed", "recovery_required"}
    /\ t \notin stage /\ target # None
    /\ t \in streamed => target.by = t

recover_install_finalization(t) ==
    /\ Resumable(t)
    /\ journal' = [journal EXCEPT ![t] = IF @ = "recovery_required" THEN "committing" ELSE @]
    /\ attempted' = attempted \cup {t}
    /\ Enter(t, "ownership", [mode |-> "recovery", at |-> Now, chain |-> <<"audit">>, ref |-> None,
                               gone |-> FALSE])
    /\ UNCHANGED <<origin, stage, target, published, owner, installed, chain, faults, edits>>

(* write_ownership; finalization keeps the manifest it finds.              *)
write_ownership(t) ==
    /\ pc[t] = "ownership"
    /\ \/ /\ owner[t] = "none"
          /\ \/ owner' = [owner EXCEPT ![t] = "written"] /\ NoFault
                /\ Goto(t, "installed") /\ UNCHANGED call
             \/ owner' = [owner EXCEPT ![t] = Torn] /\ Dies(t)
       \/ /\ owner[t] = "written" /\ call[t].mode = "recovery"
          /\ Goto(t, "installed") /\ UNCHANGED <<owner, call, faults>>
    /\ UNCHANGED <<journal, attempted, origin, stage, target, published, installed, chain, edits>>

Verified == target # None /\ target.exact

(* verify_manifest, the choice of the chain and write_installed, in one    *)
(* step; finalization keeps the record it finds, and its chain.            *)
write_installed(t) ==
    /\ pc[t] = "installed"
    /\ Verified /\ owner[t] = "written"
    /\ LET c == IF call[t].mode = "apply" THEN call[t].chain
                ELSE resolve_install_audit_chain_id(t)
           r == [at |-> call[t].at, ref |-> t, chain |-> c, status |-> "installed"]
       IN  /\ c # None
           /\ \/ /\ installed[t] = None
                 /\ \/ /\ installed' = [installed EXCEPT ![t] = r] /\ NoFault
                       /\ Enter(t, "audit", [call[t] EXCEPT !.chain = c])
                    \/ installed' = [installed EXCEPT ![t] = Torn] /\ Dies(t)
              \/ /\ installed[t] \notin {None, Torn} /\ call[t].mode = "recovery"
                 /\ Enter(t, "audit", [call[t] EXCEPT !.chain = installed[t].chain])
                 /\ UNCHANGED <<installed, faults>>
    /\ UNCHANGED <<journal, attempted, origin, stage, target, published, owner, chain, edits>>

(* The completion event; finalization looks for the one apply wrote.       *)
AlreadyAudited(t, c) ==
    \E k \in 1 .. Len(chain[c]) :
        chain[c][k].tx = t /\ chain[c][k].op = "install_local" /\ chain[c][k].phase = "completed"

append_completed(t) ==
    /\ pc[t] = "audit"
    /\ LET c == call[t].chain
           e == [tx |-> t, op |-> IF call[t].mode = "apply" THEN "install_local" ELSE "recovery",
                 phase |-> "completed", pass |-> TRUE]
       IN  /\ ChainValid(c)
           /\ IF call[t].mode = "recovery" /\ AlreadyAudited(t, c)
              THEN Goto(t, "committed") /\ UNCHANGED <<chain, call, faults>>
              ELSE append(t, c, e, "committed")
    /\ UNCHANGED <<journal, attempted, origin, stage, target, published, owner, installed, edits>>

mark_committed(t) ==
    /\ pc[t] = "committed"
    /\ journal[t] = "committing" => target # None
    /\ journal' = [journal EXCEPT ![t] = "committed"]
    /\ Goto(t, "completed")
    /\ UNCHANGED <<attempted, origin, stage, target, published, owner, installed, chain, call, faults, edits>>

mark_completed(t) ==
    /\ pc[t] = "completed"
    /\ journal' = [journal EXCEPT ![t] = "completed"]
    /\ Return(t)
    /\ UNCHANGED <<attempted, origin, stage, target, published, owner, installed, chain, faults, edits>>

----------------------------------------------------------------------------
(* Failures.                                                               *)

(* rollback: only while nothing is visible, and only of what may be        *)
(* removed.  It announces recovery_required, removes the stage, and then   *)
(* records rolled_back, and may be interrupted in between.                 *)
rollback(t) ==
    /\ target = None /\ t \in stage
    /\ \/ journal' = [journal EXCEPT ![t] = "recovery_required"] /\ UNCHANGED stage
       \/ /\ t \notin streamed /\ t \notin attempted
          /\ \E j \in {"recovery_required", "rolled_back"} : journal' = [journal EXCEPT ![t] = j]
          /\ stage' = stage \ {t}

(* The catch block of apply, best effort; finalization has none, but marks *)
(* a target that fails its verification.                                   *)
catch(t) ==
    \/ UNCHANGED <<journal, stage>>
    \/ call[t].mode = "apply" /\ journal[t] = "open" /\ rollback(t)
    \/ /\ journal[t] \in {"committing", "committed"}
       /\ call[t].mode = "recovery" =>
             pc[t] = "installed" /\ ~Verified /\ resolve_install_audit_chain_id(t) # None
       /\ journal' = [journal EXCEPT ![t] = "recovery_required"]
       /\ UNCHANGED stage

(* Where a check of the code throws.                                       *)
Refused(t) ==
    CASE pc[t] = "chain" -> chain[call[t].chain] # None
      [] pc[t] \in {"genesis", "audit"} -> ~ChainValid(call[t].chain)
      [] pc[t] = "replay" -> target # None \/ ~Replayable(call[t].ref)
      [] pc[t] = "rename" -> target # None
      [] pc[t] = "ownership" ->
            owner[t] = Torn \/ (owner[t] = "written" /\ call[t].mode = "apply")
      [] pc[t] = "installed" ->
            \/ ~Verified \/ installed[t] = Torn
            \/ call[t].mode = "apply" /\ installed[t] # None
            \/ call[t].mode = "recovery" /\ resolve_install_audit_chain_id(t) = None
      [] pc[t] = "committed" -> target = None /\ journal[t] = "committing"
      [] OTHER -> FALSE

throw(t) ==
    /\ pc[t] # "idle"
    /\ (Refused(t) /\ NoFault) \/ Fault
    /\ catch(t)
    /\ Return(t)
    /\ UNCHANGED <<attempted, origin, target, published, owner, installed, chain, edits>>

(* The reviewed rollback of an interrupted transaction.                    *)
recover_rollback(t) ==
    /\ pc[t] = "idle"
    /\ journal[t] \in {"open", "recovery_required"}
    /\ t \notin streamed /\ t \notin attempted
    /\ rollback(t)
    /\ UNCHANGED <<attempted, origin, target, published, owner, installed, chain,
                   pc, call, faults, edits>>

----------------------------------------------------------------------------
(* apply_uninstall, as seen by the records.                                *)

apply_uninstall(u) ==
    /\ pc[u] = "idle" /\ installed[u] = None
    /\ LET x == read_installed
       IN  /\ x \notin {None, Torn}
           /\ Enter(u, "commit", [mode |-> "apply", at |-> Now, chain |-> installed[x].chain,
                                  ref |-> installed[x].ref, gone |-> FALSE])
    /\ UNCHANGED <<disk, faults, edits>>

(* Owned files are removed, then the root if nothing else is in it; what   *)
(* differs from the manifest may only lack files.                          *)
remove_owned(u) ==
    /\ pc[u] = "commit"
    /\ target' \in IF Verified THEN {None} ELSE {None, target}
    /\ Enter(u, "installed", [call[u] EXCEPT !.gone = target' = None])
    /\ UNCHANGED <<journal, attempted, origin, stage, published, owner, installed, chain,
                   faults, edits>>

write_retired(u) ==
    /\ pc[u] = "installed"
    /\ owner[call[u].ref] = "written"
    /\ \/ /\ installed' = [installed EXCEPT ![u] =
                [at |-> call[u].at, ref |-> call[u].ref, chain |-> call[u].chain,
                 status |-> IF call[u].gone THEN "retired" ELSE "uninstall_blocked"]]
          /\ NoFault /\ Goto(u, "audit") /\ UNCHANGED call
       \/ installed' = [installed EXCEPT ![u] = Torn] /\ Dies(u)
    /\ UNCHANGED <<journal, attempted, origin, stage, target, published, owner, chain, edits>>

append_uninstalled(u) ==
    /\ pc[u] = "audit"
    /\ append(u, call[u].chain, [tx |-> u, op |-> "uninstall", phase |-> "completed",
                                pass |-> call[u].gone], "completed")
    /\ UNCHANGED <<journal, attempted, origin, stage, target, published, owner, installed, edits>>

----------------------------------------------------------------------------
(* Others put a directory at the target, remove what is there or change it.*)
Edit ==
    /\ edits < MaxEdits /\ edits' = edits + 1
    /\ \/ target = None /\ target' \in [by : {Foreign}, exact : BOOLEAN]
       \/ target # None /\ target' = None
       \/ target # None /\ target' = [target EXCEPT !.exact = FALSE]
    /\ UNCHANGED <<journal, attempted, origin, stage, published, owner, installed, chain,
                   pc, call, faults>>

Step(t) ==
    /\ \/ initialize_chain(t) \/ append_validated(t) \/ begin_session(t)
       \/ restart_streaming(t)
       \/ commit_intent(t) \/ rename(t)
       \/ write_ownership(t) \/ write_installed(t) \/ append_completed(t)
       \/ mark_committed(t) \/ mark_completed(t)
       \/ throw(t)
    /\ UNCHANGED streamed

Uninstall(u) ==
    apply_uninstall(u) \/ remove_owned(u) \/ write_retired(u) \/ append_uninstalled(u)

Next ==
    \/ \E t \in Tx : Step(t)
    \/ /\ \/ \E t \in Tx :
                apply_install(t) \/ recover_install_finalization(t) \/ recover_rollback(t)
          \/ \E t, s \in Tx : restart_install(t, s)
          \/ \E u \in Un : Uninstall(u)
          \/ Edit
       /\ UNCHANGED streamed

Spec == Init /\ [][Next]_vars

(* Fairness: a running call goes on, and somebody keeps asking for the     *)
(* finalization of an interrupted install.  Step(t) is enabled whenever a  *)
(* call runs and a call has no loop, so weak fairness of Step(t) says that *)
(* calls end; recover_install_finalization(t) ends what enables it, so     *)
(* weak fairness of it says that nothing stays resumable.                  *)
FairSpec ==
    /\ Spec
    /\ \A t \in Tx : []<>(pc[t] = "idle") /\ []<>~Resumable(t)

----------------------------------------------------------------------------
(* Properties.                                                             *)

Says(c, x, phase) ==
    /\ chain[c] # None
    /\ \E k \in 1 .. Len(chain[c]) :
           chain[c][k] # Torn /\ chain[c][k].tx = x /\ chain[c][k].phase = phase

(* apply_install_impl, recover_install_finalization: a journal says        *)
(* completed only when the ownership manifest, the installed-state record  *)
(* and a completion event in that record's chain are all durable, however  *)
(* often the install was interrupted on the way.                           *)
CompletedMeansRecorded ==
    \A t \in Tx : journal[t] = "completed" =>
        /\ owner[t] = "written"
        /\ installed[t] \notin {None, Torn}
        /\ Says(installed[t].chain, t, "completed")

(* initialize_chain: of the transactions that contend for one generation   *)
(* of an install identity, one gets past the creation of its audit chain.  *)
OneContender ==
    \A c \in Chain, x \in Tx \cup Un : Says(c, x, "validated") =>
        \A y \in Tx \cup Un : Says(c, y, "validated") => x = y

(* The payload never becomes visible, and is never announced, before the   *)
(* audit chain of the transaction says that its plan was revalidated or    *)
(* what it replays.                                                        *)
AttemptIsAudited ==
    \A t \in published : \E c \in Chain : Says(c, t, "validated")

(* What an install records is so: one transaction begins a generation, no  *)
(* payload is published before its chain says so, and a completed journal  *)
(* has all its records, through any contention, crash or torn record.      *)
RecordsAreTruthful ==
    TypeOK /\ CompletedMeansRecorded /\ OneContender /\ AttemptIsAudited

(* An uninstall took the payload away, or may have.                        *)
Removed(u) ==
    \/ call[u] # None /\ call[u].gone
    \/ installed[u] = Torn
    \/ installed[u] # None /\ installed[u].status = "retired"

(* verify_manifest compares contents only, and two installs of one plan    *)
(* have the same.  The publication identity makes the difference: a        *)
(* source-bound install has a record only after its own rename succeeded,  *)
(* and as long as nobody else changed the target and no uninstall removed  *)
(* a payload, the tree that stands there is the one it published itself.   *)
(* Once its tree was taken away another of the same contents may be        *)
(* verified in its place.                                                  *)
StreamInstalledIsOwn ==
    \A t \in streamed : installed[t] # None =>
        /\ t \in published
        /\ edits = 0 /\ (\A u \in Un : ~Removed(u)) => target # None /\ target.by = t

(* Without outside changes of the target, two installs of an identity are  *)
(* on record only with the removal of an uninstall between them, also when *)
(* one replays the other while its process is still alive.                 *)
OneLiveInstallation ==
    \A t, s \in Tx :
        t # s /\ installed[t] \notin {None, Torn} /\ installed[s] \notin {None, Torn} /\ edits = 0 =>
            \E u \in Un : Removed(u)

(* A record or an audit event was torn by a crash in the middle of it.     *)
CutShort ==
    \/ \E t \in Tx : owner[t] = Torn
    \/ \E x \in Tx \cup Un : installed[x] = Torn
    \/ \E c \in Chain : chain[c] # None /\ ~ChainValid(c)

(* The current record of the identity is another's, and not a retirement:  *)
(* no audit chain is found for t any more.                                 *)
Superseded(t) ==
    LET x == read_installed
    IN  x \notin {None, Torn, t} /\ installed[x].status # "retired"

(* Its record names a generation nobody began: it was finalized after the  *)
(* installation that replayed it had been retired.                         *)
Misfiled(t) == installed[t] \notin {None, Torn} /\ chain[installed[t].chain] = None

(* An install whose payload became visible is finalized, a reinstall after *)
(* a retired predecessor included, unless a record was cut short, the      *)
(* payload at the target is not the reviewed one, the current record of    *)
(* the identity is a competitor's, or its own names a chain that does not  *)
(* exist.  What is published stays so, hence "leads to" is the same as     *)
(* "again and again".                                                      *)
PublishedGetsFinalized ==
    \A t \in Tx : []<>
        \/ t \notin published
        \/ journal[t] = "completed"
        \/ target # [by |-> t, exact |-> TRUE]
        \/ Superseded(t) \/ Misfiled(t)
        \/ CutShort

(* Recovery finishes missing authority records idempotently: a transaction *)
(* has one completion event.  False: finalization looks only for the event *)
(* that apply writes, so a second finalization adds another.               *)
AuditedOnce ==
    \A c \in Chain, t \in Tx : chain[c] # None =>
        Cardinality({k \in 1 .. Len(chain[c]) :
            chain[c][k] # Torn /\ chain[c][k].tx = t /\ chain[c][k].phase = "completed"}) <= 1
=============================================================================
