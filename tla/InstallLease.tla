---------------------------- MODULE InstallLease ----------------------------
(***************************************************************************)
(* The installation lease: the append-only ownership history that lets one *)
(* worker at a time change an installation, and decides who may continue   *)
(* what a dead worker left unfinished (usk_install_lease.cpp and           *)
(* PublisherInstallationLease in usk_publisher_installation_lease.cpp).    *)
(*                                                                         *)
(* Workers are processes known by process id and creation time, so a dead  *)
(* one never comes back.  A worker takes the named-mutex guard of the      *)
(* installation (released when the worker ends, whichever way), writes or  *)
(* finds the durable original intent of its operation, appends an active   *)
(* ownership record, changes the installation under the fence, and appends *)
(* a terminal record.  Every request carries a fresh attempt id, so the    *)
(* test for a reused one is left out.                                      *)
(***************************************************************************)
EXTENDS Naturals, Sequences

CONSTANTS
    Proc,          \* worker processes, each with one life
    Install,       \* install_local operations
    Maint,         \* repair, move and uninstall operations
    None,
    HistoryLimit,  \* history_limit
    MaxRev         \* bound on the installed-state revision

VARIABLES
    alive,    \* workers that have not ended
    guard,    \* owner of the named mutex
    intent,   \* initial_state_revision of each durable operation context
    custody,  \* generation in each maintenance operation's original custody record
    hist,     \* published ownership records
    pend,     \* files in pending/
    rev,      \* the observed installed-state revision
    pc,       \* where each worker is
    req,      \* its request
    own       \* its active ownership record

vars == <<alive, guard, intent, custody, hist, pend, rev, pc, req, own>>

Op == Install \cup Maint
Revision == 0 .. MaxRev

Record == [op : Op, holder : Proc, gen : Nat, exp : Revision,
           status : {"active", "completed", "handoff"}, res : Revision]
Request == [op : Op, recovery : BOOLEAN, exp : Revision]

ASSUME LeaseAssumption ==
    /\ HistoryLimit \in Nat /\ MaxRev \in Nat
    /\ Install \cap Maint = {}
    /\ None \notin Proc \cup Revision \cup Record \cup Request

Control == {"idle", "guarded", "request", "acquire", "held", "working", "finish"}

(* Every variable keeps its type: the ownership histories, the guard, the  *)
(* requests and the control of every process.                              *)
TypeOK ==
    /\ alive \subseteq Proc
    /\ guard \in Proc \cup {None}
    /\ intent \in [Op -> Revision \cup {None}]
    /\ custody \in [Op -> 0 .. HistoryLimit]
    /\ hist \in Seq(Record) /\ Len(hist) <= HistoryLimit
    /\ pend \in 0 .. HistoryLimit
    /\ rev \in Revision
    /\ pc \in [Proc -> Control]
    /\ req \in [Proc -> Request \cup {None}]
    /\ own \in [Proc -> Record \cup {None}]

Init ==
    /\ alive = Proc
    /\ guard = None
    /\ intent = [o \in Op |-> None]
    /\ custody = [o \in Op |-> 0]
    /\ hist = <<>>
    /\ pend = 0
    /\ rev = 0
    /\ pc = [p \in Proc |-> "idle"]
    /\ req = [p \in Proc |-> None]
    /\ own = [p \in Proc |-> None]

----------------------------------------------------------------------------
(* The ownership records.                                                  *)

(* What derive_install_lease_ownership demands of the record before, h[n], *)
(* given whether its holder has ended.                                     *)
Successor(h, n, r, observed, ended) ==
    /\ r.exp = observed
    /\ n > 0 /\ h[n].status # "completed" =>
         /\ r.recovery /\ h[n].op = r.op
         /\ h[n].status = "active" => ended
         /\ h[n].status = "handoff" => h[n].res = observed

derive_install_lease_ownership(h, n, p, r) ==
    [op |-> r.op, holder |-> p, gen |-> IF n = 0 THEN 1 ELSE h[n].gen + 1,
     exp |-> r.exp, status |-> "active", res |-> 0]

(* Mutant: the result is the revision the worker started from.             *)
finish_keeps_expected(a, observed, how) ==
    [a EXCEPT !.status = how, !.res = a.exp]

finish_install_lease_ownership(a, observed, how) ==
    [a EXCEPT !.status = how, !.res = observed]

(* latest(): every record re-derives from the one before it.               *)
Rederives(h, k) ==
    IF h[k].status = "active"
    THEN LET r == [op |-> h[k].op, recovery |-> TRUE, exp |-> h[k].exp]
         IN  /\ Successor(h, k - 1, r, h[k].exp, TRUE)
             /\ h[k] = derive_install_lease_ownership(h, k - 1, h[k].holder, r)
    ELSE /\ k > 1 /\ h[k - 1].status = "active"
         /\ h[k] = finish_install_lease_ownership(h[k - 1], h[k].res, h[k].status)

Valid(h) == Len(h) <= HistoryLimit /\ \A k \in 1 .. Len(h) : Rederives(h, k)

(* require_install_lease_fence against the latest record.                  *)
Fenced(p) ==
    /\ own[p] # None /\ own[p].status = "active"
    /\ Valid(hist) /\ hist # <<>> /\ hist[Len(hist)] = own[p]

(* select_completed_install_lease_history: the completion of the operation *)
(* whose original active record has generation g.                          *)
OriginalAt(g) == {k \in 1 .. Len(hist) : hist[k].gen = g /\ hist[k].status = "active"}
CompletedAfter(i) ==
    {k \in i + 1 .. Len(hist) :
        /\ hist[k].status = "completed"
        /\ \A j \in i .. k : hist[j].op = hist[i].op
        /\ \A j \in i .. k - 1 : hist[j].status # "completed"}

select_completed_install_lease_history(g) ==
    IF ~Valid(hist) \/ OriginalAt(g) = {} THEN "stale"
    ELSE LET i == CHOOSE k \in OriginalAt(g) : TRUE
         IN  IF CompletedAfter(i) = {}
             THEN IF \A j \in i .. Len(hist) : hist[j].op = hist[i].op
                  THEN "unfinished" ELSE "stale"
             ELSE LET c == CHOOSE k \in CompletedAfter(i) : TRUE
                  IN  IF \E j \in c + 1 .. Len(hist) : hist[j].op = hist[i].op
                      THEN "stale" ELSE "completed"

(* recovery_lineage: since the original record the history belongs to this *)
(* operation, is not completed, and every other holder has ended.          *)
Lineage(p, g) ==
    /\ Fenced(p) /\ req[p].recovery
    /\ OriginalAt(g) # {} /\ g < own[p].gen
    /\ \A k \in 1 .. Len(hist) :
         hist[k].gen >= g =>
            /\ hist[k].op = req[p].op /\ hist[k].status # "completed"
            /\ hist[k].status = "active" /\ hist[k] # own[p] => hist[k].holder \notin alive

----------------------------------------------------------------------------
(* Workers.                                                                *)

Goto(p, l) == pc' = [pc EXCEPT ![p] = l]

AcquireGuard(p) ==
    /\ pc[p] = "idle" /\ p \in alive
    /\ guard = None /\ guard' = p
    /\ Goto(p, "guarded")
    /\ UNCHANGED <<alive, intent, custody, hist, pend, rev, req, own>>

(* The guard and the lease object go with the call, whether it returns or  *)
(* throws: at a check that refuses, at a full journal, at a failed write.  *)
(* The ownership record and a pending file stay.                           *)
Leave(p) ==
    /\ pc[p] # "idle"
    /\ guard' = None
    /\ Goto(p, "idle")
    /\ req' = [req EXCEPT ![p] = None]
    /\ own' = [own EXCEPT ![p] = None]
    /\ UNCHANGED <<alive, intent, custody, hist, pend, rev>>

Die(p) ==
    /\ p \in alive
    /\ alive' = alive \ {p}
    /\ guard' = IF guard = p THEN None ELSE guard
    /\ Goto(p, "idle")
    /\ req' = [req EXCEPT ![p] = None]
    /\ own' = [own EXCEPT ![p] = None]
    /\ UNCHANGED <<intent, custody, hist, pend, rev>>

Ask(p, o, recovery, exp) ==
    /\ pc[p] = "guarded"
    /\ req' = [req EXCEPT ![p] = [op |-> o, recovery |-> recovery, exp |-> exp]]
    /\ Goto(p, "request")
    /\ UNCHANGED <<alive, guard, custody, hist, pend, rev, own>>

(* A first apply makes its original intent durable; an install needs an    *)
(* installation without state.                                             *)
prepare(p, o) ==
    /\ intent[o] = None
    /\ o \in Install => rev = 0
    /\ intent' = [intent EXCEPT ![o] = rev]
    /\ Ask(p, o, FALSE, rev)

(* An install that is applied again, or recovered once it published.       *)
start_installation_lease(p, o) ==
    /\ o \in Install /\ intent[o] # None
    /\ \/ Ask(p, o, TRUE, intent[o])
       \/ (\E k \in 1 .. Len(hist) : hist[k].op = o) /\ Ask(p, o, TRUE, rev)
    /\ UNCHANGED intent

(* Maintenance is recovered from its original custody record, and not at   *)
(* all when the history shows that it completed.                           *)
recover_maintenance(p, o) ==
    /\ o \in Maint /\ intent[o] # None
    /\ custody[o] # 0
    /\ select_completed_install_lease_history(custody[o]) = "unfinished"
    /\ Ask(p, o, TRUE, rev)
    /\ UNCHANGED intent

(* Mutant: an active record takes one slot, like a terminal one.           *)
Room_single(status) == Len(hist) <= HistoryLimit - 1 /\ pend < HistoryLimit

(* The journal budget: an active record leaves a slot for its terminal one.*)
Room(status) ==
    /\ Len(hist) + (IF status = "active" THEN 2 ELSE 1) <= HistoryLimit
    /\ pend < HistoryLimit

(* Mutant: a holder that gave the guard back counts as ended.              *)
PreviousHolderEnded_guard ==
    hist # <<>> => hist[Len(hist)].holder # guard

(* observe_publisher_previous_lease_holder says ended.                     *)
PreviousHolderEnded ==
    hist # <<>> => hist[Len(hist)].holder \notin alive

(* The constructor up to the pending file of the active record.            *)
Acquire(p) ==
    /\ pc[p] = "request"
    /\ Valid(hist)
    /\ Successor(hist, Len(hist), req[p], rev, PreviousHolderEnded)
    /\ Room("active")
    /\ pend' = pend + 1
    /\ own' = [own EXCEPT ![p] =
                 derive_install_lease_ownership(hist, Len(hist), p, req[p])]
    /\ Goto(p, "acquire")
    /\ UNCHANGED <<alive, guard, intent, custody, hist, rev, req>>

(* publish_publisher_record_no_replace.                                    *)
Publish(record) ==
    /\ hist' = Append(hist, record)
    /\ pend' = pend - 1

PublishActive(p) ==
    /\ pc[p] = "acquire"
    /\ Publish(own[p])
    /\ Goto(p, "held")
    /\ UNCHANGED <<alive, guard, intent, custody, rev, req, own>>

(* require_start, and for maintenance the original custody: recorded by    *)
(* the first worker, proved by a recovering one.                           *)
Start(p) ==
    /\ pc[p] = "held"
    /\ Fenced(p) /\ own[p].exp = rev
    /\ \/ req[p].op \in Install /\ UNCHANGED custody
       \/ /\ req[p].op \in Maint /\ ~req[p].recovery
          /\ custody' = [custody EXCEPT ![req[p].op] = own[p].gen]
       \/ /\ req[p].op \in Maint /\ req[p].recovery
          /\ Lineage(p, custody[req[p].op])
          /\ UNCHANGED custody
    /\ Goto(p, "working")
    /\ UNCHANGED <<alive, guard, intent, hist, pend, rev, req, own>>

(* One effect on the installation, behind require_fence.                   *)
Effect(p) ==
    /\ pc[p] = "working" /\ Fenced(p)
    /\ rev < MaxRev /\ rev' = rev + 1
    /\ UNCHANGED <<alive, guard, intent, custody, hist, pend, pc, req, own>>

finish(p, how) ==
    /\ pc[p] = "working" /\ Fenced(p)
    /\ Room(how)
    /\ pend' = pend + 1
    /\ own' = [own EXCEPT ![p] = finish_install_lease_ownership(own[p], rev, how)]
    /\ Goto(p, "finish")
    /\ UNCHANGED <<alive, guard, intent, custody, hist, rev, req>>

(* The terminal record is published and the call returns.                  *)
PublishTerminal(p) ==
    /\ pc[p] = "finish"
    /\ Publish(own[p])
    /\ guard' = None
    /\ Goto(p, "idle")
    /\ req' = [req EXCEPT ![p] = None]
    /\ own' = [own EXCEPT ![p] = None]
    /\ UNCHANGED <<alive, intent, custody, rev>>

Step(p) ==
    \/ AcquireGuard(p) \/ Leave(p) \/ Die(p)
    \/ \E o \in Op : prepare(p, o)
    \/ \E o \in Op : start_installation_lease(p, o)
    \/ \E o \in Op : recover_maintenance(p, o)
    \/ Acquire(p) \/ PublishActive(p) \/ Start(p)
    \/ Effect(p)
    \/ \E how \in {"completed", "handoff"} : finish(p, how)
    \/ PublishTerminal(p)

Next == \E p \in Proc : Step(p)

Spec == Init /\ [][Next]_vars

----------------------------------------------------------------------------
(* Properties.                                                             *)

(* latest() never throws: whatever workers did and wherever they died, the *)
(* published history re-derives record by record.                          *)
HistoryIsValid == Valid(hist)

(* derive_install_lease_ownership: an unfinished lease is taken over only  *)
(* from a worker that has ended, never from one that merely gave up the    *)
(* guard after an exception and may still hold handles.                    *)
SupersededHolderIsDead ==
    \A k \in 1 .. Len(hist) - 1 :
        hist[k].status = "active" /\ hist[k + 1].status = "active"
            => hist[k].holder \notin alive

(* An operation starts only when the one before it completed: no operation *)
(* runs over what another left half done.                                  *)
OneUnfinishedOperation ==
    \A k \in 1 .. Len(hist) - 1 :
        hist[k].op # hist[k + 1].op => hist[k].status = "completed"

(* An installation has one owner: a worker that takes the lease follows a  *)
(* dead worker of the same operation or a completed operation.             *)
OneOwner == SupersededHolderIsDead /\ OneUnfinishedOperation

(* The history accounts for every change of the installation: what a       *)
(* terminal record says is the revision the next worker starts from, or    *)
(* the present one.  No effect falls between two leases.                   *)
LedgerMatchesState ==
    \A k \in 1 .. Len(hist) :
        hist[k].status # "active" =>
            hist[k].res = IF k = Len(hist) THEN rev ELSE hist[k + 1].exp

(* A completed maintenance operation stays so: recovery reads its          *)
(* completion from the history, whatever other operations followed, and    *)
(* never appends a generation after it.                                    *)
CompletionIsFinal ==
    \A o \in Maint :
        (\E k \in 1 .. Len(hist) : hist[k].op = o /\ hist[k].status = "completed")
            => /\ custody[o] # 0
               /\ select_completed_install_lease_history(custody[o]) = "completed"

(* The journal can be read back by latest() and says what happened: each   *)
(* revision, and each completion for good.                                 *)
HistoryIsTruthful == TypeOK /\ HistoryIsValid /\ LedgerMatchesState /\ CompletionIsFinal

(* A recovering worker that was given the lease also passes                *)
(* recovery_lineage, unless a worker that handed over is still running: no *)
(* generation is spent on a recovery that must refuse.                     *)
RecoveryHasLineage(p) ==
    req[p].op \in Maint /\ req[p].recovery =>
        \/ Lineage(p, custody[req[p].op])
        \/ \E k \in 1 .. Len(hist) :
              hist[k].status = "handoff" /\ hist[k].holder \in alive

(* append() keeps a slot: a worker that holds the lease is still fenced in *)
(* as its owner, finds the journal budget for its terminal record and, if  *)
(* it recovers, the lineage it needs.                                      *)
HolderCanFinish ==
    \A p \in Proc :
        /\ pc[p] \in {"held", "working"} => Fenced(p) /\ Room("completed")
        /\ pc[p] = "held" => RecoveryHasLineage(p)
=============================================================================
