--------------------------- MODULE RecordReadback ---------------------------
(***************************************************************************)
(* The read-only protocol between the effect worker (the child) and the    *)
(* broker, the part of the service that observes for it                    *)
(* (platform/windows/usk_publisher_effect_broker_internal.cpp), with the   *)
(* readers of setup/lifecycle/usk_native_maintenance_context_internal.cpp  *)
(* that drive it.  The child may use record bytes only if the broker       *)
(* reopened every object they hang from, by file id, once before and once  *)
(* after the bytes were read and found each as listed in the child's       *)
(* ledger.  The broker makes those queries on a fixed pool of threads that *)
(* borrow a chunk of work from the broker's own stack.                     *)
(*                                                                         *)
(* An object is intact while its descriptor and content are the ledger's;  *)
(* the world holds while service, caller, selection, peer and tokens are   *)
(* those of the baseline.  Both may change and change back at any moment.  *)
(***************************************************************************)
EXTENDS Naturals, Sequences, FiniteSets, FiniteSetsExt, Functions

CONSTANTS
    Ids,         \* file ids of the native objects
    Volume,      \* the file id of the volume root
    Parent,      \* the held parent of an entry, or None
    Records,     \* restoration_record_observers: the original records, in order
    Entries,     \* the entries of the file a query is about
    None,
    BatchLimit,  \* publisher_object_access_batch_limit: occurrences in a chunk
    WorkerCount, \* publisher_record_query_worker_count
    MaxScopes,   \* bound on the record scopes and object queries of the child
    MaxChanges,  \* bound on changes of the environment
    MaxFaults    \* bound on missed deadlines and failed native calls

ASSUME ReadbackAssumption ==
    /\ Volume \in Ids /\ None \notin Ids /\ Parent \in [Ids -> Ids \cup {None}]
    /\ Records \in Seq(Ids) /\ Records # <<>> /\ Entries \in Seq(Ids)
    /\ BatchLimit \in Nat \ {0} /\ WorkerCount \in Nat \ {0}
    /\ MaxScopes \in Nat /\ MaxChanges \in Nat /\ MaxFaults \in Nat

VARIABLES
    intact,   \* objects that are as the ledger lists them
    world,    \* whether the original bindings and selection hold
    recovery, \* whether the request is a recovery, selected by its intent file
    broker,   \* the broker's own thread
    work,     \* the published chunk, on the broker's stack, or NoWork
    thread,   \* the pool
    wake,     \* threads whose wake event is signalled
    done,     \* threads whose completion event is signalled
    pool,     \* counters and the progress of stop_record_queries
    claim,    \* active_query: the one owner of native queries in the process
    leaked,   \* a query handle whose closure is unknown exists
    child,    \* the effect worker's reader
    up,       \* packets from the child
    down,     \* packets from the broker
    late,     \* sides whose deadline for this exchange has passed
    queried,  \* history: occurrences found intact, by the state of the read
    bytes,    \* history: "unread", "reading", "read"
    changes, faults, scopes

vars == <<intact, world, recovery, broker, work, thread, wake, done, pool, claim, leaked,
          child, up, down, late, queried, bytes, changes, faults, scopes>>
envVars == <<intact, world, recovery, changes>>
poolVars == <<thread, wake, done, pool, work>>
wires == <<up, down>>
history == <<queried, bytes>>

Workers == 1 .. WorkerCount
Kinds == {"record", "authority", "recipe"}

(* An entry and the parents it is held through, leaf first. *)
Ancestry[e \in Ids] == IF Parent[e] = None THEN <<e>> ELSE <<e>> \o Ancestry[Parent[e]]

(* The collect of the readers: leaf to root, then root to leaf again. *)
Collect(entries) ==
    LET held(i) == LET path == Ancestry[entries[i]]
                   IN  path \o [n \in DOMAIN path |-> path[Len(path) + 1 - n]]
    IN  MapThenFoldSet(LAMBDA h, ledger : ledger \o h, <<>>, held, Max, DOMAIN entries)

(* The ledger of each reader: original records only; all of them with the  *)
(* volume and the queried file; the queried file without the records, whose *)
(* bytes the enclosing recipe proves.                                      *)
RecordByteRead_ledger == Collect(Records)
AuthorityRecordRead_ledger == <<Volume>> \o Collect(Records \o Entries)
RecipeQueryRead_ledger == <<Volume>> \o Collect(Entries)

LedgerOf == [record |-> RecordByteRead_ledger, authority |-> AuthorityRecordRead_ledger,
             recipe |-> RecipeQueryRead_ledger]
Longest == Len(LedgerOf["authority"])

(* The parents an entry is held through end at a root: a ledger is finite. *)
ASSUME LedgerAssumption == \A kind \in Kinds : LedgerOf[kind] \in Seq(Ids)

Ledger == LedgerOf[child.kind]
Occurrences == DOMAIN Ledger
Chunks(kind) == (Len(LedgerOf[kind]) + BatchLimit - 1) \div BatchLimit
ChunkCount == Chunks(child.kind)

(* record_chunk_size: the occurrences of chunk c, the last chunk shorter. *)
ChunkIn(kind, c) == {i \in DOMAIN LedgerOf[kind] : (i - 1) \div BatchLimit = c - 1}
ChunkOf(c) == ChunkIn(child.kind, c)

NoWork == [chunk |-> 0, cancelled |-> FALSE, unknown |-> FALSE, results |-> {}, errors |-> {}]

Phase == {"initial", "first_open", "first_closed", "read_done", "second_open", "complete"}
BrokerPc == {"new", "starting", "baseline", "idle", "receive", "access", "closed",
             "reply", "await_ready", "publish", "drain", "close_round", "await_read",
             "after", "collect_after", "terminal_after", "stop", "failed", "terminal",
             "refused", "gone"}
ChildPc == {"idle", "await_selection", "round", "await_round", "read", "await_all",
            "await_final", "select_after", "finalize", "returned", "await_closed", "await_reply",
            "failed", "sent"}
ThreadPc == {"none", "born", "parked", "run", "open", "ended"}
Owner == {"none", "round", "query", "intent", "pool"}
Packet == {"begin", "selection_ready", "round_ready", "round_closed", "read_finished",
           "all_closed", "final", "query", "closed", "reply", "terminal", "diagnostic"}

(* Every variable keeps its type: the two ends, the pool with its events,  *)
(* the published chunk and the packets on the two wires.                   *)
TypeOK ==
    /\ intact \subseteq Ids /\ world \in BOOLEAN /\ recovery \in BOOLEAN
    /\ broker \in [pc : BrokerPc, next : BrokerPc, round : 0 .. 1, chunk : 0 .. Longest,
           seq : Phase, observed : 0 .. Longest]
    /\ work \in [chunk : 0 .. Longest, cancelled : BOOLEAN, unknown : BOOLEAN,
           results : SUBSET (1 .. Longest), errors : SUBSET (1 .. Longest)]
    /\ thread \in [Workers -> [pc : ThreadPc, pos : 0 .. BatchLimit + 1]]
    /\ wake \subseteq Workers /\ done \subseteq Workers
    /\ pool \in [ready : 0 .. WorkerCount, completed : 0 .. WorkerCount, stopping : BOOLEAN,
           joined : SUBSET Workers, abandoned : SUBSET Workers,
           events : {"none", "open", "closed"}, closed : {"no", "yes", "unknown"}]
    /\ claim \in Owner /\ leaked \in BOOLEAN
    /\ child \in [pc : ChildPc, kind : Kinds, selecting : BOOLEAN, rounds : 0 .. 2,
           chunk : 0 .. Longest, selected : 0 .. 2, checked : BOOLEAN, reads : SUBSET Ids]
    /\ up \in Seq(Packet) /\ down \in Seq(Packet)
    /\ late \subseteq {"broker", "child"}
    /\ queried \subseteq (1 .. Longest) \X {"unread", "reading", "read"}
    /\ bytes \in {"unread", "reading", "read"}
    /\ changes \in 0 .. MaxChanges /\ faults \in 0 .. MaxFaults /\ scopes \in 0 .. MaxScopes

Init ==
    /\ intact = Ids /\ world = TRUE /\ recovery \in BOOLEAN
    /\ broker = [pc |-> "new", next |-> "new", round |-> 0, chunk |-> 0,
                 seq |-> "initial", observed |-> 0]
    /\ work = NoWork
    /\ thread = [w \in Workers |-> [pc |-> "none", pos |-> 0]]
    /\ wake = {} /\ done = {}
    /\ pool = [ready |-> 0, completed |-> 0, stopping |-> FALSE, joined |-> {},
               abandoned |-> {}, events |-> "none", closed |-> "no"]
    /\ claim = "none" /\ leaked = FALSE
    /\ child = [pc |-> "idle", kind |-> "record", selecting |-> FALSE, rounds |-> 0,
                chunk |-> 0, selected |-> 0, checked |-> FALSE, reads |-> {}]
    /\ up = <<>> /\ down = <<>> /\ late = {}
    /\ queried = {} /\ bytes = "unread"
    /\ changes = 0 /\ faults = 0 /\ scopes = 0

Fault == faults < MaxFaults /\ faults' = faults + 1
-----------------------------------------------------------------------------
(* The environment.                                                        *)

(* Another process changes an object, or puts it back as it was. *)
ChangeObject(i) ==
    /\ changes < MaxChanges /\ changes' = changes + 1
    /\ intact' = IF i \in intact THEN intact \ {i} ELSE intact \cup {i}
    /\ UNCHANGED <<world, recovery, broker, work, thread, wake, done, pool, claim, leaked,
                   child, up, down, late, queried, bytes, faults, scopes>>

ChangeWorld ==
    /\ changes < MaxChanges /\ changes' = changes + 1
    /\ world' = ~world
    /\ UNCHANGED <<intact, recovery, broker, work, thread, wake, done, pool, claim, leaked,
                   child, up, down, late, queried, bytes, faults, scopes>>

(* readback_remaining: from now on every use of this side's budget throws. *)
readback_remaining(side) ==
    /\ side \notin late /\ late' = late \cup {side} /\ Fault
    /\ \/ side = "broker" /\ broker.pc \in {"starting", "access", "closed", "reply", "await_ready",
              "publish", "drain", "close_round", "await_read", "after", "collect_after"}
       \/ side = "child" /\ child.pc \notin {"idle", "failed", "sent", "returned"}
    /\ UNCHANGED <<envVars, broker, poolVars, claim, leaked, child, wires, history, scopes>>
-----------------------------------------------------------------------------
(* The pool: threads, events and the borrowed chunk.                       *)

(* publisher_record_query_plan: occurrences of one file id form a group,   *)
(* larger groups first, each to the thread with the fewest occurrences.    *)
Groups(kind, c) ==
    {{i \in ChunkIn(kind, c) : LedgerOf[kind][i] = LedgerOf[kind][j]} : j \in ChunkIn(kind, c)}

Precedes(g, h) ==
    \/ Cardinality(g) > Cardinality(h)
    \/ Cardinality(g) = Cardinality(h) /\ Min(g) < Min(h)

LastGroup(groups) == CHOOSE h \in groups : \A g \in groups \ {h} : Precedes(g, h)

Ascending(g) == MapThenFoldSet(LAMBDA i, s : Append(s, i), <<>>, LAMBDA i : i, Max, g)

LeastLoaded(plan) ==
    Min({w \in Workers : \A v \in Workers : Len(plan[w]) <= Len(plan[v])})

PublisherRecordQueryPlan(kind, c) ==
    MapThenFoldSet(LAMBDA g, plan : [plan EXCEPT ![LeastLoaded(plan)] = @ \o Ascending(g)],
                   [w \in Workers |-> <<>>], LAMBDA g : g, LastGroup, Groups(kind, c))

(* Wakes every thread of the pool; an event stays signalled until consumed. *)
SetEvents == wake' = {w \in Workers : thread[w].pc # "none"}

(* The state is marked failed and the exception leaves respond_to_one_packet; *)
(* an uncompleted round keeps the claim.                                      *)
FailPacket == broker' = [broker EXCEPT !.pc = "failed"]

start_record_queries ==
    /\ broker.pc = "new"
    /\ thread' = [w \in Workers |-> [pc |-> "born", pos |-> 0]]
    /\ pool' = [pool EXCEPT !.events = "open"]
    /\ broker' = [broker EXCEPT !.pc = "starting"]
    /\ UNCHANGED <<envVars, work, wake, done, claim, leaked, child, wires, late, history,
                   faults, scopes>>

(* Events exist but a thread could not be created: those before it run. *)
start_incomplete ==
    /\ broker.pc = "new" /\ Fault
    /\ \E k \in 0 .. WorkerCount - 1 :
           thread' = [w \in Workers |-> [pc |-> IF w <= k THEN "born" ELSE "none", pos |-> 0]]
    /\ pool' = [pool EXCEPT !.events = "open"]
    /\ broker' = [broker EXCEPT !.pc = "stop", !.next = "refused"]
    /\ UNCHANGED <<envVars, work, wake, done, claim, leaked, child, wires, late, history, scopes>>

(* record_query_thread_entry up to its first park. *)
thread_entry(w) ==
    /\ thread[w].pc = "born"
    /\ thread' = [thread EXCEPT ![w].pc = "parked"]
    /\ pool' = [pool EXCEPT !.ready = @ + 1]
    /\ done' = done \cup {w}
    /\ UNCHANGED <<envVars, broker, work, wake, claim, leaked, child, wires, late, history,
                   faults, scopes>>

await_ready_threads ==
    /\ broker.pc = "starting"
    /\ \/ /\ "broker" \notin late /\ done = Workers /\ pool.ready = WorkerCount
          /\ done' = {} /\ broker' = [broker EXCEPT !.pc = "baseline"]
       \/ /\ "broker" \in late /\ done' = done
          /\ broker' = [broker EXCEPT !.pc = "stop", !.next = "refused"]
    /\ UNCHANGED <<envVars, work, thread, wake, pool, claim, leaked, child, wires, late,
                   history, faults, scopes>>

(* record_query_thread_entry: the auto-reset wake is consumed; a stop ends *)
(* the thread, otherwise it borrows the published chunk.                   *)
thread_wake(w) ==
    /\ thread[w].pc = "parked" /\ w \in wake
    /\ wake' = wake \ {w}
    /\ thread' = [thread EXCEPT ![w] = IF pool.stopping THEN [pc |-> "ended", pos |-> 0]
                                       ELSE [pc |-> "run", pos |-> 1]]
    /\ UNCHANGED <<envVars, broker, work, done, pool, claim, leaked, child, wires, late,
                   history, faults, scopes>>

Plans == [kind \in Kinds |-> [c \in 1 .. Chunks(kind) |-> PublisherRecordQueryPlan(kind, c)]]
Assigned(w) == Plans[child.kind][work.chunk][w]
Current(w) == Assigned(w)[thread[w].pos]
HasNext(w) == thread[w].pos <= Len(Assigned(w))

(* A query that fails records its error, cancels the chunk and leaves. *)
QueryFails(w, unknown) ==
    /\ work' = [work EXCEPT !.errors = @ \cup {Current(w)}, !.cancelled = TRUE,
                            !.unknown = @ \/ unknown]
    /\ leaked' = (leaked \/ unknown)
    /\ thread' = [thread EXCEPT ![w] = [pc |-> "run", pos |-> Len(Assigned(w)) + 1]]
    /\ queried' = queried

(* PublisherBrokerObjectQuery::initialize: the reopen by file id, under the *)
(* claim of the round or under one of its own.                             *)
initialize(owner) == claim = owner

(* observe_authenticated_object_access: the caller's access through a      *)
(* fresh handle, joined with the object the ledger lists.                  *)
observe_authenticated_object_access(id) == id \in intact

(* run_record_queries: deadline, own thread identity, then the reopen by   *)
(* file id under the round's claim.                                        *)
open_query(w) ==
    /\ thread[w].pc = "run" /\ HasNext(w) /\ ~work.cancelled
    /\ \/ /\ "broker" \notin late /\ initialize("round")
          /\ thread' = [thread EXCEPT ![w].pc = "open"]
          /\ UNCHANGED <<work, leaked, queried, faults>>
       \/ "broker" \in late /\ QueryFails(w, FALSE) /\ faults' = faults
       \/ Fault /\ QueryFails(w, FALSE)
    /\ UNCHANGED <<envVars, broker, wake, done, pool, claim, child, wires, late, bytes, scopes>>

(* A close that failed after a good query is not looked at. *)
finish_query_unchecked(w) ==
    /\ thread[w].pc = "open"
    /\ \/ /\ Ledger[Current(w)] \in intact /\ "broker" \notin late
          /\ work' = [work EXCEPT !.results = @ \cup {Current(w)}]
          /\ queried' = queried \cup {<<Current(w), bytes>>}
          /\ thread' = [thread EXCEPT ![w] = [pc |-> "run", pos |-> @.pos + 1]]
          /\ leaked' \in {leaked, TRUE} /\ faults' = faults
       \/ /\ Ledger[Current(w)] \notin intact \/ "broker" \in late
          /\ QueryFails(w, FALSE) /\ faults' = faults
    /\ UNCHANGED <<envVars, broker, wake, done, pool, claim, child, wires, late, bytes, scopes>>

(* authenticated_access, the join with the ledger's object, the positive   *)
(* close and the result.  A failed close of a good query leaves the handle.*)
finish_query(w) ==
    /\ thread[w].pc = "open"
    /\ \/ /\ observe_authenticated_object_access(Ledger[Current(w)]) /\ "broker" \notin late
          /\ work' = [work EXCEPT !.results = @ \cup {Current(w)}]
          /\ queried' = queried \cup {<<Current(w), bytes>>}
          /\ thread' = [thread EXCEPT ![w] = [pc |-> "run", pos |-> @.pos + 1]]
          /\ UNCHANGED <<leaked, faults>>
       \/ /\ ~observe_authenticated_object_access(Ledger[Current(w)]) \/ "broker" \in late
          /\ QueryFails(w, FALSE) /\ faults' = faults
       \/ Fault /\ QueryFails(w, TRUE)
    /\ UNCHANGED <<envVars, broker, wake, done, pool, claim, child, wires, late, bytes, scopes>>

(* A thread that finds its chunk cancelled leaves without signalling. *)
finish_work_silent(w) ==
    /\ thread[w].pc = "run" /\ (~HasNext(w) \/ work.cancelled)
    /\ thread' = [thread EXCEPT ![w] = [pc |-> "parked", pos |-> 0]]
    /\ pool' = [pool EXCEPT !.completed = @ + 1]
    /\ done' = IF work.cancelled THEN done ELSE done \cup {w}
    /\ UNCHANGED <<envVars, broker, work, wake, claim, leaked, child, wires, late, history,
                   faults, scopes>>

(* The thread drops its borrow, counts itself and signals completion.  The *)
(* broker looks at borrow and count only when it has all signals, so the   *)
(* three are one step.                                                     *)
finish_work(w) ==
    /\ thread[w].pc = "run" /\ (~HasNext(w) \/ work.cancelled)
    /\ thread' = [thread EXCEPT ![w] = [pc |-> "parked", pos |-> 0]]
    /\ pool' = [pool EXCEPT !.completed = @ + 1]
    /\ done' = done \cup {w}
    /\ UNCHANGED <<envVars, broker, work, wake, claim, leaked, child, wires, late, history,
                   faults, scopes>>

(* PublisherRecordQueryRoundOwner and PublisherRecordByteRoundSequence::begin. *)
begin_record_queries ==
    /\ broker.pc = "await_ready" /\ up # <<>> /\ Head(up) = "round_ready"
    /\ up' = Tail(up)
    /\ LET ok == /\ "broker" \notin late /\ claim = "none" /\ ~pool.stopping
                 /\ broker.seq = IF broker.round = 0 THEN "initial" ELSE "read_done"
       IN \/ /\ ok /\ claim' = "round"
             /\ broker' = [broker EXCEPT !.pc = "publish", !.chunk = 1, !.observed = 0,
                    !.seq = IF broker.round = 0 THEN "first_open" ELSE "second_open"]
          \/ ~ok /\ claim' = claim /\ FailPacket
    /\ UNCHANGED <<envVars, poolVars, leaked, child, down, late, history, faults, scopes>>

(* record_query_chunk: the chunk is published and every thread woken. *)
record_query_chunk ==
    /\ broker.pc = "publish"
    /\ work' = [NoWork EXCEPT !.chunk = broker.chunk]
    /\ pool' = [pool EXCEPT !.completed = 0]
    /\ SetEvents
    /\ broker' = [broker EXCEPT !.pc = "drain"]
    /\ UNCHANGED <<envVars, thread, done, claim, leaked, child, wires, late, history, faults, scopes>>

(* A deadline that ends the wait instead of cancelling the chunk. *)
cancel_chunk_leaving ==
    /\ broker.pc = "drain" /\ "broker" \in late /\ ~work.cancelled
    /\ work' = NoWork /\ FailPacket
    /\ UNCHANGED <<envVars, thread, wake, done, pool, claim, leaked, child, wires,
                   late, history, faults, scopes>>

(* The deadline only cancels: the wait goes on until all threads are done. *)
cancel_chunk ==
    /\ broker.pc = "drain" /\ "broker" \in late /\ ~work.cancelled
    /\ work' = [work EXCEPT !.cancelled = TRUE]
    /\ UNCHANGED <<envVars, broker, thread, wake, done, pool, claim, leaked, child, wires,
                   late, history, faults, scopes>>

(* require_publisher_record_result_access: every occurrence of the chunk   *)
(* has its read-only result.                                               *)
require_record_result_access == work.results = ChunkOf(work.chunk)

(* The round is reported closed as soon as its first chunk is. *)
drain_early ==
    /\ broker.pc = "drain" /\ done = Workers
    /\ done' = {} /\ work' = NoWork
    /\ LET ok == work.errors = {} /\ ~work.cancelled /\ "broker" \notin late
       IN \/ ok /\ broker' = [broker EXCEPT !.observed = Len(Ledger), !.pc = "close_round"]
          \/ ~ok /\ FailPacket
    /\ UNCHANGED <<envVars, thread, wake, pool, claim, leaked, child, wires, late, history,
                   faults, scopes>>

(* All completion events are consumed together, the borrow ends, and only *)
(* then is the outcome of the chunk looked at.                             *)
drain ==
    /\ broker.pc = "drain" /\ done = Workers
    /\ done' = {} /\ work' = NoWork
    /\ LET ok == /\ ~work.unknown /\ work.errors = {} /\ ~work.cancelled
                 /\ "broker" \notin late /\ require_record_result_access
       IN \/ /\ ok
             /\ broker' = [broker EXCEPT !.observed = @ + Cardinality(work.results),
                    !.pc = IF broker.chunk = ChunkCount THEN "close_round" ELSE "publish",
                    !.chunk = IF broker.chunk = ChunkCount THEN @ ELSE @ + 1]
          \/ ~ok /\ FailPacket
    /\ UNCHANGED <<envVars, thread, wake, pool, claim, leaked, child, wires, late, history,
                   faults, scopes>>

(* PublisherRecordByteRoundSequence::close, the owner's complete() and the *)
(* marker to the child.                                                    *)
close_round ==
    /\ broker.pc = "close_round"
    /\ LET ok == "broker" \notin late /\ broker.observed = Len(Ledger)
       IN \/ /\ ok /\ claim' = "none" /\ down' = Append(down, "round_closed")
             /\ broker' = [broker EXCEPT !.seq = IF broker.round = 0 THEN "first_closed" ELSE "complete",
                    !.pc = IF broker.round = 0 THEN "await_read" ELSE "after"]
          \/ ~ok /\ UNCHANGED <<claim, down>> /\ FailPacket
    /\ UNCHANGED <<envVars, poolVars, leaked, child, up, late, history, faults, scopes>>
-----------------------------------------------------------------------------
(* Stopping the pool.                                                      *)

(* stop_record_queries: once only; wakes the threads to end. *)
stop_record_queries ==
    /\ broker.pc = "stop" /\ ~pool.stopping
    /\ pool' = [pool EXCEPT !.stopping = TRUE]
    /\ SetEvents
    /\ UNCHANGED <<envVars, broker, work, thread, done, claim, leaked, child, wires, late,
                   history, faults, scopes>>

Unjoined == {w \in Workers : thread[w].pc # "none"} \ (pool.joined \cup pool.abandoned)

(* One join per thread, in order, in what is left of the shared budget. *)
join_thread(w) ==
    /\ broker.pc = "stop" /\ pool.stopping /\ Unjoined # {} /\ w = Min(Unjoined)
    /\ \/ /\ thread[w].pc = "ended" /\ faults' = faults
          /\ pool' = [pool EXCEPT !.joined = @ \cup {w}]
       \/ Fault /\ pool' = [pool EXCEPT !.abandoned = @ \cup {w}]
    /\ UNCHANGED <<envVars, broker, work, thread, wake, done, claim, leaked, child, wires, late,
                   history, scopes>>

(* The events are closed only when every thread is known to have ended; a  *)
(* stop that is not confirmed takes the process-wide claim for good.       *)
finish_stop ==
    /\ broker.pc = "stop" /\ pool.stopping /\ Unjoined = {}
    /\ LET ended == pool.abandoned = {}
       IN \E ok \in {ended, FALSE} :
              /\ IF ok = ended THEN faults' = faults ELSE Fault
              /\ pool' = [pool EXCEPT !.events = IF ended THEN "closed" ELSE @,
                                      !.closed = IF ok THEN "yes" ELSE "unknown"]
              /\ claim' = IF ~ok /\ claim = "none" THEN "pool" ELSE claim
              /\ broker' = [broker EXCEPT !.pc = IF broker.next = "terminal_after" /\ ~ok
                                                 THEN "failed" ELSE broker.next]
    /\ UNCHANGED <<envVars, work, thread, wake, done, leaked, child, wires, late, history, scopes>>

(* ~PublisherEffectBrokerReadback: a second stop observes the first result. *)
destroy ==
    /\ broker.pc \in {"failed", "terminal"}
    /\ broker' = IF pool.stopping THEN [broker EXCEPT !.pc = "gone"]
                 ELSE [broker EXCEPT !.pc = "stop", !.next = "gone"]
    /\ UNCHANGED <<envVars, poolVars, claim, leaked, child, wires, late, history, faults, scopes>>
-----------------------------------------------------------------------------
(* The broker's packets.                                                   *)

(* require_publisher_effect_broker_readback_continuity: the immutable facts *)
(* of an endpoint are those of the first one.                              *)
continuity == world

(* collect and complete: the endpoint agrees with the baseline. *)
collect == continuity

(* PublisherOriginalRecoveryIntentQuery: the claim, four handles down to   *)
(* the protected intent, and its bytes.                                    *)
OriginalRecoveryIntentQuery == claim = "none" /\ world

recovery_current == recovery => OriginalRecoveryIntentQuery

SelectionHolds == collect /\ recovery_current

(* The constructor: two endpoints agree and the selection is read. *)
baseline ==
    /\ broker.pc = "baseline"
    /\ broker' = IF SelectionHolds THEN [broker EXCEPT !.pc = "idle"]
                 ELSE [broker EXCEPT !.pc = "stop", !.next = "refused"]
    /\ UNCHANGED <<envVars, poolVars, claim, leaked, child, wires, late, history, faults, scopes>>

(* PublisherOriginalRecoveryIntentQuery::close fails: the claim stays. *)
intent_unknown ==
    /\ recovery /\ claim = "none" /\ Fault
    /\ broker.pc \in {"baseline", "reply", "collect_after", "terminal_after"}
    /\ claim' = "intent" /\ leaked' = TRUE
    /\ broker' = IF broker.pc = "baseline" THEN [broker EXCEPT !.pc = "stop", !.next = "refused"]
                 ELSE [broker EXCEPT !.pc = "failed"]
    /\ UNCHANGED <<envVars, poolVars, child, wires, late, history, scopes>>

(* respond_to_one_packet begins with a fresh endpoint. *)
respond_to_one_packet ==
    /\ broker.pc = "idle"
    /\ late' = late \ {"broker"}
    /\ broker' = [broker EXCEPT !.pc = IF collect THEN "receive" ELSE "failed",
                                !.round = 0, !.chunk = 0, !.seq = "initial", !.observed = 0]
    /\ UNCHANGED <<envVars, poolVars, claim, leaked, child, wires, history, faults, scopes>>

receive(packet) == broker.pc = "receive" /\ up # <<>> /\ Head(up) = packet /\ up' = Tail(up)

(* No packet within the deadline, or the peer is gone. *)
receive_nothing ==
    /\ broker.pc \in {"receive", "await_ready", "await_read"}
    /\ up = <<>> /\ (child.pc \in {"failed", "sent"} \/ "broker" \in late)
    /\ FailPacket
    /\ UNCHANGED <<envVars, poolVars, claim, leaked, child, wires, late, history, faults, scopes>>

(* require_publisher_effect_failure_diagnostic: a cause, never a result. *)
receive_diagnostic ==
    /\ receive("diagnostic") /\ FailPacket
    /\ UNCHANGED <<envVars, poolVars, claim, leaked, child, down, late, history, faults, scopes>>

(* The terminal is accepted without waiting for the pool. *)
receive_terminal_unstopped ==
    /\ receive("terminal")
    /\ broker' = [broker EXCEPT !.pc = "terminal_after"]
    /\ UNCHANGED <<envVars, poolVars, claim, leaked, child, down, late, history, faults, scopes>>

receive_terminal ==
    /\ receive("terminal")
    /\ broker' = [broker EXCEPT !.pc = "stop", !.next = "terminal_after"]
    /\ UNCHANGED <<envVars, poolVars, claim, leaked, child, down, late, history, faults, scopes>>

(* The terminal is checked against an endpoint taken after the pool ended. *)
accept_terminal ==
    /\ broker.pc = "terminal_after"
    /\ broker' = [broker EXCEPT !.pc = IF SelectionHolds THEN "terminal" ELSE "failed"]
    /\ UNCHANGED <<envVars, poolVars, claim, leaked, child, wires, late, history, faults, scopes>>

(* A record scope opens; an authority scope first reports the selection. *)
receive_begin ==
    /\ receive("begin")
    /\ LET ok == child.selecting => SelectionHolds
       IN /\ broker' = [broker EXCEPT !.pc = IF ok THEN "await_ready" ELSE "failed"]
          /\ down' = IF ok /\ child.selecting THEN Append(down, "selection_ready") ELSE down
    /\ UNCHANGED <<envVars, poolVars, claim, leaked, child, late, history, faults, scopes>>

receive_read_finished ==
    /\ broker.pc = "await_read" /\ up # <<>> /\ Head(up) = "read_finished" /\ up' = Tail(up)
    /\ broker' = IF "broker" \in late THEN [broker EXCEPT !.pc = "failed"]
                 ELSE [broker EXCEPT !.pc = "await_ready", !.seq = "read_done", !.round = 1]
    /\ UNCHANGED <<envVars, poolVars, claim, leaked, child, down, late, history, faults, scopes>>

(* require_complete, then the marker that lets the child sample its own    *)
(* endpoint while the broker takes the complete AFTER.                     *)
send_all_closed ==
    /\ broker.pc = "after"
    /\ \/ /\ broker.seq = "complete" /\ "broker" \notin late
          /\ down' = Append(down, "all_closed")
          /\ broker' = [broker EXCEPT !.pc = "collect_after"]
       \/ (broker.seq # "complete" \/ "broker" \in late) /\ down' = down /\ FailPacket
    /\ UNCHANGED <<envVars, poolVars, claim, leaked, child, up, late, history, faults, scopes>>

send_final ==
    /\ broker.pc = "collect_after"
    /\ \/ /\ SelectionHolds /\ "broker" \notin late
          /\ down' = Append(down, "final") /\ broker' = [broker EXCEPT !.pc = "idle"]
       \/ ~(SelectionHolds /\ "broker" \notin late) /\ down' = down /\ FailPacket
    /\ UNCHANGED <<envVars, poolVars, claim, leaked, child, up, late, history, faults, scopes>>

(* PublisherBrokerObjectQuery outside a round takes the claim itself. *)
object_access ==
    /\ receive("query")
    /\ IF initialize("none") /\ (child.selecting => SelectionHolds)
       THEN claim' = "query" /\ broker' = [broker EXCEPT !.pc = "access"]
       ELSE claim' = claim /\ FailPacket
    /\ UNCHANGED <<envVars, poolVars, leaked, child, down, late, history, faults, scopes>>

(* The object matched and its handle closed, or the failure keeps what it  *)
(* could not close.                                                        *)
close_object_access ==
    /\ broker.pc = "access"
    /\ \/ /\ observe_authenticated_object_access(Records[1]) /\ "broker" \notin late
          /\ claim' = "none" /\ broker' = [broker EXCEPT !.pc = "reply"]
          /\ down' = Append(down, "closed") /\ UNCHANGED <<leaked, faults>>
       \/ /\ ~observe_authenticated_object_access(Records[1]) \/ "broker" \in late
          /\ claim' = "none" /\ FailPacket /\ UNCHANGED <<leaked, faults, down>>
       \/ Fault /\ leaked' = TRUE /\ FailPacket /\ UNCHANGED <<claim, down>>
    /\ UNCHANGED <<envVars, poolVars, child, up, late, history, scopes>>

reply_object_access ==
    /\ broker.pc = "reply"
    /\ \/ /\ SelectionHolds /\ "broker" \notin late
          /\ down' = Append(down, "reply") /\ broker' = [broker EXCEPT !.pc = "idle"]
       \/ ~(SelectionHolds /\ "broker" \notin late) /\ down' = down /\ FailPacket
    /\ UNCHANGED <<envVars, poolVars, claim, leaked, child, up, late, history, faults, scopes>>
-----------------------------------------------------------------------------
(* The child.                                                              *)

FailScope == child' = [child EXCEPT !.pc = "failed"]
OnTime == "child" \notin late

(* prepare and maintenance_record_bytes_bracket up to "begin".  A recipe   *)
(* query of a restored repair leaves the selection to the recipe around it. *)
begin_scope(kind, selecting) ==
    /\ child.pc = "idle" /\ scopes < MaxScopes /\ scopes' = scopes + 1
    /\ kind = "record" => ~selecting
    /\ kind = "authority" => selecting
    /\ kind = "recipe" => selecting \/ recovery
    /\ child' = [child EXCEPT !.pc = IF selecting THEN "await_selection" ELSE "round",
             !.kind = kind, !.selecting = selecting, !.chunk = 1]
    /\ up' = Append(up, "begin")
    /\ late' = late \ {"child"}
    /\ UNCHANGED <<envVars, broker, poolVars, claim, leaked, down, history, faults>>

(* A batch of object accesses with the local AFTER inside it. *)
request_access(selecting) ==
    /\ child.pc = "idle" /\ scopes < MaxScopes /\ scopes' = scopes + 1
    /\ child' = [child EXCEPT !.pc = "await_closed", !.selecting = selecting]
    /\ up' = Append(up, "query") /\ late' = late \ {"child"}
    /\ UNCHANGED <<envVars, broker, poolVars, claim, leaked, down, history, faults>>

send_terminal ==
    /\ child.pc = "idle"
    /\ child' = [child EXCEPT !.pc = "sent"] /\ up' = Append(up, "terminal")
    /\ UNCHANGED <<envVars, broker, poolVars, claim, leaked, down, late, history, faults, scopes>>

send_diagnostic ==
    /\ child.pc = "failed"
    /\ child' = [child EXCEPT !.pc = "sent"] /\ up' = Append(up, "diagnostic")
    /\ UNCHANGED <<envVars, broker, poolVars, claim, leaked, down, late, history, faults, scopes>>

(* require_projection: service, worker token and caller in the endpoint the *)
(* child received are those it observes itself.                            *)
require_projection == world

(* require_original_selection: what is selected is the request's.          *)
require_original_selection == world

(* The next packet is the one the phase expects and the deadline holds. *)
Accept(pc, packet, ok, then) ==
    /\ child.pc = pc /\ down # <<>> /\ Head(down) = packet /\ down' = Tail(down)
    /\ IF OnTime /\ ok THEN child' = then ELSE FailScope
    /\ UNCHANGED <<envVars, broker, poolVars, claim, leaked, up, late, history, faults, scopes>>

(* require_authority_selection at the first endpoint. *)
await_selection ==
    Accept("await_selection", "selection_ready",
           require_original_selection /\ child.rounds = 0 /\ ~child.checked /\ child.selected = 0,
           [child EXCEPT !.pc = "round", !.selected = 1])

await_closed == Accept("await_closed", "closed", require_projection, [child EXCEPT !.pc = "await_reply"])
await_reply == Accept("await_reply", "reply", require_projection, [child EXCEPT !.pc = "idle"])
await_all_closed == Accept("await_all", "all_closed", require_projection, [child EXCEPT !.pc = "await_final"])
await_final == Accept("await_final", "final", require_projection,
    [child EXCEPT !.pc = IF child.selecting THEN "select_after" ELSE "finalize"])

(* The order each reader insists on before a round. *)
RecordByteRead_run_round == child.rounds < 2 /\ (child.rounds = 1) = child.checked
AuthorityRecordRead_run_round == RecordByteRead_run_round /\ child.selected = 1
RecipeQueryRead_run_round ==
    RecordByteRead_run_round /\ child.selected = IF child.selecting THEN 1 ELSE 0

run_round == CASE child.kind = "record" -> RecordByteRead_run_round
               [] child.kind = "authority" -> AuthorityRecordRead_run_round
               [] child.kind = "recipe" -> RecipeQueryRead_run_round

(* query_chunk: the first chunk announces the round; the child observes    *)
(* its own handles of the chunk.                                           *)
query_chunk ==
    /\ child.pc = "round"
    /\ LET allowed == OnTime /\ run_round
           ok == allowed /\ \A i \in ChunkOf(child.chunk) : Ledger[i] \in intact
       IN /\ up' = IF child.chunk = 1 /\ allowed THEN Append(up, "round_ready") ELSE up
          /\ IF ok THEN child' = [child EXCEPT
                    !.pc = IF child.chunk = ChunkCount THEN "await_round" ELSE "round",
                    !.chunk = IF child.chunk = ChunkCount THEN 1 ELSE @ + 1]
             ELSE FailScope
    /\ UNCHANGED <<envVars, broker, poolVars, claim, leaked, down, late, history, faults, scopes>>

(* The broker's queries of the round are closed: the same handles again,   *)
(* then either the read may start or the second round is complete.         *)
await_round_closed ==
    Accept("await_round", "round_closed", \A i \in Occurrences : Ledger[i] \in intact,
           [child EXCEPT !.pc = IF child.rounds = 0 THEN "read" ELSE "await_all", !.rounds = @ + 1])

(* read_original_bytes: one held file after the other against its digest.  *)
(* Directories have no bytes; only the leaves are read.                    *)
Leaves == CASE child.kind = "record" -> Range(Records)
            [] child.kind = "authority" -> Range(Records \o Entries)
            [] child.kind = "recipe" -> Range(Entries)

read_original_bytes(e) ==
    /\ child.pc = "read" /\ e \in Leaves \ child.reads
    /\ IF child.rounds = 1 /\ ~child.checked /\ e \in intact
       THEN child' = [child EXCEPT !.reads = @ \cup {e}] /\ bytes' = "reading"
       ELSE FailScope /\ bytes' = bytes
    /\ UNCHANGED <<envVars, broker, poolVars, claim, leaked, wires, late, queried, faults, scopes>>

finish_read ==
    /\ child.pc = "read" /\ child.reads = Leaves
    /\ IF OnTime
       THEN /\ child' = [child EXCEPT !.pc = "round", !.checked = TRUE]
            /\ up' = Append(up, "read_finished") /\ bytes' = "read"
       ELSE FailScope /\ UNCHANGED <<up, bytes>>
    /\ UNCHANGED <<envVars, broker, poolVars, claim, leaked, down, late, queried, faults, scopes>>

(* require_authority_selection at the second endpoint. *)
select_after ==
    /\ child.pc = "select_after"
    /\ IF require_original_selection /\ child.rounds = 2 /\ child.checked /\ child.selected = 1
       THEN child' = [child EXCEPT !.pc = "finalize", !.selected = 2] ELSE FailScope
    /\ UNCHANGED <<envVars, broker, poolVars, claim, leaked, wires, late, history, faults, scopes>>

(* What each reader's finalize requires to have happened. *)
RecordByteRead_finalize == child.rounds = 2 /\ child.checked
AuthorityRecordRead_finalize == RecordByteRead_finalize /\ child.selected = 2
RecipeQueryRead_finalize ==
    RecordByteRead_finalize /\ child.selected = IF child.selecting THEN 2 ELSE 0

(* finalize: every result joined with the ledger and a last look at the    *)
(* whole group through fresh handles.                                      *)
finalize ==
    /\ child.pc = "finalize"
    /\ IF /\ OnTime /\ \A i \in Occurrences : Ledger[i] \in intact
          /\ CASE child.kind = "record" -> RecordByteRead_finalize
               [] child.kind = "authority" -> AuthorityRecordRead_finalize
               [] child.kind = "recipe" -> RecipeQueryRead_finalize
       THEN child' = [child EXCEPT !.pc = "returned"] ELSE FailScope
    /\ UNCHANGED <<envVars, broker, poolVars, claim, leaked, wires, late, history, faults, scopes>>

(* verify_original_maintenance_record_bytes retains the endpoints and returns. *)
retain_bracket ==
    /\ child.pc = "returned"
    /\ child' = [child EXCEPT !.pc = "idle", !.reads = {}, !.rounds = 0, !.chunk = 0,
                              !.selected = 0, !.checked = FALSE, !.selecting = FALSE]
    /\ queried' = {} /\ bytes' = "unread"
    /\ UNCHANGED <<envVars, broker, poolVars, claim, leaked, wires, late, faults, scopes>>

(* The wire ended, or the wait did. *)
lose_broker ==
    /\ child.pc \in {"await_selection", "await_round", "await_all", "await_final", "await_closed",
                     "await_reply"}
    /\ down = <<>> /\ (~OnTime \/ broker.pc \in {"failed", "refused", "gone", "stop"})
    /\ FailScope
    /\ UNCHANGED <<envVars, broker, poolVars, claim, leaked, wires, late, history, faults, scopes>>
-----------------------------------------------------------------------------
PoolStep(w) ==
    thread_entry(w) \/ thread_wake(w) \/ open_query(w) \/ finish_query(w) \/ finish_work(w)

BrokerStep ==
    \/ start_record_queries \/ await_ready_threads \/ baseline \/ respond_to_one_packet
    \/ receive_nothing \/ receive_diagnostic \/ receive_terminal \/ accept_terminal
    \/ receive_begin \/ begin_record_queries \/ record_query_chunk \/ cancel_chunk \/ drain
    \/ close_round \/ receive_read_finished \/ send_all_closed \/ send_final
    \/ object_access \/ close_object_access \/ reply_object_access
    \/ stop_record_queries \/ (\E w \in Workers : join_thread(w)) \/ finish_stop \/ destroy

ChildStep ==
    \/ \E selecting \in BOOLEAN :
           request_access(selecting) \/ \E kind \in Kinds : begin_scope(kind, selecting)
    \/ send_terminal \/ send_diagnostic \/ await_selection \/ await_closed \/ await_reply
    \/ await_all_closed \/ await_final \/ query_chunk \/ await_round_closed
    \/ (\E e \in Ids : read_original_bytes(e)) \/ finish_read \/ select_after \/ finalize
    \/ retain_bracket \/ lose_broker

Next ==
    \/ (\E i \in Ids : ChangeObject(i)) \/ ChangeWorld
    \/ \E side \in {"broker", "child"} : readback_remaining(side)
    \/ \E w \in Workers : PoolStep(w)
    \/ start_incomplete \/ intent_unknown \/ BrokerStep \/ ChildStep

Spec == Init /\ [][Next]_vars

(* Threads that can run do run, and the native call a thread is in returns: *)
(* the code waits for it without a bound.  The child may stop at any time.  *)
FairSpec == Spec /\ WF_vars(BrokerStep) /\ \A w \in Workers : WF_vars(PoolStep(w))
-----------------------------------------------------------------------------
(* A thread of the pool is inside a chunk, or has been woken to enter one, *)
(* only while that chunk is still on the broker's stack: record_query_     *)
(* chunk never returns beneath a borrower, whatever deadline passed.       *)
BorrowedWorkIsHeld ==
    \A w \in Workers :
        \/ thread[w].pc \in {"run", "open"}
        \/ thread[w].pc = "parked" /\ w \in wake /\ ~pool.stopping
        => work.chunk # 0 /\ broker.pc = "drain"

(* A terminal is accepted only from a quiet broker: every thread of the    *)
(* pool has ended, the events are closed, no query handle is in doubt and  *)
(* nobody holds the claim.                                                 *)
TerminalMeansQuiet ==
    broker.pc = "terminal" =>
        /\ \A w \in Workers : thread[w].pc = "ended"
        /\ pool.events = "closed" /\ claim = "none" /\ ~leaked

(* An event is never closed beneath a thread that may still wait on it or  *)
(* signal it, also when a join of stop_record_queries timed out.           *)
EventsOutliveThreads ==
    pool.events = "closed" => \A w \in Workers : thread[w].pc \in {"none", "ended"}

(* What threads of the pool use outlives them: the chunk they borrow and   *)
(* the events they wait on, through late drains and failed joins.          *)
BorrowedOutlivesThreads == BorrowedWorkIsHeld /\ EventsOutliveThreads

(* Record bytes reach the engine only between two complete rounds: each    *)
(* occurrence of the ledger was reopened and found intact before the first *)
(* byte was read, and again after the last one.                            *)
BracketedRead ==
    child.pc = "returned" =>
        \A i \in Occurrences : <<i, "unread">> \in queried /\ <<i, "read">> \in queried

(* Two threads never have a query of the same file id open: occurrences of *)
(* one object are queried one after the other, in ledger order.            *)
SerializedIds ==
    \A v, w \in Workers :
        v # w /\ thread[v].pc = "open" /\ thread[w].pc = "open"
            => Ledger[Current(v)] # Ledger[Current(w)]

(* While a native query handle is open, or one could not be closed, the    *)
(* process-wide claim is taken: no other query of this process can start   *)
(* as if the previous ones had ended.                                      *)
ClaimCoversHandles ==
    leaked \/ (\E w \in Workers : thread[w].pc = "open") => claim # "none"

(* Native queries exclude each other where they must: by the claim between *)
(* scopes (active_query) and by file id between threads of one chunk.      *)
QueriesAreExclusive == TypeOK /\ ClaimCoversHandles /\ SerializedIds

(* A published chunk is drained: with or without a deadline, all threads   *)
(* give the borrow back and the broker goes on.                            *)
ChunkDrains == work.chunk # 0 ~> work.chunk = 0
=============================================================================
