-------------------------- MODULE PublisherService --------------------------
(***************************************************************************)
(* How a change requested by an ordinary client reaches the disk and how   *)
(* its outcome comes back: the client context (command/usk_publisher_      *)
(* client_context), the one-request pipe, the restricted service started   *)
(* on demand (apps/daemon/usk_publisher_lab_service.cpp in the registered  *)
(* reviewed mode), the private effect worker it keeps in a kill-on-close   *)
(* job, and the engine that worker runs.                                   *)
(*                                                                         *)
(* An attempt is one call of PublisherClientContext::execute; a retry is   *)
(* another attempt on the same operation.  Every wait of the code has a    *)
(* deadline, so each wait may end early at any time; a stop control, a     *)
(* cancelled call and a refused observation look the same from outside.    *)
(* What the engine does to the disk is abstracted to the stage the         *)
(* operation has durably reached.                                          *)
(***************************************************************************)
EXTENDS Naturals, FiniteSets

CONSTANTS
    Attempts,   \* calls of execute
    Ops,        \* operations the attempts may name
    Kinds,      \* subset of {"plan", "apply", "recover", "verify"}
    MaxPid,     \* bound on the service processes ever started
    MaxFaults,  \* bound on crashes and engine failures
    None

ASSUME ServiceAssumption ==
    /\ MaxPid \in Nat /\ MaxFaults \in Nat
    /\ Kinds \subseteq {"plan", "apply", "recover", "verify"}
    /\ None \notin Attempts

VARIABLES
    client,   \* each attempt
    scm,      \* the service control manager's view of the one service
    svc,      \* service processes by process id
    control,  \* process holding the zero-sharing control lock file, or 0
    pipe,     \* the single-instance request pipe
    worker,   \* the private child of each service process
    wire,     \* the packet in flight between a service and its child
    guard,    \* process whose worker holds the volume guard, or 0
    disk,     \* stage each operation has durably reached
    wrote,    \* attempts whose worker changed the disk
    lost,     \* service processes that could not confirm their child's end
    faults

vars == <<client, scm, svc, control, pipe, worker, wire, guard, disk, wrote,
          lost, faults>>

Pids == 1 .. MaxPid
Stage == <<"none", "intent", "published", "completed">>
Later == [none |-> "intent", intent |-> "published", published |-> "completed"]

ClientPc == {"idle", "admission", "await", "connect", "write", "read", "dispose",
             "done", "crashed"}
Outcome == {"none", "completed", "refused", "recovery_required", "unknown", "invalid"}
Reply == {"none", "pass", "failed", "recovery_required"}
ServicePc == {"off", "starting", "admit", "open", "listen", "dispatch", "select", "plan",
              "launch", "baseline", "broker", "close", "abort", "respond",
              "failing", "stopping", "release", "unpipe", "exit", "gone"}
WorkerPc == {"none", "attach", "admit", "engine", "held", "end", "sent", "dead"}

Alive(p) == worker[p].pc \notin {"none", "dead"}
Running(p) == svc[p].pc \notin {"off", "gone"}
Request(p) == client[svc[p].req]

ClientRecord == [pc : ClientPc, kind : Kinds \cup {None}, op : Ops \cup {None},
    pid : 0 .. MaxPid, mail : Reply, from : 0 .. MaxPid, outcome : Outcome]
ServiceRecord == [pc : ServicePc, req : Attempts \cup {None}, effects : BOOLEAN,
    stale : BOOLEAN, status : Reply]
WorkerRecord == [pc : WorkerPc, effects : BOOLEAN,
    result : {"none", "success", "failure", "definite"}]

(* Every variable keeps its type: the attempts, the service processes and  *)
(* their children, the packets between them and the stages on disk.        *)
TypeOK ==
    /\ client \in [Attempts -> ClientRecord]
    /\ scm \in [state : {"stopped", "start_pending", "running"}, pid : 0 .. MaxPid]
    /\ svc \in [Pids -> ServiceRecord]
    /\ control \in 0 .. MaxPid /\ guard \in 0 .. MaxPid
    /\ pipe \in [owner : 0 .. MaxPid, peer : Attempts \cup {None}, sent : BOOLEAN]
    /\ worker \in [Pids -> WorkerRecord]
    /\ wire \in [Pids -> {"idle", "answer", "terminal", "diagnostic"}]
    /\ disk \in [Ops -> {Stage[i] : i \in 1 .. 4}]
    /\ wrote \subseteq Attempts /\ lost \subseteq Pids /\ faults \in 0 .. MaxFaults

Closed == [owner |-> 0, peer |-> None, sent |-> FALSE]

Init ==
    /\ client = [a \in Attempts |-> [pc |-> "idle", kind |-> None, op |-> None,
                     pid |-> 0, mail |-> "none", from |-> 0, outcome |-> "none"]]
    /\ scm = [state |-> "stopped", pid |-> 0]
    /\ svc = [p \in Pids |-> [pc |-> "off", req |-> None, effects |-> FALSE,
                  stale |-> FALSE, status |-> "none"]]
    /\ control = 0 /\ guard = 0
    /\ pipe = Closed
    /\ worker = [p \in Pids |-> [pc |-> "none", effects |-> FALSE, result |-> "none"]]
    /\ wire = [p \in Pids |-> "idle"]
    /\ disk = [o \in Ops |-> "none"]
    /\ wrote = {} /\ lost = {} /\ faults = 0

serviceVars == <<svc, control, worker, wire, guard, disk, wrote, lost>>

----------------------------------------------------------------------------
(* The client.                                                             *)

(* Attempt a leaves execute with this outcome.                             *)
Return(a, o) ==
    client' = [client EXCEPT ![a] = [@ EXCEPT !.pc = "done", !.outcome = o, !.pid = 0,
                                              !.mail = "none", !.from = 0]]

Goto(a, c) == client' = [client EXCEPT ![a].pc = c]

(* require_shape and the preparation before possible_dispatch is set: a    *)
(* malformed request is reported without any contact with the service.     *)
RejectRequest(a) ==
    /\ client[a].pc = "idle"
    /\ Return(a, "invalid")
    /\ UNCHANGED <<scm, pipe, serviceVars, faults>>

execute(a) ==
    /\ client[a].pc = "idle"
    /\ \E k \in Kinds, o \in Ops :
         client' = [client EXCEPT ![a] = [@ EXCEPT !.pc = "admission", !.kind = k, !.op = o]]
    /\ UNCHANGED <<scm, pipe, serviceVars, faults>>

(* parse_registered_client_request, and every failure of the SCM admission *)
(* up to and including a failed StartService: nothing was dispatched.      *)
RefuseAdmission(a) ==
    /\ client[a].pc = "admission"
    /\ Return(a, "refused")
    /\ UNCHANGED <<scm, pipe, serviceVars, faults>>

Unstarted == {p \in Pids : svc[p].pc = "off"}
NextPid == CHOOSE p \in Unstarted : \A q \in Unstarted : p <= q

admit_service_client(a) ==
    /\ client[a].pc = "admission"
    /\ Goto(a, "await")
    /\ \/ /\ scm.state = "stopped" /\ Unstarted # {}
          /\ scm' = [state |-> "start_pending", pid |-> NextPid]
          /\ svc' = [svc EXCEPT ![NextPid].pc = "starting"]
       \/ /\ scm.state # "stopped"
          /\ UNCHANGED <<scm, svc>>
    /\ UNCHANGED <<control, pipe, worker, wire, guard, disk, wrote, lost, faults>>

(* The service stopped, or the deadline passed, before a byte was written. *)
(* submit_publisher_request rethrows it as an ordinary exception, which    *)
(* execute can only report as unknown.                                     *)
FailBeforeWrite(a) ==
    /\ client[a].pc \in {"await", "connect", "write"}
    /\ Return(a, "unknown")
    /\ UNCHANGED <<scm, pipe, serviceVars, faults>>

(* require_request_not_cancelled, checked in every loop before the write.  *)
Cancel(a) ==
    /\ client[a].pc \in {"await", "connect", "write"}
    /\ Return(a, "refused")
    /\ UNCHANGED <<scm, pipe, serviceVars, faults>>

await_service_process(a) ==
    /\ client[a].pc = "await" /\ scm.state = "running"
    /\ client' = [client EXCEPT ![a] = [@ EXCEPT !.pc = "connect", !.pid = scm.pid]]
    /\ UNCHANGED <<scm, pipe, serviceVars, faults>>

(* The pipe has one instance: a second client finds it busy, even after    *)
(* the first one left, and gives up or waits.                              *)
connect_publisher_request_endpoint(a) ==
    /\ client[a].pc = "connect" /\ pipe.owner # 0
    /\ \/ /\ pipe.peer = None
          /\ pipe' = [pipe EXCEPT !.peer = a]
          /\ Goto(a, "write")
       \/ /\ pipe.peer # None
          /\ Return(a, "refused")
          /\ UNCHANGED pipe
    /\ UNCHANGED <<scm, serviceVars, faults>>

(* The pipe's server must be the process the SCM still names.  A write     *)
(* that fails may have delivered the request all the same.                 *)
write_request(a) ==
    /\ client[a].pc = "write"
    /\ pipe.owner = client[a].pid /\ pipe.peer = a
    /\ scm = [state |-> "running", pid |-> client[a].pid]
    /\ pipe' = [pipe EXCEPT !.sent = TRUE]
    /\ Goto(a, "read") \/ Return(a, "unknown")
    /\ UNCHANGED <<scm, serviceVars, faults>>

(* validate_publisher_response: the disposition of a bound reply.          *)
Disposition == [pass |-> "completed", failed |-> "refused",
                recovery_required |-> "recovery_required"]

(* A reply that reports success must name the process the client connected *)
(* to; a refusal or a call for recovery is taken from the pipe as it is.   *)
require_publisher_response_binding(a) ==
    client[a].mail = "pass" => client[a].from = client[a].pid

(* A planning client then waits for its service process to end.            *)
read_reply(a) ==
    /\ client[a].pc = "read" /\ client[a].mail # "none"
    /\ require_publisher_response_binding(a)
    /\ IF client[a].kind = "plan" THEN Goto(a, "dispose")
       ELSE Return(a, Disposition[client[a].mail])
    /\ UNCHANGED <<scm, pipe, serviceVars, faults>>

await_disposal(a) ==
    /\ client[a].pc = "dispose"
    /\ svc[client[a].pid].pc = "gone" /\ scm = [state |-> "stopped", pid |-> 0]
    /\ Return(a, Disposition[client[a].mail])
    /\ UNCHANGED <<scm, pipe, serviceVars, faults>>

(* Deadline, broken pipe, cancellation or an unbound reply after the write *)
(* attempt: PublisherRequestOutcomeUnknown.                                *)
OutcomeUnknown(a) ==
    /\ client[a].pc \in {"read", "dispose"}
    /\ Return(a, "unknown")
    /\ UNCHANGED <<scm, pipe, serviceVars, faults>>

CrashClient(a) ==
    /\ client[a].pc \notin {"idle", "done", "crashed"} /\ faults < MaxFaults
    /\ client' = [client EXCEPT ![a] = [@ EXCEPT !.pc = "crashed", !.pid = 0,
                                                 !.mail = "none", !.from = 0]]
    /\ faults' = faults + 1
    /\ UNCHANGED <<scm, pipe, serviceVars>>

ClientStep(a) ==
    \/ admit_service_client(a) \/ RefuseAdmission(a)
    \/ await_service_process(a) \/ connect_publisher_request_endpoint(a)
    \/ write_request(a) \/ read_reply(a) \/ await_disposal(a)
    \/ FailBeforeWrite(a) \/ Cancel(a) \/ OutcomeUnknown(a)

----------------------------------------------------------------------------
(* The service process.                                                    *)

clientVars == <<client, faults>>
engineVars == <<guard, disk, wrote>>

Step(p, c) == svc' = [svc EXCEPT ![p].pc = c]

(* service_main reaches its catch block; stale says that the exception is  *)
(* one of the definite preflight refusals.                                 *)
Throw(p, stale) == svc' = [svc EXCEPT ![p] = [@ EXCEPT !.pc = "failing", !.stale = stale]]

service_start(p) ==
    /\ svc[p].pc = "starting"
    /\ scm' = [scm EXCEPT !.state = IF scm.pid = p THEN "running" ELSE @]
    /\ Step(p, "admit")
    /\ UNCHANGED <<clientVars, control, pipe, worker, wire, engineVars, lost>>

(* The control lock is a file opened without sharing: it excludes the      *)
(* controllers and every other process of the service.                     *)
ServiceControlGuard(p) == control = 0 /\ control' = p

(* RegisteredPublisherAdmission reads the registration and the target      *)
(* records under the control lock and keeps it.                            *)
admit(p) ==
    /\ svc[p].pc = "admit"
    /\ \/ ServiceControlGuard(p) /\ Step(p, "open")
       \/ UNCHANGED control /\ Step(p, "stopping")
    /\ UNCHANGED <<clientVars, scm, pipe, worker, wire, engineVars, lost>>

(* PublisherRequestChannel: FILE_FLAG_FIRST_PIPE_INSTANCE fails while an   *)
(* older process still has the pipe.                                       *)
open_channel(p) ==
    /\ svc[p].pc = "open"
    /\ \/ /\ pipe.owner = 0
          /\ pipe' = [Closed EXCEPT !.owner = p]
          /\ Step(p, "listen")
       \/ /\ pipe.owner # 0
          /\ Step(p, "stopping")
          /\ UNCHANGED pipe
    /\ UNCHANGED <<clientVars, scm, control, worker, wire, engineVars, lost>>

(* One request is ever received.                                           *)
receive(p) ==
    /\ svc[p].pc = "listen" /\ pipe.sent
    /\ svc' = [svc EXCEPT ![p] = [@ EXCEPT !.pc = "dispatch", !.req = pipe.peer]]
    /\ UNCHANGED <<clientVars, scm, control, pipe, worker, wire, engineVars, lost>>

(* require_caller and client_token_facts: a caller whose token is not the  *)
(* authorized one gets no reply, which would need a received request.      *)
refuse_caller(p) ==
    /\ svc[p].pc = "listen" /\ pipe.sent
    /\ Step(p, "stopping")
    /\ UNCHANGED <<clientVars, scm, control, pipe, worker, wire, engineVars, lost>>

(* A stop or the deadline of the channel ends the wait for a request.      *)
receive_ends(p) ==
    /\ svc[p].pc = "listen"
    /\ Step(p, "stopping")
    /\ UNCHANGED <<clientVars, scm, control, pipe, worker, wire, engineVars, lost>>

(* The schema of the request selects the mode.                             *)
dispatch(p) ==
    /\ svc[p].pc = "dispatch"
    /\ \/ Request(p).kind = "plan" /\ Step(p, "plan")
       \/ Request(p).kind = "apply" /\ Step(p, "select")
       \/ Request(p).kind \in {"recover", "verify"} /\ Step(p, "launch")
       \/ Throw(p, FALSE)
    /\ UNCHANGED <<clientVars, scm, control, pipe, worker, wire, engineVars, lost>>

(* An apply must match the approval enrolled for exactly its bytes.        *)
select_reviewed_operation(p) ==
    /\ svc[p].pc = "select"
    /\ Step(p, "launch") \/ Throw(p, FALSE)
    /\ UNCHANGED <<clientVars, scm, control, pipe, worker, wire, engineVars, lost>>

(* registered_install_plan reads and answers; it can never launch a child. *)
registered_install_plan(p) ==
    /\ svc[p].pc = "plan"
    /\ \/ svc' = [svc EXCEPT ![p] = [@ EXCEPT !.pc = "respond", !.status = "pass"]]
       \/ Throw(p, FALSE)
    /\ UNCHANGED <<clientVars, scm, control, pipe, worker, wire, engineVars, lost>>

(* The custody constructor creates the child suspended inside its job. A   *)
(* construction that fails closes what it created.                         *)
PublisherEffectWorkerCustody(p) ==
    \/ /\ svc' = [svc EXCEPT ![p] = [@ EXCEPT !.pc = "baseline", !.effects = TRUE]]
       /\ worker' = [worker EXCEPT ![p].pc = "attach"]
    \/ /\ svc' = [svc EXCEPT ![p] = [@ EXCEPT !.pc = "failing", !.effects = TRUE]]
       /\ UNCHANGED worker

(* effects_may_exist is raised before the child exists.                    *)
launch_effect_worker(p) ==
    /\ svc[p].pc = "launch"
    /\ PublisherEffectWorkerCustody(p)
    /\ UNCHANGED <<clientVars, scm, control, pipe, wire, engineVars, lost>>

(* Constructing the broker observes the baseline.  For a recovery whose    *)
(* original intent is absent, no readback was sent and everything closes:  *)
(* PublisherOriginalInstallationPreflightRefused.                          *)
broker_baseline(p) ==
    /\ svc[p].pc = "baseline"
    /\ \/ /\ Request(p).kind = "recover" /\ disk[Request(p).op] = "none"
          /\ svc' = [svc EXCEPT ![p] = [@ EXCEPT !.pc = "abort", !.stale = TRUE]]
       \/ /\ ~(Request(p).kind = "recover" /\ disk[Request(p).op] = "none")
          /\ Step(p, "broker")
       \/ Step(p, "abort")
    /\ UNCHANGED <<clientVars, scm, control, pipe, worker, wire, engineVars, lost>>

(* A readback of the child is answered while the child lives.              *)
respond_to_one_packet(p) ==
    /\ svc[p].pc = "broker" /\ wire[p] = "idle" /\ Alive(p)
    /\ worker[p].pc # "attach"
    /\ wire' = [wire EXCEPT ![p] = "answer"]
    /\ UNCHANGED <<clientVars, scm, svc, control, pipe, worker, engineVars, lost>>

(* require_publisher_effect_terminal_record: a valid terminal ends the     *)
(* exchange, no packet follows it.                                         *)
accept_terminal(p) ==
    /\ svc[p].pc = "broker" /\ wire[p] = "terminal" /\ Alive(p)
    /\ Step(p, "close")
    /\ UNCHANGED <<clientVars, scm, control, pipe, worker, wire, engineVars, lost>>

(* The failure leaves execute_registered_child without closing the child.  *)
broker_abort_unclosed(p) ==
    /\ svc[p].pc = "broker"
    /\ Throw(p, FALSE)
    /\ UNCHANGED <<clientVars, scm, control, pipe, worker, wire, engineVars, lost>>

(* A diagnostic, a dead child, a refused packet, a stop or a deadline.     *)
broker_abort(p) ==
    /\ svc[p].pc = "broker"
    /\ Step(p, "abort")
    /\ UNCHANGED <<clientVars, scm, control, pipe, worker, wire, engineVars, lost>>

(* Closing the job kills the child and frees the guard it held.            *)
Kill(p) ==
    /\ worker' = [worker EXCEPT ![p].pc = IF Alive(p) THEN "dead" ELSE @]
    /\ wire' = [wire EXCEPT ![p] = "idle"]
    /\ guard' = IF guard = p THEN 0 ELSE guard

(* PublisherEffectWorkerCustody::close without confirmation: the child may *)
(* outlive it, and PublisherEffectWorkerClosureUnknown is thrown.          *)
CloseUnconfirmed(p) ==
    /\ svc[p].pc \in {"close", "abort"} /\ faults < MaxFaults
    /\ Throw(p, FALSE)
    /\ faults' = faults + 1
    /\ lost' = lost \cup {p}
    /\ UNCHANGED <<client, scm, control, pipe, worker, wire, engineVars>>

(* The query-only volume handle of the broker is closed once, after the    *)
(* child; a failure keeps the conservative classification.                 *)
CloseVolumeUnconfirmed(p) ==
    /\ svc[p].pc \in {"close", "abort"} /\ faults < MaxFaults
    /\ Kill(p)
    /\ Throw(p, FALSE)
    /\ faults' = faults + 1
    /\ UNCHANGED <<client, scm, control, pipe, disk, wrote, lost>>

(* execute_registered_child, exception path: the child is closed first.    *)
abort(p) ==
    /\ svc[p].pc = "abort"
    /\ Kill(p)
    /\ Throw(p, svc[p].stale)
    /\ UNCHANGED <<clientVars, scm, control, pipe, disk, wrote, lost>>

(* The status execute_registered_child reports for a terminal.             *)
TerminalStatus(w) ==
    IF w.result = "success" THEN "pass"
    ELSE IF w.result = "definite" \/ ~w.effects THEN "failed"
    ELSE "recovery_required"

(* A terminal followed by a confirmed end of the child is the only thing   *)
(* that narrows effects_may_exist.                                         *)
close(p) ==
    /\ svc[p].pc = "close"
    /\ Kill(p)
    /\ svc' = [svc EXCEPT ![p] = [@ EXCEPT !.pc = "respond", !.effects = worker[p].effects,
                                           !.status = TerminalStatus(worker[p])]]
    /\ UNCHANGED <<clientVars, scm, control, pipe, disk, wrote, lost>>

(* The pipe delivers the first reply; a client that left gets none.        *)
Deliver(p, status) ==
    LET a == svc[p].req IN
    client' = IF client[a].pc = "read" /\ client[a].mail = "none"
              THEN [client EXCEPT ![a] = [@ EXCEPT !.mail = status, !.from = p]] ELSE client

(* A reply write that fails may still have been delivered; the failure is  *)
(* then reported by a second reply.                                        *)
respond(p) ==
    /\ svc[p].pc = "respond"
    /\ \/ Deliver(p, svc[p].status) /\ Step(p, "stopping")
       \/ Deliver(p, svc[p].status) /\ Throw(p, FALSE)
       \/ UNCHANGED client /\ Throw(p, FALSE)
    /\ UNCHANGED <<scm, control, pipe, worker, wire, engineVars, lost, faults>>

(* The status of service_main's catch block.                               *)
FailureStatus(s) ==
    IF ~s.stale /\ s.effects THEN "recovery_required" ELSE "failed"

service_catch(p) ==
    /\ svc[p].pc = "failing"
    /\ Deliver(p, FailureStatus(svc[p])) \/ UNCHANGED client
    /\ Step(p, "stopping")
    /\ UNCHANGED <<scm, control, pipe, worker, wire, engineVars, lost, faults>>

(* STOPPED is reported while the process still owns the lock and the pipe, *)
(* which its unwinding releases in this order.                             *)
service_stop(p) ==
    /\ svc[p].pc = "stopping"
    /\ scm' = IF scm.pid = p THEN [state |-> "stopped", pid |-> 0] ELSE scm
    /\ Step(p, "release")
    /\ UNCHANGED <<clientVars, control, pipe, worker, wire, engineVars, lost>>

release_admission(p) ==
    /\ svc[p].pc = "release"
    /\ control' = IF control = p THEN 0 ELSE control
    /\ Step(p, "unpipe")
    /\ UNCHANGED <<clientVars, scm, pipe, worker, wire, engineVars, lost>>

release_channel(p) ==
    /\ svc[p].pc = "unpipe"
    /\ pipe' = IF pipe.owner = p THEN Closed ELSE pipe
    /\ Step(p, "exit")
    /\ UNCHANGED <<clientVars, scm, control, worker, wire, engineVars, lost>>

Ended == [pc |-> "gone", req |-> None, effects |-> FALSE, stale |-> FALSE,
          status |-> "none"]

(* The end of the process closes a job handle it still holds.              *)
Exit(p) ==
    /\ svc' = [svc EXCEPT ![p] = Ended]
    /\ worker' = [worker EXCEPT ![p] = [pc |-> "dead", effects |-> FALSE,
                                        result |-> "none"]]
    /\ wire' = [wire EXCEPT ![p] = "idle"]
    /\ guard' = IF guard = p THEN 0 ELSE guard

process_exit(p) ==
    /\ svc[p].pc = "exit"
    /\ Exit(p)
    /\ UNCHANGED <<clientVars, scm, control, pipe, disk, wrote, lost>>

CrashService(p) ==
    /\ Running(p) /\ faults < MaxFaults
    /\ Exit(p)
    /\ scm' = IF scm.pid = p THEN [state |-> "stopped", pid |-> 0] ELSE scm
    /\ control' = IF control = p THEN 0 ELSE control
    /\ pipe' = IF pipe.owner = p THEN Closed ELSE pipe
    /\ faults' = faults + 1
    /\ UNCHANGED <<client, disk, wrote, lost>>

ServiceStep(p) ==
    \/ service_start(p) \/ admit(p) \/ open_channel(p) \/ receive(p)
    \/ refuse_caller(p) \/ receive_ends(p) \/ dispatch(p)
    \/ select_reviewed_operation(p) \/ registered_install_plan(p)
    \/ launch_effect_worker(p) \/ broker_baseline(p) \/ respond_to_one_packet(p)
    \/ accept_terminal(p) \/ broker_abort(p) \/ abort(p) \/ close(p) \/ respond(p)
    \/ service_catch(p) \/ service_stop(p) \/ release_admission(p)
    \/ release_channel(p) \/ process_exit(p)

----------------------------------------------------------------------------
(* The private effect worker and the engine it runs.                       *)

hostVars == <<client, scm, svc, control, pipe, lost>>

(* Every step of the worker starts from a readback of its service.         *)
Answered(p, c) ==
    /\ worker[p].pc = c /\ wire[p] = "answer"
    /\ wire' = [wire EXCEPT ![p] = "idle"]

(* PublisherEffectWorkerPeer: the child checks its parent, its image and   *)
(* the first frame, which alone may introduce the request binding.         *)
worker_attach(p) ==
    /\ worker[p].pc = "attach"
    /\ worker' = [worker EXCEPT ![p].pc = "admit"]
    /\ UNCHANGED <<hostVars, wire, engineVars, faults>>

worker_admitted(p) ==
    /\ Answered(p, "admit")
    /\ worker' = [worker EXCEPT ![p].pc = "engine"]
    /\ UNCHANGED <<hostVars, engineVars, faults>>

(* The engine returns or throws: its guards are released before the        *)
(* terminal is prepared.                                                   *)
EngineEnds(p, result, effects) ==
    /\ worker' = [worker EXCEPT ![p] = [@ EXCEPT !.pc = "end", !.result = result,
                                                 !.effects = effects]]
    /\ guard' = IF guard = p THEN 0 ELSE guard

(* The engine refuses before it holds anything: a busy volume guard, or an *)
(* operation that is not there to recover or verify.                       *)
engine_refuse(p) ==
    /\ Answered(p, "engine")
    /\ LET r == Request(p) IN
       \/ guard # 0
       \/ r.kind \in {"recover", "verify"} /\ disk[r.op] = "none"
       \/ r.kind = "verify" /\ disk[r.op] # "completed"
    /\ EngineEnds(p, "failure", FALSE)
    /\ UNCHANGED <<hostVars, disk, wrote, faults>>

engine_verify(p) ==
    /\ Answered(p, "engine") /\ guard = 0
    /\ Request(p).kind = "verify" /\ disk[Request(p).op] = "completed"
    /\ EngineEnds(p, "success", FALSE)
    /\ UNCHANGED <<hostVars, disk, wrote, faults>>

(* A reviewed request that no longer matches is refused before this        *)
(* invocation writes; the flag of an apply still reports what an earlier   *)
(* one left, that of a reviewed recovery is not raised yet.                *)
engine_stale(p) ==
    /\ Answered(p, "engine") /\ guard = 0
    /\ LET r == Request(p) IN
       \/ r.kind = "apply" /\ EngineEnds(p, "definite", disk[r.op] # "none")
       \/ r.kind = "recover" /\ disk[r.op] # "none" /\ EngineEnds(p, "definite", FALSE)
    /\ UNCHANGED <<hostVars, disk, wrote, faults>>

(* An operation retained before publication needs its original apply: the  *)
(* source-free recovery refuses it and reports the retained effects.       *)
engine_prepublication(p) ==
    /\ Answered(p, "engine") /\ guard = 0
    /\ Request(p).kind = "recover" /\ disk[Request(p).op] = "intent"
    /\ EngineEnds(p, "failure", TRUE)
    /\ UNCHANGED <<hostVars, disk, wrote, faults>>

(* The effects flag is raised only by the publication.                     *)
engine_enter_unflagged(p) ==
    /\ Answered(p, "engine") /\ guard = 0
    /\ \/ Request(p).kind = "apply"
       \/ Request(p).kind = "recover" /\ disk[Request(p).op] \in {"published", "completed"}
    /\ guard' = p
    /\ worker' = [worker EXCEPT ![p] = [@ EXCEPT !.pc = "held",
                                !.effects = disk[Request(p).op] \in {"published", "completed"}]]
    /\ UNCHANGED <<hostVars, disk, wrote, faults>>

(* publication_effects_may_exist is raised before the first durable write. *)
engine_enter(p) ==
    /\ Answered(p, "engine") /\ guard = 0
    /\ \/ Request(p).kind = "apply"
       \/ Request(p).kind = "recover" /\ disk[Request(p).op] \in {"published", "completed"}
    /\ guard' = p
    /\ worker' = [worker EXCEPT ![p] = [@ EXCEPT !.pc = "held", !.effects = TRUE]]
    /\ UNCHANGED <<hostVars, disk, wrote, faults>>

(* The next durable stage: intent and lease, publication, completion.      *)
engine_write(p) ==
    /\ Answered(p, "held") /\ disk[Request(p).op] # "completed"
    /\ disk' = [disk EXCEPT ![Request(p).op] = Later[@]]
    /\ wrote' = wrote \cup {svc[p].req}
    /\ UNCHANGED <<hostVars, worker, guard, faults>>

engine_finish(p) ==
    /\ Answered(p, "held") /\ disk[Request(p).op] = "completed"
    /\ EngineEnds(p, "success", TRUE)
    /\ UNCHANGED <<hostVars, disk, wrote, faults>>

(* An exception inside the engine keeps the flag as it is.                 *)
engine_throw(p) ==
    /\ worker[p].pc = "held" /\ faults < MaxFaults
    /\ EngineEnds(p, "failure", worker[p].effects)
    /\ faults' = faults + 1
    /\ UNCHANGED <<hostVars, wire, disk, wrote>>

(* The terminal is validated against a last readback and sent once.        *)
worker_terminal(p) ==
    /\ worker[p].pc = "end" /\ wire[p] = "answer"
    /\ worker' = [worker EXCEPT ![p].pc = "sent"]
    /\ wire' = [wire EXCEPT ![p] = "terminal"]
    /\ UNCHANGED <<hostVars, engineVars, faults>>

(* A failure before the terminal is attempted sends a diagnostic instead.  *)
worker_diagnostic(p) ==
    /\ worker[p].pc \in {"attach", "admit", "engine", "held", "end"} /\ faults < MaxFaults
    /\ worker' = [worker EXCEPT ![p].pc = "sent"]
    /\ wire' = [wire EXCEPT ![p] = "diagnostic"]
    /\ guard' = IF guard = p THEN 0 ELSE guard
    /\ faults' = faults + 1
    /\ UNCHANGED <<hostVars, disk, wrote>>

(* The child waits for its parent a bounded time and then ends by itself;  *)
(* it may also be killed from outside at any moment.                       *)
worker_exit(p) ==
    /\ worker[p].pc = "sent"
    /\ Kill(p)
    /\ UNCHANGED <<hostVars, disk, wrote, faults>>

CrashWorker(p) ==
    /\ Alive(p) /\ faults < MaxFaults
    /\ Kill(p)
    /\ faults' = faults + 1
    /\ UNCHANGED <<hostVars, disk, wrote>>

WorkerStep(p) ==
    \/ worker_attach(p) \/ worker_admitted(p) \/ engine_refuse(p) \/ engine_verify(p)
    \/ engine_stale(p) \/ engine_prepublication(p) \/ engine_enter(p)
    \/ engine_write(p) \/ engine_finish(p) \/ worker_terminal(p) \/ worker_exit(p)

Fault(p) == CrashService(p) \/ CrashWorker(p) \/ CloseUnconfirmed(p)
            \/ CloseVolumeUnconfirmed(p) \/ engine_throw(p) \/ worker_diagnostic(p)

Next ==
    \/ \E a \in Attempts :
          ClientStep(a) \/ execute(a) \/ RejectRequest(a) \/ CrashClient(a)
    \/ \E p \in Pids : ServiceStep(p) \/ WorkerStep(p) \/ Fault(p)

Spec == Init /\ [][Next]_vars

----------------------------------------------------------------------------
(* An attempt reported as refused never changed the disk and never will:   *)
(* the client context turns only a request that was not dispatched, or the *)
(* status "failed", into a refusal, whatever crashed or timed out on the   *)
(* way.                                                                    *)
RefusedMadeNoEffect ==
    \A a \in Attempts : client[a].outcome = "refused" => a \notin wrote

(* A completed apply or recovery is durable: no reply of a crashed, a      *)
(* retried or a half-finished worker is taken for completion.              *)
CompletedIsDurable ==
    \A a \in Attempts :
        client[a].outcome = "completed" /\ client[a].kind \in {"apply", "recover"}
            => disk[client[a].op] = "completed"

(* The client's outcome is the truth about the disk, whichever of client,  *)
(* service and worker died or stopped waiting (PublisherClientContext::    *)
(* execute).                                                               *)
OutcomesAreTruthful == RefusedMadeNoEffect /\ CompletedIsDurable

(* A reply that is completed or refused is read only after the worker of   *)
(* that attempt has ended: execute_registered_child reports a terminal     *)
(* only after the confirmed closure of its child.                          *)
AnsweredWorkerIsDead ==
    \A a \in Attempts, p \in Pids :
        client[a].outcome \in {"completed", "refused"} /\ svc[p].req = a
            => ~Alive(p)

(* A retry that starts a new service process never runs beside the worker  *)
(* of the old one, unless the old process could not confirm its child's    *)
(* end: the control lock and the pipe are released after the closure.      *)
WorkersDoNotOverlap ==
    \A p, q \in Pids : p # q /\ Alive(p) /\ Alive(q) => lost \cap {p, q} # {}

(* Nobody works behind the client's back: a worker has ended before its    *)
(* attempt is answered, and before the worker of a retry starts.           *)
OneWorker == TypeOK /\ AnsweredWorkerIsDead /\ WorkersDoNotOverlap
=============================================================================
