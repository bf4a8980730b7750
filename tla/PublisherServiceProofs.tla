----------------------- MODULE PublisherServiceProofs -----------------------
(***************************************************************************)
(* Proofs about PublisherService, for any number of attempts, operations,  *)
(* service processes and faults: the outcome a client reports is the truth *)
(* about the disk (OutcomesAreTruthful), and nobody works behind its back  *)
(* (OneWorker).                                                            *)
(*                                                                         *)
(* The argument follows one request through its life.  Until it is written *)
(* to the pipe nobody has heard of it; while it waits in the pipe no       *)
(* service process has it; one process ever receives it.  From then on     *)
(* what that process may report is justified by what its child can have    *)
(* done, and a verdict that reached the client is final because the child  *)
(* has ended by then.  The control lock and the pipe tie a living child to *)
(* the only process that may have one.                                     *)
(***************************************************************************)
EXTENDS PublisherService, WellFoundedInduction, TLAPS

Fresh == {"idle", "admission", "await", "connect", "write"}
BeforeRequest == {"off", "starting", "admit", "open", "listen"}
BeforeLaunch == BeforeRequest \cup {"dispatch", "select", "plan", "launch"}
WithChild == {"baseline", "broker", "close", "abort"}
Serving == {"dispatch", "select", "plan", "launch", "respond", "failing"} \cup WithChild
Leaving == {"failing", "stopping", "release", "unpipe", "exit"}
Changing == {"apply", "recover"}

(* The request of attempt a waits in the pipe for its one reader.          *)
Pending(a) == pipe.sent /\ pipe.peer = a /\ \E p \in Pids : svc[p].pc = "listen"

(* No service process has, had or will have the request of attempt a.      *)
Unheard(a) ==
    /\ a \notin wrote
    /\ \A p \in Pids : svc[p].req # a
    /\ ~(pipe.sent /\ pipe.peer = a)

(* The operation of attempt a, if it changes anything, is done.            *)
Durable(a) == client[a].kind \in Changing => disk[client[a].op] = "completed"

NoWorker == [pc |-> "none", effects |-> FALSE, result |-> "none"]

(* Which locks a process holds, where it can have a living child, and when *)
(* it has given the child up as lost.                                      *)
ServiceGood(p) ==
    /\ svc[p].pc \in BeforeRequest \cup {"gone"} => svc[p].req = None
    /\ svc[p].pc \in Serving => svc[p].req # None
    /\ svc[p].pc \in Serving \cup {"listen", "open"} => control = p
    /\ svc[p].pc \in Serving \cup {"listen"} => pipe.owner = p
    /\ svc[p].pc \in BeforeLaunch => worker[p] = NoWorker /\ wire[p] = "idle"
    /\ svc[p].pc \in WithChild => svc[p].effects
    /\ p \in lost => \/ svc[p].pc = "failing" /\ svc[p].effects /\ ~svc[p].stale
                     \/ svc[p].pc \in (Leaving \ {"failing"}) \cup {"gone"}
    /\ Alive(p) => /\ svc[p].req # None
                   /\ svc[p].pc \in WithChild \/ (p \in lost /\ svc[p].pc \in Leaving)

(* A child that changed the disk has said so; one whose preflight refused  *)
(* never got an answer it could act on.                                    *)
ChildGood(p) ==
    /\ svc[p].req \in wrote => worker[p].effects /\ worker[p].result # "definite"
    /\ worker[p].pc \in {"none", "attach", "admit", "engine"}
         => ~worker[p].effects /\ worker[p].result # "definite"
    /\ worker[p].pc = "held" => worker[p].effects /\ worker[p].result # "definite"
    /\ svc[p].req # None /\ worker[p].result = "success" => Durable(svc[p].req)
    /\ svc[p].pc = "baseline" \/ (svc[p].pc = "abort" /\ svc[p].stale)
         => /\ worker[p].pc \in {"attach", "admit", "sent", "dead"}
            /\ wire[p] \in {"idle", "diagnostic"}
            /\ svc[p].req \notin wrote

(* What the service is about to report is justified.                       *)
ReportGood(p) ==
    /\ svc[p].pc = "plan" => Request(p).kind = "plan"
    /\ svc[p].stale => /\ svc[p].req \notin wrote
                       /\ svc[p].pc = "abort" \/ (svc[p].pc \in Leaving /\ ~Alive(p))
    /\ svc[p].pc = "respond" =>
         /\ svc[p].status # "none"
         /\ svc[p].status = "pass" => Durable(svc[p].req)
         /\ svc[p].status = "failed" => svc[p].req \notin wrote
    /\ svc[p].pc \in {"respond", "failing"} /\ ~svc[p].effects
         => svc[p].req \notin wrote

(* A verdict that reached the client, as mail or as an outcome, is final.  *)
ClientGood(a) ==
    /\ client[a].pc # "done" => client[a].outcome = "none"
    /\ client[a].pc \in Fresh \/ client[a].outcome = "invalid"
         => client[a].mail = "none" /\ Unheard(a)
    /\ client[a].pc # "idle" /\ client[a].outcome # "invalid" => client[a].op \in Ops
    /\ client[a].pc = "dispose" => client[a].mail # "none"
    /\ Pending(a) => /\ client[a].mail = "none"
                     /\ client[a].outcome \notin {"completed", "refused"}
                     /\ a \notin wrote
                     /\ \A p \in Pids : svc[p].req # a
    /\ client[a].mail = "failed" \/ client[a].outcome = "refused" => a \notin wrote
    /\ client[a].mail = "pass" \/ client[a].outcome = "completed" => Durable(a)
    /\ client[a].mail \in {"pass", "failed"} \/ client[a].outcome \in {"completed", "refused"}
         => \A p \in Pids : svc[p].req = a => svc[p].pc \in Leaving /\ ~Alive(p)

(* One process has a request, and a request that was sent has a sender.    *)
Bound ==
    /\ \A p, q \in Pids : svc[p].req = svc[q].req /\ svc[p].req # None => p = q
    /\ pipe.sent => pipe.peer # None

(* The inductive invariant.                                                *)
IndInv ==
    /\ TypeOK
    /\ Bound
    /\ \A p \in Pids : ServiceGood(p) /\ ChildGood(p) /\ ReportGood(p)
    /\ \A a \in Attempts : ClientGood(a)

----------------------------------------------------------------------------
(* Updates of one record keep the type and say which fields changed.       *)

(* Process ids are among the values the pid fields take. *)
LEMMA PidRange == \A p \in Pids : p \in 0 .. MaxPid
BY ServiceAssumption DEF Pids

(* A fault below the bound leaves the count within it.                     *)
LEMMA FaultTaken ==
    ASSUME faults \in 0 .. MaxFaults, faults < MaxFaults, faults' = faults + 1
    PROVE  faults' \in 0 .. MaxFaults
BY ServiceAssumption

(* A service process moves to another point.                               *)
LEMMA ServiceMoves ==
    ASSUME svc \in [Pids -> ServiceRecord], NEW p \in Pids, NEW c \in ServicePc,
           svc' = [svc EXCEPT ![p].pc = c]
    PROVE  /\ svc' \in [Pids -> ServiceRecord]
           /\ svc'[p].pc = c /\ svc'[p].req = svc[p].req
           /\ svc'[p].effects = svc[p].effects /\ svc'[p].stale = svc[p].stale
           /\ svc'[p].status = svc[p].status
           /\ \A q \in Pids \ {p} : svc'[q] = svc[q]
<1>1. svc' = [svc EXCEPT ![p] = [svc[p] EXCEPT !.pc = c]]
  OBVIOUS
<1>2. [svc[p] EXCEPT !.pc = c] \in ServiceRecord
  BY Zenon DEF ServiceRecord
<1>3. svc' \in [Pids -> ServiceRecord]
  BY <1>1, <1>2
<1> QED
  BY <1>1, <1>3 DEF ServiceRecord

(* A service process reaches its catch block.                              *)
LEMMA ServiceThrows ==
    ASSUME svc \in [Pids -> ServiceRecord], NEW p \in Pids, NEW t \in BOOLEAN,
           Throw(p, t)
    PROVE  /\ svc' \in [Pids -> ServiceRecord]
           /\ svc'[p].pc = "failing" /\ svc'[p].req = svc[p].req
           /\ svc'[p].effects = svc[p].effects /\ svc'[p].stale = t
           /\ svc'[p].status = svc[p].status
           /\ \A q \in Pids \ {p} : svc'[q] = svc[q]
<1>1. svc' = [svc EXCEPT ![p] = [svc[p] EXCEPT !.pc = "failing", !.stale = t]]
  BY DEF Throw
<1>2. [svc[p] EXCEPT !.pc = "failing", !.stale = t] \in ServiceRecord
  BY Zenon DEF ServiceRecord, ServicePc
<1>3. svc' \in [Pids -> ServiceRecord]
  BY <1>1, <1>2
<1> QED
  BY <1>1, <1>3 DEF ServiceRecord

(* The child of a service process is killed, if it lives.                  *)
LEMMA WorkerKilled ==
    ASSUME worker \in [Pids -> WorkerRecord], NEW p \in Pids, Kill(p)
    PROVE  /\ worker' \in [Pids -> WorkerRecord]
           /\ worker'[p].pc = IF Alive(p) THEN "dead" ELSE worker[p].pc
           /\ worker'[p].effects = worker[p].effects
           /\ worker'[p].result = worker[p].result
           /\ ~Alive(p)'
           /\ \A q \in Pids \ {p} : worker'[q] = worker[q]
<1> DEFINE c == IF Alive(p) THEN "dead" ELSE worker[p].pc
<1>1. worker' = [worker EXCEPT ![p] = [worker[p] EXCEPT !.pc = c]]
  BY DEF Kill
<1>2. c \in WorkerPc
  BY DEF WorkerRecord, WorkerPc
<1>3. c \in {"none", "dead"}
  BY DEF Alive
<1> HIDE DEF c
<1>4. [worker[p] EXCEPT !.pc = c] \in WorkerRecord
  BY <1>2, Zenon DEF WorkerRecord
<1>5. worker' \in [Pids -> WorkerRecord]
  BY <1>1, <1>4
<1>6. worker'[p].pc = c
  BY <1>1 DEF WorkerRecord
<1>7. /\ worker'[p].effects = worker[p].effects
      /\ worker'[p].result = worker[p].result
      /\ \A q \in Pids \ {p} : worker'[q] = worker[q]
  BY <1>1 DEF WorkerRecord
<1> QED
  BY <1>3, <1>5, <1>6, <1>7 DEF Alive, c

(* A child moves to another point.                                         *)
LEMMA WorkerMoves ==
    ASSUME worker \in [Pids -> WorkerRecord], NEW p \in Pids, NEW c \in WorkerPc,
           worker' = [worker EXCEPT ![p].pc = c]
    PROVE  /\ worker' \in [Pids -> WorkerRecord]
           /\ worker'[p].pc = c /\ worker'[p].effects = worker[p].effects
           /\ worker'[p].result = worker[p].result
           /\ \A q \in Pids \ {p} : worker'[q] = worker[q]
<1>1. worker' = [worker EXCEPT ![p] = [worker[p] EXCEPT !.pc = c]]
  OBVIOUS
<1>2. [worker[p] EXCEPT !.pc = c] \in WorkerRecord
  BY Zenon DEF WorkerRecord
<1>3. worker' \in [Pids -> WorkerRecord]
  BY <1>1, <1>2
<1> QED
  BY <1>1, <1>3 DEF WorkerRecord

(* The engine of a child ends.                                             *)
LEMMA WorkerEnds ==
    ASSUME worker \in [Pids -> WorkerRecord], NEW p \in Pids,
           NEW r \in {"success", "failure", "definite"}, NEW e \in BOOLEAN,
           EngineEnds(p, r, e)
    PROVE  /\ worker' \in [Pids -> WorkerRecord]
           /\ worker'[p].pc = "end" /\ worker'[p].effects = e
           /\ worker'[p].result = r
           /\ \A q \in Pids \ {p} : worker'[q] = worker[q]
<1>1. worker' = [worker EXCEPT ![p] = [worker[p] EXCEPT !.pc = "end", !.result = r,
                                                        !.effects = e]]
  BY DEF EngineEnds
<1>2. [worker[p] EXCEPT !.pc = "end", !.result = r, !.effects = e] \in WorkerRecord
  BY Zenon DEF WorkerRecord, WorkerPc
<1>3. worker' \in [Pids -> WorkerRecord]
  BY <1>1, <1>2
<1> QED
  BY <1>1, <1>3 DEF WorkerRecord

(* An attempt moves to another point.                                      *)
LEMMA ClientMoves ==
    ASSUME client \in [Attempts -> ClientRecord], NEW a \in Attempts, NEW c \in ClientPc,
           Goto(a, c)
    PROVE  /\ client' \in [Attempts -> ClientRecord]
           /\ client'[a].pc = c /\ client'[a].outcome = client[a].outcome
           /\ client'[a].kind = client[a].kind /\ client'[a].op = client[a].op
           /\ client'[a].mail = client[a].mail
           /\ \A b \in Attempts \ {a} : client'[b] = client[b]
<1>1. client' = [client EXCEPT ![a] = [client[a] EXCEPT !.pc = c]]
  BY DEF Goto
<1>2. [client[a] EXCEPT !.pc = c] \in ClientRecord
  BY Zenon DEF ClientRecord
<1>3. client' \in [Attempts -> ClientRecord]
  BY <1>1, <1>2
<1> QED
  BY <1>1, <1>3 DEF ClientRecord

(* An attempt returns its outcome.                                         *)
LEMMA ClientReturns ==
    ASSUME client \in [Attempts -> ClientRecord], NEW a \in Attempts, NEW o \in Outcome,
           Return(a, o)
    PROVE  /\ client' \in [Attempts -> ClientRecord]
           /\ client'[a].pc = "done" /\ client'[a].outcome = o
           /\ client'[a].kind = client[a].kind /\ client'[a].op = client[a].op
           /\ client'[a].mail = "none"
           /\ \A b \in Attempts \ {a} : client'[b] = client[b]
<1> DEFINE r == [client[a] EXCEPT !.pc = "done", !.outcome = o, !.pid = 0,
                                  !.mail = "none", !.from = 0]
<1>1. client' = [client EXCEPT ![a] = r]
  BY DEF Return
<1>2. 0 \in 0 .. MaxPid
  BY ServiceAssumption
<1>3. r \in ClientRecord
  BY <1>2, Zenon DEF ClientRecord, ClientPc, Reply
<1>4. /\ r.pc = "done" /\ r.outcome = o /\ r.mail = "none"
      /\ r.kind = client[a].kind /\ r.op = client[a].op
  BY DEF ClientRecord
<1> HIDE DEF r
<1> QED
  BY <1>1, <1>3, <1>4

----------------------------------------------------------------------------
(* What a step leaves alone.                                               *)

(* A step of service process p or of its child: it touches no other        *)
(* process, takes no lock from one, and undoes nothing on disk.            *)
StepOf(p) ==
    /\ \A q \in Pids \ {p} :
         /\ svc'[q] = svc[q] /\ worker'[q] = worker[q] /\ wire'[q] = wire[q]
         /\ control = q => control' = q
         /\ pipe.owner = q => pipe'.owner = q
    /\ lost \subseteq lost' /\ lost' \subseteq lost \cup {p}
    /\ wrote \subseteq wrote' /\ wrote' \subseteq wrote \cup {svc[p].req}
    /\ \A o \in Ops : disk[o] = "completed" => disk'[o] = "completed"
    /\ \A a \in Attempts : client'[a].kind = client[a].kind /\ client'[a].op = client[a].op

(* A request some process has names an operation.                          *)
LEMMA HeardNamesOperation ==
    ASSUME IndInv, NEW p \in Pids, svc[p].req # None
    PROVE  svc[p].req \in Attempts /\ client[svc[p].req].op \in Ops
           /\ client[svc[p].req].pc \notin Fresh
<1>1. svc[p].req \in Attempts
  BY DEF IndInv, TypeOK, ServiceRecord
<1>2. ClientGood(svc[p].req)
  BY <1>1 DEF IndInv
<1> QED
  BY <1>1, <1>2, SMTT(40) DEF ClientGood, Unheard, Fresh

(* What is durable stays durable.                                          *)
LEMMA DurableKept ==
    ASSUME NEW p \in Pids, StepOf(p), NEW a \in Attempts, client[a].op \in Ops, Durable(a)
    PROVE  Durable(a)'
  BY DEF StepOf, Durable

(* The other processes keep their part of the invariant.                   *)
LEMMA OthersKept ==
    ASSUME IndInv, TypeOK', NEW p \in Pids, StepOf(p), NEW q \in Pids, q # p
    PROVE  ServiceGood(q)' /\ ChildGood(q)' /\ ReportGood(q)'
<1>1. ServiceGood(q) /\ ChildGood(q) /\ ReportGood(q)
  BY DEF IndInv
<1>2. /\ svc'[q] = svc[q] /\ worker'[q] = worker[q] /\ wire'[q] = wire[q]
      /\ q \in lost' <=> q \in lost
      /\ Alive(q)' <=> Alive(q)
  BY DEF StepOf, Alive
<1>3. svc[q].req \in wrote' <=> svc[q].req \in wrote
  <2>1. CASE svc[q].req = None
    BY <2>1, ServiceAssumption DEF IndInv, TypeOK
  <2>2. CASE svc[q].req # None
    BY <2>2 DEF IndInv, Bound, StepOf
  <2> QED
    BY <2>1, <2>2
<1>4. svc[q].req # None /\ Durable(svc[q].req) => Durable(svc[q].req)'
  BY DurableKept, HeardNamesOperation, <1>2
<1>5. ServiceGood(q)'
  <2>1. /\ control = q => control' = q
        /\ pipe.owner = q => pipe'.owner = q
    BY DEF StepOf
  <2> QED
    BY <1>1, <1>2, <2>1 DEF ServiceGood
<1>6. ChildGood(q)'
  BY <1>1, <1>2, <1>3, <1>4 DEF ChildGood
<1>7. ReportGood(q)'
  <2>1. svc[q].pc = "plan" /\ Request(q).kind = "plan" => (Request(q).kind = "plan")'
    BY <1>1, <1>2, HeardNamesOperation DEF StepOf, Request, ServiceGood, Serving
  <2> QED
    BY <1>1, <1>2, <1>3, <1>4, <2>1 DEF ReportGood, ServiceGood, Serving
<1> QED
  BY <1>5, <1>6, <1>7

(* No two processes get the same request by a step that hands out none.    *)
LEMMA BoundKept ==
    ASSUME IndInv, NEW p \in Pids, StepOf(p), svc'[p].req \in {svc[p].req, None},
           pipe' = pipe \/ ~pipe'.sent
    PROVE  Bound'
  BY DEF IndInv, Bound, StepOf

(* A service step that sends no reply and receives no request keeps every  *)
(* attempt's part of the invariant.                                        *)
LEMMA ClientsKept ==
    ASSUME IndInv, TypeOK', NEW p \in Pids, StepOf(p), client' = client,
           svc'[p].req \in {svc[p].req, None},
           pipe' = pipe \/ ~pipe'.sent,
           svc'[p].pc = "listen" => ~pipe'.sent \/ svc[p].pc = "listen",
           svc[p].pc \in Leaving /\ ~Alive(p) /\ svc'[p].req # None
             => svc'[p].pc \in Leaving /\ ~Alive(p)',
           wrote' = wrote \/ Alive(p),
           NEW a \in Attempts
    PROVE  ClientGood(a)'
<1>1. ClientGood(a)
  BY DEF IndInv
<1>2. a # None
  BY ServiceAssumption
<1>3. \A q \in Pids : svc'[q].req = a => svc[q].req = a
  BY <1>2 DEF StepOf
<1>4. pipe'.sent /\ pipe'.peer = a => pipe.sent /\ pipe.peer = a
  OBVIOUS
<1>5. Pending(a)' => Pending(a)
  BY <1>4 DEF Pending, StepOf
<1>6. a \in wrote' => a \in wrote \/ (a = svc[p].req /\ Alive(p))
  BY DEF StepOf
<1>7. client[a].op \in Ops /\ Durable(a) => Durable(a)'
  BY DurableKept
<1>8. ASSUME NEW q \in Pids, svc'[q].req = a, svc[q].pc \in Leaving /\ ~Alive(q)
      PROVE  svc'[q].pc \in Leaving /\ ~Alive(q)'
  <2>1. CASE q = p
    BY <1>2, <1>8, <2>1
  <2>2. CASE q # p
    BY <1>8, <2>2 DEF StepOf, Alive
  <2> QED
    BY <2>1, <2>2
<1>9. (client[a].pc \in Fresh \/ client[a].outcome = "invalid" => client[a].mail = "none" /\ Unheard(a))'
  BY <1>1, <1>3, <1>4, <1>6 DEF ClientGood, Unheard
<1>10. (Pending(a) => /\ client[a].mail = "none"
                      /\ client[a].outcome \notin {"completed", "refused"}
                      /\ a \notin wrote
                      /\ \A q \in Pids : svc[q].req # a)'
  BY <1>1, <1>3, <1>5, <1>6 DEF ClientGood
<1>11. (client[a].mail = "failed" \/ client[a].outcome = "refused" => a \notin wrote)'
  BY <1>1, <1>6 DEF ClientGood
<1>12. (client[a].mail = "pass" \/ client[a].outcome = "completed" => Durable(a))'
  BY <1>1, <1>7 DEF ClientGood, Fresh
<1>13. (client[a].mail \in {"pass", "failed"} \/ client[a].outcome \in {"completed", "refused"}
          => \A q \in Pids : svc[q].req = a => svc[q].pc \in Leaving /\ ~Alive(q))'
  BY <1>1, <1>3, <1>8 DEF ClientGood
<1> QED
  BY <1>1, <1>9, <1>10, <1>11, <1>12, <1>13 DEF ClientGood

(* Together: what remains to be shown of a step of process p is about p.   *)
LEMMA ServiceStepKeeps ==
    ASSUME IndInv, TypeOK', NEW p \in Pids, StepOf(p), client' = client,
           svc'[p].req \in {svc[p].req, None},
           pipe' = pipe \/ ~pipe'.sent,
           svc'[p].pc = "listen" => ~pipe'.sent \/ svc[p].pc = "listen",
           svc[p].pc \in Leaving /\ ~Alive(p) /\ svc'[p].req # None
             => svc'[p].pc \in Leaving /\ ~Alive(p)',
           wrote' = wrote \/ Alive(p),
           ServiceGood(p)', ChildGood(p)', ReportGood(p)'
    PROVE  IndInv'
<1>1. Bound'
  BY BoundKept
<1>2. \A q \in Pids : ServiceGood(q)' /\ ChildGood(q)' /\ ReportGood(q)'
  BY OthersKept
<1>3. \A a \in Attempts : ClientGood(a)'
  BY ClientsKept
<1> QED
  BY <1>1, <1>2, <1>3 DEF IndInv, Pids

----------------------------------------------------------------------------
(* The service process, before and around its child.                       *)

ownVars == <<client, scm, control, pipe, worker, wire, guard, disk, wrote, lost, faults>>

(* A step that only moves process p and keeps its request.                 *)
LEMMA MoveKeeps ==
    ASSUME IndInv, NEW p \in Pids, svc' \in [Pids -> ServiceRecord],
           svc'[p].req = svc[p].req, \A q \in Pids \ {p} : svc'[q] = svc[q],
           UNCHANGED ownVars, svc[p].pc \notin Leaving, svc'[p].pc # "listen",
           ServiceGood(p)', ChildGood(p)', ReportGood(p)'
    PROVE  IndInv'
<1>1. TypeOK'
  BY DEF IndInv, TypeOK, ownVars
<1>2. StepOf(p)
  BY DEF StepOf, ownVars
<1> QED
  BY <1>1, <1>2, ServiceStepKeeps DEF ownVars

(* The request never reaches the service: refuse_caller and receive_ends.  *)
LEMMA NoRequestStep ==
    ASSUME IndInv, NEW p \in Pids, refuse_caller(p) \/ receive_ends(p)
    PROVE  IndInv'
<1>1. svc[p].pc = "listen" /\ Step(p, "stopping") /\ UNCHANGED ownVars
  BY DEF refuse_caller, receive_ends, ownVars, clientVars, engineVars
<1>2. /\ svc \in [Pids -> ServiceRecord] /\ "stopping" \in ServicePc
      /\ ServiceGood(p) /\ ChildGood(p) /\ ReportGood(p)
  BY DEF IndInv, TypeOK, ServicePc
<1>3. /\ svc' \in [Pids -> ServiceRecord]
      /\ svc'[p].pc = "stopping" /\ svc'[p].req = svc[p].req
      /\ svc'[p].effects = svc[p].effects /\ svc'[p].stale = svc[p].stale
      /\ \A q \in Pids \ {p} : svc'[q] = svc[q]
  BY <1>1, <1>2, ServiceMoves, Zenon DEF Step
<1>4. ServiceGood(p)'
  BY <1>1, <1>2, <1>3, SMTT(40) DEF ServiceGood, ownVars, Alive, NoWorker, BeforeRequest, BeforeLaunch,
                          WithChild, Serving, Leaving
<1>5. ChildGood(p)' /\ ReportGood(p)'
  BY <1>1, <1>2, <1>3 DEF ServiceGood, ChildGood, ReportGood, ownVars, Alive, NoWorker,
                          BeforeRequest, BeforeLaunch, Leaving
<1> QED
  BY <1>1, <1>3, <1>4, <1>5, MoveKeeps DEF Leaving

(* A process that has the request and no child yet goes on or throws.      *)
LEMMA BeforeChildStep ==
    ASSUME IndInv, NEW p \in Pids,
           dispatch(p) \/ select_reviewed_operation(p) \/ registered_install_plan(p)
    PROVE  IndInv'
<1>1. /\ svc[p].pc \in {"dispatch", "select", "plan"} /\ UNCHANGED ownVars
      /\ \/ Request(p).kind = "plan" /\ Step(p, "plan")
         \/ Step(p, "select") \/ Step(p, "launch") \/ Throw(p, FALSE)
         \/ /\ svc[p].pc = "plan"
            /\ svc' = [svc EXCEPT ![p] = [@ EXCEPT !.pc = "respond", !.status = "pass"]]
  BY Zenon DEF dispatch, select_reviewed_operation, registered_install_plan, ownVars,
         clientVars, engineVars
<1>2. /\ svc \in [Pids -> ServiceRecord]
      /\ ServiceGood(p) /\ ChildGood(p) /\ ReportGood(p)
  BY DEF IndInv, TypeOK
<1>3. CASE \E c \in {"plan", "select", "launch"} :
               Step(p, c) /\ (c = "plan" => Request(p).kind = "plan")
  <2>1. PICK c \in {"plan", "select", "launch"} :
               Step(p, c) /\ (c = "plan" => Request(p).kind = "plan")
    BY <1>3
  <2>2. c \in ServicePc
    BY DEF ServicePc
  <2>3. /\ svc' \in [Pids -> ServiceRecord]
        /\ svc'[p].pc = c /\ svc'[p].req = svc[p].req
        /\ svc'[p].effects = svc[p].effects /\ svc'[p].stale = svc[p].stale
        /\ \A q \in Pids \ {p} : svc'[q] = svc[q]
    BY <1>2, <2>1, <2>2, ServiceMoves, Zenon DEF Step
  <2>4. ServiceGood(p)'
    BY <1>1, <1>2, <2>3 DEF ServiceGood, ownVars, Alive, NoWorker, BeforeRequest, BeforeLaunch,
                            WithChild, Serving, Leaving
  <2>5. ChildGood(p)' /\ ReportGood(p)'
    BY <1>1, <1>2, <2>1, <2>3 DEF ServiceGood, ChildGood, ReportGood, ownVars, Alive, NoWorker,
                                  BeforeRequest, BeforeLaunch, Leaving, Request
  <2> QED
    BY <1>1, <2>3, <2>4, <2>5, MoveKeeps DEF Leaving
<1>4. CASE Throw(p, FALSE)
  <2>3. /\ svc' \in [Pids -> ServiceRecord]
        /\ svc'[p].pc = "failing" /\ svc'[p].req = svc[p].req
        /\ svc'[p].effects = svc[p].effects /\ svc'[p].stale = FALSE
        /\ \A q \in Pids \ {p} : svc'[q] = svc[q]
    BY <1>2, <1>4, ServiceThrows, Zenon
  <2>4. ServiceGood(p)'
    BY <1>1, <1>2, <2>3 DEF ServiceGood, ownVars, Alive, NoWorker, BeforeRequest, BeforeLaunch,
                            WithChild, Serving, Leaving
  <2>5. ChildGood(p)' /\ ReportGood(p)'
    BY <1>1, <1>2, <2>3 DEF ServiceGood, ChildGood, ReportGood, ownVars, Alive, NoWorker,
                            BeforeRequest, BeforeLaunch, Leaving
  <2> QED
    BY <1>1, <2>3, <2>4, <2>5, MoveKeeps DEF Leaving
<1>5. CASE /\ svc[p].pc = "plan"
           /\ svc' = [svc EXCEPT ![p] = [@ EXCEPT !.pc = "respond", !.status = "pass"]]
  <2>1. [svc[p] EXCEPT !.pc = "respond", !.status = "pass"] \in ServiceRecord
    BY <1>2, Zenon DEF ServiceRecord, ServicePc, Reply
  <2>2. /\ svc' \in [Pids -> ServiceRecord]
        /\ svc'[p].pc = "respond" /\ svc'[p].req = svc[p].req
        /\ svc'[p].effects = svc[p].effects /\ svc'[p].stale = svc[p].stale
        /\ svc'[p].status = "pass"
        /\ \A q \in Pids \ {p} : svc'[q] = svc[q]
    BY <1>2, <1>5, <2>1 DEF ServiceRecord
  <2>3. Request(p).kind = "plan"
    BY <1>2, <1>5 DEF ReportGood
  <2>4. ServiceGood(p)'
    BY <1>1, <1>2, <1>5, <2>2 DEF ServiceGood, ownVars, Alive, NoWorker, BeforeRequest,
                                  BeforeLaunch, WithChild, Serving, Leaving
  <2>5. ChildGood(p)' /\ ReportGood(p)'
    BY <1>1, <1>2, <1>5, <2>2, <2>3 DEF ServiceGood, ChildGood, ReportGood, ownVars, Alive,
           NoWorker, BeforeRequest, BeforeLaunch, Leaving, Durable, Changing, Request
  <2> QED
    BY <1>1, <1>5, <2>2, <2>4, <2>5, MoveKeeps DEF Leaving
<1> QED
  BY <1>1, <1>3, <1>4, <1>5, Zenon

(* service_start reports RUNNING.                                          *)
LEMMA ServiceStartStep ==
    ASSUME IndInv, NEW p \in Pids, service_start(p)
    PROVE  IndInv'
<1>1. /\ svc \in [Pids -> ServiceRecord] /\ "admit" \in ServicePc /\ svc[p].pc = "starting"
      /\ ServiceGood(p) /\ ChildGood(p) /\ ReportGood(p)
  BY DEF IndInv, TypeOK, ServicePc, service_start
<1>2. UNCHANGED <<client, control, pipe, worker, wire, guard, disk, wrote, lost, faults>>
  BY DEF service_start, clientVars, engineVars
<1>3. /\ svc' \in [Pids -> ServiceRecord]
      /\ svc'[p].pc = "admit" /\ svc'[p].req = svc[p].req
      /\ svc'[p].effects = svc[p].effects /\ svc'[p].stale = svc[p].stale
      /\ \A q \in Pids \ {p} : svc'[q] = svc[q]
  BY <1>1, ServiceMoves, Zenon DEF service_start, Step
<1>4. scm' \in [state : {"stopped", "start_pending", "running"}, pid : 0 .. MaxPid]
  BY DEF service_start, IndInv, TypeOK
<1>5. TypeOK'
  BY <1>2, <1>3, <1>4 DEF IndInv, TypeOK
<1>6. StepOf(p)
  BY <1>2, <1>3, SMTT(40) DEF StepOf
<1>7. ServiceGood(p)' /\ ChildGood(p)' /\ ReportGood(p)'
  BY <1>1, <1>2, <1>3 DEF ServiceGood, ChildGood, ReportGood, Alive, NoWorker, BeforeRequest,
                          BeforeLaunch, WithChild, Serving, Leaving
<1> QED
  BY <1>1, <1>2, <1>3, <1>5, <1>6, <1>7, ServiceStepKeeps DEF Leaving

(* RegisteredPublisherAdmission takes the control lock or ends the service.*)
LEMMA AdmitStep ==
    ASSUME IndInv, NEW p \in Pids, admit(p)
    PROVE  IndInv'
<1>1. /\ svc \in [Pids -> ServiceRecord] /\ svc[p].pc = "admit"
      /\ ServiceGood(p) /\ ChildGood(p) /\ ReportGood(p)
  BY Zenon DEF IndInv, TypeOK, admit
<1>2. UNCHANGED <<client, scm, pipe, worker, wire, guard, disk, wrote, lost, faults>>
  BY DEF admit, clientVars, engineVars
<1>3. \/ control = 0 /\ control' = p /\ Step(p, "open")
      \/ control' = control /\ Step(p, "stopping")
  BY DEF admit, ServiceControlGuard
<1>4. PICK c \in {"open", "stopping"} :
         Step(p, c) /\ (c = "open" => control = 0 /\ control' = p)
                    /\ (c = "stopping" => control' = control)
  BY <1>3
<1>5. /\ svc' \in [Pids -> ServiceRecord]
      /\ svc'[p].pc = c /\ svc'[p].req = svc[p].req
      /\ svc'[p].effects = svc[p].effects /\ svc'[p].stale = svc[p].stale
      /\ \A q \in Pids \ {p} : svc'[q] = svc[q]
  <2>1. c \in ServicePc
    BY SMTT(40) DEF ServicePc
  <2> QED
    BY <1>1, <1>4, <2>1, ServiceMoves, Zenon DEF Step
<1>6. control' \in 0 .. MaxPid /\ \A q \in Pids \ {p} : control = q => control' = q
  BY <1>4, ServiceAssumption DEF IndInv, TypeOK, Pids
<1>7. TypeOK'
  BY <1>2, <1>5, <1>6 DEF IndInv, TypeOK
<1>8. StepOf(p)
  BY <1>2, <1>5, <1>6, SMTT(40) DEF StepOf
<1>9. ServiceGood(p)'
  BY <1>1, <1>2, <1>4, <1>5, SMTT(40) DEF ServiceGood, Alive, NoWorker, BeforeRequest, BeforeLaunch,
                                WithChild, Serving, Leaving
<1>10. ChildGood(p)' /\ ReportGood(p)'
  BY <1>1, <1>2, <1>5 DEF ServiceGood, ChildGood, ReportGood, Alive, NoWorker, BeforeRequest,
                          BeforeLaunch, Leaving
<1> QED
  BY <1>1, <1>2, <1>5, <1>7, <1>8, <1>9, <1>10, ServiceStepKeeps DEF Leaving

(* PublisherRequestChannel creates the one pipe instance, empty, or fails. *)
LEMMA OpenChannelStep ==
    ASSUME IndInv, NEW p \in Pids, open_channel(p)
    PROVE  IndInv'
<1>1. /\ svc \in [Pids -> ServiceRecord] /\ svc[p].pc = "open"
      /\ ServiceGood(p) /\ ChildGood(p) /\ ReportGood(p)
  BY DEF IndInv, TypeOK, open_channel
<1>2. UNCHANGED <<client, scm, control, worker, wire, guard, disk, wrote, lost, faults>>
  BY DEF open_channel, clientVars, engineVars
<1>3. PICK c \in {"listen", "stopping"} :
         /\ Step(p, c)
         /\ c = "listen" => pipe.owner = 0 /\ pipe' = [Closed EXCEPT !.owner = p]
         /\ c = "stopping" => pipe' = pipe
  BY DEF open_channel
<1>4. /\ svc' \in [Pids -> ServiceRecord]
      /\ svc'[p].pc = c /\ svc'[p].req = svc[p].req
      /\ svc'[p].effects = svc[p].effects /\ svc'[p].stale = svc[p].stale
      /\ \A q \in Pids \ {p} : svc'[q] = svc[q]
  <2>1. c \in ServicePc
    BY DEF ServicePc
  <2> QED
    BY <1>1, <1>3, <2>1, ServiceMoves, Zenon DEF Step
<1>5. /\ pipe' \in [owner : 0 .. MaxPid, peer : Attempts \cup {None}, sent : BOOLEAN]
      /\ \A q \in Pids \ {p} : pipe.owner = q => pipe'.owner = q
      /\ pipe' = pipe \/ ~pipe'.sent
      /\ c = "listen" => ~pipe'.sent /\ pipe'.owner = p
  <2>1. CASE c = "listen"
    <3>1. pipe' = [owner |-> p, peer |-> None, sent |-> FALSE]
      BY <1>3, <2>1 DEF Closed
    <3>2. p \in 0 .. MaxPid
      BY ServiceAssumption DEF Pids
    <3> QED
      BY <1>3, <2>1, <3>1, <3>2, ServiceAssumption DEF Pids
  <2>2. CASE c = "stopping"
    BY <1>3, <2>2, SMTT(40) DEF IndInv, TypeOK
  <2> QED
    BY <2>1, <2>2
<1>6. TypeOK'
  BY <1>2, <1>4, <1>5, SMTT(40) DEF IndInv, TypeOK
<1>7. StepOf(p)
  BY <1>2, <1>4, <1>5, SMTT(40) DEF StepOf
<1>8. ServiceGood(p)'
  BY <1>1, <1>2, <1>4, <1>5, SMTT(40) DEF ServiceGood, Alive, NoWorker, BeforeRequest, BeforeLaunch,
                                WithChild, Serving, Leaving
<1>9. ChildGood(p)' /\ ReportGood(p)'
  BY <1>1, <1>2, <1>4 DEF ServiceGood, ChildGood, ReportGood, Alive, NoWorker, BeforeRequest,
                          BeforeLaunch, Leaving
<1> QED
  BY <1>1, <1>2, <1>4, <1>5, <1>6, <1>7, <1>8, <1>9, ServiceStepKeeps DEF Leaving

(* The one request is received: it was pending, so nobody else has it.     *)
LEMMA ReceiveStep ==
    ASSUME IndInv, NEW p \in Pids, receive(p)
    PROVE  IndInv'
<1> DEFINE r == pipe.peer
<1>1. /\ svc \in [Pids -> ServiceRecord] /\ svc[p].pc = "listen" /\ pipe.sent
      /\ ServiceGood(p) /\ ChildGood(p) /\ ReportGood(p)
  BY DEF IndInv, TypeOK, receive
<1>2. UNCHANGED ownVars
  BY DEF receive, clientVars, engineVars, ownVars
<1>3. r \in Attempts
  BY <1>1 DEF IndInv, TypeOK, Bound
<1>4. /\ client[r].mail = "none" /\ client[r].outcome \notin {"completed", "refused"}
      /\ r \notin wrote /\ \A q \in Pids : svc[q].req # r
  <2>1. Pending(r)
    BY <1>1, SMTT(40) DEF Pending
  <2> QED
    BY <1>3, <2>1 DEF IndInv, ClientGood
<1>5. client[r].pc \notin Fresh /\ client[r].outcome # "invalid"
  BY <1>1, <1>3 DEF IndInv, ClientGood, Unheard
<1>6. /\ svc' \in [Pids -> ServiceRecord]
      /\ svc'[p].pc = "dispatch" /\ svc'[p].req = r
      /\ svc'[p].effects = svc[p].effects /\ svc'[p].stale = svc[p].stale
      /\ \A q \in Pids \ {p} : svc'[q] = svc[q]
  <2>1. svc' = [svc EXCEPT ![p] = [svc[p] EXCEPT !.pc = "dispatch", !.req = r]]
    BY DEF receive
  <2>2. [svc[p] EXCEPT !.pc = "dispatch", !.req = r] \in ServiceRecord
    BY <1>1, <1>3, ZenonT(40) DEF ServiceRecord, ServicePc
  <2> QED
    BY <1>1, <2>1, <2>2 DEF ServiceRecord
<1> HIDE DEF r
<1>7. TypeOK'
  BY <1>2, <1>6, SMTT(40) DEF IndInv, TypeOK, ownVars
<1>8. StepOf(p)
  BY <1>2, <1>6 DEF StepOf, ownVars
<1>9. r # None
  BY <1>3, ServiceAssumption, SMTT(40)
<1>10. Bound'
  BY <1>2, <1>4, <1>6, <1>9 DEF IndInv, Bound, ownVars
<1>11. ServiceGood(p)'
  BY <1>1, <1>2, <1>6, <1>9, SMTT(40) DEF ServiceGood, Alive, NoWorker, BeforeRequest, BeforeLaunch,
                                WithChild, Serving, Leaving, ownVars
<1>12. ChildGood(p)' /\ ReportGood(p)'
  BY <1>1, <1>2, <1>4, <1>6 DEF ServiceGood, ChildGood, ReportGood, Alive, NoWorker, BeforeRequest,
                          BeforeLaunch, Leaving, ownVars
<1>13. ASSUME NEW b \in Attempts PROVE ClientGood(b)'
  <2>1. ClientGood(b) /\ b # None
    BY ServiceAssumption DEF IndInv
  <2>2. Durable(b) => Durable(b)'
    BY <1>2 DEF Durable, ownVars
  <2>3. ~Pending(b)'
    <3>1. \A q \in Pids \ {p} : svc[q].pc # "listen"
      BY <1>1, SMTT(40) DEF IndInv, ServiceGood
    <3> QED
      BY <1>6, <3>1, SMTT(40) DEF Pending
  <2>4. CASE b = r
    BY <1>2, <1>4, <1>5, <2>1, <2>2, <2>3, <2>4, SMTT(40) DEF ClientGood, ownVars
  <2>5. CASE b # r
    <3>1. \A q \in Pids : svc'[q].req = b => svc[q].req = b /\ svc'[q] = svc[q]
      BY <1>6, <2>5
    <3>2. Unheard(b) => Unheard(b)'
      BY <1>2, <3>1 DEF Unheard, ownVars
    <3>3. \A q \in Pids : Alive(q)' = Alive(q)
      BY <1>2 DEF Alive, ownVars
    <3> QED
      BY <1>2, <2>1, <2>2, <2>3, <3>1, <3>2, <3>3 DEF ClientGood, ownVars
  <2> QED
    BY <2>4, <2>5
<1>14. \A q \in Pids : ServiceGood(q)' /\ ChildGood(q)' /\ ReportGood(q)'
  BY <1>7, <1>8, <1>11, <1>12, OthersKept
<1> QED
  BY <1>7, <1>10, <1>13, <1>14 DEF IndInv, Pids

(* PublisherEffectWorkerCustody: effects_may_exist is raised, the child is *)
(* created or its construction fails.                                      *)
LEMMA LaunchStep ==
    ASSUME IndInv, NEW p \in Pids, launch_effect_worker(p)
    PROVE  IndInv'
<1>1. /\ svc \in [Pids -> ServiceRecord] /\ worker \in [Pids -> WorkerRecord]
      /\ svc[p].pc = "launch" /\ ServiceGood(p) /\ ChildGood(p) /\ ReportGood(p)
  BY DEF IndInv, TypeOK, launch_effect_worker
<1>2. UNCHANGED <<client, scm, control, pipe, wire, guard, disk, wrote, lost, faults>>
  BY DEF launch_effect_worker, clientVars, engineVars
<1>3. PICK c \in {"baseline", "failing"} :
         /\ svc' = [svc EXCEPT ![p] = [svc[p] EXCEPT !.pc = c, !.effects = TRUE]]
         /\ c = "baseline" => worker' = [worker EXCEPT ![p].pc = "attach"]
         /\ c = "failing" => worker' = worker
  BY DEF launch_effect_worker, PublisherEffectWorkerCustody
<1>4. /\ svc' \in [Pids -> ServiceRecord]
      /\ svc'[p].pc = c /\ svc'[p].req = svc[p].req
      /\ svc'[p].effects /\ svc'[p].stale = svc[p].stale
      /\ \A q \in Pids \ {p} : svc'[q] = svc[q]
  <2>1. [svc[p] EXCEPT !.pc = c, !.effects = TRUE] \in ServiceRecord
    BY <1>1, Zenon DEF ServiceRecord, ServicePc
  <2> QED
    BY <1>1, <1>3, <2>1 DEF ServiceRecord
<1>5. /\ worker' \in [Pids -> WorkerRecord]
      /\ worker'[p].pc = IF c = "baseline" THEN "attach" ELSE "none"
      /\ ~worker'[p].effects /\ worker'[p].result = "none"
      /\ \A q \in Pids \ {p} : worker'[q] = worker[q]
  <2>1. worker[p].pc = "none" /\ ~worker[p].effects /\ worker[p].result = "none"
    BY <1>1 DEF ServiceGood, BeforeLaunch, NoWorker
  <2>2. CASE c = "baseline"
    <3>1. "attach" \in WorkerPc
      BY DEF WorkerPc
    <3> QED
      BY <1>1, <1>3, <2>1, <2>2, <3>1, WorkerMoves
  <2>3. CASE c = "failing"
    BY <1>1, <1>3, <2>1, <2>3
  <2> QED
    BY <2>2, <2>3
<1>6. TypeOK'
  BY <1>2, <1>4, <1>5, SMTT(40) DEF IndInv, TypeOK
<1>7. StepOf(p)
  BY <1>2, <1>4, <1>5, SMTT(40) DEF StepOf
<1>8. svc[p].req # None /\ svc[p].req \notin wrote /\ wire[p] = "idle" /\ p \notin lost
      /\ ~svc[p].stale
  BY <1>1, SMTT(40) DEF ServiceGood, ChildGood, ReportGood, BeforeLaunch, Serving, NoWorker, Leaving
<1>9. ServiceGood(p)'
  BY <1>1, <1>2, <1>4, <1>5, <1>8, SMTT(40) DEF ServiceGood, Alive, BeforeRequest, BeforeLaunch,
                                WithChild, Serving, Leaving
<1>10. ChildGood(p)' /\ ReportGood(p)'
  BY <1>2, <1>4, <1>5, <1>8 DEF ChildGood, ReportGood
<1> QED
  BY <1>1, <1>2, <1>4, <1>6, <1>7, <1>9, <1>10, ServiceStepKeeps DEF Leaving

(* The broker observes its baseline; a recovery without an original intent *)
(* is refused before the child got an answer.                              *)
LEMMA BrokerBaselineStep ==
    ASSUME IndInv, NEW p \in Pids, broker_baseline(p)
    PROVE  IndInv'
<1>1. /\ svc \in [Pids -> ServiceRecord] /\ svc[p].pc = "baseline"
      /\ ServiceGood(p) /\ ChildGood(p) /\ ReportGood(p) /\ UNCHANGED ownVars
  BY DEF IndInv, TypeOK, broker_baseline, ownVars, clientVars, engineVars
<1>2. CASE \E c \in {"broker", "abort"} : Step(p, c)
  <2>1. PICK c \in {"broker", "abort"} : Step(p, c)
    BY <1>2
  <2>2. /\ svc' \in [Pids -> ServiceRecord]
        /\ svc'[p].pc = c /\ svc'[p].req = svc[p].req
        /\ svc'[p].effects = svc[p].effects /\ svc'[p].stale = svc[p].stale
        /\ \A q \in Pids \ {p} : svc'[q] = svc[q]
    <3>1. c \in ServicePc
      BY SMTT(40) DEF ServicePc
    <3> QED
      BY <1>1, <2>1, <3>1, ServiceMoves, Zenon DEF Step
  <2>3. ServiceGood(p)'
    BY <1>1, <2>2 DEF ServiceGood, ownVars, Alive, BeforeRequest, BeforeLaunch,
                      WithChild, Serving, Leaving
  <2>4. ChildGood(p)' /\ ReportGood(p)'
    BY <1>1, <2>2, Zenon DEF ChildGood, ReportGood, ownVars, Durable, Leaving
  <2> QED
    BY <1>1, <2>2, <2>3, <2>4, MoveKeeps DEF Leaving
<1>3. CASE svc' = [svc EXCEPT ![p] = [svc[p] EXCEPT !.pc = "abort", !.stale = TRUE]]
  <2>1. [svc[p] EXCEPT !.pc = "abort", !.stale = TRUE] \in ServiceRecord
    BY <1>1, Zenon DEF ServiceRecord, ServicePc
  <2>2. /\ svc' \in [Pids -> ServiceRecord]
        /\ svc'[p].pc = "abort" /\ svc'[p].req = svc[p].req
        /\ svc'[p].effects = svc[p].effects /\ svc'[p].stale
        /\ \A q \in Pids \ {p} : svc'[q] = svc[q]
    BY <1>1, <1>3, <2>1 DEF ServiceRecord
  <2>3. ServiceGood(p)'
    BY <1>1, <2>2, Zenon DEF ServiceGood, ownVars, Alive, BeforeRequest, BeforeLaunch,
                      WithChild, Serving, Leaving
  <2>4. ChildGood(p)' /\ ReportGood(p)'
    BY <1>1, <2>2, Zenon DEF ChildGood, ReportGood, ownVars, Durable, Leaving
  <2> QED
    BY <1>1, <2>2, <2>3, <2>4, MoveKeeps DEF Leaving
<1> QED
  BY <1>2, <1>3 DEF broker_baseline

(* The broker answers a readback of its child.                             *)
LEMMA AnswerStep ==
    ASSUME IndInv, NEW p \in Pids, respond_to_one_packet(p)
    PROVE  IndInv'
<1>1. /\ svc[p].pc = "broker"
      /\ ServiceGood(p) /\ ChildGood(p) /\ ReportGood(p)
  BY SMTT(40) DEF IndInv, respond_to_one_packet
<1>2. /\ UNCHANGED <<client, scm, svc, control, pipe, worker, guard, disk, wrote, lost, faults>>
      /\ wire' = [wire EXCEPT ![p] = "answer"]
  BY DEF respond_to_one_packet, clientVars, engineVars
<1>3. TypeOK'
  BY <1>2, Zenon DEF IndInv, TypeOK
<1>4. StepOf(p)
  BY <1>2, Zenon DEF StepOf, IndInv, TypeOK
<1>5. ServiceGood(p)'
  BY <1>1, <1>2, Zenon DEF ServiceGood, Alive, BeforeRequest, BeforeLaunch
<1>6. ChildGood(p)' /\ ReportGood(p)'
  BY <1>1, <1>2, Zenon DEF ChildGood, ReportGood, Durable, Alive, Request
<1> QED
  BY <1>1, <1>2, <1>3, <1>4, <1>5, <1>6, ServiceStepKeeps, Zenon DEF Leaving

(* The exchange ends, by the terminal or by a failure.                     *)
LEMMA ExchangeEndsStep ==
    ASSUME IndInv, NEW p \in Pids, accept_terminal(p) \/ broker_abort(p)
    PROVE  IndInv'
<1>1. /\ svc \in [Pids -> ServiceRecord] /\ svc[p].pc = "broker" /\ UNCHANGED ownVars
      /\ ServiceGood(p) /\ ChildGood(p) /\ ReportGood(p)
  BY Zenon DEF IndInv, TypeOK, accept_terminal, broker_abort, ownVars, clientVars, engineVars
<1>2. PICK c \in {"close", "abort"} : Step(p, c)
  BY DEF accept_terminal, broker_abort
<1>3. /\ svc' \in [Pids -> ServiceRecord]
      /\ svc'[p].pc = c /\ svc'[p].req = svc[p].req
      /\ svc'[p].effects = svc[p].effects /\ svc'[p].stale = svc[p].stale
      /\ \A q \in Pids \ {p} : svc'[q] = svc[q]
  <2>1. c \in ServicePc
    BY DEF ServicePc
  <2> QED
    BY <1>1, <1>2, <2>1, ServiceMoves, Zenon DEF Step
<1>4. ~svc[p].stale
  BY <1>1, SMTT(40) DEF ReportGood, Leaving
<1>5. ServiceGood(p)'
  BY <1>1, <1>3 DEF ServiceGood, ownVars, Alive, BeforeRequest, BeforeLaunch,
                    WithChild, Serving, Leaving
<1>6. ChildGood(p)' /\ ReportGood(p)'
  BY <1>1, <1>3, <1>4, Zenon DEF ChildGood, ReportGood, ownVars, Durable
<1> QED
  BY <1>1, <1>3, <1>5, <1>6, MoveKeeps DEF Leaving

(* The child is closed without confirmation: its process gives it up as    *)
(* lost and will report recovery_required.                                 *)
LEMMA CloseUnconfirmedStep ==
    ASSUME IndInv, NEW p \in Pids, CloseUnconfirmed(p)
    PROVE  IndInv'
<1>1. /\ svc \in [Pids -> ServiceRecord] /\ svc[p].pc \in {"close", "abort"}
      /\ ServiceGood(p) /\ ChildGood(p) /\ ReportGood(p)
  BY Zenon DEF IndInv, TypeOK, CloseUnconfirmed
<1>2. /\ UNCHANGED <<client, scm, control, pipe, worker, wire, guard, disk, wrote>>
      /\ lost' = lost \cup {p} /\ faults' = faults + 1 /\ faults < MaxFaults
  BY DEF CloseUnconfirmed, engineVars
<1>3. /\ svc' \in [Pids -> ServiceRecord]
      /\ svc'[p].pc = "failing" /\ svc'[p].req = svc[p].req
      /\ svc'[p].effects = svc[p].effects /\ svc'[p].stale = FALSE
      /\ \A q \in Pids \ {p} : svc'[q] = svc[q]
  BY <1>1, ServiceThrows, Zenon DEF CloseUnconfirmed
<1>4. TypeOK'
  <2>1. faults' \in 0 .. MaxFaults
    <3>1. faults \in 0 .. MaxFaults
      BY Zenon DEF IndInv, TypeOK
    <3> QED
      BY <1>2, <3>1, FaultTaken
  <2>2. lost' \subseteq Pids
    BY <1>2, ZenonT(40) DEF IndInv, TypeOK
  <2> QED
    BY <1>2, <1>3, <2>1, <2>2, Zenon DEF IndInv, TypeOK
<1>5. StepOf(p)
  BY <1>2, <1>3, Zenon DEF StepOf
<1>6. ServiceGood(p)'
  BY <1>1, <1>2, <1>3, SMTT(40) DEF ServiceGood, Alive, BeforeRequest, BeforeLaunch,
                          WithChild, Serving, Leaving
<1>7. ChildGood(p)' /\ ReportGood(p)'
  BY <1>1, <1>2, <1>3, Zenon DEF ServiceGood, ChildGood, ReportGood, Durable, WithChild
<1> QED
  BY <1>1, <1>2, <1>3, <1>4, <1>5, <1>6, <1>7, ServiceStepKeeps DEF Leaving

(* The child is killed and its process throws: abort, and the volume       *)
(* handle that does not close.                                             *)
LEMMA AbortStep ==
    ASSUME IndInv, NEW p \in Pids, abort(p) \/ CloseVolumeUnconfirmed(p)
    PROVE  IndInv'
<1>1. /\ svc \in [Pids -> ServiceRecord] /\ worker \in [Pids -> WorkerRecord]
      /\ svc[p].pc \in {"close", "abort"}
      /\ ServiceGood(p) /\ ChildGood(p) /\ ReportGood(p)
  BY Zenon DEF IndInv, TypeOK, CloseVolumeUnconfirmed, abort
<1>2. /\ UNCHANGED <<client, scm, control, pipe, disk, wrote, lost>>
      /\ faults' \in 0 .. MaxFaults
  <2>1. faults \in 0 .. MaxFaults
    BY Zenon DEF IndInv, TypeOK
  <2>2. CASE abort(p)
    BY <2>1, <2>2, Zenon DEF abort, clientVars
  <2>3. CASE CloseVolumeUnconfirmed(p)
    <3>1. faults < MaxFaults /\ faults' = faults + 1
      BY <2>3, Zenon DEF CloseVolumeUnconfirmed
    <3>2. UNCHANGED <<client, scm, control, pipe, disk, wrote, lost>>
      BY <2>3, Zenon DEF CloseVolumeUnconfirmed
    <3> QED
      BY <2>1, <3>1, <3>2, FaultTaken
  <2> QED
    BY <2>2, <2>3
<1>3. Kill(p)
  BY Zenon DEF CloseVolumeUnconfirmed, abort
<1>4. PICK t \in BOOLEAN : Throw(p, t) /\ (t => svc[p].stale)
  <2>1. CASE abort(p)
    <3>1. svc[p].stale \in BOOLEAN
      BY <1>1 DEF ServiceRecord
    <3> QED
      BY <2>1, <3>1 DEF abort
  <2>2. CASE CloseVolumeUnconfirmed(p)
    BY <2>2, Zenon DEF CloseVolumeUnconfirmed
  <2> QED
    BY <2>1, <2>2, SMTT(40)
<1>5. /\ svc' \in [Pids -> ServiceRecord]
      /\ svc'[p].pc = "failing" /\ svc'[p].req = svc[p].req
      /\ svc'[p].effects = svc[p].effects /\ svc'[p].stale = t
      /\ \A q \in Pids \ {p} : svc'[q] = svc[q]
  BY <1>1, <1>4, ServiceThrows
<1>6. /\ worker' \in [Pids -> WorkerRecord]
      /\ worker'[p].pc = IF Alive(p) THEN "dead" ELSE worker[p].pc
      /\ worker'[p].effects = worker[p].effects /\ worker'[p].result = worker[p].result
      /\ ~Alive(p)'
      /\ \A q \in Pids \ {p} : worker'[q] = worker[q]
  BY <1>1, <1>3, WorkerKilled
<1>7. wire' = [wire EXCEPT ![p] = "idle"] /\ guard' \in {guard, 0}
  BY <1>3, SMTT(40) DEF Kill
<1>8. TypeOK'
  BY <1>2, <1>5, <1>6, <1>7, ServiceAssumption DEF IndInv, TypeOK
<1>9. StepOf(p)
  BY <1>2, <1>5, <1>6, <1>7, Zenon DEF StepOf, IndInv, TypeOK
<1>10. ServiceGood(p)'
  BY <1>1, <1>2, <1>5, <1>6, Zenon DEF ServiceGood, BeforeRequest, BeforeLaunch,
                                WithChild, Serving, Leaving
<1>11. worker'[p].pc \in {worker[p].pc, "dead"}
  BY <1>6
<1>12. ChildGood(p)'
  BY <1>1, <1>2, <1>5, <1>6, <1>11, Zenon DEF ServiceGood, ChildGood, Durable
<1>13. ReportGood(p)'
  BY <1>1, <1>2, <1>4, <1>5, <1>6, Zenon DEF ServiceGood, ReportGood, WithChild, Leaving
<1> QED
  BY <1>1, <1>2, <1>5, <1>8, <1>9, <1>10, <1>12, <1>13, ServiceStepKeeps DEF Leaving

(* A confirmed end after the terminal narrows effects_may_exist.           *)
LEMMA CloseStep ==
    ASSUME IndInv, NEW p \in Pids, close(p)
    PROVE  IndInv'
<1> DEFINE u == TerminalStatus(worker[p])
<1>1. /\ svc \in [Pids -> ServiceRecord] /\ worker \in [Pids -> WorkerRecord]
      /\ svc[p].pc = "close" /\ Kill(p)
      /\ ServiceGood(p) /\ ChildGood(p) /\ ReportGood(p)
  BY DEF IndInv, TypeOK, close
<1>2. UNCHANGED <<client, scm, control, pipe, disk, wrote, lost, faults>>
  BY SMTT(40) DEF close, clientVars
<1>3. svc[p].req # None /\ ~svc[p].stale /\ p \notin lost
  BY <1>1 DEF ServiceGood, ReportGood, Serving, WithChild, Leaving
<1>4. /\ u \in Reply /\ u # "none"
      /\ u = "pass" => Durable(svc[p].req)
      /\ u = "failed" => svc[p].req \notin wrote
  BY <1>1, <1>3 DEF TerminalStatus, Reply, ChildGood
<1>5. /\ svc' \in [Pids -> ServiceRecord]
      /\ svc'[p].pc = "respond" /\ svc'[p].req = svc[p].req
      /\ svc'[p].effects = worker[p].effects /\ svc'[p].stale = svc[p].stale
      /\ svc'[p].status = u
      /\ \A q \in Pids \ {p} : svc'[q] = svc[q]
  <2>1. worker[p].effects \in BOOLEAN
    BY <1>1 DEF WorkerRecord
  <2>2. svc' = [svc EXCEPT ![p] = [svc[p] EXCEPT !.pc = "respond",
                  !.effects = worker[p].effects, !.status = u]]
    BY DEF close
  <2> HIDE DEF u
  <2>3. [svc[p] EXCEPT !.pc = "respond", !.effects = worker[p].effects, !.status = u]
          \in ServiceRecord
    BY <1>1, <1>4, <2>1, Zenon DEF ServiceRecord, ServicePc
  <2> QED
    BY <1>1, <2>2, <2>3 DEF ServiceRecord
<1> HIDE DEF u
<1>6. /\ worker' \in [Pids -> WorkerRecord]
      /\ worker'[p].pc = IF Alive(p) THEN "dead" ELSE worker[p].pc
      /\ worker'[p].effects = worker[p].effects /\ worker'[p].result = worker[p].result
      /\ ~Alive(p)'
      /\ \A q \in Pids \ {p} : worker'[q] = worker[q]
  BY <1>1, WorkerKilled
<1>7. wire' = [wire EXCEPT ![p] = "idle"] /\ guard' \in {guard, 0}
  BY <1>1, SMTT(40) DEF Kill
<1>8. TypeOK'
  BY <1>2, <1>5, <1>6, <1>7, ServiceAssumption DEF IndInv, TypeOK
<1>9. StepOf(p)
  BY <1>2, <1>5, <1>6, <1>7, Zenon DEF StepOf, IndInv, TypeOK
<1>10. ServiceGood(p)'
  BY <1>1, <1>2, <1>3, <1>5, <1>6, Zenon DEF ServiceGood, BeforeRequest, BeforeLaunch,
                                WithChild, Serving, Leaving
<1>11. worker'[p].pc \in {worker[p].pc, "dead"}
  BY <1>6
<1>12. ChildGood(p)'
  BY <1>1, <1>2, <1>5, <1>6, <1>11, Zenon DEF ChildGood, Durable
<1>13. ReportGood(p)'
  BY <1>1, <1>2, <1>3, <1>4, <1>5, Zenon DEF ReportGood, ChildGood, Durable
<1> QED
  BY <1>1, <1>2, <1>5, <1>8, <1>9, <1>10, <1>12, <1>13, ServiceStepKeeps, Zenon DEF Leaving

(* The way out: STOPPED is reported, the lock and then the pipe released.  *)
LEMMA UnwindStep ==
    ASSUME IndInv, NEW p \in Pids,
           service_stop(p) \/ release_admission(p) \/ release_channel(p)
    PROVE  IndInv'
<1>1. /\ svc \in [Pids -> ServiceRecord] /\ svc[p].pc \in {"stopping", "release", "unpipe"}
      /\ ServiceGood(p) /\ ChildGood(p) /\ ReportGood(p)
  BY DEF IndInv, TypeOK, service_stop, release_admission, release_channel
<1>2. UNCHANGED <<client, worker, wire, guard, disk, wrote, lost, faults>>
  BY SMTT(40) DEF service_stop, release_admission, release_channel, clientVars, engineVars
<1>3. PICK c \in {"release", "unpipe", "exit"} : Step(p, c)
  BY DEF service_stop, release_admission, release_channel
<1>4. /\ svc' \in [Pids -> ServiceRecord]
      /\ svc'[p].pc = c /\ svc'[p].req = svc[p].req
      /\ svc'[p].effects = svc[p].effects /\ svc'[p].stale = svc[p].stale
      /\ \A q \in Pids \ {p} : svc'[q] = svc[q]
  <2>1. c \in ServicePc
    BY SMTT(40) DEF ServicePc
  <2> QED
    BY <1>1, <1>3, <2>1, ServiceMoves, Zenon DEF Step
<1>5. scm' \in [state : {"stopped", "start_pending", "running"}, pid : 0 .. MaxPid]
  BY ServiceAssumption, SMTT(40) DEF IndInv, TypeOK, service_stop, release_admission, release_channel
<1>6. control' \in 0 .. MaxPid /\ \A q \in Pids \ {p} : control = q => control' = q
  BY ServiceAssumption DEF IndInv, TypeOK, service_stop, release_admission, release_channel
<1>7. /\ pipe' \in [owner : 0 .. MaxPid, peer : Attempts \cup {None}, sent : BOOLEAN]
      /\ \A q \in Pids \ {p} : pipe.owner = q => pipe'.owner = q
      /\ pipe' = pipe \/ ~pipe'.sent
  <2>1. CASE pipe' = pipe
    BY <2>1 DEF IndInv, TypeOK
  <2>2. CASE pipe' # pipe
    <3>1. pipe' = Closed /\ pipe.owner = p
      BY <2>2, SMTT(40) DEF service_stop, release_admission, release_channel
    <3> QED
      BY <3>1, ServiceAssumption DEF Closed
  <2> QED
    BY <2>1, <2>2
<1>8. TypeOK'
  BY <1>2, <1>4, <1>5, <1>6, <1>7, SMTT(40) DEF IndInv, TypeOK
<1>9. StepOf(p)
  BY <1>2, <1>4, <1>6, <1>7, Zenon DEF StepOf
<1>10. ServiceGood(p)'
  BY <1>1, <1>2, <1>4, Zenon DEF ServiceGood, Alive, BeforeRequest, BeforeLaunch,
                          WithChild, Serving, Leaving
<1>11. ChildGood(p)' /\ ReportGood(p)'
  BY <1>1, <1>2, <1>4, ZenonT(40) DEF ServiceGood, ChildGood, ReportGood, Durable, Alive, Leaving
<1>12. svc'[p].pc \in Leaving /\ (Alive(p)' <=> Alive(p)) /\ svc'[p].pc # "listen"
  BY <1>2, <1>4 DEF Leaving, Alive
<1> QED
  BY <1>2, <1>4, <1>7, <1>8, <1>9, <1>10, <1>11, <1>12, ServiceStepKeeps, ZenonT(40)

(* The end of the process, orderly or by a crash, ends its child.          *)
LEMMA ExitStep ==
    ASSUME IndInv, NEW p \in Pids, process_exit(p) \/ CrashService(p)
    PROVE  IndInv'
<1>1. /\ svc' = [svc EXCEPT ![p] = Ended] /\ wire' = [wire EXCEPT ![p] = "idle"]
      /\ worker' = [worker EXCEPT ![p] = [pc |-> "dead", effects |-> FALSE,
                                          result |-> "none"]]
      /\ guard' \in {guard, 0} /\ UNCHANGED <<client, disk, wrote, lost>>
  BY DEF process_exit, CrashService, Exit, clientVars
<1>2. faults' \in 0 .. MaxFaults
  <2>1. faults \in 0 .. MaxFaults
    BY Zenon DEF IndInv, TypeOK
  <2>2. faults' = faults \/ (faults < MaxFaults /\ faults' = faults + 1)
    BY Zenon DEF process_exit, CrashService, clientVars
  <2> HIDE DEF IndInv
  <2> QED
    BY <2>1, <2>2, FaultTaken
<1>3. Ended \in ServiceRecord /\ [pc |-> "dead", effects |-> FALSE, result |-> "none"] \in WorkerRecord
  BY SMTT(40) DEF Ended, ServiceRecord, WorkerRecord, ServicePc, WorkerPc, Reply
<1>4. /\ svc' \in [Pids -> ServiceRecord] /\ worker' \in [Pids -> WorkerRecord]
      /\ \A q \in Pids \ {p} : svc'[q] = svc[q] /\ worker'[q] = worker[q]
      /\ svc'[p] = Ended /\ worker'[p] = [pc |-> "dead", effects |-> FALSE, result |-> "none"]
  BY <1>1, <1>3 DEF IndInv, TypeOK
<1>5. /\ svc'[p].pc = "gone" /\ svc'[p].req = None /\ ~svc'[p].stale
      /\ worker'[p].pc = "dead" /\ ~worker'[p].effects /\ worker'[p].result = "none"
  BY <1>4, SMTT(40) DEF Ended
<1>6. scm' \in [state : {"stopped", "start_pending", "running"}, pid : 0 .. MaxPid]
  BY ServiceAssumption, SMTT(40) DEF IndInv, TypeOK, process_exit, CrashService
<1>7. control' \in 0 .. MaxPid /\ \A q \in Pids \ {p} : control = q => control' = q
  BY ServiceAssumption DEF IndInv, TypeOK, process_exit, CrashService
<1>8. /\ pipe' \in [owner : 0 .. MaxPid, peer : Attempts \cup {None}, sent : BOOLEAN]
      /\ \A q \in Pids \ {p} : pipe.owner = q => pipe'.owner = q
      /\ pipe' = pipe \/ ~pipe'.sent
  <2>1. CASE pipe' = pipe
    BY <2>1 DEF IndInv, TypeOK
  <2>2. CASE pipe' # pipe
    <3>1. pipe' = Closed /\ pipe.owner = p
      BY <2>2, SMTT(40) DEF process_exit, CrashService
    <3> QED
      BY <3>1, ServiceAssumption, SMTT(40) DEF Closed
  <2> QED
    BY <2>1, <2>2, SMTT(40)
<1>9. TypeOK'
  BY <1>1, <1>2, <1>4, <1>6, <1>7, <1>8, ServiceAssumption DEF IndInv, TypeOK
<1>10. StepOf(p)
  BY <1>1, <1>4, <1>7, <1>8, Zenon DEF StepOf, IndInv, TypeOK
<1>11. None \notin wrote
  BY ServiceAssumption, Zenon DEF IndInv, TypeOK
<1>12. ServiceGood(p)'
  BY <1>5, Zenon DEF ServiceGood, Alive, BeforeRequest, BeforeLaunch, WithChild, Serving, Leaving
<1>13. ChildGood(p)' /\ ReportGood(p)'
  BY <1>1, <1>5, <1>11 DEF ChildGood, ReportGood
<1> QED
  BY <1>1, <1>5, <1>8, <1>9, <1>10, <1>12, <1>13, ServiceStepKeeps

(* A reply is delivered, or not, and the process goes on to stop or to its *)
(* catch block: the status was justified, and the child has ended.         *)
LEMMA ReplyStep ==
    ASSUME IndInv, NEW p \in Pids, svc[p].pc \in {"respond", "failing"},
           NEW u \in Reply, u # "none",
           u = "pass" => Durable(svc[p].req),
           u = "failed" => svc[p].req \notin wrote,
           u \in {"pass", "failed"} => ~Alive(p),
           Deliver(p, u) \/ client' = client,
           NEW c \in {"stopping", "failing"},
           svc' \in [Pids -> ServiceRecord],
           svc'[p].pc = c /\ svc'[p].req = svc[p].req /\ svc'[p].effects = svc[p].effects,
           svc'[p].stale => c = "stopping" /\ svc[p].stale,
           c = "failing" => svc[p].pc = "respond",
           \A q \in Pids \ {p} : svc'[q] = svc[q],
           UNCHANGED <<scm, control, pipe, worker, wire, guard, disk, wrote, lost, faults>>
    PROVE  IndInv'
<1> DEFINE a == svc[p].req
<1>1. /\ ServiceGood(p) /\ ChildGood(p) /\ ReportGood(p)
      /\ svc \in [Pids -> ServiceRecord] /\ client \in [Attempts -> ClientRecord]
  BY Zenon DEF IndInv, TypeOK
<1>2. a \in Attempts /\ client[a].op \in Ops /\ a # None
  BY <1>1, HeardNamesOperation, ZenonT(40) DEF ServiceGood, Serving
<1>3. /\ client' \in [Attempts -> ClientRecord]
      /\ \A b \in Attempts \ {a} : client'[b] = client[b]
      /\ client'[a].pc = client[a].pc /\ client'[a].outcome = client[a].outcome
      /\ client'[a].kind = client[a].kind /\ client'[a].op = client[a].op
      /\ \/ client'[a].mail = client[a].mail
         \/ client[a].pc = "read" /\ client'[a].mail = u
  <2>1. CASE client' = client
    BY <1>1, <2>1
  <2>2. CASE client' = [client EXCEPT ![a] = [client[a] EXCEPT !.mail = u, !.from = p]]
             /\ client[a].pc = "read"
    <3>1. p \in 0 .. MaxPid
      BY PidRange, Zenon
    <3>2. [client[a] EXCEPT !.mail = u, !.from = p] \in ClientRecord
      BY <1>1, <1>2, <3>1, Zenon DEF ClientRecord
    <3> QED
      BY <1>1, <1>2, <2>2, <3>2 DEF ClientRecord
  <2> QED
    BY <2>1, <2>2 DEF Deliver
<1>4. TypeOK'
  BY <1>3, Zenon DEF IndInv, TypeOK
<1>5. StepOf(p)
  BY <1>3, Zenon DEF StepOf
<1>6. /\ svc'[p].pc \in Leaving
      /\ \A q \in Pids : Alive(q)' <=> Alive(q)
  BY Zenon DEF Leaving, Alive
<1>7. ServiceGood(p)'
  BY <1>1, <1>6, Zenon DEF ServiceGood, BeforeRequest, BeforeLaunch, WithChild, Serving, Leaving
<1>8. \A b \in Attempts : Durable(b)' <=> Durable(b)
  BY <1>3, ZenonT(40) DEF Durable
<1>9. ChildGood(p)'
  BY <1>1, <1>2, <1>8, Zenon DEF ChildGood
<1>10. ReportGood(p)'
  BY <1>1, <1>6 DEF ReportGood, Leaving
<1>11. Bound'
  BY <1>5, BoundKept
<1>12. ASSUME NEW b \in Attempts PROVE ClientGood(b)'
  <2>1. ClientGood(b)
    BY Zenon DEF IndInv
  <2>2. \A q \in Pids : svc'[q].req = svc[q].req
    BY SMTT(40) DEF Pids
  <2>3. Unheard(b) => Unheard(b)'
    BY <2>2 DEF Unheard
  <2>4. Pending(b)' => Pending(b)
    BY SMTT(40) DEF Pending
  <2>5. \A q \in Pids : svc[q].pc \in Leaving => svc'[q].pc \in Leaving
    BY <1>6
  <2>6. CASE b # a \/ client'[b].mail = client[b].mail
    <3>1. /\ client'[b].pc = client[b].pc /\ client'[b].outcome = client[b].outcome
          /\ client'[b].op = client[b].op /\ client'[b].mail = client[b].mail
      BY <1>3, <2>6, Zenon
    <3> QED
      BY <1>6, <1>8, <2>1, <2>2, <2>3, <2>4, <2>5, <3>1, Zenon DEF ClientGood
  <2>7. CASE b = a /\ client[a].pc = "read" /\ client'[a].mail = u
    <3>1. \A q \in Pids : svc[q].req = a => q = p
      BY <1>2, Zenon DEF IndInv, Bound
    <3>2. ~Pending(a)
      BY <2>1, <2>7, Zenon DEF ClientGood
    <3>3. client[a].outcome # "invalid"
      BY <2>1, <2>7, Zenon DEF ClientGood, Unheard
    <3>4. u \in {"pass", "failed"}
            => \A q \in Pids : svc'[q].req = a => svc'[q].pc \in Leaving /\ ~Alive(q)'
      BY <1>6, <2>2, <3>1, Zenon
    <3>5. client[a].outcome \in {"completed", "refused"}
            => \A q \in Pids : svc'[q].req = a => svc'[q].pc \in Leaving /\ ~Alive(q)'
      BY <1>6, <2>1, <2>2, <2>5, <2>7, Zenon DEF ClientGood
    <3> QED
      BY <1>2, <1>3, <1>8, <2>1, <2>4, <2>7, <3>2, <3>3, <3>4, <3>5, Zenon DEF ClientGood, Fresh
  <2> QED
    BY <1>3, <2>6, <2>7, Zenon
<1>13. \A q \in Pids : ServiceGood(q)' /\ ChildGood(q)' /\ ReportGood(q)'
  BY <1>4, <1>5, <1>7, <1>9, <1>10, OthersKept, Zenon
<1> QED
  BY <1>4, <1>11, <1>12, <1>13, Zenon DEF IndInv, Pids

(* The reply to a terminal or to a plan.                                   *)
LEMMA RespondStep ==
    ASSUME IndInv, NEW p \in Pids, respond(p)
    PROVE  IndInv'
<1>1. /\ svc \in [Pids -> ServiceRecord] /\ svc[p].pc = "respond"
      /\ ServiceGood(p) /\ ChildGood(p) /\ ReportGood(p)
  BY SMTT(40) DEF IndInv, TypeOK, respond
<1>2. UNCHANGED <<scm, control, pipe, worker, wire, guard, disk, wrote, lost, faults>>
  BY DEF respond, engineVars
<1>3. /\ svc[p].status \in Reply /\ svc[p].status # "none" /\ ~Alive(p) /\ ~svc[p].stale
      /\ svc[p].status = "pass" => Durable(svc[p].req)
      /\ svc[p].status = "failed" => svc[p].req \notin wrote
  BY <1>1, Zenon DEF ServiceRecord, ServiceGood, ReportGood, Leaving, WithChild
<1>4. Deliver(p, svc[p].status) \/ client' = client
  BY Zenon DEF respond
<1>5. CASE Step(p, "stopping")
  <2>1. /\ svc' \in [Pids -> ServiceRecord]
        /\ svc'[p].pc = "stopping" /\ svc'[p].req = svc[p].req
        /\ svc'[p].effects = svc[p].effects /\ svc'[p].stale = svc[p].stale
        /\ \A q \in Pids \ {p} : svc'[q] = svc[q]
    <3>1. "stopping" \in ServicePc
      BY SMTT(40) DEF ServicePc
    <3> QED
      BY <1>1, <1>5, <3>1, ServiceMoves, Zenon DEF Step
  <2> QED
    BY <1>1, <1>2, <1>3, <1>4, <2>1, ReplyStep
<1>6. CASE Throw(p, FALSE)
  <2>1. /\ svc' \in [Pids -> ServiceRecord]
        /\ svc'[p].pc = "failing" /\ svc'[p].req = svc[p].req
        /\ svc'[p].effects = svc[p].effects /\ ~svc'[p].stale
        /\ \A q \in Pids \ {p} : svc'[q] = svc[q]
    BY <1>1, <1>6, ServiceThrows, Zenon
  <2> QED
    BY <1>1, <1>2, <1>3, <1>4, <2>1, ReplyStep
<1> QED
  BY <1>5, <1>6, ZenonT(40) DEF respond

(* The reply of service_main's catch block.                                *)
LEMMA CatchStep ==
    ASSUME IndInv, NEW p \in Pids, service_catch(p)
    PROVE  IndInv'
<1> DEFINE u == FailureStatus(svc[p])
<1>1. /\ svc \in [Pids -> ServiceRecord] /\ svc[p].pc = "failing"
      /\ ServiceGood(p) /\ ChildGood(p) /\ ReportGood(p)
  BY DEF IndInv, TypeOK, service_catch
<1>2. UNCHANGED <<scm, control, pipe, worker, wire, guard, disk, wrote, lost, faults>>
  BY DEF service_catch, engineVars
<1>3. /\ u \in {"failed", "recovery_required"}
      /\ u = "failed" => svc[p].stale \/ ~svc[p].effects
  BY DEF FailureStatus
<1>4. u = "failed" => svc[p].req \notin wrote /\ ~Alive(p)
  BY <1>1, <1>3, Zenon DEF ReportGood, ServiceGood, WithChild
<1>5. Deliver(p, u) \/ client' = client
  BY DEF service_catch
<1>6. /\ svc' \in [Pids -> ServiceRecord]
      /\ svc'[p].pc = "stopping" /\ svc'[p].req = svc[p].req
      /\ svc'[p].effects = svc[p].effects /\ svc'[p].stale = svc[p].stale
      /\ \A q \in Pids \ {p} : svc'[q] = svc[q]
  <2>1. "stopping" \in ServicePc
    BY DEF ServicePc
  <2> QED
    BY <1>1, <2>1, ServiceMoves, Zenon DEF Step, service_catch
<1>7. u \in Reply
  BY <1>3, SMTT(40) DEF Reply
<1> HIDE DEF u
<1> QED
  BY <1>1, <1>2, <1>3, <1>4, <1>5, <1>6, <1>7, ReplyStep, SMTT(40)

----------------------------------------------------------------------------
(* The private child.                                                      *)

(* A step of the living child of p that does not write.                    *)
LEMMA ChildKeeps ==
    ASSUME IndInv, NEW p \in Pids, Alive(p),
           UNCHANGED <<client, scm, svc, control, pipe, lost, disk, wrote>>,
           worker' \in [Pids -> WorkerRecord],
           \A q \in Pids \ {p} : worker'[q] = worker[q],
           wire' \in [Pids -> {"idle", "answer", "terminal", "diagnostic"}],
           \A q \in Pids \ {p} : wire'[q] = wire[q],
           guard' \in 0 .. MaxPid, faults' \in 0 .. MaxFaults,
           ChildGood(p)'
    PROVE  IndInv'
<1>1. ServiceGood(p) /\ ReportGood(p)
  BY Zenon DEF IndInv
<1>2. TypeOK'
  BY Zenon DEF IndInv, TypeOK
<1>3. StepOf(p)
  BY Zenon DEF StepOf
<1>4. ServiceGood(p)'
  BY <1>1, Zenon DEF ServiceGood, Alive, BeforeRequest, BeforeLaunch, WithChild, Serving, Leaving, NoWorker
<1>5. ReportGood(p)'
  BY <1>1, Zenon DEF ReportGood, Alive, Request, Durable
<1> QED
  BY <1>2, <1>3, <1>4, <1>5, ServiceStepKeeps, ZenonT(40)

(* The child takes a readback, or not, and moves on before it holds        *)
(* anything; it sends its terminal, or a diagnostic.                       *)
LEMMA ChildMovesStep ==
    ASSUME IndInv, NEW p \in Pids,
           worker_attach(p) \/ worker_admitted(p) \/ worker_terminal(p) \/ worker_diagnostic(p)
    PROVE  IndInv'
<1>1. /\ worker \in [Pids -> WorkerRecord]
      /\ wire \in [Pids -> {"idle", "answer", "terminal", "diagnostic"}]
      /\ guard \in 0 .. MaxPid /\ faults \in 0 .. MaxFaults
      /\ ServiceGood(p) /\ ChildGood(p)
  BY Zenon DEF IndInv, TypeOK
<1>2. /\ UNCHANGED <<client, scm, svc, control, pipe, lost, disk, wrote>>
      /\ guard' \in 0 .. MaxPid /\ faults' \in 0 .. MaxFaults
  <2>1. CASE worker_diagnostic(p)
    BY <1>1, <2>1, ServiceAssumption DEF worker_diagnostic, hostVars
  <2>2. CASE worker_attach(p) \/ worker_admitted(p) \/ worker_terminal(p)
    BY <1>1, <2>2 DEF worker_attach, worker_admitted, worker_terminal, hostVars, engineVars
  <2> QED
    BY <2>1, <2>2
<1>3. PICK c \in {"admit", "engine", "sent"}, m \in {"idle", "answer", "terminal", "diagnostic"} :
         /\ worker' = [worker EXCEPT ![p].pc = c]
         /\ wire' = [wire EXCEPT ![p] = m]
         /\ c = "admit" => worker[p].pc = "attach" /\ m = wire[p]
         /\ c = "engine" => worker[p].pc = "admit" /\ wire[p] = "answer"
         /\ c = "sent" => /\ worker[p].pc \in {"attach", "admit", "engine", "held", "end"}
                          /\ m = "diagnostic" \/ (m = "terminal" /\ wire[p] = "answer")
  <2>1. CASE worker_attach(p)
    <3>1. wire' = [wire EXCEPT ![p] = wire[p]]
      BY <1>1, <2>1 DEF worker_attach
    <3>2. wire[p] \in {"idle", "answer", "terminal", "diagnostic"}
      BY <1>1
    <3> QED
      BY <2>1, <3>1, <3>2, Zenon DEF worker_attach
  <2>2. CASE worker_admitted(p)
    BY <2>2 DEF worker_admitted, Answered
  <2>3. CASE worker_terminal(p)
    BY <2>3 DEF worker_terminal
  <2>4. CASE worker_diagnostic(p)
    BY <2>4 DEF worker_diagnostic
  <2> QED
    BY <2>1, <2>2, <2>3, <2>4
<1>4. /\ worker' \in [Pids -> WorkerRecord]
      /\ worker'[p].pc = c /\ worker'[p].effects = worker[p].effects
      /\ worker'[p].result = worker[p].result
      /\ \A q \in Pids \ {p} : worker'[q] = worker[q]
  <2>1. c \in WorkerPc
    BY DEF WorkerPc
  <2> QED
    BY <1>1, <1>3, <2>1, WorkerMoves, Zenon
<1>5. /\ wire' \in [Pids -> {"idle", "answer", "terminal", "diagnostic"}] /\ wire'[p] = m
      /\ \A q \in Pids \ {p} : wire'[q] = wire[q]
  BY <1>1, <1>3
<1>6. Alive(p)
  BY <1>3 DEF Alive
<1>7. ChildGood(p)'
  <2>1. Durable(svc[p].req)' <=> Durable(svc[p].req)
    BY <1>2, Zenon DEF Durable
  <2> QED
    BY <1>1, <1>2, <1>3, <1>4, <1>5, <2>1 DEF ChildGood
<1> QED
  BY <1>2, <1>4, <1>5, <1>6, <1>7, ChildKeeps, Zenon

(* The engine ends: what it reports of its effects is the truth.           *)
LEMMA EngineEndsStep ==
    ASSUME IndInv, NEW p \in Pids,
           \/ engine_refuse(p) \/ engine_verify(p) \/ engine_stale(p)
           \/ engine_prepublication(p) \/ engine_finish(p) \/ engine_throw(p)
    PROVE  IndInv'
<1>1. /\ worker \in [Pids -> WorkerRecord]
      /\ wire \in [Pids -> {"idle", "answer", "terminal", "diagnostic"}]
      /\ guard \in 0 .. MaxPid /\ faults \in 0 .. MaxFaults
      /\ ServiceGood(p) /\ ChildGood(p)
  BY Zenon DEF IndInv, TypeOK
<1>2. /\ UNCHANGED <<client, scm, svc, control, pipe, lost, disk, wrote>>
      /\ faults' \in 0 .. MaxFaults
  <2>1. CASE engine_throw(p)
    BY <1>1, <2>1, ServiceAssumption DEF engine_throw, hostVars
  <2>2. CASE \/ engine_refuse(p) \/ engine_verify(p) \/ engine_stale(p)
             \/ engine_prepublication(p) \/ engine_finish(p)
    BY <1>1, <2>2, Zenon DEF engine_refuse, engine_verify, engine_stale, engine_prepublication,
                      engine_finish, hostVars
  <2> QED
    BY <2>1, <2>2
<1>3. /\ wire' \in [Pids -> {"idle", "answer", "terminal", "diagnostic"}]
      /\ \A q \in Pids \ {p} : wire'[q] = wire[q]
  <2>1. CASE engine_throw(p)
    BY <1>1, <2>1 DEF engine_throw
  <2>2. CASE wire' = [wire EXCEPT ![p] = "idle"]
    BY <1>1, <2>2
  <2> QED
    BY <2>1, <2>2, Zenon DEF engine_refuse, engine_verify, engine_stale, engine_prepublication,
                      engine_finish, Answered
<1>4. worker[p].pc \in {"engine", "held"}
  BY Zenon DEF engine_refuse, engine_verify, engine_stale, engine_prepublication,
         engine_finish, engine_throw, Answered
<1>5. PICK r \in {"success", "failure", "definite"}, e \in BOOLEAN :
         /\ EngineEnds(p, r, e)
         /\ worker[p].pc = "held" => r # "definite" /\ e
         /\ r = "success" => (Request(p).kind = "verify" \/ disk[Request(p).op] = "completed")
  <2>1. worker[p].effects \in BOOLEAN /\ (worker[p].pc = "held" => worker[p].effects)
    BY <1>1 DEF ChildGood, WorkerRecord
  <2>2. CASE engine_refuse(p)
    BY <2>2, Zenon DEF engine_refuse, Answered
  <2>3. CASE engine_verify(p)
    BY <2>3, Zenon DEF engine_verify, Answered
  <2>4. CASE engine_stale(p)
    BY <2>4, Zenon DEF engine_stale, Answered
  <2>5. CASE engine_prepublication(p)
    BY <2>5, Zenon DEF engine_prepublication, Answered
  <2>6. CASE engine_finish(p)
    BY <2>6, ZenonT(40) DEF engine_finish, Answered
  <2>7. CASE engine_throw(p)
    BY <2>1, <2>7 DEF engine_throw
  <2> QED
    BY <2>2, <2>3, <2>4, <2>5, <2>6, <2>7, ZenonT(40)
<1>6. /\ worker' \in [Pids -> WorkerRecord]
      /\ worker'[p].pc = "end" /\ worker'[p].effects = e
      /\ worker'[p].result = r
      /\ \A q \in Pids \ {p} : worker'[q] = worker[q]
  BY <1>1, <1>5, WorkerEnds
<1>7. guard' \in 0 .. MaxPid
  BY <1>1, <1>5, ServiceAssumption DEF EngineEnds
<1>8. Alive(p)
  BY <1>4, SMTT(40) DEF Alive
<1>9. ChildGood(p)'
  <2>1. r = "success" => Durable(svc[p].req)'
    BY <1>2, <1>5 DEF Durable, Request, Changing
  <2>2. svc[p].req \in wrote => e /\ r # "definite"
    BY <1>1, <1>4, <1>5, Zenon DEF ChildGood
  <2>3. ~(svc[p].pc = "baseline" \/ (svc[p].pc = "abort" /\ svc[p].stale))
    BY <1>1, <1>4, Zenon DEF ChildGood
  <2> QED
    BY <1>2, <1>6, <2>1, <2>2, <2>3, SMTT(40) DEF ChildGood
<1> QED
  BY <1>2, <1>3, <1>6, <1>7, <1>8, <1>9, ChildKeeps, Zenon

(* The engine takes the guard and raises the flag before it writes.        *)
LEMMA EngineEnterStep ==
    ASSUME IndInv, NEW p \in Pids, engine_enter(p)
    PROVE  IndInv'
<1>1. /\ worker \in [Pids -> WorkerRecord]
      /\ wire \in [Pids -> {"idle", "answer", "terminal", "diagnostic"}]
      /\ faults \in 0 .. MaxFaults /\ ServiceGood(p) /\ ChildGood(p)
      /\ worker[p].pc = "engine"
  BY DEF IndInv, TypeOK, engine_enter, Answered
<1>2. /\ UNCHANGED <<client, scm, svc, control, pipe, lost, disk, wrote, faults>>
      /\ guard' = p /\ wire' = [wire EXCEPT ![p] = "idle"]
      /\ worker' = [worker EXCEPT ![p] = [worker[p] EXCEPT !.pc = "held", !.effects = TRUE]]
  BY DEF engine_enter, hostVars, Answered
<1>3. /\ worker' \in [Pids -> WorkerRecord]
      /\ worker'[p].pc = "held" /\ worker'[p].effects
      /\ worker'[p].result = worker[p].result
      /\ \A q \in Pids \ {p} : worker'[q] = worker[q]
  <2>1. [worker[p] EXCEPT !.pc = "held", !.effects = TRUE] \in WorkerRecord
    BY <1>1, Zenon DEF WorkerRecord, WorkerPc
  <2> QED
    BY <1>1, <1>2, <2>1 DEF WorkerRecord
<1>4. guard' \in 0 .. MaxPid
  BY <1>2, ServiceAssumption DEF Pids
<1>5. Alive(p)
  BY <1>1 DEF Alive
<1>6. ChildGood(p)'
  BY <1>1, <1>2, <1>3, SMTT(40) DEF ChildGood, Durable
<1> QED
  BY <1>1, <1>2, <1>3, <1>4, <1>5, <1>6, ChildKeeps

(* The child ends by itself or is killed.                                  *)
LEMMA ChildDiesStep ==
    ASSUME IndInv, NEW p \in Pids, worker_exit(p) \/ CrashWorker(p)
    PROVE  IndInv'
<1>1. /\ worker \in [Pids -> WorkerRecord]
      /\ wire \in [Pids -> {"idle", "answer", "terminal", "diagnostic"}]
      /\ guard \in 0 .. MaxPid /\ faults \in 0 .. MaxFaults
      /\ ServiceGood(p) /\ ChildGood(p)
  BY Zenon DEF IndInv, TypeOK
<1>2. Kill(p) /\ Alive(p) /\ UNCHANGED <<client, scm, svc, control, pipe, lost, disk, wrote>>
  BY Zenon DEF worker_exit, CrashWorker, hostVars, Alive
<1>3. faults' \in 0 .. MaxFaults
  BY <1>1, ServiceAssumption DEF worker_exit, CrashWorker
<1>4. /\ worker' \in [Pids -> WorkerRecord] /\ worker'[p].pc = "dead"
      /\ worker'[p].effects = worker[p].effects /\ worker'[p].result = worker[p].result
      /\ \A q \in Pids \ {p} : worker'[q] = worker[q]
  BY <1>1, <1>2, WorkerKilled
<1>5. /\ wire' \in [Pids -> {"idle", "answer", "terminal", "diagnostic"}] /\ wire'[p] = "idle"
      /\ \A q \in Pids \ {p} : wire'[q] = wire[q]
      /\ guard' \in 0 .. MaxPid
  BY <1>1, <1>2, ServiceAssumption DEF Kill
<1>6. ChildGood(p)'
  BY <1>1, <1>2, <1>4, <1>5, Zenon DEF ChildGood, Durable
<1> QED
  BY <1>2, <1>3, <1>4, <1>5, <1>6, ChildKeeps

(* The next durable stage is written, by a child that holds the guard.     *)
LEMMA EngineWriteStep ==
    ASSUME IndInv, NEW p \in Pids, engine_write(p)
    PROVE  IndInv'
<1> DEFINE a == svc[p].req
<1>1. /\ disk \in [Ops -> {"none", "intent", "published", "completed"}]
      /\ wire \in [Pids -> {"idle", "answer", "terminal", "diagnostic"}]
      /\ ServiceGood(p) /\ ChildGood(p) /\ ReportGood(p) /\ wrote \subseteq Attempts
      /\ worker[p].pc = "held" /\ disk[Request(p).op] # "completed"
  <2>1. {Stage[i] : i \in 1 .. 4} = {"none", "intent", "published", "completed"}
    BY DEF Stage
  <2> QED
    BY <2>1, Zenon DEF IndInv, TypeOK, engine_write, Answered
<1>2. /\ UNCHANGED <<client, scm, svc, control, pipe, worker, guard, lost, faults>>
      /\ wire' = [wire EXCEPT ![p] = "idle"]
      /\ wrote' = wrote \cup {a}
      /\ disk' = [disk EXCEPT ![Request(p).op] = Later[disk[Request(p).op]]]
  BY ZenonT(40) DEF engine_write, hostVars, Answered
<1>3. Alive(p)
  BY <1>1, SMTT(40) DEF Alive
<1>4. a \in Attempts /\ client[a].op \in Ops
  BY <1>1, <1>3, HeardNamesOperation, SMTT(40) DEF ServiceGood
<1>5. Later[disk[client[a].op]] \in {"none", "intent", "published", "completed"}
  BY <1>1, <1>4 DEF Later, Request
<1>6. /\ disk' \in [Ops -> {"none", "intent", "published", "completed"}]
      /\ \A o \in Ops : disk[o] = "completed" => disk'[o] = "completed"
  BY <1>1, <1>2, <1>4, <1>5, Zenon DEF Request
<1>7. TypeOK'
  <2>1. {Stage[i] : i \in 1 .. 4} = {"none", "intent", "published", "completed"}
    BY DEF Stage
  <2> QED
    BY <1>2, <1>4, <1>6, <2>1, Zenon DEF IndInv, TypeOK
<1>8. StepOf(p)
  BY <1>1, <1>2, <1>6, Zenon DEF StepOf
<1>9. ServiceGood(p)'
  BY <1>1, <1>2, <1>3, Zenon DEF ServiceGood, Alive, BeforeLaunch, BeforeRequest, NoWorker
<1>10. \A b \in Attempts : client[b].op \in Ops /\ Durable(b) => Durable(b)'
  BY <1>8, DurableKept
<1>11. ChildGood(p)'
  <2>1. ~(svc[p].pc = "baseline" \/ (svc[p].pc = "abort" /\ svc[p].stale))
    BY <1>1, Zenon DEF ChildGood
  <2> QED
    BY <1>1, <1>2, <1>4, <1>10, <2>1, Zenon DEF ChildGood
<1>12. ReportGood(p)'
  <2>1. ~svc[p].stale
    BY <1>1, <1>3, Zenon DEF ReportGood, ChildGood
  <2>2. svc[p].pc # "respond" /\ (svc[p].pc = "failing" => svc[p].effects)
    BY <1>1, <1>3, Zenon DEF ServiceGood, WithChild, Leaving
  <2> QED
    BY <1>1, <1>2, <2>1, <2>2, Zenon DEF ReportGood, Request
<1> QED
  BY <1>2, <1>3, <1>7, <1>8, <1>9, <1>11, <1>12, ServiceStepKeeps, Zenon

----------------------------------------------------------------------------
(* The client.                                                             *)

(* The processes keep their part of the invariant in a client's step.      *)
LEMMA ServicesKept ==
    ASSUME IndInv, UNCHANGED <<svc, worker, wire, disk, wrote, lost, control>>,
           pipe'.owner = pipe.owner,
           \A b \in Attempts : client[b].pc \notin Fresh
             => client'[b].kind = client[b].kind /\ client'[b].op = client[b].op,
           NEW p \in Pids
    PROVE  ServiceGood(p)' /\ ChildGood(p)' /\ ReportGood(p)'
<1>1. ServiceGood(p) /\ ChildGood(p) /\ ReportGood(p)
  BY SMTT(40) DEF IndInv
<1>2. svc[p].req # None =>
        /\ client'[svc[p].req].kind = client[svc[p].req].kind
        /\ client'[svc[p].req].op = client[svc[p].req].op
  BY HeardNamesOperation, SMTT(40)
<1>3. svc[p].req # None => (Durable(svc[p].req)' <=> Durable(svc[p].req))
  BY <1>2 DEF Durable
<1>4. ServiceGood(p)'
  BY <1>1, Zenon DEF ServiceGood, Alive
<1>5. ChildGood(p)'
  BY <1>1, <1>3, Zenon DEF ChildGood
<1>6. ReportGood(p)'
  BY <1>1, <1>2, <1>3, Zenon DEF ReportGood, ServiceGood, Serving, Alive, Request
<1> QED
  BY <1>4, <1>5, <1>6

(* So do the other attempts.                                               *)
LEMMA OtherClientsKept ==
    ASSUME IndInv, UNCHANGED <<svc, worker, disk, wrote>>, NEW b \in Attempts,
           client'[b] = client[b],
           pipe'.sent /\ pipe'.peer = b => pipe.sent /\ pipe.peer = b
    PROVE  ClientGood(b)'
<1>1. ClientGood(b)
  BY DEF IndInv
<1>2. /\ Unheard(b) => Unheard(b)'
      /\ Pending(b)' => Pending(b)
      /\ Durable(b)' <=> Durable(b)
      /\ \A p \in Pids : Alive(p)' <=> Alive(p)
  BY Zenon DEF Unheard, Pending, Durable, Alive
<1> QED
  BY <1>1, <1>2, Zenon DEF ClientGood

(* Together: what remains to be shown of a step of attempt a is about a.   *)
LEMMA ClientStepKeeps ==
    ASSUME IndInv, NEW a \in Attempts, client' \in [Attempts -> ClientRecord],
           UNCHANGED <<scm, svc, worker, wire, guard, disk, wrote, lost, control>>,
           faults' \in 0 .. MaxFaults,
           pipe' \in [owner : 0 .. MaxPid, peer : Attempts \cup {None}, sent : BOOLEAN],
           pipe'.owner = pipe.owner,
           pipe'.sent => pipe'.peer # None,
           \A b \in Attempts \ {a} : pipe'.sent /\ pipe'.peer = b => pipe.sent /\ pipe.peer = b,
           \A b \in Attempts \ {a} : client'[b] = client[b],
           client[a].pc \in Fresh
             \/ (client'[a].kind = client[a].kind /\ client'[a].op = client[a].op),
           ClientGood(a)'
    PROVE  IndInv'
<1>1. TypeOK'
  BY Zenon DEF IndInv, TypeOK
<1>2. Bound'
  BY Zenon DEF IndInv, Bound
<1>3. \A p \in Pids : ServiceGood(p)' /\ ChildGood(p)' /\ ReportGood(p)'
  <2>1. \A b \in Attempts : client[b].pc \notin Fresh
             => client'[b].kind = client[b].kind /\ client'[b].op = client[b].op
    BY Zenon
  <2> QED
    BY <2>1, ServicesKept, Zenon
<1>4. \A b \in Attempts : ClientGood(b)'
  BY OtherClientsKept
<1> QED
  BY <1>1, <1>2, <1>3, <1>4, Zenon DEF IndInv, Pids

(* What holds of the pipe while a client's step leaves it alone.           *)
LEMMA PipeTyped ==
    ASSUME IndInv
    PROVE  /\ pipe \in [owner : 0 .. MaxPid, peer : Attempts \cup {None}, sent : BOOLEAN]
           /\ pipe.sent => pipe.peer # None
           /\ client \in [Attempts -> ClientRecord] /\ faults \in 0 .. MaxFaults
           /\ svc \in [Pids -> ServiceRecord]
  BY Zenon DEF IndInv, TypeOK, Bound

(* An attempt ends before its request was written.                         *)
LEMMA FreshReturnStep ==
    ASSUME IndInv, NEW a \in Attempts, client[a].pc \in Fresh,
           NEW o \in {"invalid", "refused", "unknown"},
           Return(a, o), o = "invalid" \/ client[a].pc # "idle",
           UNCHANGED <<scm, svc, worker, wire, guard, disk, wrote, lost, control, pipe, faults>>
    PROVE  IndInv'
<1>1. /\ client' \in [Attempts -> ClientRecord]
      /\ client'[a].pc = "done" /\ client'[a].outcome = o
      /\ client'[a].kind = client[a].kind /\ client'[a].op = client[a].op
      /\ client'[a].mail = "none"
      /\ \A b \in Attempts \ {a} : client'[b] = client[b]
  <2>1. o \in Outcome
    BY DEF Outcome
  <2> QED
    BY <2>1, PipeTyped, ClientReturns, SMTT(40)
<1>2. ClientGood(a) /\ Unheard(a) /\ client[a].outcome = "none"
  BY Zenon DEF IndInv, ClientGood, Fresh
<1>3. Unheard(a)' /\ ~Pending(a)'
  BY <1>2, Zenon DEF Unheard, Pending
<1>4. ClientGood(a)'
  BY <1>1, <1>2, <1>3, Zenon DEF ClientGood, Unheard, Fresh
<1> QED
  BY <1>1, <1>4, PipeTyped, ClientStepKeeps, Zenon

(* An attempt ends after the write, with what its mail says or unknown.    *)
LEMMA LateReturnStep ==
    ASSUME IndInv, NEW a \in Attempts, client[a].pc \in {"read", "dispose"},
           NEW o \in {"completed", "refused", "recovery_required", "unknown"}, Return(a, o),
           o = "completed" => client[a].mail = "pass",
           o = "refused" => client[a].mail = "failed",
           UNCHANGED <<scm, svc, worker, wire, guard, disk, wrote, lost, control, pipe, faults>>
    PROVE  IndInv'
<1>1. /\ client' \in [Attempts -> ClientRecord]
      /\ client'[a].pc = "done" /\ client'[a].outcome = o
      /\ client'[a].kind = client[a].kind /\ client'[a].op = client[a].op
      /\ client'[a].mail = "none"
      /\ \A b \in Attempts \ {a} : client'[b] = client[b]
  <2>1. o \in Outcome
    BY DEF Outcome
  <2> QED
    BY <2>1, PipeTyped, ClientReturns, SMTT(40)
<1>2. ClientGood(a)
  BY Zenon DEF IndInv
<1>3. /\ Pending(a)' <=> Pending(a)
      /\ Durable(a)' <=> Durable(a)
      /\ \A p \in Pids : Alive(p)' <=> Alive(p)
  BY <1>1, Zenon DEF Pending, Durable, Alive
<1>4. client[a].op \in Ops
  BY <1>2, Zenon DEF ClientGood
<1>5. ClientGood(a)'
  BY <1>1, <1>2, <1>3, <1>4, Zenon DEF ClientGood, Fresh
<1> QED
  BY <1>1, <1>5, PipeTyped, ClientStepKeeps, Zenon

(* The returns of execute.                                                 *)
LEMMA ReturnStep ==
    ASSUME IndInv, NEW a \in Attempts,
           \/ RejectRequest(a) \/ RefuseAdmission(a) \/ FailBeforeWrite(a) \/ Cancel(a)
           \/ OutcomeUnknown(a) \/ await_disposal(a)
    PROVE  IndInv'
<1>1. UNCHANGED <<scm, svc, worker, wire, guard, disk, wrote, lost, control, pipe, faults>>
  BY Zenon DEF RejectRequest, RefuseAdmission, FailBeforeWrite, Cancel, OutcomeUnknown,
         await_disposal, serviceVars
<1>2. CASE RejectRequest(a) \/ RefuseAdmission(a) \/ FailBeforeWrite(a) \/ Cancel(a)
  <2>1. PICK o \in {"invalid", "refused", "unknown"} :
          Return(a, o) /\ (o = "invalid" \/ client[a].pc # "idle")
    BY <1>2, Zenon DEF RejectRequest, RefuseAdmission, FailBeforeWrite, Cancel
  <2>2. client[a].pc \in Fresh
    BY <1>2, Zenon DEF RejectRequest, RefuseAdmission, FailBeforeWrite, Cancel, Fresh
  <2> QED
    BY <1>1, <2>1, <2>2, FreshReturnStep, Zenon
<1>3. CASE OutcomeUnknown(a)
  BY <1>1, <1>3, LateReturnStep, Zenon DEF OutcomeUnknown
<1>4. CASE await_disposal(a)
  <2>1. client[a].mail \in {"pass", "failed", "recovery_required"} /\ client[a].pc = "dispose"
    BY <1>4, PipeTyped, Zenon DEF await_disposal, ClientRecord, Reply, IndInv, ClientGood
  <2>2. PICK o \in {"completed", "refused", "recovery_required", "unknown"} :
          /\ Return(a, o)
          /\ o = "completed" => client[a].mail = "pass"
          /\ o = "refused" => client[a].mail = "failed"
    <3>1. Return(a, Disposition[client[a].mail])
      BY <1>4, Zenon DEF await_disposal
    <3>2. /\ Disposition.pass = "completed" /\ Disposition.failed = "refused"
          /\ Disposition.recovery_required = "recovery_required"
      BY DEF Disposition
    <3> HIDE DEF IndInv
    <3> QED
      BY <2>1, <3>1, <3>2
  <2> QED
    BY <1>1, <2>1, <2>2, LateReturnStep, Zenon
<1> QED
  BY <1>2, <1>3, <1>4

(* The bound reply is read; a planning client goes on to wait.             *)
LEMMA ReadReplyStep ==
    ASSUME IndInv, NEW a \in Attempts, read_reply(a)
    PROVE  IndInv'
<1>1. UNCHANGED <<scm, svc, worker, wire, guard, disk, wrote, lost, control, pipe, faults>>
  BY DEF read_reply, serviceVars
<1>2. client[a].mail \in {"pass", "failed", "recovery_required"} /\ client[a].pc = "read"
  BY PipeTyped DEF read_reply, ClientRecord, Reply
<1>3. CASE Return(a, Disposition[client[a].mail])
  <2>1. PICK o \in {"completed", "refused", "recovery_required", "unknown"} :
          /\ Return(a, o)
          /\ o = "completed" => client[a].mail = "pass"
          /\ o = "refused" => client[a].mail = "failed"
    BY <1>2, <1>3 DEF Disposition
  <2> QED
    BY <1>1, <1>2, <2>1, LateReturnStep, Zenon
<1>4. CASE Goto(a, "dispose")
  <2>1. /\ client' \in [Attempts -> ClientRecord]
        /\ client'[a].pc = "dispose" /\ client'[a].outcome = client[a].outcome
        /\ client'[a].kind = client[a].kind /\ client'[a].op = client[a].op
        /\ client'[a].mail = client[a].mail
        /\ \A b \in Attempts \ {a} : client'[b] = client[b]
    <3>1. "dispose" \in ClientPc
      BY DEF ClientPc
    <3> QED
      BY <1>4, <3>1, PipeTyped, ClientMoves
  <2>2. ClientGood(a)
    BY DEF IndInv
  <2>3. /\ Pending(a)' <=> Pending(a)
        /\ Durable(a)' <=> Durable(a)
        /\ \A p \in Pids : Alive(p)' <=> Alive(p)
    BY <1>1, <2>1, Zenon DEF Pending, Durable, Alive
  <2>4. ClientGood(a)'
    BY <1>1, <1>2, <2>1, <2>2, <2>3, Zenon DEF ClientGood, Fresh
  <2> QED
    BY <1>1, <2>1, <2>4, PipeTyped, ClientStepKeeps, Zenon
<1> QED
  BY <1>3, <1>4, SMTT(40) DEF read_reply

(* A fresh attempt goes on without being heard of.                         *)
LEMMA FreshMoveStep ==
    ASSUME IndInv, NEW a \in Attempts, client[a].pc \in Fresh,
           client' \in [Attempts -> ClientRecord],
           \A b \in Attempts \ {a} : client'[b] = client[b],
           client'[a].pc \in (Fresh \ {"idle"}) \cup {"crashed"}, client'[a].op \in Ops,
           client'[a].mail = "none", client'[a].outcome = client[a].outcome,
           UNCHANGED <<scm, svc, worker, wire, guard, disk, wrote, lost, control>>,
           faults' \in 0 .. MaxFaults,
           pipe' \in [owner : 0 .. MaxPid, peer : Attempts \cup {None}, sent : BOOLEAN],
           pipe'.owner = pipe.owner, pipe'.sent = pipe.sent,
           pipe.sent => pipe'.peer = pipe.peer
    PROVE  IndInv'
<1>1. ClientGood(a) /\ Unheard(a) /\ client[a].outcome = "none"
  BY Zenon DEF IndInv, ClientGood, Fresh
<1>2. Unheard(a)' /\ ~Pending(a)'
  BY <1>1, Zenon DEF Unheard, Pending
<1>3. ClientGood(a)'
  BY <1>1, <1>2, ZenonT(40) DEF ClientGood, Fresh
<1>4. pipe'.sent => pipe'.peer # None
  BY PipeTyped, Zenon
<1> QED
  BY <1>3, <1>4, ClientStepKeeps, Zenon

(* execute accepts a well-formed request.                                  *)
LEMMA ExecuteStep ==
    ASSUME IndInv, NEW a \in Attempts, execute(a)
    PROVE  IndInv'
<1>1. PICK k \in Kinds, o \in Ops :
         client' = [client EXCEPT ![a] = [client[a] EXCEPT !.pc = "admission", !.kind = k, !.op = o]]
  BY Zenon DEF execute
<1>2. [client[a] EXCEPT !.pc = "admission", !.kind = k, !.op = o] \in ClientRecord
  BY PipeTyped, Zenon DEF ClientRecord, ClientPc
<1>3. /\ client' \in [Attempts -> ClientRecord]
      /\ \A b \in Attempts \ {a} : client'[b] = client[b]
      /\ client'[a].pc = "admission" /\ client'[a].op = o
      /\ client'[a].mail = client[a].mail /\ client'[a].outcome = client[a].outcome
  BY <1>1, <1>2, PipeTyped DEF ClientRecord
<1>4. client[a].pc = "idle" /\ client[a].mail = "none"
  BY DEF execute, IndInv, ClientGood, Fresh
<1> QED
  BY <1>3, <1>4, PipeTyped, FreshMoveStep DEF execute, serviceVars, Fresh

(* await_service_process: the client learns the process to talk to.        *)
LEMMA AwaitServiceStep ==
    ASSUME IndInv, NEW a \in Attempts, await_service_process(a)
    PROVE  IndInv'
<1>1. client' = [client EXCEPT ![a] = [client[a] EXCEPT !.pc = "connect", !.pid = scm.pid]]
  BY DEF await_service_process
<1>2. scm.pid \in 0 .. MaxPid
  BY DEF IndInv, TypeOK
<1>3. [client[a] EXCEPT !.pc = "connect", !.pid = scm.pid] \in ClientRecord
  BY <1>2, PipeTyped, Zenon DEF ClientRecord, ClientPc
<1>4. /\ client' \in [Attempts -> ClientRecord]
      /\ \A b \in Attempts \ {a} : client'[b] = client[b]
      /\ client'[a].pc = "connect" /\ client'[a].op = client[a].op
      /\ client'[a].mail = client[a].mail /\ client'[a].outcome = client[a].outcome
  BY <1>1, <1>3, PipeTyped DEF ClientRecord
<1>5. client[a].pc = "await" /\ client[a].mail = "none" /\ client[a].op \in Ops
  BY DEF await_service_process, IndInv, ClientGood, Fresh
<1> QED
  BY <1>4, <1>5, PipeTyped, FreshMoveStep DEF await_service_process, serviceVars, Fresh

(* The connection: the pipe is free, or busy and the attempt is refused.   *)
LEMMA ConnectStep ==
    ASSUME IndInv, NEW a \in Attempts, connect_publisher_request_endpoint(a)
    PROVE  IndInv'
<1>1. UNCHANGED <<scm, svc, worker, wire, guard, disk, wrote, lost, control, faults>>
  BY DEF connect_publisher_request_endpoint, serviceVars
<1>2. client[a].pc = "connect" /\ client[a].mail = "none" /\ client[a].op \in Ops
  BY SMTT(40) DEF connect_publisher_request_endpoint, IndInv, ClientGood, Fresh
<1>3. CASE Return(a, "refused") /\ pipe' = pipe
  BY <1>1, <1>2, <1>3, FreshReturnStep DEF Fresh
<1>4. CASE pipe.peer = None /\ pipe' = [pipe EXCEPT !.peer = a] /\ Goto(a, "write")
  <2>1. /\ client' \in [Attempts -> ClientRecord]
        /\ client'[a].pc = "write" /\ client'[a].outcome = client[a].outcome
        /\ client'[a].op = client[a].op /\ client'[a].mail = client[a].mail
        /\ \A b \in Attempts \ {a} : client'[b] = client[b]
    <3>1. "write" \in ClientPc
      BY DEF ClientPc
    <3> QED
      BY <1>4, <3>1, PipeTyped, ClientMoves
  <2>2. [pipe EXCEPT !.peer = a]
          \in [owner : 0 .. MaxPid, peer : Attempts \cup {None}, sent : BOOLEAN]
    BY PipeTyped, Zenon
  <2>3. pipe'.owner = pipe.owner /\ pipe'.sent = pipe.sent /\ ~pipe.sent
    BY <1>4, PipeTyped
  <2> QED
    BY <1>1, <1>2, <1>4, <2>1, <2>2, <2>3, PipeTyped, FreshMoveStep DEF Fresh
<1> QED
  BY <1>3, <1>4 DEF connect_publisher_request_endpoint

(* A crash of the client, at any point.                                    *)
LEMMA CrashClientStep ==
    ASSUME IndInv, NEW a \in Attempts, CrashClient(a)
    PROVE  IndInv'
<1> DEFINE r == [client[a] EXCEPT !.pc = "crashed", !.pid = 0, !.mail = "none", !.from = 0]
<1>1. client' = [client EXCEPT ![a] = r]
  BY DEF CrashClient
<1>2. 0 \in 0 .. MaxPid
  BY ServiceAssumption
<1>3. r \in ClientRecord
  BY <1>2, PipeTyped, Zenon DEF ClientRecord, ClientPc, Reply
<1>4. /\ r.pc = "crashed" /\ r.outcome = client[a].outcome /\ r.mail = "none"
      /\ r.kind = client[a].kind /\ r.op = client[a].op
  BY PipeTyped DEF ClientRecord
<1> HIDE DEF r
<1>5. /\ client' \in [Attempts -> ClientRecord]
      /\ \A b \in Attempts \ {a} : client'[b] = client[b]
      /\ client'[a].pc = "crashed" /\ client'[a].outcome = client[a].outcome
      /\ client'[a].mail = "none"
      /\ client'[a].kind = client[a].kind /\ client'[a].op = client[a].op
  BY <1>1, <1>3, <1>4, PipeTyped
<1>6. /\ UNCHANGED <<scm, svc, worker, wire, guard, disk, wrote, lost, control, pipe>>
      /\ faults' \in 0 .. MaxFaults /\ client[a].pc \notin {"idle", "done", "crashed"}
  BY PipeTyped, ServiceAssumption DEF CrashClient, serviceVars
<1>7. ClientGood(a) /\ client[a].op \in Ops /\ client[a].outcome = "none"
  BY <1>6, Zenon DEF IndInv, ClientGood
<1>8. /\ Pending(a)' <=> Pending(a)
      /\ Durable(a)' <=> Durable(a)
      /\ \A p \in Pids : Alive(p)' <=> Alive(p)
  BY <1>5, <1>6, Zenon DEF Pending, Durable, Alive
<1>9. ClientGood(a)'
  BY <1>5, <1>6, <1>7, <1>8, Zenon DEF ClientGood, Fresh
<1> QED
  BY <1>5, <1>6, <1>9, PipeTyped, ClientStepKeeps, Zenon

(* The request is written, to the process the client connected to; it is   *)
(* pending if that process still listens.                                  *)
LEMMA WriteRequestStep ==
    ASSUME IndInv, NEW a \in Attempts, write_request(a)
    PROVE  IndInv'
<1>1. /\ UNCHANGED <<scm, svc, worker, wire, guard, disk, wrote, lost, control, faults>>
      /\ pipe.peer = a /\ pipe' = [pipe EXCEPT !.sent = TRUE]
  BY DEF write_request, serviceVars
<1>2. /\ client[a].pc = "write" /\ client[a].mail = "none" /\ client[a].op \in Ops
      /\ client[a].outcome = "none" /\ Unheard(a)
  BY DEF write_request, IndInv, ClientGood, Fresh
<1>3. /\ client' \in [Attempts -> ClientRecord]
      /\ client'[a].pc \in {"read", "done"} /\ client'[a].outcome \in {"none", "unknown"}
      /\ client'[a].pc = "read" => client'[a].outcome = "none"
      /\ client'[a].kind = client[a].kind /\ client'[a].op = client[a].op
      /\ client'[a].mail = "none"
      /\ \A b \in Attempts \ {a} : client'[b] = client[b]
  <2>1. "read" \in ClientPc /\ "unknown" \in Outcome
    BY DEF ClientPc, Outcome
  <2>2. CASE Goto(a, "read")
    BY <1>2, <2>1, <2>2, PipeTyped, ClientMoves
  <2>3. CASE Return(a, "unknown")
    BY <2>1, <2>3, PipeTyped, ClientReturns
  <2> QED
    BY <2>2, <2>3 DEF write_request
<1>4. /\ pipe' \in [owner : 0 .. MaxPid, peer : Attempts \cup {None}, sent : BOOLEAN]
      /\ pipe'.owner = pipe.owner /\ pipe'.peer = a
  <2>1. [pipe EXCEPT !.sent = TRUE]
          \in [owner : 0 .. MaxPid, peer : Attempts \cup {None}, sent : BOOLEAN]
    BY PipeTyped, Zenon
  <2> QED
    BY <1>1, <2>1, PipeTyped
<1>5. ClientGood(a)'
  BY <1>1, <1>2, <1>3 DEF ClientGood, Unheard, Fresh
<1>6. a # None
  BY ServiceAssumption
<1> QED
  BY <1>1, <1>3, <1>4, <1>5, <1>6, PipeTyped, ClientStepKeeps, Zenon

(* There is a process to start while one is unstarted: the least number    *)
(* of a set of process numbers exists, since < is well founded on them.    *)
LEMMA NextPidUnstarted ==
    ASSUME Unstarted # {}
    PROVE  NextPid \in Unstarted
<1> DEFINE R == OpToRel(<, Nat)
<1>1. Unstarted \subseteq Nat
  BY DEF Unstarted, Pids
<1>2. \A x, y \in Nat : <<x, y>> \in R <=> x < y
  BY DEF OpToRel
<1>3. IsWellFoundedOn(R, Nat)
  BY NatLessThanWellFounded, Zenon
<1> HIDE DEF R
<1>4. PICK p \in Unstarted : \A q \in Unstarted : ~(<<q, p>> \in R)
  BY <1>1, <1>3, WFMin, Zenon
<1>5. \A q \in Unstarted : p <= q
  <2> SUFFICES ASSUME NEW q \in Unstarted PROVE p <= q
    OBVIOUS
  <2>1. p \in Nat /\ q \in Nat
    BY <1>1
  <2>2. ~(q < p)
    BY <1>2, <1>4, <2>1, Zenon
  <2> QED
    BY <2>1, <2>2
<1> QED
  BY <1>5 DEF NextPid

(* The service control manager starts a process, or the service runs.      *)
LEMMA AdmitClientStep ==
    ASSUME IndInv, NEW a \in Attempts, admit_service_client(a)
    PROVE  IndInv'
<1>1. UNCHANGED <<control, pipe, worker, wire, guard, disk, wrote, lost, faults>>
  BY DEF admit_service_client
<1>2. client[a].pc = "admission" /\ client[a].mail = "none" /\ client[a].op \in Ops
  BY DEF admit_service_client, IndInv, ClientGood, Fresh
<1>3. /\ client' \in [Attempts -> ClientRecord]
      /\ client'[a].pc = "await" /\ client'[a].outcome = client[a].outcome
      /\ client'[a].kind = client[a].kind /\ client'[a].op = client[a].op
      /\ client'[a].mail = client[a].mail
      /\ \A b \in Attempts \ {a} : client'[b] = client[b]
  <2>1. "await" \in ClientPc
    BY SMTT(40) DEF ClientPc
  <2> QED
    BY <2>1, PipeTyped, ClientMoves DEF admit_service_client
<1>4. CASE UNCHANGED <<scm, svc>>
  BY <1>1, <1>2, <1>3, <1>4, PipeTyped, FreshMoveStep DEF Fresh
<1>5. CASE /\ Unstarted # {} /\ scm' = [state |-> "start_pending", pid |-> NextPid]
           /\ svc' = [svc EXCEPT ![NextPid].pc = "starting"]
  <2>1. PICK p \in Pids : p = NextPid /\ svc[p].pc = "off"
    BY <1>5, NextPidUnstarted DEF Unstarted
  <2>2. svc' = [svc EXCEPT ![p].pc = "starting"] /\ scm' = [state |-> "start_pending", pid |-> p]
    BY <1>5, <2>1
  <2>3. /\ svc' \in [Pids -> ServiceRecord]
        /\ svc'[p].pc = "starting" /\ svc'[p].req = svc[p].req
        /\ svc'[p].effects = svc[p].effects /\ svc'[p].stale = svc[p].stale
        /\ \A q \in Pids \ {p} : svc'[q] = svc[q]
    <3>1. "starting" \in ServicePc
      BY DEF ServicePc
    <3> QED
      BY <2>1, <2>2, <3>1, PipeTyped, ServiceMoves, Zenon
  <2>4. ServiceGood(p) /\ ChildGood(p) /\ ReportGood(p) /\ svc[p].req = None
    BY <2>1, Zenon DEF IndInv, ServiceGood, BeforeRequest
  <2>5. TypeOK'
    <3>1. scm' \in [state : {"stopped", "start_pending", "running"}, pid : 0 .. MaxPid]
      BY <2>1, <2>2, ServiceAssumption DEF Pids
    <3> QED
      BY <1>1, <1>3, <2>3, <3>1, Zenon DEF IndInv, TypeOK
  <2>6. StepOf(p)
    BY <1>1, <1>3, <2>3, Zenon DEF StepOf
  <2>7. Bound'
    BY <1>1, <2>1, <2>3, <2>6, BoundKept, Zenon
  <2>8. ServiceGood(p)' /\ ChildGood(p)' /\ ReportGood(p)'
    BY <1>1, <2>1, <2>3, <2>4, Zenon DEF ServiceGood, ChildGood, ReportGood, Alive, NoWorker,
           BeforeRequest, BeforeLaunch, WithChild, Serving, Leaving
  <2>9. \A q \in Pids : ServiceGood(q)' /\ ChildGood(q)' /\ ReportGood(q)'
    BY <2>1, <2>5, <2>6, <2>8, OthersKept
  <2>10. ASSUME NEW b \in Attempts PROVE ClientGood(b)'
    <3>1. ClientGood(b) /\ b # None
      BY ServiceAssumption DEF IndInv
    <3>2. /\ \A q \in Pids : svc'[q].req = svc[q].req
          /\ \A q \in Pids : svc[q].pc \in Leaving => svc'[q].pc \in Leaving
          /\ \A q \in Pids : Alive(q)' <=> Alive(q)
      BY <1>1, <2>1, <2>3 DEF Alive, Leaving
    <3>3. /\ Unheard(b) => Unheard(b)'
          /\ Durable(b)' <=> Durable(b)
      BY <1>1, <1>3, <3>2, Zenon DEF Unheard, Durable
    <3>4. Pending(b)' => Pending(b)
      BY <1>1, <2>1, <2>3 DEF Pending
    <3>5. CASE b = a
      <4>1. Unheard(b) /\ client[b].outcome = "none" /\ ~Pending(b)
        BY <1>2, <3>1, <3>5, Zenon DEF ClientGood, Fresh, Unheard, Pending
      <4> QED
        BY <1>2, <1>3, <3>3, <3>4, <3>5, <4>1, Zenon DEF ClientGood, Fresh
    <3>6. CASE b # a
      BY <1>1, <1>3, <3>1, <3>2, <3>3, <3>4, <3>6, Zenon DEF ClientGood
    <3> QED
      BY <3>5, <3>6
  <2> QED
    BY <2>5, <2>7, <2>9, <2>10 DEF IndInv
<1> QED
  BY <1>4, <1>5 DEF admit_service_client

----------------------------------------------------------------------------
(* The theorems.                                                           *)

(* The invariant holds before the first attempt.                           *)
LEMMA InitIndInv == Init => IndInv
<1> SUFFICES ASSUME Init PROVE IndInv
  BY SMTT(40)
<1>1. TypeOK
  <2>1. "none" \in {Stage[i] : i \in 1 .. 4}
    BY SMTT(40) DEF Stage
  <2>2. client \in [Attempts -> ClientRecord]
    BY ServiceAssumption, SMTT(40) DEF Init, ClientRecord, ClientPc, Reply, Outcome
  <2>3. svc \in [Pids -> ServiceRecord] /\ worker \in [Pids -> WorkerRecord]
    BY SMTT(40) DEF Init, ServiceRecord, ServicePc, Reply, WorkerRecord, WorkerPc
  <2>4. pipe \in [owner : 0 .. MaxPid, peer : Attempts \cup {None}, sent : BOOLEAN]
    BY ServiceAssumption DEF Init, Closed
  <2>5. disk \in [Ops -> {Stage[i] : i \in 1 .. 4}]
    BY <2>1, ZenonT(40) DEF Init
  <2>6. scm \in [state : {"stopped", "start_pending", "running"}, pid : 0 .. MaxPid]
    BY ServiceAssumption DEF Init
  <2>7. /\ control \in 0 .. MaxPid /\ guard \in 0 .. MaxPid /\ faults \in 0 .. MaxFaults
        /\ wire \in [Pids -> {"idle", "answer", "terminal", "diagnostic"}]
        /\ wrote \subseteq Attempts /\ lost \subseteq Pids
    <3>1. 0 \in 0 .. MaxPid /\ 0 \in 0 .. MaxFaults
      BY ServiceAssumption
    <3>2. \A p \in Pids : "idle" \in {"idle", "answer", "terminal", "diagnostic"}
      BY SMTT(40)
    <3> QED
      BY <3>1, <3>2, Zenon DEF Init
  <2> QED
    BY <2>2, <2>3, <2>4, <2>5, <2>6, <2>7, SMTT(40) DEF TypeOK
<1>2. Bound
  BY DEF Init, Bound, Closed
<1>3. ASSUME NEW p \in Pids PROVE ServiceGood(p) /\ ChildGood(p) /\ ReportGood(p)
  <2>1. /\ svc[p].pc = "off" /\ svc[p].req = None /\ ~svc[p].stale
        /\ worker[p] = NoWorker /\ wire[p] = "idle" /\ wrote = {} /\ lost = {}
    BY SMTT(40) DEF Init, NoWorker
  <2>2. worker[p].pc = "none" /\ ~worker[p].effects /\ worker[p].result = "none"
    BY <2>1, SMTT(40) DEF NoWorker
  <2> QED
    BY <2>1, <2>2, ZenonT(40) DEF ServiceGood, ChildGood, ReportGood, Alive, BeforeRequest, BeforeLaunch,
                      WithChild, Serving, Leaving
<1>4. ASSUME NEW a \in Attempts PROVE ClientGood(a)
  <2>1. /\ client[a].pc = "idle" /\ client[a].mail = "none" /\ client[a].outcome = "none"
        /\ wrote = {} /\ ~pipe.sent /\ \A p \in Pids : svc[p].req # a
    BY ServiceAssumption DEF Init, Closed
  <2> QED
    BY <2>1, SMTT(40) DEF ClientGood, Fresh, Unheard, Pending
<1> QED
  BY <1>1, <1>2, <1>3, <1>4 DEF IndInv

(* Every step of a client, a service process or a child keeps it.          *)
LEMMA NextIndInv ==
    ASSUME IndInv, [Next]_vars
    PROVE  IndInv'
<1>1. ASSUME NEW a \in Attempts,
             ClientStep(a) \/ execute(a) \/ RejectRequest(a) \/ CrashClient(a)
      PROVE  IndInv'
  BY <1>1, ReturnStep, ReadReplyStep, ExecuteStep, AwaitServiceStep, ConnectStep,
     WriteRequestStep, CrashClientStep, AdmitClientStep, SMTT(40) DEF ClientStep
<1>2. ASSUME NEW p \in Pids, ServiceStep(p)
      PROVE  IndInv'
  BY <1>2, NoRequestStep, BeforeChildStep, ServiceStartStep, AdmitStep, OpenChannelStep,
     ReceiveStep, LaunchStep, BrokerBaselineStep, AnswerStep, ExchangeEndsStep, AbortStep,
     CloseStep, RespondStep, CatchStep, UnwindStep, ExitStep DEF ServiceStep
<1>3. ASSUME NEW p \in Pids, WorkerStep(p)
      PROVE  IndInv'
  BY <1>3, ChildMovesStep, EngineEndsStep, EngineEnterStep, EngineWriteStep, ChildDiesStep
     DEF WorkerStep
<1>4. ASSUME NEW p \in Pids, Fault(p)
      PROVE  IndInv'
  BY <1>4, ExitStep, ChildDiesStep, CloseUnconfirmedStep, AbortStep, EngineEndsStep,
     ChildMovesStep DEF Fault
<1>5. CASE UNCHANGED vars
  <2>1. TypeOK' /\ Bound'
    BY <1>5, Zenon DEF IndInv, TypeOK, Bound, vars
  <2>2. ASSUME NEW p \in Pids PROVE ServiceGood(p)' /\ ChildGood(p)' /\ ReportGood(p)'
    BY <1>5, ServicesKept DEF vars
  <2>3. ASSUME NEW a \in Attempts PROVE ClientGood(a)'
    BY <1>5, OtherClientsKept DEF vars
  <2> QED
    BY <2>1, <2>2, <2>3 DEF IndInv, Pids
<1> QED
  BY <1>1, <1>2, <1>3, <1>4, <1>5 DEF Next

(* The inductive invariant is an invariant of the service.                 *)
THEOREM Invariance == Spec => []IndInv
<1>1. IndInv /\ [Next]_vars => IndInv'
  BY NextIndInv
<1> QED
  BY <1>1, InitIndInv, PTL DEF Spec

(* A refused attempt left no trace on the disk and never will; a completed *)
(* change is on the disk; whatever crashed, timed out or was retried.      *)
THEOREM TruthfulOutcomes == Spec => []OutcomesAreTruthful
<1>1. IndInv => OutcomesAreTruthful
  BY DEF IndInv, ClientGood, OutcomesAreTruthful, RefusedMadeNoEffect, CompletedIsDurable,
         Durable, Changing
<1> QED
  BY <1>1, Invariance, PTL

(* When an attempt is answered its worker has ended, and two workers live  *)
(* side by side only if the end of one could not be confirmed.             *)
THEOREM SingleWorker == Spec => []OneWorker
<1>1. IndInv => TypeOK
  BY DEF IndInv
<1>2. IndInv => AnsweredWorkerIsDead
  BY Zenon DEF IndInv, ClientGood, AnsweredWorkerIsDead
<1>3. IndInv => WorkersDoNotOverlap
  <2> SUFFICES ASSUME IndInv, NEW p \in Pids, NEW q \in Pids, p # q, Alive(p), Alive(q),
                      p \notin lost, q \notin lost
               PROVE  FALSE
    BY DEF WorkersDoNotOverlap
  <2>1. ServiceGood(p) /\ ServiceGood(q)
    BY DEF IndInv
  <2>2. svc[p].pc \in Serving /\ svc[q].pc \in Serving
    BY <2>1, Zenon DEF ServiceGood, Serving
  <2> QED
    BY <2>1, <2>2, Zenon DEF ServiceGood
<1> QED
  BY <1>1, <1>2, <1>3, Invariance, PTL DEF OneWorker

=============================================================================
