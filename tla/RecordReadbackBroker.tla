------------------------ MODULE RecordReadbackBroker ------------------------
(***************************************************************************)
(* The inductive invariant of RecordReadback, for any ledger, number of    *)
(* threads and size of chunks: the steps of the broker, of its pool of     *)
(* threads and of the world keep it.                                       *)
(***************************************************************************)
EXTENDS RecordReadback, TLAPS

(* The broker's states before its pool is complete, after its last packet  *)
(* and during a round; in the others it is ready for work.                 *)
Over == {"stop", "failed", "terminal_after", "terminal", "refused", "gone"}
InRound == {"publish", "drain", "close_round"}
Ready == BrokerPc \ ({"new", "starting"} \cup Over)
Before == {"new", "starting", "baseline", "idle", "receive"}

(* The fields of the records, without the ranges that depend on the plan.  *)
BrokerShape ==
    /\ DOMAIN broker = {"pc", "next", "round", "chunk", "seq", "observed"}
    /\ broker.pc \in BrokerPc /\ broker.round \in {0, 1} /\ broker.chunk \in Nat

PoolShape ==
    /\ DOMAIN work = {"chunk", "cancelled", "unknown", "results", "errors"}
    /\ DOMAIN thread = Workers
    /\ \A w \in Workers : DOMAIN thread[w] = {"pc", "pos"} /\ thread[w].pc \in ThreadPc
    /\ wake \subseteq Workers /\ done \subseteq Workers
    /\ DOMAIN pool = {"ready", "completed", "stopping", "joined", "abandoned", "events", "closed"}
    /\ pool.stopping \in BOOLEAN

ChildShape ==
    /\ DOMAIN child = {"pc", "kind", "selecting", "rounds", "chunk", "selected", "checked", "reads"}
    /\ child.pc \in ChildPc /\ child.kind \in Kinds /\ child.rounds \in {0, 1, 2}
    /\ child.selecting \in BOOLEAN /\ child.checked \in BOOLEAN /\ child.chunk \in Nat

(* What a thread of the pool may be doing while the broker is where it is. *)
ThreadGood(w) ==
    /\ broker.pc = "new" => thread[w].pc = "none" /\ w \notin done
    /\ broker.pc = "starting" =>
           thread[w].pc \in {"born", "parked"} /\ (thread[w].pc = "born" => w \notin done)
    /\ broker.pc \in Ready => thread[w].pc \in {"parked", "run", "open"}
    /\ broker.pc \in Ready \ {"drain"} => thread[w].pc = "parked" /\ w \notin done
    /\ broker.pc # "drain" /\ ~pool.stopping =>
           w \notin wake /\ thread[w].pc \in {"none", "born", "parked"}
    /\ broker.pc = "drain" =>
           /\ w \in done => thread[w].pc = "parked" /\ w \notin wake
           /\ w \in wake => thread[w].pc = "parked"
    /\ pool.stopping => thread[w].pc \in {"none", "born", "parked", "ended"}
    /\ w \in pool.joined => thread[w].pc = "ended"
    /\ pool.events = "closed" => thread[w].pc \in {"none", "ended"}

(* The stages of the pool's stop. *)
StopGood ==
    /\ pool.stopping => broker.pc \in Over
    /\ broker.pc \in Over \ {"stop", "failed"} => pool.stopping
    /\ pool.events = "closed" => pool.stopping
    /\ broker.pc = "stop" => broker.next \in {"refused", "gone", "terminal_after"}
    /\ \/ broker.pc = "stop" /\ broker.next = "terminal_after"
       \/ broker.pc \in {"terminal_after", "terminal"}
       => claim = "none" /\ \A w \in Workers : thread[w].pc # "none"
    /\ broker.pc \in {"terminal_after", "terminal"} => pool.events = "closed"

(* The published chunk is the one the broker waits for. *)
WorkGood ==
    /\ broker.pc \in {"publish", "drain"} => broker.chunk # 0
    /\ broker.pc = "drain" => work.chunk = broker.chunk

(* Who holds active_query, and where a handle in doubt can have come from. *)
ClaimGood ==
    /\ broker.pc \in InRound => claim = "round"
    /\ broker.pc = "access" => claim = "query"
    /\ broker.pc \notin Over \cup InRound \cup {"access"} => claim = "none"
    /\ leaked => \/ broker.pc = "drain" /\ work.unknown
                 \/ broker.pc \in Over /\ claim # "none"

(* One moment of the conversation: the packets on the two wires and where  *)
(* a broker that has not given up then is.                                 *)
Moment(sent, answered, pcs, round) ==
    /\ up = sent /\ down = answered
    /\ \/ broker.pc \in Over
       \/ /\ broker.pc \in pcs
          /\ broker.pc \notin Before => broker.round = round
          /\ broker.pc = "receive" => broker.round = 0

(* The conversation of a child that still listens, by what it does.        *)
Listening == child.pc \notin {"failed", "sent"}
Announced == child.pc = "await_round" \/ (child.pc = "round" /\ child.chunk # 1)

Conversation ==
    /\ child.pc = "idle" => Moment(<<>>, <<>>, Before, 0)
    /\ child.pc = "await_selection" =>
           \/ Moment(<<"begin">>, <<>>, Before, 0)
           \/ Moment(<<>>, <<>>, {}, 0)
           \/ Moment(<<>>, <<"selection_ready">>, {"await_ready"}, 0)
    /\ child.pc = "round" /\ ~Announced /\ child.rounds = 0 =>
           \/ ~child.selecting /\ Moment(<<"begin">>, <<>>, Before, 0)
           \/ Moment(<<>>, <<>>, {"await_ready"}, 0)
    /\ Announced /\ child.rounds = 0 =>
           \/ ~child.selecting /\ Moment(<<"begin", "round_ready">>, <<>>, Before, 0)
           \/ Moment(<<"round_ready">>, <<>>, {"await_ready"}, 0)
           \/ Moment(<<>>, <<>>, InRound, 0)
           \/ Moment(<<>>, <<"round_closed">>, {"await_read"}, 0)
    /\ child.pc = "read" => Moment(<<>>, <<>>, {"await_read"}, 0)
    /\ child.pc = "round" /\ ~Announced /\ child.rounds = 1 =>
           \/ Moment(<<"read_finished">>, <<>>, {"await_read"}, 0)
           \/ Moment(<<>>, <<>>, {"await_ready"}, 1)
    /\ Announced /\ child.rounds = 1 =>
           \/ Moment(<<"read_finished", "round_ready">>, <<>>, {"await_read"}, 0)
           \/ Moment(<<"round_ready">>, <<>>, {"await_ready"}, 1)
           \/ Moment(<<>>, <<>>, InRound, 1)
           \/ Moment(<<>>, <<"round_closed">>, {"after"}, 1)
           \/ Moment(<<>>, <<"round_closed", "all_closed">>, {"collect_after"}, 1)
           \/ Moment(<<>>, <<"round_closed", "all_closed", "final">>, {"idle", "receive"}, 1)
    /\ child.pc = "await_all" =>
           \/ Moment(<<>>, <<>>, {"after"}, 1)
           \/ Moment(<<>>, <<"all_closed">>, {"collect_after"}, 1)
           \/ Moment(<<>>, <<"all_closed", "final">>, {"idle", "receive"}, 1)
    /\ child.pc = "await_final" =>
           \/ Moment(<<>>, <<>>, {"collect_after"}, 1)
           \/ Moment(<<>>, <<"final">>, {"idle", "receive"}, 1)
    /\ child.pc \in {"select_after", "finalize", "returned"} =>
           Moment(<<>>, <<>>, {"idle", "receive"}, 1)
    /\ child.pc = "await_closed" =>
           \/ Moment(<<"query">>, <<>>, Before, 0)
           \/ Moment(<<>>, <<>>, {"access"}, 0)
           \/ Moment(<<>>, <<"closed">>, {"reply"}, 0)
           \/ Moment(<<>>, <<"closed", "reply">>, {"idle", "receive"}, 0)
    /\ child.pc = "await_reply" =>
           \/ Moment(<<>>, <<>>, {"reply"}, 0)
           \/ Moment(<<>>, <<"reply">>, {"idle", "receive"}, 0)

(* How far the child's reader is, and whether bytes were taken by then.    *)
ReaderGood ==
    /\ child.pc \in {"idle", "await_selection", "await_closed", "await_reply"} =>
           child.rounds = 0 /\ ~child.checked
    /\ child.pc = "await_selection" => child.selecting
    /\ child.pc \in {"await_selection", "await_round", "read"} => child.chunk = 1
    /\ child.pc = "read" => child.rounds = 1 /\ ~child.checked
    /\ child.pc \in {"round", "await_round"} =>
           \/ child.rounds = 0 /\ ~child.checked
           \/ child.rounds = 1 /\ child.checked
    /\ child.pc \in {"await_all", "await_final", "select_after", "finalize", "returned"} =>
           child.rounds = 2 /\ child.checked
    /\ child.pc = "round" => child.chunk # 0
    /\ child.rounds = 0 => bytes = "unread"
    /\ child.checked => bytes = "read"

(* Occurrences of the ledger that were found intact at the state b of the  *)
(* read: the broker's round has done its chunks one by one.                *)
Seen(S, b) == \A i \in S : <<i, b>> \in queried

RoundGood ==
    /\ child.rounds # 0 => Seen(Occurrences, "unread")
    /\ child.rounds = 2 => Seen(Occurrences, "read")
    /\ down # <<>> /\ down[1] = "round_closed" => Seen(Occurrences, bytes)
    /\ broker.pc \in {"publish", "drain"} =>
           \A c \in 1 .. broker.chunk - 1 : Seen(ChunkOf(c), bytes)
    /\ broker.pc = "drain" => Seen(work.results, bytes)
    /\ broker.pc = "close_round" => Seen(Occurrences, bytes)

PoolInv ==
    /\ BrokerShape /\ PoolShape /\ StopGood /\ WorkGood /\ ClaimGood
    /\ \A w \in Workers : ThreadGood(w)
TalkInv == ChildShape /\ (Listening => Conversation /\ ReaderGood /\ RoundGood)
IndInv == PoolInv /\ TalkInv
-----------------------------------------------------------------------------
(* What a quotient is, for the chunks of a ledger. *)
LEMMA Division ==
    ASSUME NEW a \in Nat, NEW b \in Nat \ {0}
    PROVE  /\ a \div b \in Nat
           /\ b * (a \div b) <= a
           /\ a < b * (a \div b) + b
OBVIOUS

(* Products keep the order. *)
LEMMA Product ==
    ASSUME NEW b \in Nat, NEW x \in Nat, NEW y \in Nat, x <= y
    PROVE  b * x \in Nat /\ b * y \in Nat /\ b * x <= b * y
OBVIOUS

(* record_chunk_size leaves nothing out: the chunks of a ledger cover it.  *)
LEMMA ChunksCover ==
    ASSUME NEW kind \in Kinds, NEW i \in DOMAIN LedgerOf[kind]
    PROVE  \E c \in 1 .. Chunks(kind) : i \in ChunkIn(kind, c)
<1> DEFINE n == Len(LedgerOf[kind])
           q == (i - 1) \div BatchLimit
           m == (n + BatchLimit - 1) \div BatchLimit
<1>1. DOMAIN LedgerOf[kind] = 1 .. n /\ n \in Nat  BY LedgerAssumption
<1>2. BatchLimit \in Nat \ {0}  BY ReadbackAssumption
<1>3. /\ i \in Nat /\ i - 1 \in Nat /\ i <= n
      /\ n + BatchLimit - 1 \in Nat
      BY <1>1, <1>2
<1>4. q \in Nat /\ BatchLimit * q <= i - 1  BY <1>2, <1>3, Division
<1>5. m \in Nat /\ n + BatchLimit - 1 < BatchLimit * m + BatchLimit
      BY <1>2, <1>3, Division, Zenon
<1>6. ~ m <= q
  <2> HIDE DEF q, m
  <2>1. ASSUME m <= q PROVE FALSE
    <3>1. /\ BatchLimit * m \in Nat /\ BatchLimit * q \in Nat
          /\ BatchLimit * m <= BatchLimit * q
          BY <2>1, <1>2, <1>4, <1>5, Product
    <3> QED BY <3>1, <1>1, <1>2, <1>3, <1>4, <1>5
  <2> QED BY <2>1
<1>7. q + 1 \in 1 .. m
  <2> HIDE DEF q, m
  <2> QED BY <1>4, <1>5, <1>6
<1>8. q + 1 \in 1 .. Chunks(kind)  BY <1>7 DEF Chunks
<1>9. (q + 1) - 1 = q
  <2> HIDE DEF q
  <2> QED BY <1>4
<1> QED BY <1>8, <1>9 DEF ChunkIn

-----------------------------------------------------------------------------
(* Steps of the child and of the world leave the broker and its pool alone. *)
LEMMA PoolFrame ==
    ASSUME PoolInv, UNCHANGED <<broker, poolVars, claim, leaked>>
    PROVE  PoolInv'
BY DEF PoolInv, BrokerShape, PoolShape, StopGood, WorkGood, ClaimGood, ThreadGood, poolVars

(* A broker whose pool is parked goes on, gives up or stops: the pool is   *)
(* where it was, so only the claim has to be looked at.                    *)
LEMMA ReadyMoves ==
    ASSUME PoolInv, UNCHANGED poolVars, BrokerShape', ClaimGood',
           broker.pc \in Ready \ {"drain"},
           \/ broker'.pc \in (Ready \ {"drain"}) \cup {"failed"}
           \/ broker'.pc = "stop" /\ broker'.next = "refused"
           \/ broker'.pc = "stop" /\ broker'.next = "terminal_after" /\ claim' = "none",
           broker'.pc = "publish" => broker'.chunk # 0
    PROVE  PoolInv'
<1> USE DEF poolVars, PoolInv
<1>1. PoolShape'  BY DEF PoolShape
<1>2. StopGood'  BY DEF StopGood, ThreadGood, Ready, Over
<1>3. WorkGood'  BY DEF WorkGood, Ready
<1>4. ASSUME NEW w \in Workers PROVE ThreadGood(w)'
      BY DEF StopGood, ThreadGood, Ready, Over
<1> QED BY <1>1, <1>2, <1>3, <1>4

(* What a ready broker's own move does to its record. *)
LEMMA Fails ==
    ASSUME BrokerShape, FailPacket
    PROVE  BrokerShape' /\ broker'.pc = "failed"
BY DEF BrokerShape, FailPacket, BrokerPc
(* The constructor ends with a parked pool.                                *)
LEMMA BaselinePool ==
    ASSUME PoolInv, baseline
    PROVE  PoolInv'
<1>1. BrokerShape'  BY DEF PoolInv, BrokerShape, BrokerPc, baseline
<1>2. ClaimGood'
      BY <1>1 DEF PoolInv, BrokerShape, ClaimGood, BrokerPc, InRound, Over, baseline
<1> QED BY <1>1, <1>2, ReadyMoves
        DEF PoolInv, BrokerShape, BrokerPc, ClaimGood, Ready, Over, InRound, baseline

(* A fresh endpoint for the next packet.                                   *)
LEMMA RespondToOnePacketPool ==
    ASSUME PoolInv, respond_to_one_packet
    PROVE  PoolInv'
<1>1. BrokerShape'  BY DEF PoolInv, BrokerShape, BrokerPc, respond_to_one_packet
<1>2. ClaimGood'
      BY <1>1 DEF PoolInv, BrokerShape, ClaimGood, BrokerPc, InRound, Over, respond_to_one_packet
<1> QED BY <1>1, <1>2, ReadyMoves
        DEF PoolInv, BrokerShape, BrokerPc, ClaimGood, Ready, Over, InRound, respond_to_one_packet

(* No packet came.                                                         *)
LEMMA ReceiveNothingPool ==
    ASSUME PoolInv, receive_nothing
    PROVE  PoolInv'
<1>1. BrokerShape'  BY DEF PoolInv, BrokerShape, BrokerPc, receive_nothing, FailPacket
<1>2. ClaimGood'
      BY <1>1 DEF PoolInv, BrokerShape, ClaimGood, BrokerPc, InRound, Over, receive_nothing, FailPacket
<1> QED BY <1>1, <1>2, ReadyMoves
        DEF PoolInv, BrokerShape, BrokerPc, ClaimGood, Ready, Over, InRound, receive_nothing, FailPacket

(* The child reports its failure.                                          *)
LEMMA ReceiveDiagnosticPool ==
    ASSUME PoolInv, receive_diagnostic
    PROVE  PoolInv'
<1>1. BrokerShape'  BY DEF PoolInv, BrokerShape, BrokerPc, receive_diagnostic, receive, FailPacket
<1>2. ClaimGood'
      BY <1>1 DEF PoolInv, BrokerShape, ClaimGood, BrokerPc, InRound, Over, receive_diagnostic, receive, FailPacket
<1> QED BY <1>1, <1>2, ReadyMoves
        DEF PoolInv, BrokerShape, BrokerPc, ClaimGood, Ready, Over, InRound, receive_diagnostic, receive, FailPacket

(* The terminal arrives: nobody holds the claim.                           *)
LEMMA ReceiveTerminalPool ==
    ASSUME PoolInv, receive_terminal
    PROVE  PoolInv'
<1>1. BrokerShape'  BY DEF PoolInv, BrokerShape, BrokerPc, receive_terminal, receive
<1>2. ClaimGood'
      BY <1>1 DEF PoolInv, BrokerShape, ClaimGood, BrokerPc, InRound, Over, receive_terminal, receive
<1> QED BY <1>1, <1>2, ReadyMoves
        DEF PoolInv, BrokerShape, BrokerPc, ClaimGood, Ready, Over, InRound, receive_terminal, receive

(* A record scope opens.                                                   *)
LEMMA ReceiveBeginPool ==
    ASSUME PoolInv, receive_begin
    PROVE  PoolInv'
<1>1. BrokerShape'  BY DEF PoolInv, BrokerShape, BrokerPc, receive_begin, receive
<1>2. ClaimGood'
      BY <1>1 DEF PoolInv, BrokerShape, ClaimGood, BrokerPc, InRound, Over, receive_begin, receive
<1> QED BY <1>1, <1>2, ReadyMoves
        DEF PoolInv, BrokerShape, BrokerPc, ClaimGood, Ready, Over, InRound, receive_begin, receive

(* A round takes the claim.                                                *)
LEMMA BeginRecordQueriesPool ==
    ASSUME PoolInv, begin_record_queries
    PROVE  PoolInv'
<1> DEFINE s == IF broker.round = 0 THEN "first_open" ELSE "second_open"
<1>1. \/ /\ claim' = "round"
         /\ broker' = [broker EXCEPT !.pc = "publish", !.chunk = 1, !.observed = 0, !.seq = s]
      \/ claim' = claim /\ FailPacket
      BY DEF begin_record_queries
<1>2. broker.pc = "await_ready" /\ UNCHANGED <<poolVars, leaked>>  BY DEF begin_record_queries
<1> HIDE DEF s
<1>3. /\ BrokerShape'
      /\ \/ broker'.pc = "publish" /\ broker'.chunk = 1 /\ claim' = "round"
         \/ broker'.pc = "failed" /\ claim' = claim
  <2>1. BrokerShape  BY DEF PoolInv
  <2>2. CASE /\ claim' = "round"
             /\ broker' = [broker EXCEPT !.pc = "publish", !.chunk = 1, !.observed = 0, !.seq = s]
    <3>1. /\ DOMAIN broker' = DOMAIN broker /\ broker'.pc = "publish" /\ broker'.chunk = 1
          /\ broker'.round = broker.round /\ claim' = "round"
          BY <2>1, <2>2 DEF BrokerShape
    <3>2. broker'.chunk \in Nat  BY <3>1
    <3>3. BrokerShape'  BY <2>1, <3>1, <3>2 DEF BrokerShape, BrokerPc
    <3> QED BY <3>1, <3>3
  <2>3. CASE claim' = claim /\ FailPacket  BY <2>1, <2>3, Fails
  <2> QED BY <1>1, <2>2, <2>3
<1>4. ClaimGood'
      BY <1>2, <1>3 DEF PoolInv, ClaimGood, InRound, Over, poolVars
<1> QED BY <1>2, <1>3, <1>4, ReadyMoves DEF Ready, Over, BrokerPc

(* A closed round gives the claim back.                                    *)
LEMMA CloseRoundPool ==
    ASSUME PoolInv, close_round
    PROVE  PoolInv'
<1>1. BrokerShape'  BY Zenon DEF PoolInv, BrokerShape, BrokerPc, close_round, FailPacket
<1>2. ClaimGood'
      BY <1>1, Zenon DEF PoolInv, BrokerShape, ClaimGood, BrokerPc, InRound, Over, close_round, FailPacket
<1> QED BY <1>1, <1>2, ReadyMoves, Zenon
        DEF PoolInv, BrokerShape, BrokerPc, ClaimGood, Ready, Over, InRound, close_round, FailPacket

(* The read is over.                                                       *)
LEMMA ReceiveReadFinishedPool ==
    ASSUME PoolInv, receive_read_finished
    PROVE  PoolInv'
<1>1. BrokerShape'  BY DEF PoolInv, BrokerShape, BrokerPc, receive_read_finished
<1>2. ClaimGood'
      BY <1>1 DEF PoolInv, BrokerShape, ClaimGood, BrokerPc, InRound, Over, receive_read_finished
<1> QED BY <1>1, <1>2, ReadyMoves
        DEF PoolInv, BrokerShape, BrokerPc, ClaimGood, Ready, Over, InRound, receive_read_finished

(* Both rounds are closed.                                                 *)
LEMMA SendAllClosedPool ==
    ASSUME PoolInv, send_all_closed
    PROVE  PoolInv'
<1>1. BrokerShape'  BY DEF PoolInv, BrokerShape, BrokerPc, send_all_closed, FailPacket
<1>2. ClaimGood'
      BY <1>1 DEF PoolInv, BrokerShape, ClaimGood, BrokerPc, InRound, Over, send_all_closed, FailPacket
<1> QED BY <1>1, <1>2, ReadyMoves
        DEF PoolInv, BrokerShape, BrokerPc, ClaimGood, Ready, Over, InRound, send_all_closed, FailPacket

(* The last answer of a scope.                                             *)
LEMMA SendFinalPool ==
    ASSUME PoolInv, send_final
    PROVE  PoolInv'
<1>1. BrokerShape'  BY DEF PoolInv, BrokerShape, BrokerPc, send_final, FailPacket
<1>2. ClaimGood'
      BY <1>1 DEF PoolInv, BrokerShape, ClaimGood, BrokerPc, InRound, Over, send_final, FailPacket
<1> QED BY <1>1, <1>2, ReadyMoves
        DEF PoolInv, BrokerShape, BrokerPc, ClaimGood, Ready, Over, InRound, send_final, FailPacket

(* A single query takes the claim.                                         *)
LEMMA ObjectAccessPool ==
    ASSUME PoolInv, object_access
    PROVE  PoolInv'
<1>1. BrokerShape'  BY DEF PoolInv, BrokerShape, BrokerPc, object_access, receive, FailPacket
<1>2. ClaimGood'
      BY <1>1 DEF PoolInv, BrokerShape, ClaimGood, BrokerPc, InRound, Over, object_access, receive, FailPacket
<1> QED BY <1>1, <1>2, ReadyMoves
        DEF PoolInv, BrokerShape, BrokerPc, ClaimGood, Ready, Over, InRound, object_access, receive, FailPacket

(* A single query is closed, or keeps the claim.                           *)
LEMMA CloseObjectAccessPool ==
    ASSUME PoolInv, close_object_access
    PROVE  PoolInv'
<1>1. BrokerShape'  BY DEF PoolInv, BrokerShape, BrokerPc, close_object_access, FailPacket
<1>2. ClaimGood'
      BY <1>1 DEF PoolInv, BrokerShape, ClaimGood, BrokerPc, InRound, Over, close_object_access, FailPacket
<1> QED BY <1>1, <1>2, ReadyMoves
        DEF PoolInv, BrokerShape, BrokerPc, ClaimGood, Ready, Over, InRound, close_object_access, FailPacket

(* The answer to a single query.                                           *)
LEMMA ReplyObjectAccessPool ==
    ASSUME PoolInv, reply_object_access
    PROVE  PoolInv'
<1>1. BrokerShape'  BY DEF PoolInv, BrokerShape, BrokerPc, reply_object_access, FailPacket
<1>2. ClaimGood'
      BY <1>1 DEF PoolInv, BrokerShape, ClaimGood, BrokerPc, InRound, Over, reply_object_access, FailPacket
<1> QED BY <1>1, <1>2, ReadyMoves
        DEF PoolInv, BrokerShape, BrokerPc, ClaimGood, Ready, Over, InRound, reply_object_access, FailPacket

-----------------------------------------------------------------------------
(* The threads.                                                            *)

(* What a step of the pool may change: its own thread, the events, and of  *)
(* the chunk everything but which one it is.                               *)
LEMMA ThreadMoves ==
    ASSUME PoolInv, NEW w \in Workers, UNCHANGED <<broker, claim>>, PoolShape',
           \A v \in Workers \ {w} : /\ thread'[v] = thread[v]
                                    /\ v \in wake' <=> v \in wake
                                    /\ v \in done' <=> v \in done,
           work'.chunk = work.chunk,
           leaked' /\ ~leaked => broker.pc = "drain" /\ work'.unknown,
           work.unknown => work'.unknown,
           pool'.stopping = pool.stopping, pool'.joined = pool.joined,
           pool'.events = pool.events, thread[w].pc # "ended", thread[w].pc # "none",
           thread'[w].pc # "none", ThreadGood(w)'
    PROVE  PoolInv'
<1> USE DEF PoolInv
<1>1. BrokerShape'  BY DEF BrokerShape
<1>2. StopGood'  BY DEF StopGood
<1>3. WorkGood'  BY DEF WorkGood
<1>4. ClaimGood'  BY DEF ClaimGood
<1>5. ASSUME NEW v \in Workers PROVE ThreadGood(v)'
  <2>1. CASE v = w  BY <2>1
  <2>2. CASE v # w  BY <2>2 DEF ThreadGood
  <2> QED BY <2>1, <2>2
<1> QED BY <1>1, <1>2, <1>3, <1>4, <1>5

(* A thread is only ever replaced by a record with a state. *)
LEMMA ThreadSet ==
    ASSUME PoolShape, NEW w \in Workers, NEW pc \in ThreadPc, NEW pos,
           thread' = [thread EXCEPT ![w] = [pc |-> pc, pos |-> pos]]
    PROVE  /\ DOMAIN thread' = Workers
           /\ \A v \in Workers : DOMAIN thread'[v] = {"pc", "pos"} /\ thread'[v].pc \in ThreadPc
           /\ thread'[w].pc = pc
           /\ \A v \in Workers \ {w} : thread'[v] = thread[v]
BY DEF PoolShape

(* The thread parks for the first time. *)
LEMMA ThreadEntryPool ==
    ASSUME PoolInv, NEW w \in Workers, thread_entry(w)
    PROVE  PoolInv'
<1>1. PoolShape'  BY DEF PoolInv, PoolShape, ThreadPc, thread_entry
<1>2. ThreadGood(w)'
      BY DEF PoolInv, PoolShape, StopGood, ThreadGood, Ready, Over, thread_entry
<1> QED BY <1>1, <1>2, ThreadMoves DEF PoolInv, PoolShape, thread_entry

(* A wake is consumed: the thread ends, or enters the chunk. *)
LEMMA ThreadWakePool ==
    ASSUME PoolInv, NEW w \in Workers, thread_wake(w)
    PROVE  PoolInv'
<1>1. PoolShape'  BY DEF PoolInv, PoolShape, ThreadPc, thread_wake
<1>2. ThreadGood(w)'
      BY DEF PoolInv, PoolShape, StopGood, ThreadGood, Ready, Over, thread_wake
<1> QED BY <1>1, <1>2, ThreadMoves DEF PoolInv, PoolShape, thread_wake

(* The thread gives the chunk back and signals. *)
LEMMA FinishWorkPool ==
    ASSUME PoolInv, NEW w \in Workers, finish_work(w)
    PROVE  PoolInv'
<1>1. PoolShape'  BY DEF PoolInv, PoolShape, ThreadPc, finish_work
<1>2. ThreadGood(w)'
      BY DEF PoolInv, PoolShape, StopGood, ThreadGood, Ready, Over, finish_work
<1> QED BY <1>1, <1>2, ThreadMoves DEF PoolInv, PoolShape, finish_work

(* A thread that queries stays a borrower of the same chunk, whatever the  *)
(* query's outcome; a handle in doubt is noted in the chunk.               *)
LEMMA QueryKeeps ==
    ASSUME PoolInv, NEW w \in Workers, thread[w].pc \in {"run", "open"},
           UNCHANGED <<broker, claim, wake, done, pool>>,
           DOMAIN thread' = Workers,
           \A v \in Workers : DOMAIN thread'[v] = {"pc", "pos"},
           thread'[w].pc \in {"run", "open"},
           \A v \in Workers \ {w} : thread'[v] = thread[v],
           DOMAIN work' = DOMAIN work, work'.chunk = work.chunk,
           work.unknown => work'.unknown, leaked' => leaked \/ work'.unknown
    PROVE  PoolInv'
<1>1. broker.pc = "drain" /\ ~pool.stopping /\ w \notin wake /\ w \notin done
      BY DEF PoolInv, BrokerShape, PoolShape, StopGood, ThreadGood, Ready, Over, BrokerPc
<1>2. PoolShape'  BY DEF PoolInv, PoolShape, ThreadPc
<1>3. ThreadGood(w)'  BY <1>1 DEF PoolInv, ThreadGood, Ready, Over
<1> QED BY <1>1, <1>2, <1>3, ThreadMoves DEF PoolInv

(* QueryFails: the chunk is cancelled and the thread leaves it. *)
LEMMA QueryFailsKeeps ==
    ASSUME PoolInv, NEW w \in Workers, thread[w].pc \in {"run", "open"},
           UNCHANGED <<broker, claim, wake, done, pool>>,
           NEW unknown \in BOOLEAN, QueryFails(w, unknown)
    PROVE  PoolInv'
<1> DEFINE pos == Len(Assigned(w)) + 1
<1>1. thread' = [thread EXCEPT ![w] = [pc |-> "run", pos |-> pos]]  BY DEF QueryFails
<1> HIDE DEF pos
<1>2. /\ DOMAIN thread' = Workers /\ thread'[w].pc = "run"
      /\ \A v \in Workers : DOMAIN thread'[v] = {"pc", "pos"}
      /\ \A v \in Workers \ {w} : thread'[v] = thread[v]
      BY <1>1 DEF PoolInv, PoolShape
<1> DEFINE errors == work.errors \cup {Current(w)}
<1>3. work' = [work EXCEPT !.errors = errors, !.cancelled = TRUE, !.unknown = @ \/ unknown]
      BY DEF QueryFails
<1> HIDE DEF errors
<1>4. /\ DOMAIN work' = DOMAIN work /\ work'.chunk = work.chunk
      /\ work'.unknown = (work.unknown \/ unknown)
      BY <1>3 DEF PoolInv, PoolShape
<1>5. leaked' = (leaked \/ unknown)  BY DEF QueryFails
<1> QED BY <1>2, <1>4, <1>5, QueryKeeps, Zenon

(* A thread opens a query handle, or fails to. *)
LEMMA OpenQueryPool ==
    ASSUME PoolInv, NEW w \in Workers, open_query(w)
    PROVE  PoolInv'
<1>1. thread[w].pc = "run" /\ UNCHANGED <<broker, claim, wake, done, pool>>  BY DEF open_query
<1>2. CASE thread' = [thread EXCEPT ![w].pc = "open"] /\ UNCHANGED <<work, leaked>>
      BY <1>1, <1>2, QueryKeeps DEF PoolInv, PoolShape
<1>3. CASE QueryFails(w, FALSE)  BY <1>1, <1>3, QueryFailsKeeps, Zenon
<1> QED BY <1>2, <1>3, Zenon DEF open_query

(* A thread ends its query, the handle closed or in doubt. *)
LEMMA FinishQueryPool ==
    ASSUME PoolInv, NEW w \in Workers, finish_query(w)
    PROVE  PoolInv'
<1>1. thread[w].pc = "open" /\ UNCHANGED <<broker, claim, wake, done, pool>>  BY DEF finish_query
<1>2. CASE /\ thread' = [thread EXCEPT ![w] = [pc |-> "run", pos |-> @.pos + 1]]
           /\ work' = [work EXCEPT !.results = @ \cup {Current(w)}] /\ leaked' = leaked
  <2> DEFINE results == work.results \cup {Current(w)}
  <2>1. work' = [work EXCEPT !.results = results]  BY <1>2
  <2> HIDE DEF results
  <2>2. DOMAIN work' = DOMAIN work /\ work'.chunk = work.chunk /\ work'.unknown = work.unknown
        BY <2>1 DEF PoolInv, PoolShape
  <2> QED BY <1>1, <1>2, <2>2, QueryKeeps DEF PoolInv, PoolShape
<1>3. CASE QueryFails(w, FALSE)  BY <1>1, <1>3, QueryFailsKeeps, Zenon
<1>4. CASE QueryFails(w, TRUE)  BY <1>1, <1>4, QueryFailsKeeps, Zenon
<1> QED BY <1>2, <1>3, <1>4, Zenon DEF finish_query
-----------------------------------------------------------------------------
(* The broker and its pool: start, chunks and stop.                        *)

(* The pool is created: every thread, with its events. *)
LEMMA StartRecordQueriesPool ==
    ASSUME PoolInv, start_record_queries
    PROVE  PoolInv'
<1>1. /\ broker.pc = "new" /\ broker'.pc = "starting" /\ ~pool.stopping /\ ~pool'.stopping
      /\ UNCHANGED <<work, wake, done, claim, leaked>> /\ BrokerShape'
      /\ pool'.events = "open" /\ pool'.joined = pool.joined
      /\ claim = "none"
      BY DEF PoolInv, BrokerShape, PoolShape, StopGood, ClaimGood, BrokerPc, Over, InRound,
             start_record_queries
<1>2. \A w \in Workers : thread'[w].pc = "born"  BY DEF start_record_queries
<1>3. PoolShape'  BY DEF PoolInv, PoolShape, ThreadPc, start_record_queries
<1>4. StopGood'  BY <1>1 DEF StopGood, Over
<1>5. WorkGood' /\ ClaimGood'
      BY <1>1 DEF PoolInv, WorkGood, ClaimGood, Over, InRound
<1>6. ASSUME NEW w \in Workers PROVE ThreadGood(w)'
  <2>1. thread[w].pc = "none" /\ w \notin wake /\ w \notin pool.joined /\ w \notin done
        BY <1>1 DEF PoolInv, ThreadGood
  <2> QED BY <1>1, <1>2, <2>1 DEF ThreadGood, Ready
<1> QED BY <1>1, <1>3, <1>4, <1>5, <1>6 DEF PoolInv

(* It could not be completed. *)
LEMMA StartIncompletePool ==
    ASSUME PoolInv, start_incomplete
    PROVE  PoolInv'
<1>1. /\ broker.pc = "new" /\ broker'.pc = "stop" /\ broker'.next = "refused"
      /\ ~pool.stopping /\ ~pool'.stopping
      /\ UNCHANGED <<work, wake, done, claim, leaked>> /\ BrokerShape'
      /\ pool'.events = "open" /\ pool'.joined = pool.joined
      /\ claim = "none"
      BY DEF PoolInv, BrokerShape, PoolShape, StopGood, ClaimGood, BrokerPc, Over, InRound,
             start_incomplete
<1>2. \A w \in Workers : thread'[w].pc \in {"none", "born"}  BY DEF start_incomplete
<1>3. PoolShape'  BY DEF PoolInv, PoolShape, ThreadPc, start_incomplete
<1>4. StopGood'  BY <1>1 DEF StopGood, Over
<1>5. WorkGood' /\ ClaimGood'
      BY <1>1 DEF PoolInv, WorkGood, ClaimGood, Over, InRound
<1>6. ASSUME NEW w \in Workers PROVE ThreadGood(w)'
  <2>1. thread[w].pc = "none" /\ w \notin wake /\ w \notin pool.joined
        BY <1>1 DEF PoolInv, ThreadGood
  <2> QED BY <1>1, <1>2, <2>1 DEF ThreadGood, Ready, Over
<1> QED BY <1>1, <1>3, <1>4, <1>5, <1>6 DEF PoolInv

(* All threads are parked, or the deadline passed. *)
LEMMA AwaitReadyThreadsPool ==
    ASSUME PoolInv, await_ready_threads
    PROVE  PoolInv'
<1> USE DEF PoolInv
<1>1. BrokerShape'  BY Zenon DEF BrokerShape, BrokerPc, await_ready_threads
<1>2. PoolShape'  BY DEF PoolShape, await_ready_threads
<1>3. StopGood'  BY Zenon DEF BrokerShape, StopGood, Over, await_ready_threads
<1>4. WorkGood' /\ ClaimGood'
      BY Zenon DEF BrokerShape, WorkGood, ClaimGood, Over, InRound, await_ready_threads
<1>5. ASSUME NEW w \in Workers PROVE ThreadGood(w)'
      BY Zenon DEF BrokerShape, ThreadGood, StopGood, Ready, Over, BrokerPc, await_ready_threads
<1> QED BY <1>1, <1>2, <1>3, <1>4, <1>5

(* A chunk is published to a parked pool. *)
LEMMA RecordQueryChunkPool ==
    ASSUME PoolInv, record_query_chunk
    PROVE  PoolInv'
<1> USE DEF PoolInv
<1>1. /\ broker.pc = "publish" /\ broker'.pc = "drain" /\ broker'.chunk = broker.chunk
      /\ broker'.round = broker.round /\ BrokerShape'
      BY DEF BrokerShape, BrokerPc, record_query_chunk
<1>2. /\ UNCHANGED <<thread, done, claim, leaked>> /\ work'.chunk = broker.chunk
      /\ DOMAIN work' = {"chunk", "cancelled", "unknown", "results", "errors"}
      /\ DOMAIN pool' = DOMAIN pool /\ pool'.stopping = pool.stopping
      /\ pool'.joined = pool.joined /\ pool'.events = pool.events
      BY DEF PoolShape, NoWork, record_query_chunk
<1>3. \A w \in Workers : thread[w].pc = "parked" /\ w \notin done
      BY <1>1 DEF ThreadGood, Ready, Over, BrokerPc
<1>4. wake' = Workers  BY <1>3 DEF SetEvents, record_query_chunk
<1>5. PoolShape'  BY <1>2, <1>4 DEF PoolShape
<1>6. ~pool.stopping  BY <1>1 DEF StopGood, Over
<1>7. StopGood' /\ WorkGood' /\ ClaimGood'
      BY <1>1, <1>2, <1>6 DEF StopGood, WorkGood, ClaimGood, InRound, Over
<1>8. ASSUME NEW w \in Workers PROVE ThreadGood(w)'
      BY <1>1, <1>2, <1>3, <1>4, <1>6 DEF ThreadGood, Ready, Over
<1> QED BY <1>1, <1>5, <1>7, <1>8

(* The deadline cancels the chunk, no more. *)
LEMMA CancelChunkPool ==
    ASSUME PoolInv, cancel_chunk
    PROVE  PoolInv'
<1> USE DEF PoolInv
<1>1. /\ UNCHANGED <<broker, thread, wake, done, pool, claim, leaked>>
      /\ DOMAIN work' = DOMAIN work /\ work'.chunk = work.chunk /\ work'.unknown = work.unknown
      BY DEF PoolShape, cancel_chunk
<1>2. BrokerShape' /\ PoolShape'  BY <1>1 DEF BrokerShape, PoolShape
<1>3. StopGood' /\ WorkGood' /\ ClaimGood'  BY <1>1 DEF StopGood, WorkGood, ClaimGood
<1>4. ASSUME NEW w \in Workers PROVE ThreadGood(w)'  BY <1>1 DEF ThreadGood
<1> QED BY <1>2, <1>3, <1>4

(* Every thread gave the chunk back before the broker lets go of it; a     *)
(* handle in doubt fails the round.                                        *)
LEMMA DrainPool ==
    ASSUME PoolInv, drain
    PROVE  PoolInv'
<1> USE DEF PoolInv
<1>1. /\ broker.pc = "drain" /\ done = Workers /\ done' = {} /\ work' = NoWork
      /\ UNCHANGED <<thread, wake, pool, claim, leaked>>
      BY DEF drain
<1>2. \A w \in Workers : thread[w].pc = "parked" /\ w \notin wake
      BY <1>1 DEF ThreadGood
<1>3. ~pool.stopping  BY <1>1 DEF StopGood, Over
<1>4. /\ BrokerShape'
      /\ \/ broker'.pc = "failed"
         \/ /\ broker'.pc \in {"close_round", "publish"} /\ ~leaked
            /\ broker'.pc = "publish" => broker'.chunk # 0
  <2>1. CASE FailPacket  BY <2>1, Fails
  <2>2. CASE ~FailPacket
    <3> DEFINE n == broker.observed + Cardinality(work.results)
               last == broker.chunk = ChunkCount
               pc == IF last THEN "close_round" ELSE "publish"
               c == IF last THEN broker.chunk ELSE broker.chunk + 1
    <3>1. /\ broker' = [broker EXCEPT !.observed = n, !.pc = pc, !.chunk = c]
          /\ ~work.unknown
          BY <2>2 DEF drain
    <3>2. pc \in {"close_round", "publish"} /\ c \in Nat /\ c # 0
          BY <1>1 DEF BrokerShape, WorkGood
    <3> HIDE DEF n, pc, c
    <3>3. /\ DOMAIN broker' = DOMAIN broker /\ broker'.pc = pc /\ broker'.chunk = c
          /\ broker'.round = broker.round
          BY <3>1 DEF BrokerShape
    <3>4. BrokerShape'  BY <3>2, <3>3 DEF BrokerShape, BrokerPc
    <3>5. ~leaked  BY <1>1, <3>1 DEF ClaimGood, Over
    <3> QED BY <3>2, <3>3, <3>4, <3>5
  <2> QED BY <2>1, <2>2
<1>5. PoolShape'  BY <1>1 DEF PoolShape, NoWork
<1>6. StopGood'  BY <1>1, <1>3, <1>4 DEF StopGood, Over
<1>7. WorkGood'  BY <1>1, <1>4 DEF WorkGood
<1>8. ClaimGood'  BY <1>1, <1>4, SMTT(40) DEF ClaimGood, InRound, Over
<1>9. ASSUME NEW w \in Workers PROVE ThreadGood(w)'
      BY <1>1, <1>2, <1>3, <1>4 DEF StopGood, ThreadGood, Ready, Over, BrokerPc
<1> QED BY <1>4, <1>5, <1>6, <1>7, <1>8, <1>9

(* stop_record_queries: the threads are told to end. *)
LEMMA StopRecordQueriesPool ==
    ASSUME PoolInv, stop_record_queries
    PROVE  PoolInv'
<1> USE DEF PoolInv
<1>1. /\ broker.pc = "stop" /\ ~pool.stopping /\ pool'.stopping
      /\ UNCHANGED <<broker, work, thread, done, claim, leaked>>
      /\ DOMAIN pool' = DOMAIN pool /\ pool'.joined = pool.joined /\ pool'.events = pool.events
      BY DEF PoolShape, stop_record_queries
<1>2. wake' \subseteq Workers  BY DEF SetEvents, stop_record_queries
<1>3. pool'.stopping \in BOOLEAN  BY SMTT(40) DEF PoolShape, stop_record_queries
<1>4. BrokerShape' /\ PoolShape'  BY <1>1, <1>2, <1>3, SMTT(40) DEF BrokerShape, PoolShape
<1>5. StopGood' /\ WorkGood' /\ ClaimGood'
      BY <1>1, SMTT(40) DEF StopGood, WorkGood, ClaimGood, Over
<1>6. ASSUME NEW w \in Workers PROVE ThreadGood(w)'
      BY <1>1 DEF StopGood, ThreadGood, Ready, Over
<1> QED BY <1>4, <1>5, <1>6

(* A join that succeeded found its thread ended. *)
LEMMA JoinThreadPool ==
    ASSUME PoolInv, NEW w \in Workers, join_thread(w)
    PROVE  PoolInv'
<1> USE DEF PoolInv
<1>1. /\ UNCHANGED <<broker, work, thread, wake, done, claim, leaked>>
      /\ DOMAIN pool' = DOMAIN pool /\ pool'.stopping = pool.stopping
      /\ pool'.events = pool.events
      /\ \A v \in Workers : v \in pool'.joined => v \in pool.joined \/ thread[v].pc = "ended"
  <2>1. UNCHANGED <<broker, work, thread, wake, done, claim, leaked>>  BY DEF join_thread
  <2>2. CASE thread[w].pc = "ended" /\ pool' = [pool EXCEPT !.joined = @ \cup {w}]
        BY <2>1, <2>2 DEF PoolShape
  <2>3. CASE pool' = [pool EXCEPT !.abandoned = @ \cup {w}]  BY <2>1, <2>3 DEF PoolShape
  <2> QED BY <2>2, <2>3, Zenon DEF join_thread
<1>2. BrokerShape' /\ PoolShape'  BY <1>1, SMTT(40) DEF BrokerShape, PoolShape
<1>3. StopGood' /\ WorkGood' /\ ClaimGood'  BY <1>1, SMTT(40) DEF StopGood, WorkGood, ClaimGood
<1>4. ASSUME NEW v \in Workers PROVE ThreadGood(v)'  BY <1>1 DEF ThreadGood
<1> QED BY <1>2, <1>3, <1>4

(* The events are closed when every thread that was created has ended, and *)
(* a terminal goes on only after such a stop.                              *)
LEMMA FinishStopPool ==
    ASSUME PoolInv, finish_stop
    PROVE  PoolInv'
<1> USE DEF PoolInv
<1> DEFINE ended == pool.abandoned = {}
<1>1. PICK ok \in {ended, FALSE} :
          /\ pool' = [pool EXCEPT !.events = IF ended THEN "closed" ELSE @,
                                  !.closed = IF ok THEN "yes" ELSE "unknown"]
          /\ claim' = IF ~ok /\ claim = "none" THEN "pool" ELSE claim
          /\ broker' = [broker EXCEPT !.pc = IF broker.next = "terminal_after" /\ ~ok
                                             THEN "failed" ELSE broker.next]
      BY Zenon DEF finish_stop
<1>2. /\ broker.pc = "stop" /\ pool.stopping /\ Unjoined = {}
      /\ UNCHANGED <<work, thread, wake, done, leaked>>
      BY DEF finish_stop
<1>3. broker.next \in {"refused", "gone", "terminal_after"}  BY <1>2 DEF StopGood
<1>4. \A w \in Workers : ended => thread[w].pc \in {"none", "ended"}
      BY <1>2 DEF Unjoined, ThreadGood
<1>5. /\ DOMAIN pool' = DOMAIN pool /\ pool'.stopping = pool.stopping
      /\ pool'.joined = pool.joined
      /\ pool'.events = IF ended THEN "closed" ELSE pool.events
      BY <1>1 DEF PoolShape
<1>6. /\ BrokerShape'
      /\ \/ broker'.pc \in {"failed", "refused", "gone"}
         \/ /\ broker'.pc = "terminal_after" /\ broker.next = "terminal_after" /\ ended
            /\ claim' = claim
  <2>1. CASE broker.next = "terminal_after" /\ ok
        BY <1>1, <2>1, Zenon DEF BrokerShape, BrokerPc
  <2>2. CASE ~(broker.next = "terminal_after" /\ ok)
        BY <1>1, <1>3, <2>2 DEF BrokerShape, BrokerPc
  <2> QED BY <2>1, <2>2
<1>7. claim # "none" => claim' # "none"  BY <1>1
<1> HIDE DEF ended
<1>8. PoolShape'  BY <1>2, <1>5 DEF PoolShape
<1>9. StopGood'  BY <1>2, <1>5, <1>6 DEF StopGood, Over
<1>10. WorkGood'  BY <1>6 DEF WorkGood
<1>11. ClaimGood'  BY <1>2, <1>6, <1>7 DEF ClaimGood, InRound, Over
<1>12. ASSUME NEW w \in Workers PROVE ThreadGood(w)'
  <2>1. pool'.events = "closed" => thread'[w].pc \in {"none", "ended"}
    <3>1. CASE ended  BY <3>1, <1>2, <1>4
    <3>2. CASE ~ended  BY <3>2, <1>2, <1>5 DEF ThreadGood
    <3> QED BY <3>1, <3>2
  <2> QED BY <2>1, <1>2, <1>5, <1>6 DEF ThreadGood, Ready, Over
<1> QED BY <1>6, <1>8, <1>9, <1>10, <1>11, <1>12

(* The destructor: a stop of its own, or the result of the first one. *)
LEMMA DestroyPool ==
    ASSUME PoolInv, destroy
    PROVE  PoolInv'
<1> USE DEF PoolInv
<1>1. /\ broker.pc \in {"failed", "terminal"} /\ UNCHANGED <<poolVars, claim, leaked>>
      /\ BrokerShape'
      /\ \/ pool.stopping /\ broker'.pc = "gone"
         \/ ~pool.stopping /\ broker'.pc = "stop" /\ broker'.next = "gone"
      BY DEF BrokerShape, BrokerPc, destroy
<1>2. PoolShape'  BY <1>1 DEF PoolShape, poolVars
<1>3. StopGood' /\ WorkGood' /\ ClaimGood'
      BY <1>1, SMTT(40) DEF StopGood, WorkGood, ClaimGood, InRound, Over, poolVars
<1>4. ASSUME NEW w \in Workers PROVE ThreadGood(w)'
      BY <1>1 DEF StopGood, ThreadGood, Ready, Over, poolVars
<1> QED BY <1>1, <1>2, <1>3, <1>4

(* The terminal is accepted, or refused, after the stop. *)
LEMMA AcceptTerminalPool ==
    ASSUME PoolInv, accept_terminal
    PROVE  PoolInv'
<1> USE DEF PoolInv
<1>1. /\ broker.pc = "terminal_after" /\ UNCHANGED <<poolVars, claim, leaked>>
      /\ BrokerShape' /\ broker'.pc \in {"terminal", "failed"}
      BY DEF BrokerShape, BrokerPc, accept_terminal
<1>2. PoolShape'  BY <1>1 DEF PoolShape, poolVars
<1>3. StopGood' /\ WorkGood' /\ ClaimGood'
      BY <1>1 DEF StopGood, WorkGood, ClaimGood, InRound, Over, poolVars
<1>4. ASSUME NEW w \in Workers PROVE ThreadGood(w)'
      BY <1>1 DEF StopGood, ThreadGood, Ready, Over, poolVars
<1> QED BY <1>1, <1>2, <1>3, <1>4

(* The intent's handles are in doubt: the claim stays taken. *)
LEMMA IntentUnknownPool ==
    ASSUME PoolInv, intent_unknown
    PROVE  PoolInv'
<1>1. /\ broker.pc \in {"baseline", "reply", "collect_after", "terminal_after"}
      /\ UNCHANGED poolVars /\ BrokerShape' /\ claim' = "intent"
      /\ \/ broker'.pc = "failed"
         \/ broker.pc = "baseline" /\ broker'.pc = "stop" /\ broker'.next = "refused"
      BY DEF PoolInv, BrokerShape, BrokerPc, intent_unknown
<1>2. ClaimGood'  BY <1>1 DEF ClaimGood, InRound, Over
<1>3. CASE broker.pc = "terminal_after"
  <2> USE DEF PoolInv
  <2>1. PoolShape' /\ broker'.pc = "failed"  BY <1>1, <1>3 DEF PoolShape, poolVars
  <2>2. StopGood' /\ WorkGood'
        BY <1>1, <1>3, <2>1, SMTT(40) DEF StopGood, WorkGood, Over, poolVars
  <2>3. ASSUME NEW w \in Workers PROVE ThreadGood(w)'
        BY <1>1, <1>3, <2>1 DEF StopGood, ThreadGood, Ready, Over, poolVars
  <2> QED BY <1>1, <1>2, <2>1, <2>2, <2>3, SMTT(40)
<1>4. CASE broker.pc # "terminal_after"
      BY <1>1, <1>2, <1>4, ReadyMoves DEF Ready, Over, BrokerPc
<1> QED BY <1>3, <1>4
-----------------------------------------------------------------------------
(* The conversation.                                                       *)

(* A step that neither talks nor reads: what was seen stays seen, and what *)
(* the chunk reports was seen.                                             *)
LEMMA SilentTalk ==
    ASSUME TalkInv, UNCHANGED <<broker, child, wires, bytes>>, queried \subseteq queried',
           Listening /\ broker.pc = "drain" => \A i \in work'.results : <<i, bytes>> \in queried'
    PROVE  TalkInv'
<1>1. ChildShape' /\ (Listening' => Listening)  BY DEF TalkInv, ChildShape, Listening
<1>2. ASSUME Listening PROVE Conversation' /\ ReaderGood' /\ RoundGood'
  <2>1. Conversation'
    <3>1. \A s, t, P, r : Moment(s, t, P, r) => Moment(s, t, P, r)'  BY DEF Moment, wires
    <3> QED BY <1>2, <3>1, SMTT(40) DEF TalkInv, Conversation, Announced
  <2>2. ReaderGood'  BY <1>2, Zenon DEF TalkInv, ReaderGood
  <2>3. Ledger' = Ledger /\ \A c : ChunkOf(c)' = ChunkOf(c)  BY Zenon DEF Ledger, ChunkOf
  <2>4. \A S, b : Seen(S, b) => \A i \in S : <<i, b>> \in queried'  BY SMTT(40) DEF Seen
  <2>5. RoundGood'
        BY <1>2, <2>3, <2>4 DEF TalkInv, RoundGood, Seen, Occurrences, wires
  <2> QED BY <2>1, <2>2, <2>5, SMTT(40)
<1> QED BY <1>1, <1>2 DEF TalkInv

(* A step of the broker: the child and what was seen stay as they are. *)
LEMMA BrokerTalk ==
    ASSUME TalkInv, UNCHANGED <<child, history>>,
           Listening /\ Conversation /\ ReaderGood /\ RoundGood => Conversation' /\ RoundGood'
    PROVE  TalkInv'
<1>1. ChildShape' /\ (Listening' <=> Listening)  BY DEF TalkInv, ChildShape, Listening
<1>2. ReaderGood => ReaderGood'  BY DEF ReaderGood, history
<1> QED BY <1>1, <1>2 DEF TalkInv

(* Outside a round the broker owes no chunk. *)
LEMMA RoundFrame ==
    ASSUME RoundGood, UNCHANGED <<child, history>>, broker'.pc \notin InRound,
           down' # <<>> => (down'[1] # "round_closed" \/ (down # <<>> /\ down[1] = "round_closed"))
    PROVE  RoundGood'
<1>1. Ledger' = Ledger  BY DEF Ledger
<1> QED BY <1>1 DEF RoundGood, Seen, Occurrences, history, InRound

(* A broker that says nothing goes on towards the next packet or gives up. *)
LEMMA BrokerSilent ==
    ASSUME TalkInv, UNCHANGED <<child, history, wires>>,
           \/ broker'.pc \in Over
           \/ /\ broker.pc \in Before /\ broker'.pc \in Before
              /\ broker.pc \in {"idle", "receive"} => broker'.pc \in {"idle", "receive"}
              /\ broker'.pc = "receive" => broker'.round = 0
    PROVE  TalkInv'
<1>1. ASSUME Listening, Conversation, RoundGood PROVE Conversation' /\ RoundGood'
  <2>1. Conversation'
    <3>1. CASE broker'.pc \in Over
      <4>1. \A s, t, P, r : Moment(s, t, P, r) => Moment(s, t, P, r)'  BY <3>1, SMTT(40) DEF Moment, wires
      <4> QED BY <1>1, <4>1 DEF Conversation, Announced
    <3>2. CASE /\ broker.pc \in {"idle", "receive"} /\ broker'.pc \in {"idle", "receive"}
               /\ broker'.pc = "receive" => broker'.round = 0
      <4>1. \A s, t, P, r : Moment(s, t, P, r) /\ ("idle" \in P <=> "receive" \in P) => Moment(s, t, P, r)'
            BY <3>2, SMTT(40) DEF Moment, Before, Over, wires
      <4> QED BY <1>1, <4>1 DEF Conversation, Announced, Before, InRound
    <3>3. CASE /\ broker.pc \in {"new", "starting", "baseline"} /\ broker'.pc \in Before
               /\ broker'.pc = "receive" => broker'.round = 0
      <4>1. \A s, t, P, r : Moment(s, t, P, r) /\ (broker.pc \in P => P = Before) => Moment(s, t, P, r)'
            BY <3>3 DEF Moment, Before, Over, wires
      <4> QED BY <1>1, <3>3, <4>1 DEF Conversation, Announced, Before, InRound
    <3> QED BY <3>1, <3>2, <3>3, SMTT(40) DEF Before
  <2>2. broker'.pc \notin InRound  BY DEF InRound, Before, Over
  <2> QED BY <1>1, <2>1, <2>2, RoundFrame DEF wires
<1> QED BY <1>1, BrokerTalk

(* The steps that say nothing. *)
LEMMA SilentSteps ==
    ASSUME PoolInv, TalkInv,
           \/ start_record_queries \/ start_incomplete \/ await_ready_threads \/ baseline
           \/ respond_to_one_packet \/ receive_nothing \/ accept_terminal \/ intent_unknown
           \/ finish_stop \/ destroy
    PROVE  TalkInv'
<1> USE BrokerSilent DEF PoolInv, BrokerShape, Before, Over
<1>1. CASE start_record_queries  BY <1>1 DEF start_record_queries
<1>2. CASE start_incomplete  BY <1>2 DEF start_incomplete
<1>3. CASE await_ready_threads  BY <1>3, Zenon DEF await_ready_threads
<1>4. CASE baseline  BY <1>4 DEF baseline
<1>5. CASE respond_to_one_packet  BY <1>5 DEF respond_to_one_packet
<1>6. CASE receive_nothing  BY <1>6 DEF receive_nothing, FailPacket
<1>7. CASE accept_terminal  BY <1>7 DEF accept_terminal
<1>8. CASE intent_unknown  BY <1>8 DEF intent_unknown
<1>9. CASE destroy  BY <1>9 DEF destroy
<1>10. CASE finish_stop
  <2>1. UNCHANGED <<child, history, wires>>  BY <1>10 DEF finish_stop
  <2>2. PICK ok : broker' = [broker EXCEPT !.pc = IF broker.next = "terminal_after" /\ ~ok
                                                 THEN "failed" ELSE broker.next]
        BY <1>10 DEF finish_stop
  <2>3. broker.next \in {"refused", "gone", "terminal_after"}
        BY <1>10 DEF StopGood, finish_stop
  <2>4. broker'.pc \in {"failed", broker.next}
    <3>1. CASE broker.next = "terminal_after" /\ ~ok  BY <2>2, <3>1
    <3>2. CASE ~(broker.next = "terminal_after" /\ ~ok)  BY <2>2, <3>2
    <3> QED BY <3>1, <3>2
  <2> QED BY <2>1, <2>3, <2>4
<1> QED BY <1>1, <1>2, <1>3, <1>4, <1>5, <1>6, <1>7, <1>8, <1>9, <1>10

(* A child that listens has sent neither a diagnostic nor the terminal. *)
LEMMA LastPacketTalk ==
    ASSUME TalkInv, receive_diagnostic \/ receive_terminal
    PROVE  TalkInv'
<1>1. UNCHANGED <<child, history>>  BY SMTT(40) DEF receive_diagnostic, receive_terminal
<1>2. ~(Listening /\ Conversation /\ ReaderGood)
      BY DEF Conversation, ReaderGood, TalkInv, ChildShape, ChildPc, Listening, Moment, Announced,
             Before, Over, InRound, receive, receive_diagnostic, receive_terminal
<1> QED BY <1>1, <1>2, BrokerTalk
(* The broker takes the child's first packet.                              *)
LEMMA ReceiveBeginTalk ==
    ASSUME PoolInv, TalkInv, receive_begin
    PROVE  TalkInv'
<1>1. UNCHANGED <<child, history>>  BY DEF receive_begin, receive
<1>2. ASSUME Listening, Conversation, ReaderGood, RoundGood
      PROVE  Conversation' /\ RoundGood'
  <2>1. \/ child.pc = "await_selection" /\ child.selecting /\ up = <<"begin">> /\ down = <<>>
        \/ child.pc = "round" /\ ~Announced /\ child.rounds = 0 /\ ~child.selecting /\ up = <<"begin">> /\ down = <<>>
        \/ Announced /\ child.rounds = 0 /\ ~child.selecting /\ up = <<"begin", "round_ready">> /\ down = <<>>
        BY <1>2 DEF Conversation, ReaderGood, TalkInv, ChildShape, ChildPc, Listening, Moment,
           Announced, Before, Over, InRound, receive_begin, receive
  <2>2. /\ up' = Tail(up) /\ broker'.round = 0
        /\ \/ broker'.pc = "await_ready" /\ down' = IF child.selecting THEN Append(down, "selection_ready") ELSE down
           \/ broker'.pc = "failed" /\ down' = down
        BY <1>2, <2>1 DEF PoolInv, BrokerShape, Conversation, Moment, Announced, Before, Over, InRound,
           receive_begin, receive
  <2>3. CASE child.pc = "await_selection" /\ child.selecting /\ up = <<"begin">> /\ down = <<>>
    <3>1. Conversation'
      <4>1. \/ Moment(<<>>, <<"selection_ready">>, {"await_ready"}, 0)'
            \/ Moment(<<>>, <<>>, {}, 0)'
            BY <2>2, <2>3 DEF Moment, Before, Over
      <4> QED BY <1>1, <2>3, <4>1 DEF Conversation, Announced
    <3>2. down' = down \/ down' = <<"selection_ready">>
          BY <2>2, <2>3
    <3>3. /\ broker'.pc \notin InRound
          /\ down' # <<>> => \/ down'[1] # "round_closed"
                             \/ down # <<>> /\ down[1] = "round_closed"
          BY <2>2, <2>3, <3>2, SMTT(40) DEF InRound
    <3> QED BY <1>1, <1>2, <3>1, <3>3, RoundFrame, SMTT(40)
  <2>4. CASE child.pc = "round" /\ ~Announced /\ child.rounds = 0 /\ ~child.selecting /\ up = <<"begin">> /\ down = <<>>
    <3>1. Conversation'
      <4>1. Moment(<<>>, <<>>, {"await_ready"}, 0)'
            BY <2>2, <2>4 DEF Moment, Before, Over
      <4> QED BY <1>1, <2>4, <4>1 DEF Conversation, Announced
    <3>2. down' = down \/ down' = <<"selection_ready">>
          BY <2>2, <2>4
    <3>3. /\ broker'.pc \notin InRound
          /\ down' # <<>> => \/ down'[1] # "round_closed"
                             \/ down # <<>> /\ down[1] = "round_closed"
          BY <2>2, <2>4, <3>2, SMTT(40) DEF InRound
    <3> QED BY <1>1, <1>2, <3>1, <3>3, RoundFrame
  <2>5. CASE Announced /\ child.rounds = 0 /\ ~child.selecting /\ up = <<"begin", "round_ready">> /\ down = <<>>
    <3>1. Conversation'
      <4>1. Moment(<<"round_ready">>, <<>>, {"await_ready"}, 0)'
            BY <2>2, <2>5 DEF Moment, Before, Over
      <4> QED BY <1>1, <2>5, <4>1 DEF Conversation, Announced
    <3>2. down' = down \/ down' = <<"selection_ready">>
          BY <2>2, <2>5
    <3>3. /\ broker'.pc \notin InRound
          /\ down' # <<>> => \/ down'[1] # "round_closed"
                             \/ down # <<>> /\ down[1] = "round_closed"
          BY <2>2, <2>5, <3>2 DEF InRound
    <3> QED BY <1>1, <1>2, <3>1, <3>3, RoundFrame
  <2> QED BY <2>1, <2>3, <2>4, <2>5
<1> QED BY <1>1, <1>2, BrokerTalk

(* The broker learns that the bytes were read.                             *)
LEMMA ReceiveReadFinishedTalk ==
    ASSUME PoolInv, TalkInv, receive_read_finished
    PROVE  TalkInv'
<1>1. UNCHANGED <<child, history>>  BY DEF receive_read_finished
<1>2. ASSUME Listening, Conversation, ReaderGood, RoundGood
      PROVE  Conversation' /\ RoundGood'
  <2>1. \/ child.pc = "round" /\ ~Announced /\ child.rounds = 1 /\ up = <<"read_finished">> /\ down = <<>>
        \/ Announced /\ child.rounds = 1 /\ up = <<"read_finished", "round_ready">> /\ down = <<>>
        BY <1>2 DEF Conversation, ReaderGood, TalkInv, ChildShape, ChildPc, Listening, Moment,
           Announced, Before, Over, InRound, receive_read_finished
  <2>2. /\ up' = Tail(up) /\ down' = down
        /\ broker'.pc = "failed" \/ (broker'.pc = "await_ready" /\ broker'.round = 1)
        BY <1>2, <2>1, SMTT(40) DEF PoolInv, BrokerShape, Conversation, Moment, Announced, Before, Over, InRound,
           receive_read_finished
  <2>3. CASE child.pc = "round" /\ ~Announced /\ child.rounds = 1 /\ up = <<"read_finished">> /\ down = <<>>
    <3>1. Conversation'
      <4>1. Moment(<<>>, <<>>, {"await_ready"}, 1)'
            BY <2>2, <2>3 DEF Moment, Before, Over
      <4> QED BY <1>1, <2>3, <4>1 DEF Conversation, Announced
    <3>2. down' = down
          BY <2>2, <2>3
    <3>3. /\ broker'.pc \notin InRound
          /\ down' # <<>> => \/ down'[1] # "round_closed"
                             \/ down # <<>> /\ down[1] = "round_closed"
          BY <2>2, <2>3, <3>2, SMTT(40) DEF InRound
    <3> QED BY <1>1, <1>2, <3>1, <3>3, RoundFrame
  <2>4. CASE Announced /\ child.rounds = 1 /\ up = <<"read_finished", "round_ready">> /\ down = <<>>
    <3>1. Conversation'
      <4>1. Moment(<<"round_ready">>, <<>>, {"await_ready"}, 1)'
            BY <2>2, <2>4 DEF Moment, Before, Over
      <4> QED BY <1>1, <2>4, <4>1 DEF Conversation, Announced
    <3>2. down' = down
          BY <2>2, <2>4
    <3>3. /\ broker'.pc \notin InRound
          /\ down' # <<>> => \/ down'[1] # "round_closed"
                             \/ down # <<>> /\ down[1] = "round_closed"
          BY <2>2, <2>4, <3>2 DEF InRound
    <3> QED BY <1>1, <1>2, <3>1, <3>3, RoundFrame
  <2> QED BY <2>1, <2>3, <2>4
<1> QED BY <1>1, <1>2, BrokerTalk

(* The broker announces that both rounds are closed.                       *)
LEMMA SendAllClosedTalk ==
    ASSUME PoolInv, TalkInv, send_all_closed
    PROVE  TalkInv'
<1>1. UNCHANGED <<child, history>>  BY DEF send_all_closed, FailPacket
<1>2. ASSUME Listening, Conversation, ReaderGood, RoundGood
      PROVE  Conversation' /\ RoundGood'
  <2>1. \/ Announced /\ child.rounds = 1 /\ up = <<>> /\ down = <<"round_closed">>
        \/ child.pc = "await_all" /\ up = <<>> /\ down = <<>>
        BY <1>2 DEF Conversation, ReaderGood, TalkInv, ChildShape, ChildPc, Listening, Moment,
           Announced, Before, Over, InRound, send_all_closed, FailPacket
  <2>2. /\ up' = up /\ broker'.round = broker.round /\ broker.round = 1
        /\ \/ broker'.pc = "collect_after" /\ down' = Append(down, "all_closed")
           \/ broker'.pc = "failed" /\ down' = down
        BY <1>2, <2>1, SMTT(40) DEF PoolInv, BrokerShape, Conversation, Moment, Announced, Before, Over, InRound,
           send_all_closed, FailPacket
  <2>3. CASE Announced /\ child.rounds = 1 /\ up = <<>> /\ down = <<"round_closed">>
    <3>1. Conversation'
      <4>1. \/ Moment(<<>>, <<"round_closed", "all_closed">>, {"collect_after"}, 1)'
            \/ Moment(<<>>, <<"round_closed">>, {"after"}, 1)'
            BY <2>2, <2>3 DEF Moment, Before, Over
      <4> QED BY <1>1, <2>3, <4>1 DEF Conversation, Announced
    <3>2. down' = down \/ down' = <<"round_closed", "all_closed">>
          BY <2>2, <2>3
    <3>3. /\ broker'.pc \notin InRound
          /\ down' # <<>> => \/ down'[1] # "round_closed"
                             \/ down # <<>> /\ down[1] = "round_closed"
          BY <2>2, <2>3, <3>2, SMTT(40) DEF InRound
    <3> QED BY <1>1, <1>2, <3>1, <3>3, RoundFrame
  <2>4. CASE child.pc = "await_all" /\ up = <<>> /\ down = <<>>
    <3>1. Conversation'
      <4>1. \/ Moment(<<>>, <<"all_closed">>, {"collect_after"}, 1)'
            \/ Moment(<<>>, <<>>, {"after"}, 1)'
            BY <2>2, <2>4 DEF Moment, Before, Over
      <4> QED BY <1>1, <2>4, <4>1 DEF Conversation, Announced
    <3>2. down' = down \/ down' = <<"all_closed">>
          BY <2>2, <2>4
    <3>3. /\ broker'.pc \notin InRound
          /\ down' # <<>> => \/ down'[1] # "round_closed"
                             \/ down # <<>> /\ down[1] = "round_closed"
          BY <2>2, <2>4, <3>2 DEF InRound
    <3> QED BY <1>1, <1>2, <3>1, <3>3, RoundFrame
  <2> QED BY <2>1, <2>3, <2>4
<1> QED BY <1>1, <1>2, BrokerTalk

(* The broker's last packet of a scope.                                    *)
LEMMA SendFinalTalk ==
    ASSUME PoolInv, TalkInv, send_final
    PROVE  TalkInv'
<1>1. UNCHANGED <<child, history>>  BY DEF send_final, FailPacket
<1>2. ASSUME Listening, Conversation, ReaderGood, RoundGood
      PROVE  Conversation' /\ RoundGood'
  <2>1. \/ Announced /\ child.rounds = 1 /\ up = <<>> /\ down = <<"round_closed", "all_closed">>
        \/ child.pc = "await_all" /\ up = <<>> /\ down = <<"all_closed">>
        \/ child.pc = "await_final" /\ up = <<>> /\ down = <<>>
        BY <1>2 DEF Conversation, ReaderGood, TalkInv, ChildShape, ChildPc, Listening, Moment,
           Announced, Before, Over, InRound, send_final, FailPacket
  <2>2. /\ up' = up
        /\ \/ broker'.pc = "idle" /\ down' = Append(down, "final")
           \/ broker'.pc = "failed" /\ down' = down
        BY <1>2, <2>1, SMTT(40) DEF PoolInv, BrokerShape, Conversation, Moment, Announced, Before, Over, InRound,
           send_final, FailPacket
  <2>3. CASE Announced /\ child.rounds = 1 /\ up = <<>> /\ down = <<"round_closed", "all_closed">>
    <3>1. Conversation'
      <4>1. \/ Moment(<<>>, <<"round_closed", "all_closed", "final">>, {"idle", "receive"}, 1)'
            \/ Moment(<<>>, <<"round_closed", "all_closed">>, {"collect_after"}, 1)'
            BY <2>2, <2>3 DEF Moment, Before, Over
      <4> QED BY <1>1, <2>3, <4>1 DEF Conversation, Announced
    <3>2. down' = down \/ down' = <<"round_closed", "all_closed", "final">>
          BY <2>2, <2>3
    <3>3. /\ broker'.pc \notin InRound
          /\ down' # <<>> => \/ down'[1] # "round_closed"
                             \/ down # <<>> /\ down[1] = "round_closed"
          BY <2>2, <2>3, <3>2, SMTT(40) DEF InRound
    <3> QED BY <1>1, <1>2, <3>1, <3>3, RoundFrame
  <2>4. CASE child.pc = "await_all" /\ up = <<>> /\ down = <<"all_closed">>
    <3>1. Conversation'
      <4>1. \/ Moment(<<>>, <<"all_closed", "final">>, {"idle", "receive"}, 1)'
            \/ Moment(<<>>, <<"all_closed">>, {"collect_after"}, 1)'
            BY <2>2, <2>4 DEF Moment, Before, Over
      <4> QED BY <1>1, <2>4, <4>1 DEF Conversation, Announced
    <3>2. down' = down \/ down' = <<"all_closed", "final">>
          BY <2>2, <2>4
    <3>3. /\ broker'.pc \notin InRound
          /\ down' # <<>> => \/ down'[1] # "round_closed"
                             \/ down # <<>> /\ down[1] = "round_closed"
          BY <2>2, <2>4, <3>2, SMTT(40) DEF InRound
    <3> QED BY <1>1, <1>2, <3>1, <3>3, RoundFrame
  <2>5. CASE child.pc = "await_final" /\ up = <<>> /\ down = <<>>
    <3>1. Conversation'
      <4>1. \/ Moment(<<>>, <<"final">>, {"idle", "receive"}, 1)'
            \/ Moment(<<>>, <<>>, {"collect_after"}, 1)'
            BY <2>2, <2>5 DEF Moment, Before, Over
      <4> QED BY <1>1, <2>5, <4>1 DEF Conversation, Announced
    <3>2. down' = down \/ down' = <<"final">>
          BY <2>2, <2>5
    <3>3. /\ broker'.pc \notin InRound
          /\ down' # <<>> => \/ down'[1] # "round_closed"
                             \/ down # <<>> /\ down[1] = "round_closed"
          BY <2>2, <2>5, <3>2 DEF InRound
    <3> QED BY <1>1, <1>2, <3>1, <3>3, RoundFrame
  <2> QED BY <2>1, <2>3, <2>4, <2>5, SMTT(40)
<1> QED BY <1>1, <1>2, BrokerTalk

(* The broker takes an object query.                                       *)
LEMMA ObjectAccessTalk ==
    ASSUME PoolInv, TalkInv, object_access
    PROVE  TalkInv'
<1>1. UNCHANGED <<child, history>>  BY DEF object_access, receive, FailPacket
<1>2. ASSUME Listening, Conversation, ReaderGood, RoundGood
      PROVE  Conversation' /\ RoundGood'
  <2>1. child.pc = "await_closed" /\ up = <<"query">> /\ down = <<>>
        BY <1>2 DEF Conversation, ReaderGood, TalkInv, ChildShape, ChildPc, Listening, Moment,
           Announced, Before, Over, InRound, object_access, receive, FailPacket
  <2>2. /\ up' = Tail(up) /\ down' = down /\ broker'.round = 0 /\ broker'.pc \in {"access", "failed"}
        BY <1>2, <2>1, SMTT(40) DEF PoolInv, BrokerShape, Conversation, Moment, Announced, Before, Over, InRound,
           object_access, receive, FailPacket
  <2>3. CASE child.pc = "await_closed" /\ up = <<"query">> /\ down = <<>>
    <3>1. Conversation'
      <4>1. Moment(<<>>, <<>>, {"access"}, 0)'
            BY <2>2, <2>3 DEF Moment, Before, Over
      <4> QED BY <1>1, <2>3, <4>1 DEF Conversation, Announced
    <3>2. down' = down
          BY <2>2, <2>3
    <3>3. /\ broker'.pc \notin InRound
          /\ down' # <<>> => \/ down'[1] # "round_closed"
                             \/ down # <<>> /\ down[1] = "round_closed"
          BY <2>2, <2>3, <3>2 DEF InRound
    <3> QED BY <1>1, <1>2, <3>1, <3>3, RoundFrame
  <2> QED BY <2>1, <2>3, SMTT(40)
<1> QED BY <1>1, <1>2, BrokerTalk

(* The broker reports the query closed.                                    *)
LEMMA CloseObjectAccessTalk ==
    ASSUME PoolInv, TalkInv, close_object_access
    PROVE  TalkInv'
<1>1. UNCHANGED <<child, history>>  BY DEF close_object_access, FailPacket
<1>2. ASSUME Listening, Conversation, ReaderGood, RoundGood
      PROVE  Conversation' /\ RoundGood'
  <2>1. child.pc = "await_closed" /\ up = <<>> /\ down = <<>>
        BY <1>2 DEF Conversation, ReaderGood, TalkInv, ChildShape, ChildPc, Listening, Moment,
           Announced, Before, Over, InRound, close_object_access, FailPacket
  <2>2. /\ up' = up /\ broker'.round = 0
        /\ \/ broker'.pc = "reply" /\ down' = Append(down, "closed")
           \/ broker'.pc = "failed" /\ down' = down
        BY <1>2, <2>1, SMTT(40) DEF PoolInv, BrokerShape, Conversation, Moment, Announced, Before, Over, InRound,
           close_object_access, FailPacket
  <2>3. CASE child.pc = "await_closed" /\ up = <<>> /\ down = <<>>
    <3>1. Conversation'
      <4>1. \/ Moment(<<>>, <<"closed">>, {"reply"}, 0)'
            \/ Moment(<<>>, <<>>, {"access"}, 0)'
            BY <2>2, <2>3 DEF Moment, Before, Over
      <4> QED BY <1>1, <2>3, <4>1 DEF Conversation, Announced
    <3>2. down' = down \/ down' = <<"closed">>
          BY <2>2, <2>3
    <3>3. /\ broker'.pc \notin InRound
          /\ down' # <<>> => \/ down'[1] # "round_closed"
                             \/ down # <<>> /\ down[1] = "round_closed"
          BY <2>2, <2>3, <3>2 DEF InRound
    <3> QED BY <1>1, <1>2, <3>1, <3>3, RoundFrame
  <2> QED BY <2>1, <2>3
<1> QED BY <1>1, <1>2, BrokerTalk

(* The broker answers the query.                                           *)
LEMMA ReplyObjectAccessTalk ==
    ASSUME PoolInv, TalkInv, reply_object_access
    PROVE  TalkInv'
<1>1. UNCHANGED <<child, history>>  BY DEF reply_object_access, FailPacket
<1>2. ASSUME Listening, Conversation, ReaderGood, RoundGood
      PROVE  Conversation' /\ RoundGood'
  <2>1. \/ child.pc = "await_closed" /\ up = <<>> /\ down = <<"closed">>
        \/ child.pc = "await_reply" /\ up = <<>> /\ down = <<>>
        BY <1>2 DEF Conversation, ReaderGood, TalkInv, ChildShape, ChildPc, Listening, Moment,
           Announced, Before, Over, InRound, reply_object_access, FailPacket
  <2>2. /\ up' = up
        /\ \/ broker'.pc = "idle" /\ down' = Append(down, "reply")
           \/ broker'.pc = "failed" /\ down' = down
        BY <1>2, <2>1 DEF PoolInv, BrokerShape, Conversation, Moment, Announced, Before, Over, InRound,
           reply_object_access, FailPacket
  <2>3. CASE child.pc = "await_closed" /\ up = <<>> /\ down = <<"closed">>
    <3>1. Conversation'
      <4>1. \/ Moment(<<>>, <<"closed", "reply">>, {"idle", "receive"}, 0)'
            \/ Moment(<<>>, <<"closed">>, {"reply"}, 0)'
            BY <2>2, <2>3 DEF Moment, Before, Over
      <4> QED BY <1>1, <2>3, <4>1 DEF Conversation, Announced
    <3>2. down' = down \/ down' = <<"closed", "reply">>
          BY <2>2, <2>3
    <3>3. /\ broker'.pc \notin InRound
          /\ down' # <<>> => \/ down'[1] # "round_closed"
                             \/ down # <<>> /\ down[1] = "round_closed"
          BY <2>2, <2>3, <3>2 DEF InRound
    <3> QED BY <1>1, <1>2, <3>1, <3>3, RoundFrame
  <2>4. CASE child.pc = "await_reply" /\ up = <<>> /\ down = <<>>
    <3>1. Conversation'
      <4>1. \/ Moment(<<>>, <<"reply">>, {"idle", "receive"}, 0)'
            \/ Moment(<<>>, <<>>, {"reply"}, 0)'
            BY <2>2, <2>4 DEF Moment, Before, Over
      <4> QED BY <1>1, <2>4, <4>1 DEF Conversation, Announced
    <3>2. down' = down \/ down' = <<"reply">>
          BY <2>2, <2>4
    <3>3. /\ broker'.pc \notin InRound
          /\ down' # <<>> => \/ down'[1] # "round_closed"
                             \/ down # <<>> /\ down[1] = "round_closed"
          BY <2>2, <2>4, <3>2 DEF InRound
    <3> QED BY <1>1, <1>2, <3>1, <3>3, RoundFrame
  <2> QED BY <2>1, <2>3, <2>4
<1> QED BY <1>1, <1>2, BrokerTalk

-----------------------------------------------------------------------------
(* The rounds.                                                             *)

(* While the broker works at a round the child has announced that round    *)
(* and waits; no packet is on its way.                                     *)
LEMMA RoundMoment ==
    ASSUME TalkInv, Listening, broker.pc \in InRound
    PROVE  /\ up = <<>> /\ down = <<>>
           /\ \/ Announced /\ child.rounds = 0 /\ broker.round = 0
              \/ Announced /\ child.rounds = 1 /\ broker.round = 1
BY Zenon DEF TalkInv, ChildShape, ChildPc, Listening, Conversation, ReaderGood, Moment, Announced,
       Before, Over, InRound

(* The broker goes on within its round, or gives up. *)
LEMMA RoundMoves ==
    ASSUME TalkInv, Listening, UNCHANGED <<child, wires>>, broker.pc \in InRound,
           \/ broker'.pc \in Over
           \/ broker'.pc \in InRound /\ broker'.round = broker.round
    PROVE  Conversation'
<1>1. /\ up' = <<>> /\ down' = <<>>
      /\ \/ Announced /\ child.rounds = 0 /\ broker.round = 0
         \/ Announced /\ child.rounds = 1 /\ broker.round = 1
      BY RoundMoment DEF wires
<1>2. broker'.pc \in InRound => broker'.pc \notin Before  BY DEF InRound, Before
<1>3. CASE Announced /\ child.rounds = 0 /\ broker.round = 0
      BY <1>1, <1>2, <1>3, Zenon DEF Conversation, Moment, Announced
<1>4. CASE Announced /\ child.rounds = 1 /\ broker.round = 1
  <2>1. CASE broker'.pc \in Over
        BY <1>1, <1>4, <2>1, Zenon DEF Conversation, Moment, Announced
  <2>2. CASE broker'.pc \in InRound /\ broker'.round = 1
    <3>1. Moment(<<>>, <<>>, InRound, 1)'  BY <1>1, <1>2, <2>2 DEF Moment, InRound
    <3>2. /\ Announced' /\ child'.rounds = 1
          /\ child'.pc \in {"round", "await_round"}
          BY <1>4 DEF Announced
    <3> QED BY <3>1, <3>2, Zenon DEF Conversation
  <2> QED BY <1>4, <2>1, <2>2
<1> QED BY <1>1, <1>3, <1>4

(* A round begins with nothing seen. *)
LEMMA BeginRecordQueriesTalk ==
    ASSUME PoolInv, TalkInv, begin_record_queries
    PROVE  TalkInv'
<1>1. UNCHANGED <<child, history, down>> /\ up' = Tail(up)  BY DEF begin_record_queries
<1> DEFINE s == IF broker.round = 0 THEN "first_open" ELSE "second_open"
<1>2. \/ broker' = [broker EXCEPT !.pc = "publish", !.chunk = 1, !.observed = 0, !.seq = s]
      \/ FailPacket
      BY DEF begin_record_queries
<1> HIDE DEF s
<1>3. \/ broker'.pc = "publish" /\ broker'.chunk = 1 /\ broker'.round = broker.round
      \/ broker'.pc = "failed"
      BY <1>2, Zenon DEF PoolInv, BrokerShape, FailPacket
<1>4. ASSUME Listening, Conversation, ReaderGood, RoundGood
      PROVE  Conversation' /\ RoundGood'
  <2>1. /\ up = <<"round_ready">> /\ down = <<>>
        /\ \/ Announced /\ child.rounds = 0 /\ broker.round = 0
           \/ Announced /\ child.rounds = 1 /\ broker.round = 1
        BY <1>4 DEF Conversation, ReaderGood, TalkInv, ChildShape, ChildPc, Listening, Moment,
           Announced, Before, Over, InRound, begin_record_queries
  <2>2. up' = <<>> /\ down' = <<>>  BY <1>1, <2>1
  <2>3. Conversation'
    <3>1. CASE Announced /\ child.rounds = 0 /\ broker.round = 0
          BY <1>1, <1>3, <2>2, <3>1, Zenon DEF Conversation, Moment, Announced, Before, Over, InRound
    <3>2. CASE Announced /\ child.rounds = 1 /\ broker.round = 1
          BY <1>1, <1>3, <2>2, <3>2, Zenon DEF Conversation, Moment, Announced, Before, Over, InRound
    <3> QED BY <2>1, <3>1, <3>2
  <2>4. Ledger' = Ledger  BY <1>1 DEF Ledger
  <2>5. RoundGood'
    <3>1. CASE broker'.pc = "failed"
          BY <1>1, <1>4, <2>2, <3>1, RoundFrame, SMTT(40) DEF InRound
    <3>2. CASE broker'.pc = "publish" /\ broker'.chunk = 1
      <4>1. 1 .. broker'.chunk - 1 = {}  BY <3>2
      <4> QED BY <1>1, <1>4, <2>2, <2>4, <3>2, <4>1 DEF RoundGood, Seen, Occurrences, history
    <3> QED BY <1>3, <3>1, <3>2
  <2> QED BY <2>3, <2>5, SMTT(40)
<1> QED BY <1>1, <1>4, BrokerTalk

(* A published chunk has no results yet. *)
LEMMA RecordQueryChunkTalk ==
    ASSUME PoolInv, TalkInv, record_query_chunk
    PROVE  TalkInv'
<1>1. UNCHANGED <<child, history, wires>>  BY DEF record_query_chunk
<1>2. /\ broker.pc = "publish" /\ broker'.pc = "drain" /\ broker'.chunk = broker.chunk
      /\ broker'.round = broker.round
      BY DEF PoolInv, BrokerShape, record_query_chunk
<1>3. work'.results = {}  BY DEF NoWork, record_query_chunk
<1>4. ASSUME Listening, Conversation, ReaderGood, RoundGood
      PROVE  Conversation' /\ RoundGood'
  <2>1. Conversation'  BY <1>1, <1>2, <1>4, RoundMoves DEF InRound
  <2>2. Ledger' = Ledger /\ \A c : ChunkOf(c)' = ChunkOf(c)  BY <1>1, SMTT(40) DEF Ledger, ChunkOf
  <2>3. RoundGood'
        BY <1>1, <1>2, <1>3, <1>4, <2>2 DEF RoundGood, Seen, Occurrences, history, wires
  <2> QED BY <2>1, <2>3
<1> QED BY <1>1, <1>4, BrokerTalk

(* A cancelled chunk keeps its results. *)
LEMMA CancelChunkTalk ==
    ASSUME PoolInv, TalkInv, cancel_chunk
    PROVE  TalkInv'
<1>1. work'.results = work.results  BY DEF PoolInv, PoolShape, cancel_chunk
<1> QED BY <1>1, SilentTalk DEF TalkInv, RoundGood, Seen, history, cancel_chunk

(* A drained chunk was seen as a whole, and after the last one the ledger. *)
LEMMA DrainTalk ==
    ASSUME PoolInv, TalkInv, drain
    PROVE  TalkInv'
<1>1. UNCHANGED <<child, history, wires>> /\ broker.pc = "drain"  BY DEF drain
<1> DEFINE last == broker.chunk = ChunkCount
           n == broker.observed + Cardinality(work.results)
<1>2. \/ FailPacket
      \/ /\ work.results = ChunkOf(work.chunk)
         /\ broker' = [broker EXCEPT !.observed = n,
                !.pc = IF last THEN "close_round" ELSE "publish",
                !.chunk = IF last THEN @ ELSE @ + 1]
      BY DEF drain, require_record_result_access
<1> HIDE DEF n
<1>3. work.chunk = broker.chunk  BY <1>1, SMTT(40) DEF PoolInv, WorkGood
<1>4. \/ broker'.pc = "failed"
      \/ /\ last /\ broker'.pc = "close_round" /\ broker'.chunk = broker.chunk
         /\ work.results = ChunkOf(broker.chunk) /\ broker'.round = broker.round
      \/ /\ broker'.pc = "publish" /\ broker'.chunk = broker.chunk + 1
         /\ work.results = ChunkOf(broker.chunk) /\ broker'.round = broker.round
  <2>1. CASE FailPacket  BY <2>1 DEF PoolInv, BrokerShape, FailPacket
  <2>2. CASE last /\ ~FailPacket  BY <1>2, <1>3, <2>2, Zenon DEF PoolInv, BrokerShape
  <2>3. CASE ~last /\ ~FailPacket  BY <1>2, <1>3, <2>3, Zenon DEF PoolInv, BrokerShape
  <2> QED BY <2>1, <2>2, <2>3
<1>5. ASSUME Listening, Conversation, ReaderGood, RoundGood
      PROVE  Conversation' /\ RoundGood'
  <2>1. Conversation'  BY <1>1, <1>4, <1>5, RoundMoves, Zenon DEF InRound, Over
  <2>2. up' = <<>> /\ down' = <<>>  BY <1>1, <1>5, RoundMoment DEF InRound, wires
  <2>3. Ledger' = Ledger /\ \A c : ChunkOf(c)' = ChunkOf(c)  BY <1>1 DEF Ledger, ChunkOf
  <2>4. CASE broker'.pc = "failed"  BY <1>1, <1>5, <2>1, <2>2, <2>4, RoundFrame DEF InRound
  <2>5. CASE broker'.pc # "failed"
    <3>1. broker.chunk \in Nat \ {0}  BY <1>1 DEF PoolInv, BrokerShape, WorkGood
    <3>2. ASSUME NEW c \in 1 .. broker.chunk PROVE Seen(ChunkOf(c), bytes)
      <4>1. CASE c = broker.chunk  BY <1>1, <1>4, <1>5, <2>5, <4>1 DEF RoundGood
      <4>2. CASE c # broker.chunk
        <5>1. c \in 1 .. broker.chunk - 1  BY <3>1, <4>2
        <5> QED BY <1>1, <1>5, <5>1 DEF RoundGood
      <4> QED BY <4>1, <4>2, SMTT(40)
    <3>3. CASE broker'.pc = "publish"
      <4>1. 1 .. broker'.chunk - 1 = 1 .. broker.chunk  BY <1>4, <3>1, <3>3, SMTT(40)
      <4> QED BY <1>1, <1>5, <2>1, <2>2, <2>3, <3>2, <3>3, <4>1, Zenon
              DEF RoundGood, Seen, Occurrences, history
    <3>4. CASE broker'.pc = "close_round"
      <4>1. broker.chunk = ChunkCount  BY <1>4, <3>4
      <4>2. ASSUME NEW i \in Occurrences PROVE <<i, bytes>> \in queried
        <5>1. child.kind \in Kinds  BY DEF TalkInv, ChildShape
        <5>2. PICK c \in 1 .. ChunkCount : i \in ChunkOf(c)
              BY <5>1, ChunksCover DEF Occurrences, Ledger, ChunkCount, ChunkOf
        <5> QED BY <3>2, <4>1, <5>2 DEF Seen
      <4> QED BY <1>1, <1>5, <2>1, <2>2, <2>3, <3>4, <4>2
              DEF RoundGood, Seen, Occurrences, history
    <3> QED BY <1>4, <2>5, <3>3, <3>4
  <2> QED BY <2>4, <2>5, SMTT(40)
<1> QED BY <1>1, <1>5, BrokerTalk

(* The round is reported closed when the whole ledger was seen. *)
LEMMA CloseRoundTalk ==
    ASSUME PoolInv, TalkInv, close_round
    PROVE  TalkInv'
<1>1. UNCHANGED <<child, history, up>> /\ broker.pc = "close_round"  BY DEF close_round
<1>2. \/ broker'.pc = "failed" /\ down' = down
      \/ /\ broker'.pc = IF broker.round = 0 THEN "await_read" ELSE "after"
         /\ down' = Append(down, "round_closed") /\ broker'.round = broker.round
  <2>1. CASE FailPacket /\ down' = down  BY <2>1 DEF PoolInv, BrokerShape, FailPacket
  <2>2. CASE broker.round = 0 /\ ~(FailPacket /\ down' = down)
        BY <2>2, Zenon DEF PoolInv, BrokerShape, close_round
  <2>3. CASE broker.round # 0 /\ ~(FailPacket /\ down' = down)
        BY <2>3, Zenon DEF PoolInv, BrokerShape, close_round
  <2> QED BY <2>1, <2>2, <2>3
<1>3. ASSUME Listening, Conversation, ReaderGood, RoundGood
      PROVE  Conversation' /\ RoundGood'
  <2>1. /\ up = <<>> /\ down = <<>>
        /\ \/ Announced /\ child.rounds = 0 /\ broker.round = 0
           \/ Announced /\ child.rounds = 1 /\ broker.round = 1
        BY <1>1, <1>3, RoundMoment DEF InRound
  <2>2. up' = <<>> /\ (broker'.pc = "failed" \/ down' = <<"round_closed">>)
        BY <1>1, <1>2, <2>1, SMTT(40)
  <2>3. CASE broker'.pc = "failed"
    <3>1. down' = <<>> \/ down' = <<"round_closed">>  BY <1>2, <2>1
    <3>2. Conversation'
      <4>1. CASE Announced /\ child.rounds = 0
            BY <1>1, <2>2, <2>3, <3>1, <4>1, Zenon DEF Conversation, Moment, Announced, Over
      <4>2. CASE Announced /\ child.rounds = 1
            BY <1>1, <2>2, <2>3, <3>1, <4>2, Zenon DEF Conversation, Moment, Announced, Over
      <4> QED BY <2>1, <4>1, <4>2
    <3>3. Ledger' = Ledger  BY <1>1, SMTT(40) DEF Ledger
    <3> QED BY <1>1, <1>3, <2>3, <3>2, <3>3 DEF RoundGood, Seen, Occurrences, history
  <2>4. CASE broker'.pc # "failed"
    <3>1. down' = <<"round_closed">>  BY <2>2, <2>4
    <3>2. Conversation'
      <4>1. CASE Announced /\ child.rounds = 0 /\ broker.round = 0
        <5>1. Moment(<<>>, <<"round_closed">>, {"await_read"}, 0)'
              BY <1>1, <1>2, <2>2, <2>4, <3>1, <4>1, SMTT(40) DEF Moment
        <5> QED BY <1>1, <4>1, <5>1 DEF Conversation, Announced
      <4>2. CASE Announced /\ child.rounds = 1 /\ broker.round = 1
        <5>1. Moment(<<>>, <<"round_closed">>, {"after"}, 1)'
              BY <1>1, <1>2, <2>2, <2>4, <3>1, <4>2 DEF Moment
        <5> QED BY <1>1, <4>2, <5>1 DEF Conversation, Announced
      <4> QED BY <2>1, <4>1, <4>2, SMTT(40)
    <3>3. Ledger' = Ledger /\ broker'.pc \in {"await_read", "after"}
          BY <1>1, <1>2, <2>4 DEF Ledger
    <3> QED BY <1>1, <1>3, <3>2, <3>3 DEF RoundGood, Seen, Occurrences, history
  <2> QED BY <2>3, <2>4
<1> QED BY <1>1, <1>3, BrokerTalk

(* Steps of the pool: a result enters the chunk together with the fact     *)
(* that the object was seen.                                               *)
LEMMA PoolStepTalk ==
    ASSUME PoolInv, TalkInv, NEW w \in Workers, PoolStep(w)
    PROVE  TalkInv'
<1>1. Listening /\ broker.pc = "drain" => \A i \in work.results : <<i, bytes>> \in queried
      BY Zenon DEF TalkInv, RoundGood, Seen
<1>2. CASE thread_entry(w) \/ thread_wake(w) \/ finish_work(w)
      BY <1>1, <1>2, SilentTalk DEF history, thread_entry, thread_wake, finish_work
<1>3. ASSUME NEW unknown, QueryFails(w, unknown)
      PROVE  work'.results = work.results /\ queried' = queried
  <2> DEFINE errors == work.errors \cup {Current(w)}
  <2>1. work' = [work EXCEPT !.errors = errors, !.cancelled = TRUE, !.unknown = @ \/ unknown]
        BY <1>3 DEF QueryFails
  <2> HIDE DEF errors
  <2> QED BY <1>3, <2>1 DEF PoolInv, PoolShape, QueryFails
<1>4. CASE open_query(w)
  <2>1. work'.results = work.results /\ queried' = queried  BY <1>3, <1>4, Zenon DEF open_query
  <2> QED BY <1>1, <1>4, <2>1, SilentTalk DEF open_query
<1>5. CASE finish_query(w)
  <2> DEFINE i == Current(w)
  <2>1. \/ work'.results = work.results /\ queried' = queried
        \/ work' = [work EXCEPT !.results = @ \cup {i}] /\ queried' = queried \cup {<<i, bytes>>}
        BY <1>3, <1>5, Zenon DEF finish_query
  <2> HIDE DEF i
  <2>2. \/ work'.results = work.results /\ queried' = queried
        \/ work'.results = work.results \cup {i} /\ queried' = queried \cup {<<i, bytes>>}
        BY <2>1 DEF PoolInv, PoolShape
  <2> QED BY <1>1, <1>5, <2>2, SilentTalk DEF finish_query
<1> QED BY <1>2, <1>4, <1>5 DEF PoolStep

(* So do the steps of the stop and of the world. *)
LEMMA QuietTalk ==
    ASSUME PoolInv, TalkInv,
           \/ stop_record_queries \/ (\E w \in Workers : join_thread(w))
           \/ (\E i \in Ids : ChangeObject(i)) \/ ChangeWorld
           \/ \E side \in {"broker", "child"} : readback_remaining(side)
    PROVE  TalkInv'
<1>1. Listening /\ broker.pc = "drain" => \A i \in work.results : <<i, bytes>> \in queried
      BY Zenon DEF TalkInv, RoundGood, Seen
<1>2. UNCHANGED <<broker, child, up, down, bytes, queried, work>>
      BY DEF stop_record_queries, join_thread, ChangeObject, ChangeWorld, readback_remaining,
             poolVars, wires, history
<1> QED BY <1>1, <1>2, SilentTalk, Zenon DEF wires
=============================================================================
