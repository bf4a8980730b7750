------------------------ MODULE RecordReadbackProofs ------------------------
(***************************************************************************)
(* Proofs about RecordReadback for any ledger, number of threads and size  *)
(* of chunks: the steps of the child keep the invariant of                 *)
(* RecordReadbackBroker, and what follows from it.                         *)
(***************************************************************************)
EXTENDS RecordReadbackBroker

(* The child.                                                              *)

(* A child that fails no longer listens. *)
LEMMA FailScopeTalk ==
    ASSUME TalkInv, FailScope
    PROVE  TalkInv'
<1>1. ChildShape' /\ child'.pc = "failed"  BY SMTT(40) DEF TalkInv, ChildShape, ChildPc, FailScope
<1> QED BY <1>1 DEF TalkInv, Listening

(* A child that takes no bytes and closes no round: what was seen is what  *)
(* it was.                                                                 *)
LEMMA ChildRoundFrame ==
    ASSUME RoundGood, UNCHANGED <<broker, work, history>>,
           child'.kind = child.kind, child'.rounds = child.rounds,
           down' = down \/ (down' # <<>> => down'[1] # "round_closed")
    PROVE  RoundGood'
<1>1. Ledger' = Ledger /\ \A c : ChunkOf(c)' = ChunkOf(c)  BY DEF Ledger, ChunkOf
<1> QED BY <1>1 DEF RoundGood, Seen, Occurrences, history

(* Without a round, bytes or a packet in question there is nothing to see. *)
LEMMA NoRound ==
    ASSUME child'.rounds = 0, down' = <<>>, broker'.pc \notin InRound
    PROVE  RoundGood'
BY DEF RoundGood, InRound

(* A scope opens.                                                          *)
LEMMA BeginScopeTalk ==
    ASSUME TalkInv, NEW kind \in Kinds, NEW selecting \in BOOLEAN, begin_scope(kind, selecting)
    PROVE  TalkInv'
<1>1. /\ child.pc = "idle" /\ UNCHANGED <<broker, down, history>> /\ up' = Append(up, "begin")
      BY DEF begin_scope
<1>2. /\ ChildShape' /\ child'.kind = kind /\ child'.selecting = selecting /\ child'.chunk = 1
      /\ child'.rounds = child.rounds /\ child'.checked = child.checked
      /\ child'.pc = IF selecting THEN "await_selection" ELSE "round"
  <2>1. CASE selecting  BY <2>1 DEF TalkInv, ChildShape, ChildPc, begin_scope
  <2>2. CASE ~selecting  BY <2>2 DEF TalkInv, ChildShape, ChildPc, begin_scope
  <2> QED BY <2>1, <2>2
<1>3. Conversation /\ ReaderGood  BY <1>1 DEF TalkInv, Listening
<1>4. /\ up = <<>> /\ down = <<>> /\ child.rounds = 0 /\ ~child.checked /\ bytes = "unread"
      /\ broker.pc \in Over \cup Before
      /\ broker.pc = "receive" => broker.round = 0
      BY <1>1, <1>3, Zenon DEF Conversation, ReaderGood, Moment, Over
<1>5. up' = <<"begin">> /\ down' = <<>>  BY <1>1, <1>4
<1>6. Conversation'
  <2>1. Moment(<<"begin">>, <<>>, Before, 0)'  BY <1>1, <1>4, <1>5, SMTT(40) DEF Moment
  <2>2. CASE selecting  BY <1>2, <2>1, <2>2, Zenon DEF Conversation, Announced
  <2>3. CASE ~selecting
    <3>1. /\ child'.pc = "round" /\ child'.rounds = 0 /\ child'.chunk = 1 /\ child'.selecting = FALSE
          BY <1>2, <1>4, <2>3
    <3> QED BY <2>1, <3>1, SMTT(40) DEF Conversation, Announced
  <2> QED BY <2>2, <2>3
<1>7. ReaderGood'
  <2>1. CASE selecting  BY <1>1, <1>2, <1>4, <2>1, Zenon DEF ReaderGood, history
  <2>2. CASE ~selecting
    <3>1. child'.pc = "round" /\ child'.rounds = 0 /\ child'.chunk = 1 /\ ~child'.checked
          /\ bytes' = "unread"
          BY <1>1, <1>2, <1>4, <2>2 DEF history
    <3> QED BY <3>1 DEF ReaderGood
  <2> QED BY <2>1, <2>2
<1>8. RoundGood'
      BY <1>1, <1>2, <1>4, <1>5, NoRound DEF InRound, Over, Before
<1> QED BY <1>2, <1>6, <1>7, <1>8 DEF TalkInv

(* An object query is sent.                                                *)
LEMMA RequestAccessTalk ==
    ASSUME TalkInv, NEW selecting \in BOOLEAN, request_access(selecting)
    PROVE  TalkInv'
<1>1. /\ child.pc = "idle" /\ UNCHANGED <<broker, down, history>> /\ up' = Append(up, "query")
      BY DEF request_access
<1>2. /\ ChildShape' /\ child'.pc = "await_closed"
      /\ child'.rounds = child.rounds /\ child'.checked = child.checked
      BY DEF TalkInv, ChildShape, ChildPc, request_access
<1>3. Conversation /\ ReaderGood  BY <1>1 DEF TalkInv, Listening
<1>4. /\ up = <<>> /\ down = <<>> /\ child.rounds = 0 /\ ~child.checked /\ bytes = "unread"
      /\ broker.pc \in Over \cup Before
      /\ broker.pc = "receive" => broker.round = 0
      BY <1>1, <1>3, Zenon DEF Conversation, ReaderGood, Moment, Over
<1>5. up' = <<"query">> /\ down' = <<>>  BY <1>1, <1>4
<1>6. Conversation'
      BY <1>1, <1>2, <1>4, <1>5, Zenon DEF Conversation, Moment, Announced
<1>7. ReaderGood'  BY <1>1, <1>2, <1>4, Zenon DEF ReaderGood, history
<1>8. RoundGood'
      BY <1>1, <1>2, <1>4, <1>5, NoRound, Zenon DEF InRound, Over, Before
<1> QED BY <1>2, <1>6, <1>7, <1>8 DEF TalkInv

(* The child's last packet. *)
LEMMA SendLastTalk ==
    ASSUME TalkInv, send_terminal \/ send_diagnostic
    PROVE  TalkInv'
<1>1. ChildShape' /\ child'.pc = "sent"
      BY DEF TalkInv, ChildShape, ChildPc, send_terminal, send_diagnostic
<1> QED BY <1>1 DEF TalkInv, Listening

(* The selection at the first endpoint: the reader may start its round.    *)
LEMMA AwaitSelectionTalk ==
    ASSUME TalkInv, await_selection
    PROVE  TalkInv'
<1>1. /\ child.pc = "await_selection" /\ down # <<>> /\ Head(down) = "selection_ready"
      /\ down' = Tail(down) /\ UNCHANGED <<broker, work, up, history>>
      /\ child' = [child EXCEPT !.pc = "round", !.selected = 1] \/ FailScope
      BY DEF await_selection, Accept, poolVars
<1>2. CASE child' = [child EXCEPT !.pc = "round", !.selected = 1]
  <2>1. /\ ChildShape' /\ child'.pc = "round" /\ child'.chunk = child.chunk
        /\ child'.rounds = child.rounds /\ child'.checked = child.checked
        /\ child'.kind = child.kind /\ child'.selecting = child.selecting
        BY <1>2 DEF TalkInv, ChildShape, ChildPc
  <2>2. Conversation /\ ReaderGood /\ RoundGood  BY <1>1 DEF TalkInv, Listening
  <2>3. /\ up = <<>> /\ down = <<"selection_ready">>
        /\ broker.pc \in Over \/ (broker.pc = "await_ready" /\ broker.round = 0)
        /\ child.rounds = 0 /\ ~child.checked /\ child.chunk = 1 /\ bytes = "unread"
        BY <1>1, <2>2 DEF Conversation, ReaderGood, Moment, Before
  <2>4. up' = <<>> /\ down' = <<>>  BY <1>1, <2>3
  <2>5. Conversation'
        BY <1>1, <2>1, <2>3, <2>4 DEF Conversation, Moment, Announced, Before
  <2>6. ReaderGood'  BY <1>1, <2>1, <2>3 DEF ReaderGood, history
  <2>7. RoundGood'  BY <1>1, <2>1, <2>2, <2>4, ChildRoundFrame
  <2> QED BY <2>1, <2>5, <2>6, <2>7 DEF TalkInv
<1> QED BY <1>1, <1>2, FailScopeTalk

(* The closed marker of an object query, before its answer.                *)
LEMMA AwaitClosedTalk ==
    ASSUME TalkInv, await_closed
    PROVE  TalkInv'
<1>1. /\ child.pc = "await_closed" /\ down # <<>> /\ Head(down) = "closed"
      /\ down' = Tail(down) /\ UNCHANGED <<broker, work, up, history>>
      /\ child' = [child EXCEPT !.pc = "await_reply"] \/ FailScope
      BY DEF await_closed, Accept, poolVars
<1>2. CASE child' = [child EXCEPT !.pc = "await_reply"]
  <2>1. /\ ChildShape' /\ child'.pc = "await_reply"
        /\ child'.rounds = child.rounds /\ child'.checked = child.checked
        /\ child'.kind = child.kind
        BY <1>2 DEF TalkInv, ChildShape, ChildPc
  <2>2. Conversation /\ ReaderGood /\ RoundGood  BY <1>1 DEF TalkInv, Listening
  <2>3. /\ up = <<>>
        /\ \/ down = <<"closed">> /\ (broker.pc \in Over \/ (broker.pc = "reply" /\ broker.round = 0))
           \/ /\ down = <<"closed", "reply">>
              /\ broker.pc \in Over \cup {"idle", "receive"}
              /\ broker.pc = "receive" => broker.round = 0
        BY <1>1, <2>2 DEF Conversation, Moment, Before, Over
  <2>4. Conversation' /\ RoundGood'
    <3>1. CASE down = <<"closed">>
      <4>1. up' = <<>> /\ down' = <<>>  BY <1>1, <2>3, <3>1
      <4>2. broker.pc \in Over \/ (broker.pc = "reply" /\ broker.round = 0)  BY <2>3, <3>1
      <4>3. Conversation'
            BY <1>1, <2>1, <4>1, <4>2 DEF Conversation, Moment, Announced
      <4> QED BY <1>1, <2>1, <2>2, <4>1, <4>3, ChildRoundFrame
    <3>2. CASE down = <<"closed", "reply">>
      <4>1. up' = <<>> /\ down' = <<"reply">>  BY <1>1, <2>3, <3>2
      <4>2. /\ broker.pc \in Over \cup {"idle", "receive"}
            /\ broker.pc = "receive" => broker.round = 0
            BY <2>3, <3>2
      <4>3. Conversation'
            BY <1>1, <2>1, <4>1, <4>2, Zenon DEF Conversation, Moment, Announced, Before
      <4> QED BY <1>1, <2>1, <2>2, <4>1, <4>3, ChildRoundFrame
    <3> QED BY <2>3, <3>1, <3>2
  <2>5. ReaderGood'  BY <1>1, <2>1, <2>2 DEF ReaderGood, history
  <2> QED BY <2>1, <2>4, <2>5 DEF TalkInv
<1> QED BY <1>1, <1>2, FailScopeTalk

(* The answer of an object query: the child is idle again. *)
LEMMA AwaitReplyTalk ==
    ASSUME TalkInv, await_reply
    PROVE  TalkInv'
<1>1. /\ child.pc = "await_reply" /\ down # <<>> /\ Head(down) = "reply"
      /\ down' = Tail(down) /\ UNCHANGED <<broker, work, up, history>>
      /\ child' = [child EXCEPT !.pc = "idle"] \/ FailScope
      BY DEF await_reply, Accept, poolVars
<1>2. CASE child' = [child EXCEPT !.pc = "idle"]
  <2>1. /\ ChildShape' /\ child'.pc = "idle"
        /\ child'.rounds = child.rounds /\ child'.checked = child.checked
        /\ child'.kind = child.kind
        BY <1>2 DEF TalkInv, ChildShape, ChildPc
  <2>2. Conversation /\ ReaderGood /\ RoundGood  BY <1>1 DEF TalkInv, Listening
  <2>3. /\ up = <<>> /\ down = <<"reply">>
        /\ broker.pc \in Over \cup {"idle", "receive"}
        /\ broker.pc = "receive" => broker.round = 0
        BY <1>1, <2>2 DEF Conversation, Moment, Over
  <2>4. up' = <<>> /\ down' = <<>>  BY <1>1, <2>3
  <2>5. Conversation'
        BY <1>1, <2>1, <2>3, <2>4 DEF Conversation, Moment, Announced, Before
  <2>6. ReaderGood'  BY <1>1, <2>1, <2>2 DEF ReaderGood, history
  <2>7. RoundGood'  BY <1>1, <2>1, <2>2, <2>4, ChildRoundFrame
  <2> QED BY <2>1, <2>5, <2>6, <2>7 DEF TalkInv
<1> QED BY <1>1, <1>2, FailScopeTalk

(* The marker that both rounds are closed. *)
LEMMA AwaitAllClosedTalk ==
    ASSUME TalkInv, await_all_closed
    PROVE  TalkInv'
<1>1. /\ child.pc = "await_all" /\ down # <<>> /\ Head(down) = "all_closed"
      /\ down' = Tail(down) /\ UNCHANGED <<broker, work, up, history>>
      /\ child' = [child EXCEPT !.pc = "await_final"] \/ FailScope
      BY DEF await_all_closed, Accept, poolVars
<1>2. CASE child' = [child EXCEPT !.pc = "await_final"]
  <2>1. /\ ChildShape' /\ child'.pc = "await_final"
        /\ child'.rounds = child.rounds /\ child'.checked = child.checked
        /\ child'.kind = child.kind
        BY <1>2 DEF TalkInv, ChildShape, ChildPc
  <2>2. Conversation /\ ReaderGood /\ RoundGood  BY <1>1 DEF TalkInv, Listening
  <2>3. /\ up = <<>>
        /\ \/ /\ down = <<"all_closed">>
              /\ broker.pc \in Over \/ (broker.pc = "collect_after" /\ broker.round = 1)
           \/ /\ down = <<"all_closed", "final">>
              /\ broker.pc \in Over \cup {"idle", "receive"}
              /\ broker.pc = "receive" => broker.round = 0
        BY <1>1, <2>2 DEF Conversation, Moment, Before, Over
  <2>4. Conversation' /\ RoundGood'
    <3>1. CASE down = <<"all_closed">>
      <4>1. up' = <<>> /\ down' = <<>>  BY <1>1, <2>3, <3>1
      <4>2. broker.pc \in Over \/ (broker.pc = "collect_after" /\ broker.round = 1)
            BY <2>3, <3>1
      <4>3. Conversation'
            BY <1>1, <2>1, <4>1, <4>2 DEF Conversation, Moment, Announced
      <4> QED BY <1>1, <2>1, <2>2, <4>1, <4>3, ChildRoundFrame
    <3>2. CASE down = <<"all_closed", "final">>
      <4>1. up' = <<>> /\ down' = <<"final">>  BY <1>1, <2>3, <3>2
      <4>2. /\ broker.pc \in Over \cup {"idle", "receive"}
            /\ broker.pc = "receive" => broker.round = 0
            BY <2>3, <3>2
      <4>3. Conversation'
            BY <1>1, <2>1, <4>1, <4>2, Zenon DEF Conversation, Moment, Announced, Before
      <4> QED BY <1>1, <2>1, <2>2, <4>1, <4>3, ChildRoundFrame
    <3> QED BY <2>3, <3>1, <3>2
  <2>5. ReaderGood'  BY <1>1, <2>1, <2>2 DEF ReaderGood, history
  <2> QED BY <2>1, <2>4, <2>5 DEF TalkInv
<1> QED BY <1>1, <1>2, FailScopeTalk

(* The broker's last packet of a scope. *)
LEMMA AwaitFinalTalk ==
    ASSUME TalkInv, await_final
    PROVE  TalkInv'
<1> DEFINE pc == IF child.selecting THEN "select_after" ELSE "finalize"
<1>1. /\ child.pc = "await_final" /\ down # <<>> /\ Head(down) = "final"
      /\ down' = Tail(down) /\ UNCHANGED <<broker, work, up, history>>
      /\ child' = [child EXCEPT !.pc = pc] \/ FailScope
      BY DEF await_final, Accept, poolVars
<1>2. CASE child' = [child EXCEPT !.pc = pc]
  <2>1. /\ ChildShape' /\ child'.pc \in {"select_after", "finalize"}
        /\ child'.rounds = child.rounds /\ child'.checked = child.checked
        /\ child'.kind = child.kind
    <3>1. CASE child.selecting  BY <1>2, <3>1, Zenon DEF TalkInv, ChildShape, ChildPc
    <3>2. CASE ~child.selecting  BY <1>2, <3>2 DEF TalkInv, ChildShape, ChildPc
    <3> QED BY <3>1, <3>2
  <2>2. Conversation /\ ReaderGood /\ RoundGood  BY <1>1 DEF TalkInv, Listening
  <2>3. /\ up = <<>> /\ down = <<"final">>
        /\ broker.pc \in Over \cup {"idle", "receive"}
        /\ broker.pc = "receive" => broker.round = 0
        BY <1>1, <2>2 DEF Conversation, Moment, Over
  <2>4. up' = <<>> /\ down' = <<>>  BY <1>1, <2>3
  <2>5. Conversation'
        BY <1>1, <2>1, <2>3, <2>4 DEF Conversation, Moment, Announced, Before
  <2>6. ReaderGood'  BY <1>1, <2>1, <2>2 DEF ReaderGood, history
  <2>7. RoundGood'  BY <1>1, <2>1, <2>2, <2>4, ChildRoundFrame
  <2> QED BY <2>1, <2>5, <2>6, <2>7 DEF TalkInv
<1> QED BY <1>1, <1>2, FailScopeTalk

(* The broker closed the round the child waits for: the ledger was seen,   *)
(* before the read or after it.                                            *)
LEMMA AwaitRoundClosedTalk ==
    ASSUME TalkInv, await_round_closed
    PROVE  TalkInv'
<1> DEFINE pc == IF child.rounds = 0 THEN "read" ELSE "await_all"
<1>1. /\ child.pc = "await_round" /\ down # <<>> /\ Head(down) = "round_closed"
      /\ down' = Tail(down) /\ UNCHANGED <<broker, work, up, history>>
      /\ child' = [child EXCEPT !.pc = pc, !.rounds = @ + 1] \/ FailScope
      BY DEF await_round_closed, Accept, poolVars
<1>2. CASE child' = [child EXCEPT !.pc = pc, !.rounds = @ + 1]
  <2>1. Conversation /\ ReaderGood /\ RoundGood  BY <1>1 DEF TalkInv, Listening
  <2>2. /\ child.chunk = 1
        /\ \/ child.rounds = 0 /\ ~child.checked /\ bytes = "unread"
           \/ child.rounds = 1 /\ child.checked /\ bytes = "read"
        BY <1>1, <2>1 DEF ReaderGood
  <2>3. CASE child.rounds = 0 /\ ~child.checked /\ bytes = "unread"
    <3>1. /\ ChildShape' /\ child'.pc = "read" /\ child'.rounds = 1 /\ child'.chunk = 1
          /\ child'.checked = child.checked /\ child'.kind = child.kind
          BY <1>2, <2>2, <2>3 DEF TalkInv, ChildShape, ChildPc
    <3>2. /\ up = <<>> /\ down = <<"round_closed">>
          /\ broker.pc \in Over \/ (broker.pc = "await_read" /\ broker.round = 0)
          BY <1>1, <2>1, <2>3 DEF Conversation, Moment, Announced, Before
    <3>3. up' = <<>> /\ down' = <<>>  BY <1>1, <3>2
    <3>4. Conversation'
          BY <1>1, <3>1, <3>2, <3>3 DEF Conversation, Moment, Announced, Before
    <3>5. ReaderGood'  BY <1>1, <2>3, <3>1 DEF ReaderGood, history
    <3>6. Seen(Occurrences, "unread") /\ Ledger' = Ledger /\ broker.pc \notin InRound
      <4>1. down # <<>> /\ down[1] = "round_closed"  BY <3>2
      <4> QED BY <2>1, <2>3, <3>1, <3>2, <4>1 DEF RoundGood, Ledger, InRound, Over
    <3>7. RoundGood'
          BY <1>1, <3>1, <3>3, <3>6 DEF RoundGood, Seen, Occurrences, history, InRound
    <3> QED BY <3>1, <3>4, <3>5, <3>7 DEF TalkInv
  <2>4. CASE child.rounds = 1 /\ child.checked /\ bytes = "read"
    <3>1. /\ ChildShape' /\ child'.pc = "await_all" /\ child'.rounds = 2
          /\ child'.checked = child.checked /\ child'.kind = child.kind
      <4>1. child.rounds = 1 /\ ChildShape  BY <2>4 DEF TalkInv
      <4>2. child' = [child EXCEPT !.pc = "await_all", !.rounds = 2]  BY <1>2, <4>1
      <4> QED BY <4>1, <4>2 DEF ChildShape, ChildPc
    <3>2. /\ up = <<>>
          /\ \/ /\ down = <<"round_closed">>
                /\ broker.pc \in Over \/ (broker.pc = "after" /\ broker.round = 1)
             \/ /\ down = <<"round_closed", "all_closed">>
                /\ broker.pc \in Over \/ (broker.pc = "collect_after" /\ broker.round = 1)
             \/ /\ down = <<"round_closed", "all_closed", "final">>
                /\ broker.pc \in Over \cup {"idle", "receive"}
                /\ broker.pc = "receive" => broker.round = 0
          BY <1>1, <2>1, <2>4 DEF Conversation, Moment, Announced, Before, Over
    <3>3. ReaderGood'  BY <1>1, <2>4, <3>1, SMTT(40) DEF ReaderGood, history
    <3>4. /\ Seen(Occurrences, "unread") /\ Seen(Occurrences, "read") /\ Ledger' = Ledger
          /\ broker.pc \notin InRound
      <4>1. down # <<>> /\ down[1] = "round_closed"
        <5>1. CASE down = <<"round_closed">>  BY <5>1
        <5>2. CASE down = <<"round_closed", "all_closed">>  BY <5>2
        <5>3. CASE down = <<"round_closed", "all_closed", "final">>  BY <5>3
        <5> QED BY <3>2, <5>1, <5>2, <5>3
      <4> QED BY <2>1, <2>4, <3>1, <3>2, <4>1 DEF RoundGood, Ledger, InRound, Over
    <3>5. ASSUME down' # <<>> => down'[1] # "round_closed" PROVE RoundGood'
          BY <1>1, <3>1, <3>4, <3>5, SMTT(40) DEF RoundGood, Seen, Occurrences, history, InRound
    <3>6. CASE down = <<"round_closed">>
      <4>1. up' = <<>> /\ down' = <<>>  BY <1>1, <3>2, <3>6
      <4>2. broker.pc \in Over \/ (broker.pc = "after" /\ broker.round = 1)  BY <3>2, <3>6
      <4>3. Conversation'
            BY <1>1, <3>1, <4>1, <4>2 DEF Conversation, Moment, Announced
      <4> QED BY <3>1, <3>3, <3>5, <4>1, <4>3 DEF TalkInv
    <3>7. CASE down = <<"round_closed", "all_closed">>
      <4>1. up' = <<>> /\ down' = <<"all_closed">>  BY <1>1, <3>2, <3>7
      <4>2. broker.pc \in Over \/ (broker.pc = "collect_after" /\ broker.round = 1)
            BY <3>2, <3>7
      <4>3. Conversation'
            BY <1>1, <3>1, <4>1, <4>2, Zenon DEF Conversation, Moment, Announced
      <4> QED BY <3>1, <3>3, <3>5, <4>1, <4>3 DEF TalkInv
    <3>8. CASE down = <<"round_closed", "all_closed", "final">>
      <4>1. up' = <<>> /\ down' = <<"all_closed", "final">>  BY <1>1, <3>2, <3>8
      <4>2. /\ broker.pc \in Over \cup {"idle", "receive"}
            /\ broker.pc = "receive" => broker.round = 0
            BY <3>2, <3>8
      <4>3. Conversation'
            BY <1>1, <3>1, <4>1, <4>2, Zenon DEF Conversation, Moment, Announced, Before
      <4> QED BY <3>1, <3>3, <3>5, <4>1, <4>3 DEF TalkInv
    <3> QED BY <3>2, <3>6, <3>7, <3>8
  <2> QED BY <2>2, <2>3, <2>4
<1> QED BY <1>1, <1>2, FailScopeTalk

(* Appending to a sequence of one packet. *)
LEMMA AppendPair ==
    ASSUME NEW a, NEW b
    PROVE  Append(<<a>>, b) = <<a, b>>
<1> DEFINE S == {a, b}
           s == Append(<<a>>, b)
<1>1. <<a>> \in Seq(S) /\ <<a, b>> \in Seq(S)  OBVIOUS
<1>2. s \in Seq(S) /\ Len(s) = 2 /\ s[1] = a /\ s[2] = b  BY <1>1
<1> HIDE DEF s, S
<1>3. \A i \in 1 .. Len(s) : s[i] = <<a, b>>[i]
  <2> SUFFICES ASSUME NEW i \in 1 .. 2 PROVE s[i] = <<a, b>>[i]  BY <1>2
  <2>1. i = 1 \/ i = 2  OBVIOUS
  <2> QED BY <1>2, <2>1
<1>4. Len(<<a, b>>) = 2  OBVIOUS
<1>5. s = <<a, b>>  BY <1>1, <1>2, <1>3, <1>4
<1> QED BY <1>5 DEF s

(* The first chunk of a round announces it.                                *)
LEMMA QueryChunkTalk ==
    ASSUME TalkInv, query_chunk
    PROVE  TalkInv'
<1> DEFINE last == child.chunk = ChunkCount
           allowed == OnTime /\ run_round
<1>1. /\ child.pc = "round" /\ UNCHANGED <<broker, work, down, history>>
      /\ \/ FailScope
         \/ /\ up' = IF child.chunk = 1 THEN Append(up, "round_ready") ELSE up
            /\ child' = [child EXCEPT !.pc = IF last THEN "await_round" ELSE "round",
                                      !.chunk = IF last THEN 1 ELSE @ + 1]
      BY DEF query_chunk, poolVars
<1>2. CASE FailScope  BY <1>2, FailScopeTalk
<1>3. CASE ~FailScope
  <2>1. /\ ChildShape' /\ Announced' /\ child'.rounds = child.rounds
        /\ child'.checked = child.checked /\ child'.kind = child.kind
        /\ child'.selecting = child.selecting
        /\ \/ child'.pc = "await_round" /\ child'.chunk = 1
           \/ child'.pc = "round" /\ child'.chunk # 0
    <3>1. CASE last
      <4>1. child' = [child EXCEPT !.pc = "await_round", !.chunk = 1]  BY <1>1, <1>3, <3>1
      <4> QED BY <4>1 DEF TalkInv, ChildShape, ChildPc, Announced
    <3>2. CASE ~last
      <4>1. child' = [child EXCEPT !.pc = "round", !.chunk = child.chunk + 1]
            BY <1>1, <1>3, <3>2
      <4>2. child.chunk \in Nat  BY DEF TalkInv, ChildShape
      <4>3. child.chunk # 0  BY <1>1 DEF TalkInv, Listening, ReaderGood
      <4> QED BY <4>1, <4>2, <4>3 DEF TalkInv, ChildShape, ChildPc, Announced
    <3> QED BY <3>1, <3>2
  <2>2. Conversation /\ ReaderGood /\ RoundGood  BY <1>1 DEF TalkInv, Listening
  <2>3. \/ child.rounds = 0 /\ ~child.checked /\ bytes = "unread"
        \/ child.rounds = 1 /\ child.checked /\ bytes = "read"
        BY <1>1, <2>2 DEF ReaderGood
  <2>4. ReaderGood'
    <3>1. CASE child.rounds = 0 /\ ~child.checked /\ bytes = "unread"
          BY <1>1, <2>1, <3>1 DEF ReaderGood, history
    <3>2. CASE child.rounds = 1 /\ child.checked /\ bytes = "read"
          BY <1>1, <2>1, <3>2 DEF ReaderGood, history
    <3> QED BY <2>3, <3>1, <3>2
  <2>5. RoundGood'  BY <1>1, <2>1, <2>2, ChildRoundFrame
  <2>6. Conversation'
    <3>1. CASE Announced
      <4>1. up' = up /\ child.pc = "round"  BY <1>1, <1>3, <3>1 DEF Announced
      <4>2. CASE child.rounds = 0
            BY <1>1, <2>1, <2>2, <3>1, <4>1, <4>2 DEF Conversation, Moment
      <4>3. CASE child.rounds = 1
            BY <1>1, <2>1, <2>2, <3>1, <4>1, <4>3 DEF Conversation, Moment
      <4> QED BY <2>3, <4>2, <4>3
    <3>2. CASE ~Announced
      <4>1. up' = Append(up, "round_ready")  BY <1>1, <1>3, <3>2 DEF Announced
      <4>2. CASE child.rounds = 0
        <5>1. \/ ~child.selecting /\ Moment(<<"begin">>, <<>>, Before, 0)
              \/ Moment(<<>>, <<>>, {"await_ready"}, 0)
              BY <1>1, <2>2, <3>2, <4>2 DEF Conversation
        <5>2. CASE ~child.selecting /\ Moment(<<"begin">>, <<>>, Before, 0)
          <6>1. up' = <<"begin", "round_ready">>
            <7>1. up = <<"begin">>  BY <5>2 DEF Moment
            <7> QED BY <4>1, <7>1, AppendPair
          <6> QED BY <1>1, <2>1, <4>2, <5>2, <6>1 DEF Conversation, Moment
        <5>3. CASE Moment(<<>>, <<>>, {"await_ready"}, 0)
          <6>1. up' = <<"round_ready">>  BY <4>1, <5>3 DEF Moment
          <6> QED BY <1>1, <2>1, <4>2, <5>3, <6>1 DEF Conversation, Moment
        <5> QED BY <5>1, <5>2, <5>3
      <4>3. CASE child.rounds = 1
        <5>1. \/ Moment(<<"read_finished">>, <<>>, {"await_read"}, 0)
              \/ Moment(<<>>, <<>>, {"await_ready"}, 1)
              BY <1>1, <2>2, <3>2, <4>3 DEF Conversation
        <5>2. CASE Moment(<<"read_finished">>, <<>>, {"await_read"}, 0)
          <6>1. up' = <<"read_finished", "round_ready">>
            <7>1. up = <<"read_finished">>  BY <5>2 DEF Moment
            <7> QED BY <4>1, <7>1, AppendPair
          <6> QED BY <1>1, <2>1, <4>3, <5>2, <6>1 DEF Conversation, Moment
        <5>3. CASE Moment(<<>>, <<>>, {"await_ready"}, 1)
          <6>1. up' = <<"round_ready">>  BY <4>1, <5>3 DEF Moment
          <6> QED BY <1>1, <2>1, <4>3, <5>3, <6>1 DEF Conversation, Moment
        <5> QED BY <5>1, <5>2, <5>3
      <4> QED BY <2>3, <4>2, <4>3
    <3> QED BY <3>1, <3>2
  <2> QED BY <2>1, <2>4, <2>5, <2>6 DEF TalkInv
<1> QED BY <1>2, <1>3

(* Bytes are read between the rounds, while nobody queries. *)
LEMMA ReadMoment ==
    ASSUME TalkInv, child.pc = "read"
    PROVE  /\ up = <<>> /\ down = <<>> /\ child.rounds = 1 /\ ~child.checked /\ child.chunk = 1
           /\ broker.pc \in Over \/ (broker.pc = "await_read" /\ broker.round = 0)
           /\ Seen(Occurrences, "unread")
<1>1. Conversation /\ ReaderGood /\ RoundGood  BY DEF TalkInv, Listening
<1>2. child.rounds = 1  BY <1>1, SMTT(40) DEF ReaderGood
<1>3. Moment(<<>>, <<>>, {"await_read"}, 0)  BY <1>1, SMTT(40) DEF Conversation
<1>4. ~child.checked /\ child.chunk = 1 /\ Seen(Occurrences, "unread")
      BY <1>1, <1>2 DEF ReaderGood, RoundGood
<1> QED BY <1>2, <1>3, <1>4 DEF Moment, Before

(* The bytes of one file.                                                  *)
LEMMA ReadOriginalBytesTalk ==
    ASSUME TalkInv, NEW e \in Ids, read_original_bytes(e)
    PROVE  TalkInv'
<1>1. /\ child.pc = "read" /\ UNCHANGED <<broker, wires, queried>>
      /\ child' = [child EXCEPT !.reads = @ \cup {e}] \/ FailScope
      BY DEF read_original_bytes
<1>2. CASE child' = [child EXCEPT !.reads = @ \cup {e}]
  <2>1. /\ ChildShape' /\ child'.pc = "read" /\ child'.rounds = child.rounds
        /\ child'.checked = child.checked /\ child'.kind = child.kind /\ child'.chunk = child.chunk
        BY <1>1, <1>2 DEF TalkInv, ChildShape, ChildPc
  <2>2. /\ up' = <<>> /\ down' = <<>> /\ child.rounds = 1 /\ ~child.checked /\ child.chunk = 1
        /\ broker.pc \in Over \/ (broker.pc = "await_read" /\ broker.round = 0)
        /\ Seen(Occurrences, "unread")
        BY <1>1, ReadMoment DEF wires
  <2>3. Conversation'
        BY <1>1, <2>1, <2>2, SMTT(40) DEF Conversation, Moment, Announced, Before
  <2>4. ReaderGood'  BY <2>1, <2>2 DEF ReaderGood
  <2>5. Ledger' = Ledger  BY <2>1 DEF Ledger
  <2>6. RoundGood'
        BY <1>1, <2>1, <2>2, <2>5 DEF RoundGood, Seen, Occurrences, Over
  <2> QED BY <2>1, <2>3, <2>4, <2>6 DEF TalkInv
<1> QED BY <1>1, <1>2, FailScopeTalk

(* All bytes were read: the broker is told.                                *)
LEMMA FinishReadTalk ==
    ASSUME TalkInv, finish_read
    PROVE  TalkInv'
<1>1. /\ child.pc = "read" /\ UNCHANGED <<broker, down, queried>>
      /\ \/ FailScope
         \/ /\ child' = [child EXCEPT !.pc = "round", !.checked = TRUE]
            /\ up' = Append(up, "read_finished") /\ bytes' = "read"
      BY DEF finish_read
<1>2. CASE FailScope  BY <1>2, FailScopeTalk
<1>3. CASE ~FailScope
  <2>1. /\ ChildShape' /\ child'.pc = "round" /\ child'.rounds = child.rounds
        /\ child'.checked /\ child'.kind = child.kind /\ child'.chunk = child.chunk
        BY <1>1, <1>3, Zenon DEF TalkInv, ChildShape, ChildPc
  <2>2. /\ up = <<>> /\ down = <<>> /\ child.rounds = 1 /\ child.chunk = 1
        /\ broker.pc \in Over \/ (broker.pc = "await_read" /\ broker.round = 0)
        /\ Seen(Occurrences, "unread")
        BY <1>1, ReadMoment
  <2>3. up' = <<"read_finished">> /\ down' = <<>> /\ bytes' = "read"  BY <1>1, <1>3, <2>2
  <2>4. Conversation'
        BY <1>1, <2>1, <2>2, <2>3, SMTT(40) DEF Conversation, Moment, Announced, Before
  <2>5. ReaderGood'  BY <2>1, <2>2, <2>3 DEF ReaderGood
  <2>6. Ledger' = Ledger  BY <2>1 DEF Ledger
  <2>7. RoundGood'
        BY <1>1, <2>1, <2>2, <2>3, <2>6 DEF RoundGood, Seen, Occurrences, Over
  <2> QED BY <2>1, <2>4, <2>5, <2>7 DEF TalkInv
<1> QED BY <1>2, <1>3

(* After the broker's last packet the child only looks for itself. *)
LEMMA AfterTalk ==
    ASSUME TalkInv, select_after \/ finalize
    PROVE  TalkInv'
<1>1. /\ child.pc \in {"select_after", "finalize"} /\ UNCHANGED <<broker, work, wires, history>>
      /\ \/ FailScope
         \/ child' = [child EXCEPT !.pc = "finalize", !.selected = 2]
         \/ child' = [child EXCEPT !.pc = "returned"]
      BY Zenon DEF select_after, finalize, poolVars
<1>2. CASE FailScope  BY <1>2, FailScopeTalk
<1>3. CASE ~FailScope
  <2>1. /\ ChildShape' /\ child'.pc \in {"finalize", "returned"} /\ child'.rounds = child.rounds
        /\ child'.checked = child.checked /\ child'.kind = child.kind
    <3>1. ChildShape  BY DEF TalkInv
    <3>2. CASE child' = [child EXCEPT !.pc = "finalize", !.selected = 2]
          BY <3>1, <3>2 DEF ChildShape, ChildPc
    <3>3. CASE child' = [child EXCEPT !.pc = "returned"]  BY <3>1, <3>3 DEF ChildShape, ChildPc
    <3> QED BY <1>1, <1>3, <3>2, <3>3
  <2>2. Conversation /\ ReaderGood /\ RoundGood  BY <1>1 DEF TalkInv, Listening
  <2>3. Moment(<<>>, <<>>, {"idle", "receive"}, 1)  BY <1>1, <2>2 DEF Conversation
  <2>4. Conversation'
        BY <1>1, <2>1, <2>3 DEF Conversation, Moment, Announced, wires
  <2>5. ReaderGood'  BY <1>1, <2>1, <2>2 DEF ReaderGood, history
  <2>6. RoundGood'  BY <1>1, <2>1, <2>2, ChildRoundFrame DEF wires
  <2> QED BY <2>1, <2>4, <2>5, <2>6 DEF TalkInv
<1> QED BY <1>2, <1>3

(* The scope is over and forgotten. *)
LEMMA RetainBracketTalk ==
    ASSUME TalkInv, retain_bracket
    PROVE  TalkInv'
<1>1. child.pc = "returned" /\ UNCHANGED <<broker, wires>> /\ bytes' = "unread"
      BY DEF retain_bracket
<1>2. ChildShape' /\ child'.pc = "idle" /\ child'.rounds = 0 /\ ~child'.checked
  <2>1. ChildShape  BY DEF TalkInv
  <2>2. child' = [child EXCEPT !.pc = "idle", !.reads = {}, !.rounds = 0, !.chunk = 0,
                               !.selected = 0, !.checked = FALSE, !.selecting = FALSE]
        BY SMTT(40) DEF retain_bracket
  <2> QED BY <2>1, <2>2 DEF ChildShape, ChildPc
<1>3. Moment(<<>>, <<>>, {"idle", "receive"}, 1)
      BY <1>1 DEF TalkInv, Listening, Conversation
<1>4. Conversation'
      BY <1>1, <1>2, <1>3, Zenon DEF Conversation, Moment, Announced, Before, wires
<1>5. ReaderGood'  BY <1>1, <1>2 DEF ReaderGood
<1>6. RoundGood'
      BY <1>1, <1>2, <1>3, NoRound DEF Moment, InRound, Over, wires
<1> QED BY <1>2, <1>4, <1>5, <1>6 DEF TalkInv

(* The child gives up. *)
LEMMA LoseBrokerTalk ==
    ASSUME TalkInv, lose_broker
    PROVE  TalkInv'
BY FailScopeTalk DEF lose_broker

-----------------------------------------------------------------------------
(* The initial state. *)
LEMMA Initially == Init => IndInv
<1> SUFFICES ASSUME Init PROVE IndInv  OBVIOUS
<1>1. BrokerShape /\ PoolShape
      BY Zenon DEF Init, NoWork, BrokerShape, PoolShape, BrokerPc, ThreadPc
<1>2. StopGood /\ WorkGood /\ ClaimGood
      BY Zenon DEF Init, StopGood, WorkGood, ClaimGood, InRound, Over
<1>3. ASSUME NEW w \in Workers PROVE ThreadGood(w)
      BY Zenon DEF Init, ThreadGood, Ready, Over
<1>4. ChildShape  BY Zenon DEF Init, ChildShape, ChildPc, Kinds
<1>5. Conversation  BY Zenon DEF Init, Conversation, Moment, Announced, Before, Over
<1>6. ReaderGood /\ RoundGood
  <2>1. /\ child.pc = "idle" /\ child.rounds = 0 /\ ~child.checked
        /\ bytes = "unread" /\ down = <<>> /\ broker.pc = "new"
        BY Zenon DEF Init
  <2>2. ReaderGood  BY <2>1 DEF ReaderGood
  <2>3. RoundGood  BY <2>1, SMTT(40) DEF RoundGood, InRound
  <2> QED BY <2>2, <2>3, SMTT(40)
<1> QED BY <1>1, <1>2, <1>3, <1>4, <1>5, <1>6 DEF IndInv, PoolInv, TalkInv

(* Steps of the broker keep the invariant. *)
LEMMA BrokerKeeps ==
    ASSUME IndInv, BrokerStep
    PROVE  IndInv'
<1> USE DEF IndInv
<1>1. CASE start_record_queries  BY <1>1, StartRecordQueriesPool, SilentSteps
<1>2. CASE await_ready_threads  BY <1>2, AwaitReadyThreadsPool, SilentSteps
<1>3. CASE baseline  BY <1>3, BaselinePool, SilentSteps
<1>4. CASE respond_to_one_packet  BY <1>4, RespondToOnePacketPool, SilentSteps
<1>5. CASE receive_nothing  BY <1>5, ReceiveNothingPool, SilentSteps
<1>6. CASE receive_diagnostic  BY <1>6, ReceiveDiagnosticPool, LastPacketTalk
<1>7. CASE receive_terminal  BY <1>7, ReceiveTerminalPool, LastPacketTalk
<1>8. CASE accept_terminal  BY <1>8, AcceptTerminalPool, SilentSteps
<1>9. CASE receive_begin  BY <1>9, ReceiveBeginPool, ReceiveBeginTalk
<1>10. CASE begin_record_queries  BY <1>10, BeginRecordQueriesPool, BeginRecordQueriesTalk
<1>11. CASE record_query_chunk  BY <1>11, RecordQueryChunkPool, RecordQueryChunkTalk
<1>12. CASE cancel_chunk  BY <1>12, CancelChunkPool, CancelChunkTalk
<1>13. CASE drain  BY <1>13, DrainPool, DrainTalk
<1>14. CASE close_round  BY <1>14, CloseRoundPool, CloseRoundTalk
<1>15. CASE receive_read_finished  BY <1>15, ReceiveReadFinishedPool, ReceiveReadFinishedTalk
<1>16. CASE send_all_closed  BY <1>16, SendAllClosedPool, SendAllClosedTalk
<1>17. CASE send_final  BY <1>17, SendFinalPool, SendFinalTalk
<1>18. CASE object_access  BY <1>18, ObjectAccessPool, ObjectAccessTalk
<1>19. CASE close_object_access  BY <1>19, CloseObjectAccessPool, CloseObjectAccessTalk
<1>20. CASE reply_object_access  BY <1>20, ReplyObjectAccessPool, ReplyObjectAccessTalk
<1>21. CASE stop_record_queries  BY <1>21, StopRecordQueriesPool, QuietTalk
<1>22. CASE \E w \in Workers : join_thread(w)  BY <1>22, JoinThreadPool, QuietTalk
<1>23. CASE finish_stop  BY <1>23, FinishStopPool, SilentSteps
<1>24. CASE destroy  BY <1>24, DestroyPool, SilentSteps
<1> QED BY <1>1, <1>2, <1>3, <1>4, <1>5, <1>6, <1>7, <1>8, <1>9, <1>10, <1>11, <1>12, <1>13,
           <1>14, <1>15, <1>16, <1>17, <1>18, <1>19, <1>20, <1>21, <1>22, <1>23, <1>24
        DEF BrokerStep

(* Steps of the child keep the invariant. *)
LEMMA ChildKeeps ==
    ASSUME IndInv, ChildStep
    PROVE  IndInv'
<1>1. UNCHANGED <<broker, poolVars, claim, leaked>>
  <2>1. CASE \/ \E selecting \in BOOLEAN :
                   request_access(selecting) \/ \E kind \in Kinds : begin_scope(kind, selecting)
             \/ send_terminal \/ send_diagnostic \/ query_chunk
             \/ (\E e \in Ids : read_original_bytes(e)) \/ finish_read \/ select_after
             \/ finalize \/ retain_bracket \/ lose_broker
        BY <2>1, Zenon DEF request_access, begin_scope, send_terminal, send_diagnostic, query_chunk,
           read_original_bytes, finish_read, select_after, finalize, retain_bracket, lose_broker
  <2>2. CASE \/ await_selection \/ await_closed \/ await_reply \/ await_all_closed
             \/ await_final \/ await_round_closed
        BY <2>2 DEF await_selection, await_closed, await_reply, await_all_closed, await_final,
           await_round_closed, Accept
  <2> QED BY <2>1, <2>2 DEF ChildStep
<1>2. PoolInv'  BY <1>1, PoolFrame DEF IndInv
<1>3. TalkInv'
      BY RequestAccessTalk, BeginScopeTalk, SendLastTalk, AwaitSelectionTalk, AwaitClosedTalk,
         AwaitReplyTalk, AwaitAllClosedTalk, AwaitFinalTalk, QueryChunkTalk,
         AwaitRoundClosedTalk, ReadOriginalBytesTalk, FinishReadTalk, AfterTalk,
         RetainBracketTalk, LoseBrokerTalk
      DEF IndInv, ChildStep
<1> QED BY <1>2, <1>3 DEF IndInv

(* Every step keeps the invariant. *)
LEMMA Inductive == IndInv /\ [Next]_vars => IndInv'
<1> SUFFICES ASSUME IndInv, [Next]_vars PROVE IndInv'  OBVIOUS
<1> USE DEF IndInv
<1>1. CASE \/ (\E i \in Ids : ChangeObject(i)) \/ ChangeWorld
           \/ \E side \in {"broker", "child"} : readback_remaining(side)
  <2>1. UNCHANGED <<broker, poolVars, claim, leaked>>
        BY <1>1 DEF ChangeObject, ChangeWorld, readback_remaining, poolVars
  <2> QED BY <1>1, <2>1, PoolFrame, QuietTalk, SMTT(40)
<1>2. ASSUME NEW w \in Workers, PoolStep(w) PROVE IndInv'
      BY <1>2, ThreadEntryPool, ThreadWakePool, OpenQueryPool, FinishQueryPool, FinishWorkPool,
         PoolStepTalk DEF PoolStep
<1>3. CASE start_incomplete  BY <1>3, StartIncompletePool, SilentSteps
<1>4. CASE intent_unknown  BY <1>4, IntentUnknownPool, SilentSteps
<1>5. CASE BrokerStep  BY <1>5, BrokerKeeps
<1>6. CASE ChildStep  BY <1>6, ChildKeeps
<1>7. CASE UNCHANGED vars
  <2>1. UNCHANGED <<broker, poolVars, claim, leaked, child, wires, bytes, queried, work>>
        BY <1>7 DEF vars, poolVars, wires
  <2>2. Listening /\ broker.pc = "drain" => \A i \in work.results : <<i, bytes>> \in queried
        BY Zenon DEF TalkInv, RoundGood, Seen
  <2> QED BY <2>1, <2>2, PoolFrame, SilentTalk
<1> QED BY <1>1, <1>2, <1>3, <1>4, <1>5, <1>6, <1>7 DEF Next

-----------------------------------------------------------------------------
(* IndInv holds in every reachable state. *)
THEOREM Invariance == Spec => []IndInv
BY Initially, Inductive, PTL DEF Spec

(* What the threads of the pool use outlives them, for any number of       *)
(* threads and any size of chunks: record_query_chunk does not return      *)
(* beneath a borrower, and no event is closed that a thread may wait on.   *)
THEOREM Borrowing == Spec => []BorrowedOutlivesThreads
<1>1. ASSUME IndInv PROVE BorrowedOutlivesThreads
  <2> USE <1>1 DEF IndInv, PoolInv
  <2>1. EventsOutliveThreads  BY DEF EventsOutliveThreads, ThreadGood
  <2>2. BorrowedWorkIsHeld
    <3> SUFFICES ASSUME NEW w \in Workers,
                        \/ thread[w].pc \in {"run", "open"}
                        \/ thread[w].pc = "parked" /\ w \in wake /\ ~pool.stopping
                 PROVE  work.chunk # 0 /\ broker.pc = "drain"
          BY SMTT(40) DEF BorrowedWorkIsHeld
    <3>1. broker.pc = "drain"  BY DEF ThreadGood, StopGood
    <3> QED BY <3>1 DEF WorkGood
  <2> QED BY <2>1, <2>2, SMTT(40) DEF BorrowedOutlivesThreads
<1> QED BY <1>1, Invariance, PTL

(* A terminal is accepted from a quiet broker only: the pool has ended and *)
(* nothing is in doubt.                                                    *)
THEOREM QuietTerminal == Spec => []TerminalMeansQuiet
<1>1. ASSUME IndInv PROVE TerminalMeansQuiet
  <2> SUFFICES ASSUME broker.pc = "terminal"
               PROVE  /\ \A w \in Workers : thread[w].pc = "ended"
                      /\ pool.events = "closed" /\ claim = "none" /\ ~leaked
      BY SMTT(40) DEF TerminalMeansQuiet
  <2> USE <1>1 DEF IndInv, PoolInv
  <2>1. /\ pool.events = "closed" /\ claim = "none"
        /\ \A w \in Workers : thread[w].pc # "none"
        BY Zenon DEF StopGood
  <2>2. \A w \in Workers : thread[w].pc \in {"none", "ended"}  BY <2>1 DEF ThreadGood
  <2>3. ~leaked  BY <2>1, SMTT(40) DEF ClaimGood
  <2> QED BY <2>1, <2>2, <2>3
<1> QED BY <1>1, Invariance, PTL

(* Record bytes reach the engine only between two complete rounds, for any *)
(* ledger: every occurrence was found intact before the first byte was     *)
(* read and again after the last one.                                      *)
THEOREM Bracket == Spec => []BracketedRead
<1>1. ASSUME IndInv PROVE BracketedRead
  <2> SUFFICES ASSUME child.pc = "returned"
               PROVE  Seen(Occurrences, "unread") /\ Seen(Occurrences, "read")
      BY Zenon DEF BracketedRead, Seen
  <2>1. ReaderGood /\ RoundGood  BY <1>1 DEF IndInv, TalkInv, Listening
  <2> QED BY <2>1 DEF ReaderGood, RoundGood
<1> QED BY <1>1, Invariance, PTL

(* While a query handle is open or in doubt, active_query is taken. *)
THEOREM ClaimHeld == Spec => []ClaimCoversHandles
<1>1. ASSUME IndInv PROVE ClaimCoversHandles
  <2> USE <1>1 DEF IndInv, PoolInv
  <2>1. ASSUME NEW w \in Workers, thread[w].pc = "open" PROVE claim # "none"
    <3>1. broker.pc = "drain"  BY <2>1, Zenon DEF ThreadGood, StopGood
    <3> QED BY <3>1 DEF ClaimGood, InRound
  <2>2. leaked => claim # "none"  BY DEF ClaimGood, InRound
  <2> QED BY <2>1, <2>2 DEF ClaimCoversHandles
<1> QED BY <1>1, Invariance, PTL
=============================================================================
