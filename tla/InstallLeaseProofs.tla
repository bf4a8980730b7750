------------------------- MODULE InstallLeaseProofs -------------------------
(***************************************************************************)
(* Proofs about InstallLease for any workers, any operations, any journal  *)
(* limit and any bound on the revision.                                    *)
(*                                                                         *)
(* What a worker may rely on at each of its points follows from the guard: *)
(* while it is inside a call no other worker appends a record, so what it  *)
(* read from the history when it asked still holds when it publishes.  The *)
(* history itself is described record by record and never by recursion: an *)
(* append leaves every earlier record and its neighbours alone.            *)
(***************************************************************************)
EXTENDS InstallLease, TLAPS

\* Generations grow with every active record and never exceed the number of
\* records; a terminal record keeps the generation it closes.
Ordered(h) ==
    \A k \in 1 .. Len(h) :
        /\ h[k].gen \in 1 .. k
        /\ \A j \in 1 .. k - 1 :
             /\ h[j].gen <= h[k].gen
             /\ h[k].status = "active" => h[j].gen < h[k].gen

\* Record i is the active record with which maintenance operation o began.
Original(h, o, g, i) ==
    /\ i \in 1 .. Len(h)
    /\ h[i].op = o /\ h[i].status = "active" /\ h[i].gen = g
    /\ \A k \in 1 .. i - 1 : h[k].op # o

\* From its original record on the history is that of operation o.
Unfinished(h, o, i) ==
    \A k \in i .. Len(h) : h[k].op = o /\ h[k].status # "completed"

\* Operation o was completed by record c and has no record after it.
Finished(h, o, i, c) ==
    /\ c \in i + 1 .. Len(h) /\ h[c].status = "completed"
    /\ \A k \in i .. c : h[k].op = o
    /\ \A k \in i .. c - 1 : h[k].status # "completed"
    /\ \A k \in c + 1 .. Len(h) : h[k].op # o

Open(h, o, g) == \E i \in 1 .. Len(h) : Original(h, o, g, i) /\ Unfinished(h, o, i)

Closed(h, o, g) ==
    \E i, c \in 1 .. Len(h) : Original(h, o, g, i) /\ Finished(h, o, i, c)

Recorded(h, o) == \E k \in 1 .. Len(h) : h[k].op = o

\* An operation with a record has a durable intent; a maintenance operation
\* without original custody never completed, one with it is open or closed.
OperationGood(o) ==
    /\ Recorded(hist, o) => intent[o] # None
    /\ o \in Maint =>
         IF custody[o] = 0
         THEN \A k \in 1 .. Len(hist) : hist[k].op = o => hist[k].status # "completed"
         ELSE Open(hist, o, custody[o]) \/ Closed(hist, o, custody[o])

\* What the request rests on, until its active record is published.
RequestGood(p) ==
    /\ req[p] \in Request /\ intent[req[p].op] # None
    /\ ~req[p].recovery => ~Recorded(hist, req[p].op)
    /\ req[p].recovery /\ req[p].op \in Maint =>
         custody[req[p].op] # 0 /\ Open(hist, req[p].op, custody[req[p].op])

\* The worker has derived the next active record.
AcquireGood(p) ==
    /\ own[p] = derive_install_lease_ownership(hist, Len(hist), p, req[p])
    /\ Successor(hist, Len(hist), req[p], rev, PreviousHolderEnded)
    /\ Len(hist) + 2 <= HistoryLimit
    /\ pend > 0

\* The last record is the active one of this worker.
LastIsOwn(p) ==
    /\ req[p] \in Request
    /\ own[p] \in Record /\ own[p].op = req[p].op /\ own[p].status = "active"
    /\ hist # <<>> /\ hist[Len(hist)] = own[p]
    /\ Len(hist) + 1 <= HistoryLimit
    /\ pend < HistoryLimit

HeldGood(p) ==
    req[p].op \in Maint =>
        IF req[p].recovery
        THEN /\ custody[req[p].op] # 0
             /\ Open(hist, req[p].op, custody[req[p].op])
             /\ custody[req[p].op] < own[p].gen
        ELSE \A k \in 1 .. Len(hist) - 1 : hist[k].op # req[p].op

WorkingGood(p) ==
    req[p].op \in Maint =>
        custody[req[p].op] # 0 /\ Open(hist, req[p].op, custody[req[p].op])

\* The worker has derived the terminal record of the last one.
FinishGood(p) ==
    /\ req[p] \in Request
    /\ hist # <<>> /\ hist[Len(hist)].status = "active" /\ hist[Len(hist)].op = req[p].op
    /\ own[p] \in Record /\ own[p].status \in {"completed", "handoff"}
    /\ own[p] = finish_install_lease_ownership(hist[Len(hist)], rev, own[p].status)
    /\ Len(hist) + 1 <= HistoryLimit
    /\ pend > 0

WorkerGood(p) ==
    /\ pc[p] # "idle" => guard = p /\ p \in alive
    /\ pc[p] = "request" => RequestGood(p)
    /\ pc[p] = "acquire" => RequestGood(p) /\ AcquireGood(p)
    /\ pc[p] = "held" => LastIsOwn(p) /\ HeldGood(p)
    /\ pc[p] = "working" => LastIsOwn(p) /\ WorkingGood(p)
    /\ pc[p] = "finish" => FinishGood(p) /\ WorkingGood(p)

IndInv ==
    /\ TypeOK
    /\ Valid(hist) /\ Ordered(hist)
    /\ LedgerMatchesState /\ OneOwner
    /\ \A p \in Proc : WorkerGood(p)
    /\ \A o \in Op : OperationGood(o)

-----------------------------------------------------------------------------
(* What an append does to a history.                                       *)

\* An appended record is the last one and the others stay where they were.
LEMMA AppendFacts ==
    ASSUME NEW h \in Seq(Record), NEW r \in Record
    PROVE  /\ Append(h, r) \in Seq(Record) /\ Len(h) \in Nat
           /\ Len(Append(h, r)) = Len(h) + 1
           /\ Append(h, r)[Len(h) + 1] = r
           /\ \A k \in 1 .. Len(h) : Append(h, r)[k] = h[k] /\ h[k] \in Record
           /\ Append(h, r) # <<>>
OBVIOUS

\* What latest() asks of an active record.
LEMMA RederivesActive ==
    ASSUME NEW h, NEW k, NEW n, n = k - 1,
           h[k] = [op |-> h[k].op, holder |-> h[k].holder,
                   gen |-> IF n = 0 THEN 1 ELSE h[n].gen + 1,
                   exp |-> h[k].exp, status |-> "active", res |-> 0],
           n > 0 /\ h[n].status # "completed" =>
              /\ h[n].op = h[k].op
              /\ h[n].status = "handoff" => h[n].res = h[k].exp
    PROVE  Rederives(h, k)
BY DEF Rederives, Successor, derive_install_lease_ownership

\* latest() accepts a longer history when it accepts the new record.
LEMMA ValidAppend ==
    ASSUME NEW h \in Seq(Record), NEW r \in Record,
           Valid(h), Len(h) + 1 <= HistoryLimit, Rederives(Append(h, r), Len(h) + 1)
    PROVE  Valid(Append(h, r))
<1> DEFINE a == Append(h, r)
<1>1. /\ Len(h) \in Nat /\ Len(a) = Len(h) + 1 
      /\ \A k \in 1 .. Len(h) : a[k] = h[k]
  BY AppendFacts
<1> HIDE DEF a
<1>2. ASSUME NEW k \in 1 .. Len(h) PROVE Rederives(a, k)
  <2>1. Rederives(h, k)
    BY DEF Valid
  <2>2. a[k] = h[k] /\ (k > 1 => a[k - 1] = h[k - 1])
    BY <1>1
  <2>3. k \in Nat /\ k >= 1 /\ (k - 1 > 0 <=> k > 1) /\ (k - 1 = 0 <=> ~ (k > 1))
    BY <1>1
  <2> QED
    BY <2>1, <2>2, <2>3, Zenon DEF Rederives, Successor, derive_install_lease_ownership,
                            finish_install_lease_ownership
<1> QED
  BY <1>1, <1>2 DEF Valid, a

\* Generations stay ordered when the new record continues the last one.
LEMMA OrderedAppend ==
    ASSUME NEW h \in Seq(Record), NEW r \in Record, Ordered(h),
           r.status = "active" => r.gen = IF Len(h) = 0 THEN 1 ELSE h[Len(h)].gen + 1,
           r.status # "active" => Len(h) > 0 /\ r.gen = h[Len(h)].gen
    PROVE  Ordered(Append(h, r))
<1> DEFINE a == Append(h, r)
<1>1. /\ Len(h) \in Nat /\ Len(a) = Len(h) + 1 /\ a[Len(h) + 1] = r
      /\ \A k \in 1 .. Len(h) : a[k] = h[k] /\ h[k] \in Record
  BY AppendFacts
<1> HIDE DEF a
<1>2. ASSUME NEW k \in 1 .. Len(h)
      PROVE  /\ a[k].gen \in 1 .. k
             /\ \A j \in 1 .. k - 1 :
                  /\ a[j].gen <= a[k].gen
                  /\ a[k].status = "active" => a[j].gen < a[k].gen
  BY <1>1 DEF Ordered
<1>3. \A k \in 1 .. Len(h) : h[k].gen \in Nat /\ h[k].gen <= h[Len(h)].gen
  BY <1>1 DEF Ordered, Record
<1>4. r.gen \in 1 .. Len(h) + 1
  BY <1>1, <1>3 DEF Ordered, Record
<1>5. \A j \in 1 .. Len(h) : a[j].gen <= r.gen /\ (r.status = "active" => a[j].gen < r.gen)
  BY <1>1, <1>3, <1>4
<1>6. Ordered(a)
  BY <1>1, <1>2, <1>4, <1>5 DEF Ordered
<1> QED
  BY <1>6 DEF a

\* The original record of an operation stays its original record.
LEMMA OriginalAppend ==
    ASSUME NEW h \in Seq(Record), NEW r \in Record, NEW o, NEW g, NEW i,
           Original(h, o, g, i)
    PROVE  Original(Append(h, r), o, g, i)
BY AppendFacts DEF Original

\* A record of its own operation that is not a completion leaves it open.
LEMMA OpenAppend ==
    ASSUME NEW h \in Seq(Record), NEW r \in Record, NEW o, NEW g, Open(h, o, g),
           r.op = o, r.status # "completed"
    PROVE  Open(Append(h, r), o, g)
<1>1. PICK i \in 1 .. Len(h) : Original(h, o, g, i) /\ Unfinished(h, o, i)
  BY DEF Open
<1>2. Original(Append(h, r), o, g, i)
  BY <1>1, OriginalAppend
<1>3. Unfinished(Append(h, r), o, i)
  BY <1>1, AppendFacts DEF Unfinished
<1> QED
  BY <1>2, <1>3, AppendFacts DEF Open

\* Its completion closes it.
LEMMA CloseAppend ==
    ASSUME NEW h \in Seq(Record), NEW r \in Record, NEW o, NEW g, Open(h, o, g),
           r.op = o, r.status = "completed"
    PROVE  Closed(Append(h, r), o, g)
<1>1. PICK i \in 1 .. Len(h) : Original(h, o, g, i) /\ Unfinished(h, o, i)
  BY DEF Open
<1>2. Original(Append(h, r), o, g, i)
  BY <1>1, OriginalAppend
<1>3. Finished(Append(h, r), o, i, Len(h) + 1)
  BY <1>1, AppendFacts DEF Unfinished, Finished
<1> QED
  BY <1>2, <1>3, AppendFacts DEF Closed

\* Records of other operations leave it closed.
LEMMA ClosedAppend ==
    ASSUME NEW h \in Seq(Record), NEW r \in Record, NEW o, NEW g, Closed(h, o, g),
           r.op # o
    PROVE  Closed(Append(h, r), o, g)
<1>1. PICK i, c \in 1 .. Len(h) : Original(h, o, g, i) /\ Finished(h, o, i, c)
  BY DEF Closed
<1>2. Original(Append(h, r), o, g, i)
  BY <1>1, OriginalAppend
<1>3. Finished(Append(h, r), o, i, c)
  BY <1>1, AppendFacts DEF Finished
<1> QED
  BY <1>2, <1>3, AppendFacts DEF Closed

-----------------------------------------------------------------------------
(* What select_completed_install_lease_history finds.                      *)

\* Only one active record has a given generation.
LEMMA OriginalUnique ==
    ASSUME hist \in Seq(Record), Ordered(hist), NEW o, NEW g, NEW i,
           Original(hist, o, g, i)
    PROVE  OriginalAt(g) = {i}
<1>1. Len(hist) \in Nat /\ \A k \in 1 .. Len(hist) : hist[k].gen \in Nat
  BY DEF Ordered
<1>2. i \in OriginalAt(g)
  BY DEF Original, OriginalAt
<1>3. ASSUME NEW k \in OriginalAt(g), k # i PROVE FALSE
  <2>1. k \in 1 .. Len(hist) /\ i \in 1 .. Len(hist) /\ hist[k].gen = hist[i].gen
    BY DEF OriginalAt, Original
  <2>2. CASE k < i
    BY <1>1, <2>1, <2>2 DEF Ordered, Original
  <2>3. CASE i < k
    BY <1>1, <2>1, <2>3 DEF Ordered, OriginalAt
  <2> QED
    BY <1>1, <1>3, <2>1, <2>2, <2>3
<1> QED
  BY <1>2, <1>3

\* An open operation is found unfinished.
LEMMA SelectOpen ==
    ASSUME hist \in Seq(Record), Valid(hist), Ordered(hist), NEW o, NEW g, Open(hist, o, g)
    PROVE  select_completed_install_lease_history(g) = "unfinished"
<1>1. PICK i \in 1 .. Len(hist) : Original(hist, o, g, i) /\ Unfinished(hist, o, i)
  BY DEF Open
<1>2. OriginalAt(g) = {i} /\ (CHOOSE k \in OriginalAt(g) : TRUE) = i
  BY <1>1, OriginalUnique
<1>3. CompletedAfter(i) = {}
  BY <1>1 DEF CompletedAfter, Unfinished
<1>4. \A j \in i .. Len(hist) : hist[j].op = hist[i].op
  BY <1>1 DEF Unfinished, Original
<1> QED
  BY <1>2, <1>3, <1>4 DEF select_completed_install_lease_history

\* A closed operation is found completed.
LEMMA SelectClosed ==
    ASSUME hist \in Seq(Record), Valid(hist), Ordered(hist), NEW o, NEW g, Closed(hist, o, g)
    PROVE  select_completed_install_lease_history(g) = "completed"
<1>1. PICK i, c \in 1 .. Len(hist) : Original(hist, o, g, i) /\ Finished(hist, o, i, c)
  BY DEF Closed
<1>2. OriginalAt(g) = {i} /\ (CHOOSE k \in OriginalAt(g) : TRUE) = i
  BY <1>1, OriginalUnique
<1>3. Len(hist) \in Nat /\ hist[i].op = o
  BY <1>1 DEF Original
<1>4. c \in CompletedAfter(i)
  BY <1>1, <1>3 DEF CompletedAfter, Finished
<1>5. ASSUME NEW k \in CompletedAfter(i), k # c PROVE FALSE
  <2>1. k \in i + 1 .. Len(hist) /\ hist[k].status = "completed"
    BY DEF CompletedAfter
  <2>2. CASE k < c
    BY <1>1, <1>3, <2>1, <2>2 DEF Finished
  <2>3. CASE c < k
    BY <1>1, <1>3, <2>1, <2>3 DEF Finished, CompletedAfter
  <2> QED
    BY <1>1, <1>3, <1>5, <2>1, <2>2, <2>3
<1>6. CompletedAfter(i) = {c} /\ (CHOOSE k \in CompletedAfter(i) : TRUE) = c
  BY <1>4, <1>5, Zenon
<1>7. ~ \E j \in c + 1 .. Len(hist) : hist[j].op = hist[i].op
  BY <1>1, <1>3 DEF Finished
<1> QED
  BY <1>2, <1>6, <1>7, Zenon DEF select_completed_install_lease_history

-----------------------------------------------------------------------------
(* The steps of a worker.                                                  *)

\* The guard keeps the others out.
LEMMA Alone ==
    ASSUME IndInv, NEW p \in Proc, pc[p] # "idle", NEW q \in Proc, q # p
    PROVE  pc[q] = "idle" /\ guard = p
BY DEF IndInv, WorkerGood

\* A worker outside a call owes nothing.
LEMMA IdleGood ==
    ASSUME NEW q \in Proc, pc'[q] = "idle"
    PROVE  WorkerGood(q)'
BY DEF WorkerGood

\* A step that leaves history, revision, custody and intents alone has to be
\* looked at only where workers stand.
LEMMA QuietStep ==
    ASSUME IndInv, TypeOK', UNCHANGED <<hist, rev, custody, intent>>, alive' \subseteq alive,
           \A p \in Proc : WorkerGood(p)'
    PROVE  IndInv'
<1>1. Valid(hist)' /\ Ordered(hist)'
  BY Zenon DEF IndInv, Valid, Ordered, Rederives
<1>2. LedgerMatchesState' /\ OneOwner'
  BY DEF IndInv, LedgerMatchesState, OneOwner, SupersededHolderIsDead, OneUnfinishedOperation
<1>3. \A o \in Op : OperationGood(o)'
  BY DEF IndInv, OperationGood, Recorded
<1> QED
  BY <1>1, <1>2, <1>3 DEF IndInv

\* Taking the volume guard starts a worker whose call knows nothing yet.
LEMMA AcquireGuardStep ==
    ASSUME IndInv, NEW p \in Proc, AcquireGuard(p)
    PROVE  IndInv'
<1>1. TypeOK'
  BY DEF IndInv, TypeOK, AcquireGuard, Goto, Control
<1>2. ASSUME NEW q \in Proc PROVE WorkerGood(q)'
  <2>1. CASE q = p
    BY <2>1 DEF IndInv, TypeOK, AcquireGuard, Goto, WorkerGood
  <2>2. CASE q # p
    <3>1. pc[q] = "idle"
      BY LeaseAssumption DEF IndInv, WorkerGood, AcquireGuard
    <3> QED
      BY <2>2, <3>1, IdleGood DEF IndInv, TypeOK, AcquireGuard, Goto
  <2> QED
    BY <2>1, <2>2
<1> QED
  BY <1>1, <1>2, QuietStep DEF AcquireGuard

\* Releasing the guard forgets the call.
LEMMA LeaveStep ==
    ASSUME IndInv, NEW p \in Proc, Leave(p)
    PROVE  IndInv'
<1>1. TypeOK'
  BY DEF IndInv, TypeOK, Leave, Goto, Control
<1>2. ASSUME NEW q \in Proc PROVE WorkerGood(q)'
  BY Alone, IdleGood DEF IndInv, TypeOK, Leave, Goto
<1> QED
  BY <1>1, <1>2, QuietStep DEF Leave

\* A death can only help the others: a holder that is not alive stays so.
LEMMA DieStep ==
    ASSUME IndInv, NEW p \in Proc, Die(p)
    PROVE  IndInv'
<1>1. TypeOK'
  BY DEF IndInv, TypeOK, Die, Goto, Control
<1>2. ASSUME NEW q \in Proc PROVE WorkerGood(q)'
  <2>1. CASE q = p \/ pc[q] = "idle"
    BY <2>1, IdleGood DEF IndInv, TypeOK, Die, Goto
  <2>2. CASE q # p /\ pc[q] # "idle"
    <3>1. /\ pc'[q] = pc[q] /\ req'[q] = req[q] /\ own'[q] = own[q]
          /\ guard = q /\ q \in alive
      BY <2>2 DEF IndInv, TypeOK, Die, Goto, WorkerGood
    <3>2. guard' = q /\ q \in alive'
      BY <2>2, <3>1 DEF Die
    <3>3. RequestGood(q) => RequestGood(q)'
      BY <3>1 DEF RequestGood, Die, Recorded
    <3>4. PreviousHolderEnded => PreviousHolderEnded'
      BY DEF PreviousHolderEnded, Die
    <3>5. AcquireGood(q) => AcquireGood(q)'
      BY <3>1, <3>4 DEF AcquireGood, Die, Successor, derive_install_lease_ownership
    <3>6. /\ LastIsOwn(q) => LastIsOwn(q)'
          /\ HeldGood(q) => HeldGood(q)'
          /\ WorkingGood(q) => WorkingGood(q)'
          /\ FinishGood(q) => FinishGood(q)'
      BY <3>1, Zenon DEF LastIsOwn, HeldGood, WorkingGood, FinishGood, Die,
                  finish_install_lease_ownership
    <3> QED
      BY <3>1, <3>2, <3>3, <3>5, <3>6 DEF IndInv, WorkerGood
  <2> QED
    BY <2>1, <2>2
<1> QED
  BY <1>1, <1>2, QuietStep DEF Die

\* The parts of IndInv that a step inside a call of p has to show again: the
\* others are idle.
LEMMA CallStep ==
    ASSUME IndInv, NEW p \in Proc, pc[p] # "idle", TypeOK',
           \A q \in Proc \ {p} : pc'[q] = pc[q],
           WorkerGood(p)'
    PROVE  \A q \in Proc : WorkerGood(q)'
BY Alone, IdleGood

\* The first apply of an operation: nothing of it is in the history yet.
LEMMA PrepareStep ==
    ASSUME IndInv, NEW p \in Proc, NEW o \in Op, prepare(p, o)
    PROVE  IndInv'
<1>1. rev \in Revision /\ pc[p] = "guarded" /\ guard = p /\ p \in alive
  BY DEF IndInv, TypeOK, prepare, Ask, WorkerGood
<1>2. /\ [op |-> o, recovery |-> FALSE, exp |-> rev] \in Request
      /\ req'[p] = [op |-> o, recovery |-> FALSE, exp |-> rev]
  BY <1>1 DEF Request, IndInv, TypeOK, prepare, Ask
<1>3. TypeOK'
  BY <1>1, <1>2 DEF IndInv, TypeOK, prepare, Ask, Goto, Control
<1>4. ~Recorded(hist, o)
  BY DEF IndInv, OperationGood, prepare
<1>5. RequestGood(p)'
  BY <1>1, <1>2, <1>4, LeaseAssumption DEF IndInv, TypeOK, RequestGood, prepare, Ask, Recorded
<1>6. WorkerGood(p)'
  BY <1>1, <1>5 DEF WorkerGood, prepare, Ask, Goto, IndInv, TypeOK
<1>7. \A q \in Proc : WorkerGood(q)'
  BY <1>1, <1>3, <1>6, CallStep, Zenon DEF prepare, Ask, Goto, IndInv, TypeOK
<1>8. Valid(hist)' /\ Ordered(hist)'
  BY Zenon DEF IndInv, Valid, Ordered, Rederives, prepare, Ask
<1>9. LedgerMatchesState' /\ OneOwner'
  BY DEF IndInv, LedgerMatchesState, OneOwner, SupersededHolderIsDead,
         OneUnfinishedOperation, prepare, Ask
<1>10. ASSUME NEW u \in Op PROVE OperationGood(u)'
  BY <1>1, LeaseAssumption DEF IndInv, TypeOK, OperationGood, Recorded, prepare, Ask
<1> QED
  BY <1>3, <1>7, <1>8, <1>9, <1>10 DEF IndInv

\* A request that is asked again rests on the history that was read for it.
LEMMA AskAgainStep ==
    ASSUME IndInv, NEW p \in Proc, NEW o \in Op, NEW e \in Revision,
           Ask(p, o, TRUE, e), UNCHANGED intent, intent[o] # None,
           o \in Maint => custody[o] # 0 /\ Open(hist, o, custody[o])
    PROVE  IndInv'
<1>1. pc[p] = "guarded" /\ guard = p /\ p \in alive
  BY DEF IndInv, Ask, WorkerGood
<1>2. /\ [op |-> o, recovery |-> TRUE, exp |-> e] \in Request
      /\ req'[p] = [op |-> o, recovery |-> TRUE, exp |-> e]
  BY DEF Request, IndInv, TypeOK, Ask
<1>3. TypeOK'
  BY <1>1, <1>2 DEF IndInv, TypeOK, Ask, Goto, Control
<1>4. RequestGood(p)'
  BY <1>2 DEF RequestGood, Ask
<1>5. WorkerGood(p)'
  BY <1>1, <1>4 DEF WorkerGood, Ask, Goto, IndInv, TypeOK
<1>6. \A q \in Proc : WorkerGood(q)'
  BY <1>1, <1>3, <1>5, CallStep, Zenon DEF Ask, Goto, IndInv, TypeOK
<1> QED
  BY <1>3, <1>6, QuietStep DEF Ask

\* An installation asks for the lease of its own operation.
LEMMA StartInstallationStep ==
    ASSUME IndInv, NEW p \in Proc, NEW o \in Op, start_installation_lease(p, o)
    PROVE  IndInv'
<1>1. o \notin Maint /\ rev \in Revision /\ intent[o] \in Revision
  BY LeaseAssumption DEF IndInv, TypeOK, start_installation_lease
<1> QED
  BY <1>1, AskAgainStep, Zenon DEF start_installation_lease

\* A maintenance recovery asks for the lease of the interrupted operation.
LEMMA RecoverMaintenanceStep ==
    ASSUME IndInv, NEW p \in Proc, NEW o \in Op, recover_maintenance(p, o)
    PROVE  IndInv'
<1>1. hist \in Seq(Record) /\ rev \in Revision
  BY DEF IndInv, TypeOK
<1>2. ~Closed(hist, o, custody[o])
  BY <1>1, SelectClosed DEF IndInv, recover_maintenance
<1>3. o \in Maint /\ custody[o] # 0 /\ Open(hist, o, custody[o])
  BY <1>2 DEF IndInv, OperationGood, recover_maintenance
<1> QED
  BY <1>1, <1>3, AskAgainStep, Zenon DEF recover_maintenance

\* The derived record is a record.
LEMMA DeriveType ==
    ASSUME NEW h \in Seq(Record), NEW p \in Proc, NEW r \in Request
    PROVE  /\ derive_install_lease_ownership(h, Len(h), p, r) \in Record
           /\ derive_install_lease_ownership(h, Len(h), p, r).gen
                = IF Len(h) = 0 THEN 1 ELSE h[Len(h)].gen + 1
<1>1. Len(h) # 0 => h[Len(h)] \in Record
  OBVIOUS
<1>2. (IF Len(h) = 0 THEN 1 ELSE h[Len(h)].gen + 1) \in Nat
  BY <1>1 DEF Record
<1>3. 0 \in Revision
  BY LeaseAssumption DEF Revision
<1> QED
  BY <1>2, <1>3 DEF derive_install_lease_ownership, Record, Request

\* The constructor derives the next record from the last one.
LEMMA AcquireStep ==
    ASSUME IndInv, NEW p \in Proc, Acquire(p)
    PROVE  IndInv'
<1>1. /\ pc[p] = "request" /\ guard = p /\ p \in alive
      /\ RequestGood(p) /\ req[p] \in Request /\ hist \in Seq(Record)
  BY DEF IndInv, TypeOK, Acquire, WorkerGood, RequestGood
<1> DEFINE a == derive_install_lease_ownership(hist, Len(hist), p, req[p])
<1>2. a \in Record
  BY <1>1, DeriveType
<1>3. own'[p] = a /\ pc'[p] = "acquire"
  BY DEF IndInv, TypeOK, Acquire, Goto
<1>4. pend \in Nat /\ pend' \in 0 .. HistoryLimit /\ pend' > 0
  BY LeaseAssumption DEF IndInv, TypeOK, Acquire, Room
<1>5. TypeOK'
  BY <1>2, <1>4 DEF IndInv, TypeOK, Acquire, Goto, Control
<1>6. RequestGood(p)'
  BY <1>1 DEF RequestGood, Acquire, Recorded
<1>7. AcquireGood(p)'
  <2>1. Len(hist) + 2 <= HistoryLimit
    BY DEF Acquire, Room
  <2>2. Successor(hist, Len(hist), req[p], rev, PreviousHolderEnded)'
    BY DEF Acquire, Successor, PreviousHolderEnded
  <2>3. own'[p] = derive_install_lease_ownership(hist, Len(hist), p, req[p])'
    BY <1>3 DEF Acquire, derive_install_lease_ownership
  <2> QED
    BY <1>4, <2>1, <2>2, <2>3 DEF Acquire, AcquireGood
<1>8. WorkerGood(p)'
  BY <1>1, <1>3, <1>6, <1>7, SMTT(40) DEF WorkerGood, Acquire
<1>9. \A q \in Proc : WorkerGood(q)'
  BY <1>1, <1>5, <1>8, CallStep DEF Acquire, Goto, IndInv, TypeOK
<1> QED
  BY <1>5, <1>9, QuietStep DEF Acquire

\* The active record continues the history it was derived from, which the guard
\* has kept as it was.
LEMMA PublishActiveStep ==
    ASSUME IndInv, NEW p \in Proc, PublishActive(p)
    PROVE  IndInv'
<1> DEFINE n == Len(hist)
           a == own[p]
           h == Append(hist, a)
<1>1. /\ pc[p] = "acquire" /\ guard = p /\ p \in alive
      /\ RequestGood(p) /\ AcquireGood(p) /\ req[p] \in Request
      /\ hist \in Seq(Record) /\ n \in Nat
  BY DEF IndInv, TypeOK, PublishActive, WorkerGood, RequestGood
<1>2. /\ a = derive_install_lease_ownership(hist, n, p, req[p])
      /\ a \in Record
      /\ a.gen = IF n = 0 THEN 1 ELSE hist[n].gen + 1
      /\ a.op = req[p].op /\ a.status = "active" /\ a.exp = req[p].exp
      /\ a.exp = rev /\ a.res = 0 /\ a.holder = p
  BY <1>1, DeriveType DEF AcquireGood, derive_install_lease_ownership, Successor
<1>3. /\ h \in Seq(Record) /\ Len(h) = n + 1 /\ h[n + 1] = a /\ h # <<>>
      /\ \A k \in 1 .. n : h[k] = hist[k] /\ hist[k] \in Record
  BY <1>1, <1>2, AppendFacts
<1>4. hist' = h /\ pend' = pend - 1 /\ pc'[p] = "held"
  BY DEF IndInv, TypeOK, PublishActive, Publish, Goto
<1> HIDE DEF a, h
<1>5. TypeOK'
  <2>1. pend' \in 0 .. HistoryLimit /\ n + 1 <= HistoryLimit
    BY <1>1, <1>4, LeaseAssumption DEF IndInv, TypeOK, AcquireGood
  <2> QED
    BY <1>3, <1>4, <2>1, SMTT(40) DEF IndInv, TypeOK, PublishActive, Goto, Control
<1>6. n > 0 /\ hist[n].status # "completed" =>
         /\ req[p].recovery /\ hist[n].op = a.op
         /\ hist[n].status = "active" => hist[n].holder \notin alive
         /\ hist[n].status = "handoff" => hist[n].res = a.exp
  BY <1>1, <1>2 DEF AcquireGood, Successor, PreviousHolderEnded
<1>7. Valid(h)
  <2>1. Rederives(h, n + 1)
    <3>1. n = (n + 1) - 1 /\ (n > 0 => h[n] = hist[n])
      BY <1>1, <1>3
    <3>2. h[n + 1] = [op |-> h[n + 1].op, holder |-> h[n + 1].holder,
                      gen |-> IF n = 0 THEN 1 ELSE h[n].gen + 1,
                      exp |-> h[n + 1].exp, status |-> "active", res |-> 0]
      BY <1>1, <1>2, <1>3, <3>1 DEF derive_install_lease_ownership
    <3> QED
      BY <1>3, <1>6, <3>1, <3>2, RederivesActive
  <2>2. n + 1 <= HistoryLimit
    BY <1>1, LeaseAssumption DEF AcquireGood
  <2> QED
    BY <1>1, <1>2, <2>1, <2>2, ValidAppend DEF IndInv, h
<1>8. Ordered(h)
  BY <1>1, <1>2, OrderedAppend DEF IndInv, h
<1>9. LedgerMatchesState'
  <2>1. ASSUME NEW k \in 1 .. n, hist[k].status # "active" PROVE h[k].res = h[k + 1].exp
    <3>1. CASE k = n
      BY <1>1, <1>2, <1>3, <2>1, <3>1 DEF IndInv, LedgerMatchesState
    <3>2. CASE k < n
      BY <1>1, <1>3, <2>1, <3>2 DEF IndInv, LedgerMatchesState
    <3> QED
      BY <1>1, <3>1, <3>2
  <2> QED
    BY <1>1, <1>2, <1>3, <1>4, <2>1 DEF LedgerMatchesState, PublishActive
<1>10. OneOwner'
  <2>1. ASSUME NEW k \in 1 .. n
        PROVE  /\ h[k].status = "active" /\ h[k + 1].status = "active" => h[k].holder \notin alive
               /\ h[k].op # h[k + 1].op => h[k].status = "completed"
    <3>1. CASE k = n
      BY <1>1, <1>3, <1>6, <3>1
    <3>2. CASE k < n
      BY <1>1, <1>3, <3>2 DEF IndInv, OneOwner, SupersededHolderIsDead, OneUnfinishedOperation
    <3> QED
      BY <1>1, <3>1, <3>2
  <2>2. alive' = alive /\ 1 .. Len(hist') - 1 = 1 .. n
    BY <1>1, <1>3, <1>4 DEF PublishActive
  <2> QED
    BY <1>4, <2>1, <2>2 DEF OneOwner, SupersededHolderIsDead, OneUnfinishedOperation
<1>11. WorkerGood(p)'
  <2>1. UNCHANGED <<req, own, custody, alive, guard>>
    BY DEF PublishActive
  <2>2. pend' < HistoryLimit /\ Len(h) + 1 <= HistoryLimit
    BY <1>1, <1>3, <1>4, LeaseAssumption DEF IndInv, TypeOK, AcquireGood
  <2>3. LastIsOwn(p)'
    BY <1>1, <1>2, <1>3, <1>4, <2>1, <2>2 DEF LastIsOwn, a
  <2>4. HeldGood(p)'
    <3> SUFFICES ASSUME req[p].op \in Maint
                 PROVE  IF req[p].recovery
                        THEN /\ custody[req[p].op] # 0
                             /\ Open(h, req[p].op, custody[req[p].op])
                             /\ custody[req[p].op] < a.gen
                        ELSE \A k \in 1 .. Len(h) - 1 : h[k].op # req[p].op
      BY <1>4, <2>1 DEF HeldGood, a
    <3>1. CASE req[p].recovery
      <4>1. custody[req[p].op] # 0 /\ Open(hist, req[p].op, custody[req[p].op])
        BY <1>1, <3>1 DEF RequestGood
      <4>2. Open(h, req[p].op, custody[req[p].op])
        BY <1>1, <1>2, <4>1, OpenAppend DEF h
      <4>3. \A i \in 1 .. n : h[i].gen < a.gen
        BY <1>1, <1>2, <1>3, <1>8, SMTT(40) DEF Ordered
      <4>4. PICK i \in 1 .. n : hist[i].gen = custody[req[p].op]
        BY <4>1 DEF Open, Original
      <4> QED
        BY <1>3, <3>1, <4>1, <4>2, <4>3, <4>4
    <3>2. CASE ~req[p].recovery
      <4>1. ~Recorded(hist, req[p].op)
        BY <1>1, <3>2 DEF RequestGood
      <4> QED
        BY <1>1, <1>3, <3>2, <4>1 DEF Recorded
    <3> QED
      BY <3>1, <3>2
  <2> QED
    BY <1>1, <1>4, <2>1, <2>3, <2>4 DEF WorkerGood
<1>12. \A q \in Proc : WorkerGood(q)'
  BY <1>1, <1>5, <1>11, CallStep, Zenon DEF PublishActive, Goto, IndInv, TypeOK
<1>13. ASSUME NEW o \in Op PROVE OperationGood(o)'
  <2>1. UNCHANGED <<intent, custody>>
    BY DEF PublishActive
  <2>2. Recorded(h, o) => intent[o] # None
    BY <1>1, <1>2, <1>3 DEF IndInv, OperationGood, Recorded, RequestGood
  <2>3. ASSUME o \in Maint, custody[o] = 0
        PROVE  \A k \in 1 .. Len(h) : h[k].op = o => h[k].status # "completed"
    BY <1>1, <1>2, <1>3, <2>3 DEF IndInv, OperationGood
  <2>4. ASSUME o \in Maint, Open(hist, o, custody[o]) PROVE Open(h, o, custody[o])
    <3>1. n > 0 /\ hist[n].op = o /\ hist[n].status # "completed"
      BY <1>1, <2>4 DEF Open, Unfinished, Original
    <3> QED
      BY <1>1, <1>2, <1>6, <2>4, <3>1, OpenAppend DEF h
  <2>5. ASSUME o \in Maint, custody[o] # 0, Closed(hist, o, custody[o])
        PROVE  Closed(h, o, custody[o])
    <3>1. Recorded(hist, o)
      BY <2>5 DEF Closed, Original, Recorded
    <3>2. ~Open(hist, o, custody[o])
      BY <1>1, <2>5, SelectOpen, SelectClosed DEF IndInv
    <3>3. a.op # o
      BY <1>1, <1>2, <2>5, <3>1, <3>2 DEF RequestGood, Request
    <3> QED
      BY <1>1, <1>2, <2>5, <3>3, ClosedAppend DEF h
  <2> QED
    BY <1>4, <2>1, <2>2, <2>3, <2>4, <2>5, Zenon DEF IndInv, OperationGood
<1> QED
  BY <1>4, <1>5, <1>7, <1>8, <1>9, <1>10, <1>12, <1>13 DEF IndInv

\* The original custody is the generation of the first record, or the recovery
\* has proved its lineage.
LEMMA StartStep ==
    ASSUME IndInv, NEW p \in Proc, Start(p)
    PROVE  IndInv'
<1> DEFINE n == Len(hist)
           o == req[p].op
<1>1. /\ pc[p] = "held" /\ guard = p /\ p \in alive
      /\ LastIsOwn(p) /\ HeldGood(p) /\ req[p] \in Request
      /\ hist \in Seq(Record) /\ n \in Nat
  BY DEF IndInv, TypeOK, Start, WorkerGood, LastIsOwn
<1>2. n > 0 /\ hist[n] = own[p] /\ hist[n].status = "active" /\ hist[n].op = o
  BY <1>1 DEF LastIsOwn
<1>3. hist[n].gen \in 1 .. n /\ n <= HistoryLimit /\ o \in Op
  BY <1>1, <1>2 DEF IndInv, TypeOK, Ordered, Request
<1>4. TypeOK'
  <2>1. hist[n].gen \in 0 .. HistoryLimit
    BY <1>1, <1>3, LeaseAssumption
  <2> QED
    BY <1>2, <2>1 DEF IndInv, TypeOK, Start, Goto, Control
<1>5. ASSUME o \in Maint, ~req[p].recovery, custody' = [custody EXCEPT ![o] = own[p].gen]
      PROVE  /\ custody'[o] # 0 /\ Open(hist, o, custody'[o])
             /\ \A u \in Op \ {o} : custody'[u] = custody[u]
  <2>1. custody'[o] = hist[n].gen /\ \A u \in Op \ {o} : custody'[u] = custody[u]
    BY <1>2, <1>3, <1>5 DEF IndInv, TypeOK
  <2>2. Original(hist, o, custody'[o], n)
    BY <1>1, <1>2, <1>5, <2>1 DEF HeldGood, Original
  <2>3. Unfinished(hist, o, n)
    BY <1>1, <1>2 DEF Unfinished
  <2> QED
    BY <1>1, <1>2, <1>3, <2>1, <2>2, <2>3 DEF Open
<1>6. /\ o \in Maint => custody'[o] # 0 /\ Open(hist, o, custody'[o])
      /\ \A u \in Maint \ {o} : custody'[u] = custody[u]
  <2>1. CASE UNCHANGED custody /\ (o \in Install \/ req[p].recovery)
    BY <1>1, <2>1, LeaseAssumption DEF HeldGood
  <2>2. CASE o \in Maint /\ ~req[p].recovery /\ custody' = [custody EXCEPT ![o] = own[p].gen]
    BY <1>5, <2>2 DEF Op
  <2> QED
    BY <2>1, <2>2 DEF Start
<1>7. WorkerGood(p)'
  <2>1. UNCHANGED <<alive, guard, hist, pend, req, own>> /\ pc'[p] = "working"
    BY DEF Start, Goto, IndInv, TypeOK
  <2>2. LastIsOwn(p)' /\ WorkingGood(p)'
    BY <1>1, <1>6, <2>1, SMTT(40) DEF LastIsOwn, WorkingGood
  <2> QED
    BY <1>1, <2>1, <2>2 DEF WorkerGood
<1>8. \A q \in Proc : WorkerGood(q)'
  BY <1>1, <1>4, <1>7, CallStep DEF Start, Goto, IndInv, TypeOK
<1>9. Valid(hist)' /\ Ordered(hist)'
  BY Zenon DEF IndInv, Valid, Ordered, Rederives, Start
<1>10. LedgerMatchesState' /\ OneOwner'
  BY DEF IndInv, LedgerMatchesState, OneOwner, SupersededHolderIsDead,
         OneUnfinishedOperation, Start
<1>11. ASSUME NEW u \in Op PROVE OperationGood(u)'
  <2>1. UNCHANGED <<intent, hist>>
    BY DEF Start
  <2>2. CASE u = o
    BY <1>6, <2>1, <2>2 DEF IndInv, OperationGood, Recorded
  <2>3. CASE u # o
    BY <1>6, <2>1, <2>3 DEF IndInv, OperationGood, Recorded
  <2> QED
    BY <2>2, <2>3
<1> QED
  BY <1>4, <1>8, <1>9, <1>10, <1>11 DEF IndInv

\* An effect moves the revision while the last record is active.
LEMMA EffectStep ==
    ASSUME IndInv, NEW p \in Proc, Effect(p)
    PROVE  IndInv'
<1>1. /\ pc[p] = "working" /\ LastIsOwn(p) /\ WorkingGood(p)
      /\ guard = p /\ p \in alive /\ hist \in Seq(Record)
  BY DEF IndInv, TypeOK, Effect, WorkerGood
<1>2. UNCHANGED <<alive, guard, intent, custody, hist, pend, pc, req, own>>
  BY DEF Effect
<1>3. TypeOK'
  <2>1. rev' \in Revision
    BY LeaseAssumption DEF Effect, Revision, IndInv, TypeOK
  <2> QED
    BY <1>2, <2>1 DEF IndInv, TypeOK
<1>4. LedgerMatchesState'
  BY <1>1, <1>2 DEF IndInv, LedgerMatchesState, LastIsOwn
<1>5. Valid(hist)' /\ Ordered(hist)' /\ OneOwner'
  BY <1>2, Zenon DEF IndInv, Valid, Ordered, Rederives, OneOwner, SupersededHolderIsDead,
              OneUnfinishedOperation
<1>6. WorkerGood(p)'
  BY <1>1, <1>2 DEF WorkerGood, LastIsOwn, WorkingGood
<1>7. \A q \in Proc : WorkerGood(q)'
  BY <1>1, <1>2, <1>3, <1>6, CallStep
<1>8. \A o \in Op : OperationGood(o)'
  BY <1>2 DEF IndInv, OperationGood, Recorded
<1> QED
  BY <1>3, <1>4, <1>5, <1>7, <1>8 DEF IndInv

\* finish prepares the terminal record of the held lease.
LEMMA FinishStep ==
    ASSUME IndInv, NEW p \in Proc, NEW how \in {"completed", "handoff"}, finish(p, how)
    PROVE  IndInv'
<1>1. /\ pc[p] = "working" /\ LastIsOwn(p) /\ WorkingGood(p)
      /\ guard = p /\ p \in alive /\ own[p] \in Record /\ rev \in Revision
  BY DEF IndInv, TypeOK, finish, WorkerGood, LastIsOwn
<1> DEFINE a == finish_install_lease_ownership(own[p], rev, how)
<1>2. a \in Record /\ a.status = how /\ a.op = own[p].op
  BY <1>1, Zenon DEF finish_install_lease_ownership, Record
<1>3. own'[p] = a /\ pc'[p] = "finish"
  BY DEF IndInv, TypeOK, finish, Goto
<1> HIDE DEF a
<1>4. pend' \in 0 .. HistoryLimit /\ pend' > 0
  BY LeaseAssumption DEF IndInv, TypeOK, finish, Room
<1>5. TypeOK'
  BY <1>2, <1>4 DEF IndInv, TypeOK, finish, Goto, Control, a
<1>6. UNCHANGED <<alive, guard, intent, custody, hist, rev, req>>
  BY DEF finish
<1>7. FinishGood(p)'
  <2>1. own'[p] = finish_install_lease_ownership(hist[Len(hist)], rev, own'[p].status)
    BY <1>1, <1>2, <1>3 DEF LastIsOwn, a
  <2> QED
    BY <1>1, <1>2, <1>3, <1>4, <1>6, <2>1 DEF FinishGood, LastIsOwn
<1>8. WorkerGood(p)'
  BY <1>1, <1>3, <1>6, <1>7, SMTT(40) DEF WorkerGood, WorkingGood
<1>9. \A q \in Proc : WorkerGood(q)'
  BY <1>1, <1>5, <1>8, CallStep, Zenon DEF finish, Goto, IndInv, TypeOK
<1> QED
  BY <1>5, <1>6, <1>9, QuietStep

\* What latest() asks of a terminal record.
LEMMA RederivesTerminal ==
    ASSUME NEW h, NEW k \in Nat, k > 1, h[k].status # "active", h[k - 1].status = "active",
           h[k] = finish_install_lease_ownership(h[k - 1], h[k].res, h[k].status)
    PROVE  Rederives(h, k)
BY Zenon DEF Rederives

\* The terminal record closes the active record before it.
LEMMA PublishTerminalStep ==
    ASSUME IndInv, NEW p \in Proc, PublishTerminal(p)
    PROVE  IndInv'
<1> DEFINE n == Len(hist)
           a == own[p]
           h == Append(hist, a)
<1>1. /\ pc[p] = "finish" /\ FinishGood(p) /\ WorkingGood(p)
      /\ hist \in Seq(Record) /\ n \in Nat /\ a \in Record
  BY DEF IndInv, TypeOK, PublishTerminal, WorkerGood, FinishGood
<1>2. n > 0 /\ hist[n] \in Record /\ hist[n].status = "active" /\ hist[n].op = req[p].op
  BY <1>1 DEF FinishGood
<1>3. /\ a = finish_install_lease_ownership(hist[n], rev, a.status)
      /\ a.status \in {"completed", "handoff"}
      /\ a.op = hist[n].op /\ a.gen = hist[n].gen /\ a.res = rev
  BY <1>1, <1>2, Zenon DEF FinishGood, finish_install_lease_ownership, Record
<1>4. /\ h \in Seq(Record) /\ Len(h) = n + 1 /\ h[n + 1] = a /\ h # <<>>
      /\ \A k \in 1 .. n : h[k] = hist[k] /\ hist[k] \in Record
  BY <1>1, AppendFacts
<1>5. hist' = h /\ pend' = pend - 1 /\ pc'[p] = "idle"
  BY DEF IndInv, TypeOK, PublishTerminal, Publish, Goto
<1> HIDE DEF a, h
<1>6. n + 1 <= HistoryLimit
  BY <1>1 DEF FinishGood
<1>7. TypeOK'
  <2>1. pend' \in 0 .. HistoryLimit
    BY <1>1, <1>5, LeaseAssumption DEF IndInv, TypeOK, FinishGood
  <2> QED
    BY <1>4, <1>5, <1>6, <2>1 DEF IndInv, TypeOK, PublishTerminal, Goto, Control
<1>8. Valid(h)
  <2>1. n + 1 \in Nat /\ n + 1 > 1 /\ (n + 1) - 1 = n
    BY <1>1, <1>2
  <2>2. h[(n + 1) - 1].status = "active" /\ h[n + 1].status # "active"
    BY <1>2, <1>3, <1>4, <2>1
  <2>3. h[n + 1] = finish_install_lease_ownership(h[(n + 1) - 1], h[n + 1].res, h[n + 1].status)
    BY <1>2, <1>3, <1>4, <2>1
  <2>4. Rederives(h, n + 1)
    BY <2>1, <2>2, <2>3, RederivesTerminal
  <2> QED
    BY <1>1, <1>6, <2>4, ValidAppend DEF IndInv, h
<1>9. Ordered(h)
  BY <1>1, <1>2, <1>3, OrderedAppend DEF IndInv, h
<1>10. LedgerMatchesState'
  <2>1. ASSUME NEW k \in 1 .. n, hist[k].status # "active" PROVE h[k].res = h[k + 1].exp
    BY <1>1, <1>2, <1>4, <2>1 DEF IndInv, LedgerMatchesState
  <2>2. rev' = rev
    BY DEF PublishTerminal
  <2> QED
    BY <1>1, <1>3, <1>4, <1>5, <2>1, <2>2 DEF LedgerMatchesState
<1>11. OneOwner'
  <2>1. ASSUME NEW k \in 1 .. n
        PROVE  /\ h[k].status = "active" /\ h[k + 1].status = "active" => h[k].holder \notin alive
               /\ h[k].op # h[k + 1].op => h[k].status = "completed"
    <3>1. CASE k = n
      BY <1>1, <1>3, <1>4, <3>1
    <3>2. CASE k < n
      BY <1>1, <1>4, <3>2 DEF IndInv, OneOwner, SupersededHolderIsDead, OneUnfinishedOperation
    <3> QED
      BY <1>1, <3>1, <3>2
  <2>2. alive' = alive /\ 1 .. Len(hist') - 1 = 1 .. n
    BY <1>1, <1>4, <1>5 DEF PublishTerminal
  <2> QED
    BY <1>5, <2>1, <2>2 DEF OneOwner, SupersededHolderIsDead, OneUnfinishedOperation
<1>12. \A q \in Proc : WorkerGood(q)'
  BY <1>1, Alone, IdleGood DEF PublishTerminal, Goto, IndInv, TypeOK
<1>13. ASSUME NEW o \in Op PROVE OperationGood(o)'
  <2>1. UNCHANGED <<intent, custody>>
    BY DEF PublishTerminal
  <2>2. Recorded(h, o) => intent[o] # None
    <3>1. Recorded(h, o) => Recorded(hist, o)
      BY <1>1, <1>2, <1>3, <1>4 DEF Recorded
    <3> QED
      BY <3>1 DEF IndInv, OperationGood
  <2>3. a.op = o /\ o \in Maint => custody[o] # 0 /\ Open(hist, o, custody[o])
    BY <1>1, <1>2, <1>3 DEF WorkingGood
  <2>4. ASSUME o \in Maint, custody[o] = 0
        PROVE  \A k \in 1 .. Len(h) : h[k].op = o => h[k].status # "completed"
    BY <1>1, <1>4, <2>3, <2>4 DEF IndInv, OperationGood
  <2>5. ASSUME o \in Maint, Open(hist, o, custody[o])
        PROVE  Open(h, o, custody[o]) \/ Closed(h, o, custody[o])
    <3>1. hist[n].op = o
      BY <1>1, <1>2, <2>5 DEF Open, Unfinished
    <3> QED
      BY <1>1, <1>3, <2>5, <3>1, OpenAppend, CloseAppend, Zenon DEF h
  <2>6. ASSUME o \in Maint, Closed(hist, o, custody[o])
        PROVE  Closed(h, o, custody[o])
    <3>1. ~Open(hist, o, custody[o])
      BY <1>1, <2>6, SelectOpen, SelectClosed DEF IndInv
    <3> QED
      BY <1>1, <2>3, <2>6, <3>1, ClosedAppend DEF h
  <2> QED
    BY <1>5, <2>1, <2>2, <2>4, <2>5, <2>6 DEF IndInv, OperationGood
<1> QED
  BY <1>5, <1>7, <1>8, <1>9, <1>10, <1>11, <1>12, <1>13 DEF IndInv

-----------------------------------------------------------------------------
(* The theorems.                                                           *)

\* The empty history satisfies IndInv.
LEMMA InitIndInv == Init => IndInv
<1> SUFFICES ASSUME Init PROVE IndInv
  OBVIOUS
<1>1. TypeOK
  BY LeaseAssumption DEF Init, TypeOK, Control, Revision
<1>2. hist = <<>> /\ Len(hist) = 0
  BY DEF Init
<1>3. Valid(hist) /\ Ordered(hist) /\ LedgerMatchesState /\ OneOwner
  BY <1>2, LeaseAssumption DEF Valid, Ordered, LedgerMatchesState, OneOwner,
                               SupersededHolderIsDead, OneUnfinishedOperation
<1>4. \A p \in Proc : WorkerGood(p)
  BY Zenon DEF Init, WorkerGood
<1>5. \A o \in Op : OperationGood(o)
  BY <1>2 DEF Init, OperationGood, Recorded, Op
<1> QED
  BY <1>1, <1>3, <1>4, <1>5 DEF IndInv

\* Every step of every worker keeps IndInv.
LEMMA NextIndInv == IndInv /\ [Next]_vars => IndInv'
<1> SUFFICES ASSUME IndInv, [Next]_vars PROVE IndInv'
  OBVIOUS
<1>1. ASSUME NEW p \in Proc, Step(p) PROVE IndInv'
  BY <1>1, AcquireGuardStep, LeaveStep, DieStep, PrepareStep, StartInstallationStep,
     RecoverMaintenanceStep, AcquireStep, PublishActiveStep, StartStep, EffectStep,
     FinishStep, PublishTerminalStep DEF Step
<1>2. CASE UNCHANGED vars
  <2>1. TypeOK'
    BY <1>2 DEF vars, IndInv, TypeOK
  <2>2. ASSUME NEW p \in Proc PROVE WorkerGood(p)'
    <3>1. /\ RequestGood(p) => RequestGood(p)'
          /\ LastIsOwn(p) => LastIsOwn(p)'
          /\ HeldGood(p) => HeldGood(p)'
          /\ WorkingGood(p) => WorkingGood(p)'
          /\ FinishGood(p) => FinishGood(p)'
      BY <1>2 DEF vars, RequestGood, LastIsOwn, HeldGood, WorkingGood, FinishGood, Recorded,
                  finish_install_lease_ownership
    <3>2. AcquireGood(p) => AcquireGood(p)'
      BY <1>2 DEF vars, AcquireGood, PreviousHolderEnded, Successor,
                  derive_install_lease_ownership
    <3> QED
      BY <1>2, <3>1, <3>2 DEF vars, IndInv, WorkerGood
  <2> QED
    BY <1>2, <2>1, <2>2, QuietStep DEF vars
<1> QED
  BY <1>1, <1>2 DEF Next

\* IndInv holds in every reachable state.
THEOREM Invariance == Spec => []IndInv
BY InitIndInv, NextIndInv, PTL DEF Spec

\* One owner at a time, for any number of workers and operations: a lease is
\* taken over only from a dead worker of the same operation, and another
\* operation begins only after a completion.
THEOREM Ownership == Spec => []OneOwner
<1>1. IndInv => OneOwner
  BY DEF IndInv
<1> QED
  BY <1>1, Invariance, PTL

\* A completed maintenance operation is read as completed for good.
LEMMA IndInvCompletion == IndInv => CompletionIsFinal
<1> SUFFICES ASSUME IndInv, NEW o \in Maint, NEW k \in 1 .. Len(hist),
                    hist[k].op = o, hist[k].status = "completed"
             PROVE  /\ custody[o] # 0
                    /\ select_completed_install_lease_history(custody[o]) = "completed"
  BY DEF CompletionIsFinal
<1>1. o \in Op /\ hist \in Seq(Record) /\ Valid(hist) /\ Ordered(hist)
  BY DEF Op, IndInv, TypeOK
<1>2. custody[o] # 0 /\ (Open(hist, o, custody[o]) \/ Closed(hist, o, custody[o]))
  BY <1>1 DEF IndInv, OperationGood
<1>3. ~Open(hist, o, custody[o])
  BY <1>1 DEF Open, Original, Unfinished
<1> QED
  BY <1>1, <1>2, <1>3, SelectClosed

\* The journal can always be read back, accounts for every revision and keeps
\* every completion.
THEOREM HistoryTruth == Spec => []HistoryIsTruthful
<1>1. IndInv => HistoryIsTruthful
  BY IndInvCompletion DEF IndInv, HistoryIsTruthful, HistoryIsValid
<1> QED
  BY <1>1, Invariance, PTL

\* A worker that was given the lease as a recovery has the lineage it needs.
LEMMA IndInvLineage ==
    ASSUME IndInv, NEW p \in Proc, pc[p] = "held"
    PROVE  RecoveryHasLineage(p)
<1> DEFINE n == Len(hist)
           o == req[p].op
           g == custody[o]
<1> SUFFICES ASSUME o \in Maint, req[p].recovery,
                    \A k \in 1 .. n : hist[k].status = "handoff" => hist[k].holder \notin alive
             PROVE  Lineage(p, g)
  BY SMTT(40) DEF RecoveryHasLineage
<1>1. /\ LastIsOwn(p) /\ HeldGood(p) /\ hist \in Seq(Record) /\ n \in Nat
      /\ \A k \in 1 .. n : hist[k] \in Record
  BY DEF IndInv, TypeOK, WorkerGood
<1>2. Fenced(p)
  BY <1>1, LeaseAssumption DEF IndInv, LastIsOwn, Fenced
<1>3. PICK i \in 1 .. n : Original(hist, o, g, i) /\ Unfinished(hist, o, i)
  BY <1>1 DEF HeldGood, Open
<1>4. i \in OriginalAt(g) /\ g < own[p].gen
  BY <1>1, <1>3 DEF HeldGood, Original, OriginalAt
<1>5. ASSUME NEW k \in 1 .. n, hist[k].gen >= g
      PROVE  /\ hist[k].op = o /\ hist[k].status # "completed"
             /\ hist[k].status = "active" /\ hist[k] # own[p] => hist[k].holder \notin alive
  <2>1. k >= i
    BY <1>1, <1>3, <1>5 DEF IndInv, Ordered, Original
  <2>2. hist[k].op = o /\ hist[k].status # "completed"
    BY <1>1, <1>3, <2>1 DEF Unfinished
  <2>3. ASSUME hist[k].status = "active", hist[k] # own[p] PROVE hist[k].holder \notin alive
    <3>1. k < n /\ k + 1 \in 1 .. n /\ (k + 1) - 1 = k
      BY <1>1, <2>3 DEF LastIsOwn
    <3>2. CASE hist[k + 1].status = "active"
      BY <1>1, <2>3, <3>1, <3>2 DEF IndInv, OneOwner, SupersededHolderIsDead
    <3>3. CASE hist[k + 1].status # "active"
      <4>1. hist[k + 1].status = "handoff"
        BY <1>1, <1>3, <2>1, <3>1, <3>3 DEF Unfinished, Record
      <4>2. Rederives(hist, k + 1)
        BY <3>1 DEF IndInv, Valid
      <4>3. hist[k + 1]
              = finish_install_lease_ownership(hist[k], hist[k + 1].res, hist[k + 1].status)
        BY <3>1, <3>3, <4>2, Zenon DEF Rederives
      <4>4. hist[k + 1].holder = hist[k].holder
        BY <1>1, <4>3, Zenon DEF finish_install_lease_ownership, Record
      <4> QED
        BY <3>1, <4>1, <4>4
    <3> QED
      BY <3>2, <3>3
  <2> QED
    BY <2>2, <2>3
<1> QED
  BY <1>2, <1>4, <1>5 DEF Lineage

\* A worker that holds the lease is fenced in, finds room for its terminal
\* record and, recovering, its lineage.
THEOREM HolderFinishes == Spec => []HolderCanFinish
<1>1. ASSUME IndInv, NEW p \in Proc, pc[p] \in {"held", "working"}
      PROVE  Fenced(p) /\ Room("completed")
  BY <1>1, LeaseAssumption DEF IndInv, WorkerGood, LastIsOwn, Fenced, Room
<1>2. IndInv => HolderCanFinish
  BY <1>1, IndInvLineage, Zenon DEF HolderCanFinish
<1> QED
  BY <1>2, Invariance, PTL
=============================================================================
