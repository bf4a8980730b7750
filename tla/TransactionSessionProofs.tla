---------------------- MODULE TransactionSessionProofs ----------------------
(***************************************************************************)
(* Proofs about TransactionSession for any set of transactions, any set of *)
(* files and any number of faults.                                         *)
(*                                                                         *)
(* The safety properties are not inductive: they talk about journals,      *)
(* while what a later persist writes comes from the memory of the live     *)
(* session, and a failed persist lets the two drift apart.  IndInv adds    *)
(* what is true of a session at each point of its calls.  It is local: one *)
(* predicate per transaction over that transaction's journal, staging      *)
(* root, session and control point, plus one fact about the target.        *)
(***************************************************************************)
EXTENDS TransactionSession, TLAPS

Early == {"created", "validated", "planned", "staging"}

\* What a journal on disk implies about its staging root and publication.
JournalGood(j, s, pub) ==
    j # None =>
      /\ j.state # ""
      /\ ~j.verified
      /\ (j.stream \/ j.commit) => ~j.ident
      /\ j.state = "rolled_back" => ~pub /\ s = None
      /\ j.stream /\ j.state \notin Early /\ s = None => pub
      /\ j.stream /\ j.state \in {"committed", "completed"} => pub
      /\ j.state \in {"staged", "verified"} => j.files # {}

\* What publication and streamed files imply about the journal.
EffectsGood(j, s, pub) ==
    /\ pub => j # None /\ j.started /\ j.commit /\ s = None
    /\ s # None /\ s.streamed # {} => j # None /\ j.stream

\* A session under construction.
StartGood(j, s, m, p) ==
    p = "start" =>
      /\ s = None
      /\ ~m.started
      /\ m.state \in Early \cup {""}
      /\ m.state = "" => j = None
      /\ m.state # "" => j = render_journal(m)

\* A constructed session against the journal on disk.
SessionGood(j, s, m, p, pub) ==
    p \notin {"dead", "start"} =>
      /\ j # None
      /\ j.stream => m.stream
      /\ j.commit => m.commit
      /\ pub => m.started /\ m.commit
      /\ m.stream /\ s = None => pub
      /\ m.stream /\ m.state \in {"committed", "completed"} => pub
      /\ m.state \in {"staged", "verified"} => m.files # {}
      /\ m.state = "rolled_back" => ~pub /\ s = None
      /\ m.state = "recovery_required" /\ s # None => j = render_journal(m)
      /\ m.state \in {"staging", "staged", "verified"} => s # None
      /\ m.state # ""

\* A session inside a call.
PointGood(j, s, m, p) ==
    /\ p \in {"open", "read"} => /\ s # None /\ j.stream
                                /\ m.stream /\ m.state = "staging" /\ m.entry # None
    /\ p = "observe" => s # None /\ m.commit /\ m.state = "verified"
    /\ p = "rename" => /\ s # None
                       /\ s.files = m.files /\ s.foreign # "early"
                       /\ m.files # {}
                       /\ m.state = "committing"
                       /\ m.started /\ m.commit
                       /\ j = render_journal(m)
    /\ p \in {"remove", "unlink"} => m.state = "recovery_required"
    /\ p = "unlink" => s # None /\ ~m.stream /\ ~m.commit /\ m.ident

DiskGood(j, s, pub) == JournalGood(j, s, pub) /\ EffectsGood(j, s, pub)

LiveGood(j, s, m, p, pub) ==
    /\ StartGood(j, s, m, p)
    /\ SessionGood(j, s, m, p, pub)
    /\ PointGood(j, s, m, p)

TxGood(t) ==
    /\ DiskGood(journal[t], stage[t], t \in published)
    /\ LiveGood(journal[t], stage[t], mem[t], pc[t], t \in published)

IndInv ==
    /\ TypeOK
    /\ \A t \in Tx : TxGood(t)
    /\ target \in Tx => target \in published

\* What every step from a state of IndInv does, besides keeping it.
Preserved ==
    /\ IndInv'
    /\ \A t \in Tx : DeletionGranted(t) /\ LatchKept(t) /\ ClosurePublished(t)

-----------------------------------------------------------------------------
(* What one persist does, for any of its outcomes.                         *)

\* A persist changes the journal, temporaries, memory and control point of its
\* own transaction and no other.
LEMMA PersistFrame ==
    ASSUME TypeOK, NEW t \in Tx, NEW m, NEW base, NEW then, NEW fail,
           Persist(t, m, base, then, fail),
           NEW u \in Tx, u # t
    PROVE  /\ journal'[u] = journal[u]
           /\ mem'[u] = mem[u]
           /\ pc'[u] = pc[u]
BY DEF Persist, Die, Goto, TypeOK

\* render_journal maps sessions to sessions.
LEMMA RenderType ==
    ASSUME NEW m \in Session
    PROVE  render_journal(m) \in Session
BY Zenon DEF render_journal, Session

\* A persist leaves the variables it writes well typed.
LEMMA PersistType ==
    ASSUME TypeOK, NEW t \in Tx, NEW m \in Session, NEW base \in Session,
           NEW then \in Points, NEW fail \in Points,
           Persist(t, m, base, then, fail)
    PROVE  /\ journal' \in [Tx -> Session \cup {None}]
           /\ tmp' \in [Tx -> SUBSET Nat]
           /\ mem' \in [Tx -> Session]
           /\ pc' \in [Tx -> Points]
           /\ faults' \in 0..MaxFaults
<1>1. render_journal(m) \in Session
  BY RenderType
<1>2. base.len \in Nat
  BY DEF Session
<1>3. Blank \in Session
  BY Zenon DEF Blank, Session, States, Phases
<1>4. "dead" \in Points
  BY DEF Points
<1>5. Spend => faults' \in 0..MaxFaults
  BY TxAssumption DEF Spend, TypeOK
<1>6. faults' \in 0..MaxFaults
  BY <1>5 DEF Persist, TypeOK
<1>7. journal' \in [Tx -> Session \cup {None}]
  BY <1>1 DEF Persist, TypeOK
<1>8. tmp' \in [Tx -> SUBSET Nat]
  BY <1>2 DEF Persist, TypeOK
<1>9. mem' \in [Tx -> Session]
  BY <1>3 DEF Persist, TypeOK, Die
<1>10. pc' \in [Tx -> Points]
  BY <1>4 DEF Persist, TypeOK, Die, Goto
<1> QED
  BY <1>6, <1>7, <1>8, <1>9, <1>10

\* The three ways a persist can end: recorded and known to be, thrown back to
\* the old memory with the journal in either state, or dead.
LEMMA PersistOutcome ==
    ASSUME TypeOK, NEW t \in Tx, NEW m \in Session, NEW base \in Session,
           NEW then \in Points, NEW fail \in Points,
           Persist(t, m, base, then, fail)
    PROVE  \/ journal'[t] = render_journal(m) /\ mem'[t] = m /\ pc'[t] = then
           \/ /\ journal'[t] \in {journal[t], render_journal(m)}
              /\ mem'[t] = base /\ pc'[t] = fail /\ fail # "dead"
           \/ /\ journal'[t] \in {journal[t], render_journal(m)}
              /\ pc'[t] = "dead"
BY DEF Persist, Die, Goto, TypeOK

\* A persist keeps TxGood if the documents it may leave behind fit the disk and
\* the memory it continues with fits each of them.
LEMMA PersistGood ==
    ASSUME TypeOK, NEW t \in Tx, NEW m \in Session, NEW base \in Session,
           NEW then \in Points, NEW fail \in Points,
           Persist(t, m, base, then, fail),
           \A j \in {journal[t], render_journal(m)} :
              /\ DiskGood(j, stage'[t], t \in published')
              /\ fail # "dead" => LiveGood(j, stage'[t], base, fail, t \in published'),
           LiveGood(render_journal(m), stage'[t], m, then, t \in published')
    PROVE  TxGood(t)'
<1> DEFINE s == stage'[t]
           pub == t \in published'
<1>1. \A j, mm : LiveGood(j, s, mm, "dead", pub)
  BY Zenon DEF LiveGood, StartGood, SessionGood, PointGood
<1>2. DiskGood(journal'[t], s, pub) /\ LiveGood(journal'[t], s, mem'[t], pc'[t], pub)
  <2> HIDE DEF s, pub
  <2> QED
    BY <1>1, PersistOutcome DEF s, pub
<1> QED
  BY <1>2 DEF TxGood

\* What render_journal keeps and what it withholds.
LEMMA RenderFields ==
    ASSUME NEW m \in Session
    PROVE  LET r == render_journal(m) IN
           /\ r # None
           /\ r.state = m.state /\ r.started = m.started
           /\ r.stream = m.stream /\ r.commit = m.commit
           /\ r.files = m.files
           /\ ~r.verified
           /\ r.ident => m.ident /\ ~m.stream /\ ~m.commit
<1>1. render_journal(m) # None
  BY RenderType, NoneAssumption
<1> QED
  BY <1>1, Zenon DEF render_journal, Session

\* A step that stays within one transaction is fine for the others.
LEMMA LocalStep ==
    ASSUME IndInv, TypeOK', NEW t \in Tx, TxGood(t)',
           \A u \in Tx : u # t =>
              /\ journal'[u] = journal[u]
              /\ stage'[u] = stage[u]
              /\ mem'[u] = mem[u]
              /\ pc'[u] = pc[u]
              /\ u \in published' <=> u \in published,
           target' \in {target, t},
           target' \in Tx => target' \in published',
           DeletionGranted(t), LatchKept(t), ClosurePublished(t)
    PROVE  Preserved
<1>1. ASSUME NEW u \in Tx, u # t PROVE TxGood(u)'
  BY <1>1 DEF IndInv, TxGood
<1>2. ASSUME NEW u \in Tx, u # t PROVE DeletionGranted(u) /\ LatchKept(u) /\ ClosurePublished(u)
  BY <1>2, Zenon DEF IndInv, TxGood, DiskGood, JournalGood, DeletionGranted, LatchKept, ClosurePublished
<1> QED
  BY <1>1, <1>2 DEF IndInv, Preserved

\* The two together, for a step that persists and may change its own staging
\* root.
LEMMA PersistStep ==
    ASSUME IndInv, NEW t \in Tx, NEW m \in Session, NEW base \in Session,
           NEW then \in Points, NEW fail \in Points,
           Persist(t, m, base, then, fail),
           stage' \in [Tx -> StageContents \cup {None}],
           \A u \in Tx : u # t => stage'[u] = stage[u],
           UNCHANGED <<target, published>>,
           \A j \in {journal[t], render_journal(m)} :
              /\ DiskGood(j, stage'[t], t \in published)
              /\ fail # "dead" => LiveGood(j, stage'[t], base, fail, t \in published),
           LiveGood(render_journal(m), stage'[t], m, then, t \in published),
           journal[t] # None => /\ journal[t].stream => m.stream
                                /\ journal[t].commit => m.commit,
           DeletionGranted(t)
    PROVE  Preserved
<1>1. TypeOK
  BY DEF IndInv
<1>2. TypeOK'
  BY <1>1, PersistType DEF TypeOK
<1>3. TxGood(t)'
  BY <1>1, PersistGood
<1>4. \A u \in Tx : u # t => journal'[u] = journal[u] /\ mem'[u] = mem[u] /\ pc'[u] = pc[u]
  BY <1>1, PersistFrame
<1>5. target' \in {target, t} /\ (target' \in Tx => target' \in published')
  BY DEF IndInv
<1>6. journal'[t] \in {journal[t], render_journal(m)}
  BY <1>1, PersistOutcome
<1>7. LatchKept(t)
  <2>1. CASE journal'[t] = journal[t]
    BY <2>1, Zenon DEF IndInv, TxGood, DiskGood, JournalGood, LatchKept
  <2>2. CASE journal'[t] = render_journal(m)
    BY <2>2, RenderFields DEF LatchKept
  <2> QED
    BY <1>6, <2>1, <2>2
<1>8. ClosurePublished(t)
  BY DEF ClosurePublished
<1> QED
  BY <1>2, <1>3, <1>4, <1>5, <1>7, <1>8, LocalStep

\* A journal on disk renders to itself, so reopening it loses nothing.
LEMMA RenderIdempotent ==
    ASSUME NEW j \in Session, ~j.verified, (j.stream \/ j.commit) => ~j.ident
    PROVE  render_journal(j) = j
BY Zenon DEF render_journal, Session

\* What advance changes.
LEMMA AdvanceFields ==
    ASSUME NEW m \in Session, NEW next \in States
    PROVE  LET a == advance(m, next) IN
           /\ a \in Session
           /\ a.state = next
           /\ m.started => a.started
           /\ next = "committing" => a.started
           /\ a.stream = m.stream /\ a.commit = m.commit
           /\ a.ident = m.ident /\ a.files = m.files
           /\ a.len = m.len + 1
<1> DEFINE n == m.len + 1
           b == (m.started \/ next = "committing")
           a == [m EXCEPT !.state = next, !.len = n, !.started = b]
<1>1. n \in Nat
  BY DEF Session
<1>2. b \in BOOLEAN
  OBVIOUS
<1>3. advance(m, next) = a
  BY Zenon DEF advance
<1>4. /\ a \in Session
      /\ a.state = next /\ a.started = b
      /\ a.stream = m.stream /\ a.commit = m.commit
      /\ a.ident = m.ident /\ a.files = m.files
      /\ a.len = n
  <2> HIDE DEF n, b
  <2> QED
    BY <1>1, <1>2, Zenon DEF Session
<1> HIDE DEF a
<1> QED
  BY <1>3, <1>4, Zenon

-----------------------------------------------------------------------------
(* The calls that record one transition and leave the staging root alone.  *)

\* Facts about one transaction that IndInv provides.
LEMMA Facts ==
    ASSUME IndInv, NEW t \in Tx
    PROVE  /\ journal[t] \in Session \cup {None}
           /\ mem[t] \in Session
           /\ stage[t] \in StageContents \cup {None}
           /\ pc[t] \in Points
           /\ stage \in [Tx -> StageContents \cup {None}]
           /\ DiskGood(journal[t], stage[t], t \in published)
           /\ LiveGood(journal[t], stage[t], mem[t], pc[t], t \in published)
BY DEF IndInv, TypeOK, TxGood

\* A transition of a constructed session from memory m, which may differ from
\* the object's fields in the volatile verified closure only.
LEMMA TransitionStep ==
    ASSUME IndInv, NEW t \in Tx, NEW m \in Session, NEW next \in States,
           NEW then \in {"idle", "remove", "rename"},
           Persist(t, advance(m, next), m, then, "idle"),
           UNCHANGED <<stage, target, published>>,
           pc[t] \notin {"dead", "start"},
           m \in {mem[t], [mem[t] EXCEPT !.verified = TRUE]},
           next \notin {"", "staging", "rolled_back"},
           m.state = "recovery_required" => stage[t] = None,
           next \in {"committed", "completed"} /\ m.stream => t \in published,
           next \in {"staged", "verified"} => m.files # {} /\ stage[t] # None,
           then = "remove" => next = "recovery_required",
           then = "rename" => /\ next = "committing" /\ m.commit
                              /\ m.files # {} /\ stage[t] # None
                              /\ stage[t].files = m.files
                              /\ stage[t].foreign # "early"
    PROVE  Preserved
<1> DEFINE a == advance(m, next)
           r == render_journal(a)
           s == stage[t]
           j == journal[t]
           pub == t \in published
<1>1. /\ a \in Session /\ a.state = next
      /\ m.started => a.started
      /\ next = "committing" => a.started
      /\ a.stream = m.stream /\ a.commit = m.commit
      /\ a.ident = m.ident /\ a.files = m.files
  BY AdvanceFields, Zenon
<1>2. /\ r # None
      /\ r.state = a.state /\ r.started = a.started
      /\ r.stream = a.stream /\ r.commit = a.commit
      /\ r.files = a.files /\ ~r.verified
      /\ r.ident => a.ident /\ ~a.stream /\ ~a.commit
  BY <1>1, RenderFields, Zenon
<1>3. DiskGood(j, s, pub) /\ LiveGood(j, s, mem[t], pc[t], pub)
  BY Facts, Zenon
<1>4. /\ m.state = mem[t].state /\ m.started = mem[t].started
      /\ m.stream = mem[t].stream /\ m.commit = mem[t].commit
      /\ m.files = mem[t].files
  <2>1. mem[t] \in Session
    BY Facts, Zenon
  <2>2. CASE m = mem[t]
    BY <2>2, Zenon
  <2>3. CASE m = [mem[t] EXCEPT !.verified = TRUE]
    BY <2>1, <2>3, Zenon DEF Session
  <2> QED
    BY <2>2, <2>3, Zenon
<1> HIDE DEF a, r, s, j, pub
<1>5. DiskGood(r, s, pub)
  BY <1>1, <1>2, <1>3, <1>4, Zenon
     DEF DiskGood, LiveGood, JournalGood, EffectsGood, SessionGood, s, pub
<1>6. LiveGood(j, s, m, "idle", pub)
  BY <1>1, <1>2, <1>3, <1>4, Zenon DEF LiveGood, StartGood, SessionGood, PointGood, s
<1>7. LiveGood(r, s, m, "idle", pub)
  BY <1>1, <1>2, <1>3, <1>4, Zenon DEF LiveGood, StartGood, SessionGood, PointGood, s
<1>8. LiveGood(r, s, a, then, pub)
  BY <1>1, <1>2, <1>3, <1>4, Zenon
     DEF DiskGood, EffectsGood, LiveGood, StartGood, SessionGood, PointGood, s, pub, r
<1>9. then \in Points /\ "idle" \in Points
  BY Zenon DEF Points
<1>10. /\ DeletionGranted(t)
       /\ j.stream => a.stream
       /\ j.commit => a.commit
  BY <1>1, <1>3, <1>4, Zenon DEF DeletionGranted, LiveGood, SessionGood
<1> QED
  BY <1>1, <1>3, <1>5, <1>6, <1>7, <1>8, <1>9, <1>10, Facts, PersistStep, Zenon DEF a, r, s, j, pub

\* A snapshot of a constructed session that keeps the state and drops no latch
\* and no file, and may add files to the staging root.
LEMMA SnapshotStep ==
    ASSUME IndInv, NEW t \in Tx, NEW m \in Session,
           NEW then \in {"idle", "open", "read", "observe"},
           NEW fail \in {"idle", "catch"},
           Persist(t, m, m, then, fail),
           stage' \in [Tx -> StageContents \cup {None}],
           \A u \in Tx : u # t => stage'[u] = stage[u],
           UNCHANGED <<target, published>>,
           pc[t] \notin {"dead", "start"},
           m.state = mem[t].state, m.started = mem[t].started,
           m.state \in {"staging", "staged", "verified"},
           mem[t].stream => m.stream, mem[t].commit => m.commit,
           mem[t].files \subseteq m.files,
           stage'[t] # None, stage[t].files \subseteq stage'[t].files,
           stage'[t].streamed # {} =>
              m.stream /\ (stage[t].streamed # {} \/ journal[t].stream),
           then \in {"open", "read"} => m.state = "staging" /\ m.stream /\ m.entry # None,
           then = "observe" => m.state = "verified" /\ m.commit
    PROVE  Preserved
<1> DEFINE r == render_journal(m)
           s == stage'[t]
           j == journal[t]
           pub == t \in published
<1>2. /\ r # None
      /\ r.state = m.state /\ r.started = m.started
      /\ r.stream = m.stream /\ r.commit = m.commit
      /\ r.files = m.files /\ ~r.verified
      /\ r.ident => m.ident /\ ~m.stream /\ ~m.commit
  BY RenderFields
<1>3. DiskGood(j, stage[t], pub) /\ LiveGood(j, stage[t], mem[t], pc[t], pub)
  BY Facts
<1> HIDE DEF r, s, j, pub
<1>4. ~pub /\ stage[t] # None /\ j # None
  BY <1>3, Zenon DEF DiskGood, LiveGood, EffectsGood, SessionGood, pub
<1>5. DiskGood(r, s, pub)
  BY <1>2, <1>3, <1>4, Zenon
     DEF DiskGood, LiveGood, JournalGood, EffectsGood, SessionGood, s, pub
<1>6. DiskGood(j, s, pub)
  BY <1>2, <1>3, <1>4, Zenon DEF DiskGood, JournalGood, EffectsGood, s, j
<1>7. LiveGood(j, s, m, fail, pub)
  BY <1>2, <1>3, <1>4, Zenon DEF LiveGood, StartGood, SessionGood, PointGood, s
<1>8. LiveGood(r, s, m, fail, pub)
  BY <1>2, <1>3, <1>4, Zenon DEF LiveGood, StartGood, SessionGood, PointGood, s
<1>9. LiveGood(r, s, m, then, pub)
  BY <1>2, <1>3, <1>4, Zenon
     DEF DiskGood, EffectsGood, LiveGood, StartGood, SessionGood, PointGood, s
<1>10. then \in Points /\ fail \in Points
  BY DEF Points
<1>11. /\ DeletionGranted(t)
       /\ j.stream => m.stream
       /\ j.commit => m.commit
  BY <1>3, Zenon DEF DeletionGranted, LiveGood, SessionGood
<1> QED
  BY <1>3, <1>4, <1>5, <1>6, <1>7, <1>8, <1>9, <1>10, <1>11, PersistStep DEF r, s, j, pub

-----------------------------------------------------------------------------
(* One lemma per group of actions.                                         *)

\* A step that only moves control and memory of one transaction.
LEMMA QuietStep ==
    ASSUME IndInv, NEW t \in Tx, NEW m \in Session, NEW p \in Points,
           mem' = [mem EXCEPT ![t] = m], pc' = [pc EXCEPT ![t] = p],
           faults' \in 0..MaxFaults,
           UNCHANGED <<journal, tmp, stage, target, published>>,
           LiveGood(journal[t], stage[t], m, p, t \in published)
    PROVE  Preserved
<1>1. TypeOK'
  BY DEF IndInv, TypeOK
<1>2. mem'[t] = m /\ pc'[t] = p
  BY DEF IndInv, TypeOK
<1>3. TxGood(t)'
  BY <1>2, Facts DEF TxGood
<1>4. \A u \in Tx : u # t => mem'[u] = mem[u] /\ pc'[u] = pc[u]
  BY DEF IndInv, TypeOK
<1>5. target' \in Tx => target' \in published'
  BY DEF IndInv
<1>6. DeletionGranted(t) /\ LatchKept(t) /\ ClosurePublished(t)
  BY Facts, Zenon DEF DiskGood, JournalGood, DeletionGranted, LatchKept, ClosurePublished
<1> QED
  BY <1>1, <1>3, <1>4, <1>5, <1>6, LocalStep

\* Spending a fault stays within the bound.
LEMMA SpendType ==
    ASSUME TypeOK, Spend
    PROVE  faults' \in 0..MaxFaults
BY TxAssumption DEF TypeOK, Spend

\* A session under construction has neither staging root nor publication.
LEMMA StartUnpublished ==
    ASSUME IndInv, NEW t \in Tx, pc[t] = "start"
    PROVE  stage[t] = None /\ t \notin published
<1>1. CASE mem[t].state = ""
  BY <1>1, Facts, Zenon DEF LiveGood, StartGood, DiskGood, EffectsGood
<1>2. CASE mem[t].state # ""
  <2>1. journal[t] = render_journal(mem[t]) /\ ~mem[t].started /\ stage[t] = None
    BY <1>2, Facts, Zenon DEF LiveGood, StartGood
  <2>2. ~journal[t].started
    BY <2>1, Facts, RenderFields
  <2> QED
    BY <2>1, <2>2, Facts DEF DiskGood, EffectsGood
<1> QED
  BY <1>1, <1>2, Zenon

\* Construction: the initial records and the staging root.
LEMMA ConstructionStep ==
    ASSUME IndInv, NEW t \in Tx, Construction(t)
    PROVE  Preserved
<1>1. CASE \E streaming, bound \in BOOLEAN : Begin(t, streaming, bound)
  <2>1. PICK streaming \in BOOLEAN, bound \in BOOLEAN : Begin(t, streaming, bound)
    BY <1>1
  <2> DEFINE m == [Blank EXCEPT !.stream = streaming, !.commit = bound, !.bound = bound]
  <2>2. m \in Session /\ m.state = "" /\ ~m.started
    BY Zenon DEF Blank, Session, States, Phases
  <2>3. "start" \in Points /\ faults \in 0..MaxFaults
    BY DEF Points, IndInv, TypeOK
  <2> HIDE DEF m
  <2>4. LiveGood(journal[t], stage[t], m, "start", t \in published)
    BY <2>1, <2>2, Zenon DEF Begin, LiveGood, StartGood, SessionGood, PointGood
  <2>5. mem' = [mem EXCEPT ![t] = m] /\ pc' = [pc EXCEPT ![t] = "start"]
    BY <2>1 DEF Begin, Goto, m
  <2> QED
    BY <2>1, <2>2, <2>3, <2>4, <2>5, QuietStep, Zenon DEF Begin
<1>2. CASE PersistInitial(t)
  <2>1. PICK next \in Early : persist_transition(t, next, "start", "dead")
    BY <1>2 DEF PersistInitial, Early
  <2> DEFINE a == advance(mem[t], next)
             r == render_journal(a)
  <2>2. mem[t] \in Session /\ next \in States /\ "start" \in Points /\ "dead" \in Points
    BY Facts, Zenon DEF Early, States, Points
  <2>3. a \in Session /\ a.state = next /\ ~a.started /\ a.files = mem[t].files
    <3>1. /\ a.state = next
          /\ a.files = mem[t].files
          /\ a \in Session
      BY <2>2, AdvanceFields
    <3>2. ~mem[t].started /\ next # "committing"
      BY Facts, <1>2, Zenon DEF LiveGood, StartGood, PersistInitial, Early
    <3>3. ~a.started
      BY <2>2, <3>2 DEF advance, Session
    <3> QED
      BY <3>1, <3>3
  <2>4. /\ r # None /\ r.state = a.state
        /\ ~r.verified /\ r.files = a.files
        /\ r.ident => ~r.stream /\ ~r.commit
    BY <2>3, RenderFields
  <2>5. stage[t] = None /\ t \notin published
    BY StartUnpublished, <1>2 DEF PersistInitial
  <2> HIDE DEF a, r
  <2>6. DiskGood(r, stage[t], t \in published)
    BY <2>3, <2>4, <2>5, Zenon DEF DiskGood, JournalGood, EffectsGood, Early
  <2>7. LiveGood(r, stage[t], a, "start", t \in published)
    BY <2>3, <2>4, <2>5, Zenon DEF LiveGood, StartGood, SessionGood, PointGood, Early, r
  <2>8. Persist(t, a, mem[t], "start", "dead")
    BY <2>1 DEF persist_transition, a
  <2>9. /\ DeletionGranted(t)
        /\ journal[t] # None => /\ journal[t].stream => a.stream
                                /\ journal[t].commit => a.commit
    <3>1. journal[t] # None => journal[t] = render_journal(mem[t])
      BY <1>2, Facts, Zenon DEF PersistInitial, LiveGood, StartGood
    <3>2. journal[t] # None => journal[t].stream = mem[t].stream /\ journal[t].commit = mem[t].commit
      BY <2>2, <3>1, RenderFields
    <3>3. a.stream = mem[t].stream /\ a.commit = mem[t].commit
      BY <2>2, AdvanceFields DEF a
    <3> QED
      BY <1>2, <3>2, <3>3 DEF PersistInitial, DeletionGranted
  <2> QED
    BY <1>2, <2>2, <2>3, <2>6, <2>7, <2>8, <2>9, Facts, PersistStep DEF PersistInitial, r
<1>3. CASE create_staging_root(t)
  <2> DEFINE m == [mem[t] EXCEPT !.ident = TRUE, !.pub = mem[t].stream]
             r == render_journal(m)
  <2>1. mem[t] \in Session /\ mem[t].state = "staging" /\ pc[t] = "start"
    BY <1>3, Facts DEF create_staging_root
  <2>2. /\ m \in Session /\ m.state = "staging"
        /\ m.stream = mem[t].stream /\ m.commit = mem[t].commit
    BY <2>1, Zenon DEF Session
  <2>3. /\ r # None /\ r.state = "staging" /\ ~r.verified
        /\ r.stream = m.stream /\ r.commit = m.commit
        /\ r.ident => ~m.stream /\ ~m.commit
    BY <2>2, RenderFields, Zenon
  <2>4. t \notin published
    BY <2>1, StartUnpublished
  <2>5. /\ stage' \in [Tx -> StageContents \cup {None}]
        /\ stage'[t] = EmptyStage
        /\ \A u \in Tx : u # t => stage'[u] = stage[u]
    BY <1>3, Facts DEF create_staging_root, EmptyStage, StageContents
  <2>6. EmptyStage # None /\ EmptyStage.streamed = {}
    <3>1. EmptyStage \in StageContents /\ EmptyStage.streamed = {}
      BY DEF EmptyStage, StageContents
    <3> QED
      BY <3>1, NoneAssumption
  <2>7. DiskGood(journal[t], stage[t], t \in published)
        /\ journal[t] = render_journal(mem[t])
    BY <2>1, Facts, Zenon DEF LiveGood, StartGood
  <2>8. /\ journal[t].state = "staging"
        /\ journal[t].stream = mem[t].stream /\ journal[t].commit = mem[t].commit
    BY <2>1, <2>7, RenderFields
  <2> HIDE DEF m, r
  <2>9. DiskGood(journal[t], EmptyStage, t \in published)
    BY <2>4, <2>6, <2>7, <2>8 DEF DiskGood, JournalGood, EffectsGood, Early
  <2>10. DiskGood(r, EmptyStage, t \in published)
    BY <2>3, <2>4, <2>6 DEF DiskGood, JournalGood, EffectsGood, Early
  <2>11. LiveGood(r, EmptyStage, m, "idle", t \in published)
    BY <2>2, <2>3, <2>4, <2>6 DEF LiveGood, StartGood, SessionGood, PointGood
  <2>12. Persist(t, m, m, "idle", "dead") /\ UNCHANGED <<target, published>>
    BY <1>3 DEF create_staging_root, persist_snapshot, m
  <2>13. "idle" \in Points /\ "dead" \in Points
    BY DEF Points
  <2>14. DeletionGranted(t)
    BY <1>3 DEF create_staging_root, DeletionGranted
  <2> QED
    BY <2>2, <2>5, <2>8, <2>9, <2>10, <2>11, <2>12, <2>13, <2>14, PersistStep DEF r
<1> QED
  BY <1>1, <1>2, <1>3 DEF Construction

\* Adding a file to a staging root.
LEMMA StageAdd ==
    ASSUME NEW t \in Tx, NEW f \in File, stage \in [Tx -> StageContents \cup {None}],
           stage[t] # None, stage' = [stage EXCEPT ![t].files = @ \cup {f}]
    PROVE  /\ stage' \in [Tx -> StageContents \cup {None}]
           /\ \A u \in Tx : u # t => stage'[u] = stage[u]
           /\ stage'[t] # None /\ stage'[t].streamed = stage[t].streamed
           /\ stage[t].files \subseteq stage'[t].files
<1>1. stage[t] \in StageContents
  OBVIOUS
<1>2. stage'[t] = [stage[t] EXCEPT !.files = @ \cup {f}]
  OBVIOUS
<1>3. /\ stage'[t] \in StageContents /\ stage'[t].streamed = stage[t].streamed
      /\ stage[t].files \subseteq stage'[t].files
  BY <1>1, <1>2 DEF StageContents
<1> QED
  BY <1>3, NoneAssumption

\* Adding a streamed file to a staging root.
LEMMA StageAddStreamed ==
    ASSUME NEW t \in Tx, NEW f \in File, stage \in [Tx -> StageContents \cup {None}],
           stage[t] # None,
           stage' = [stage EXCEPT ![t].files = @ \cup {f}, ![t].streamed = @ \cup {f}]
    PROVE  /\ stage' \in [Tx -> StageContents \cup {None}]
           /\ \A u \in Tx : u # t => stage'[u] = stage[u]
           /\ stage'[t] # None /\ stage[t].files \subseteq stage'[t].files
<1>1. stage[t] \in StageContents
  OBVIOUS
<1>2. stage'[t] = [stage[t] EXCEPT !.files = @ \cup {f}, !.streamed = @ \cup {f}]
  OBVIOUS
<1>3. stage'[t] \in StageContents /\ stage[t].files \subseteq stage'[t].files
  BY <1>1, <1>2, Zenon DEF StageContents
<1> QED
  BY <1>3, NoneAssumption

\* Staging: files, streams and their recovery record.
LEMMA StagingStep ==
    ASSUME IndInv, NEW t \in Tx, Staging(t)
    PROVE  Preserved
<1> DEFINE m0 == mem[t]
<1>0. m0 \in Session /\ stage \in [Tx -> StageContents \cup {None}]
  BY Facts
<1>1. ASSUME NEW f \in File, stage_file(t, f) PROVE Preserved
  <2> DEFINE m == [m0 EXCEPT !.files = @ \cup {f}]
  <2>1. /\ m \in Session /\ m.state = m0.state /\ m.started = m0.started
        /\ m.stream = m0.stream /\ m.commit = m0.commit /\ m0.files \subseteq m.files
    BY <1>0 DEF Session
  <2>2. /\ stage' \in [Tx -> StageContents \cup {None}]
        /\ \A u \in Tx : u # t => stage'[u] = stage[u]
        /\ stage'[t] # None /\ stage'[t].streamed = stage[t].streamed
        /\ stage[t].files \subseteq stage'[t].files
    BY <1>0, <1>1, StageAdd, Zenon DEF stage_file
  <2>3. stage[t].streamed # {} => m0.stream
    BY <1>1, Facts, Zenon DEF stage_file, InState, DiskGood, EffectsGood, LiveGood, SessionGood
  <2> HIDE DEF m
  <2>4. Persist(t, m, m, "idle", "idle")
    BY <1>1 DEF stage_file, persist_snapshot, m
  <2> QED
    BY <1>1, <2>1, <2>2, <2>3, <2>4, SnapshotStep, Zenon DEF stage_file, InState
<1>2. ASSUME NEW f \in File, stage_file_fails(t, f) PROVE Preserved
  <2>1. /\ stage' \in [Tx -> StageContents \cup {None}]
        /\ \A u \in Tx : u # t => stage'[u] = stage[u]
        /\ stage'[t] # None /\ stage'[t].streamed = stage[t].streamed
        /\ stage[t].files \subseteq stage'[t].files
    BY <1>0, <1>2, StageAdd, Zenon DEF stage_file_fails
  <2>2. TypeOK'
    BY <1>2, <2>1, SpendType DEF IndInv, TypeOK, stage_file_fails
  <2>3. TxGood(t)'
    BY <1>2, <2>1, Facts, Zenon
       DEF stage_file_fails, InState, TxGood, DiskGood, JournalGood, EffectsGood,
           LiveGood, StartGood, SessionGood, PointGood
  <2>4. DeletionGranted(t) /\ LatchKept(t) /\ ClosurePublished(t)
    BY <1>2, <2>1, Facts, Zenon DEF stage_file_fails, DiskGood, JournalGood, DeletionGranted,
                             LatchKept, ClosurePublished
  <2> QED
    BY <1>2, <2>1, <2>2, <2>3, <2>4, LocalStep DEF stage_file_fails, IndInv
<1>3. ASSUME NEW f \in File, stage_file_stream(t, f) PROVE Preserved
  <2> DEFINE m == [m0 EXCEPT !.stream = TRUE, !.pub = TRUE, !.entry = f, !.phase = "intent"]
  <2>1. /\ m \in Session /\ m.state = m0.state /\ m.started = m0.started
        /\ m.stream /\ m.commit = m0.commit /\ m.files = m0.files /\ m.entry # None
    BY <1>0, TxAssumption, Zenon DEF Session, Phases
  <2> HIDE DEF m
  <2>2. Persist(t, m, m, "open", "idle")
    BY <1>3 DEF stage_file_stream, persist_snapshot, m
  <2> QED
    BY <1>0, <1>3, <2>1, <2>2, SnapshotStep DEF stage_file_stream, InState
<1>4. CASE OpenStream(t)
  <2>0. pc[t] = "open" /\ stage[t] # None /\ m0.stream /\ journal[t].stream
        /\ m0.state = "staging" /\ journal[t] # None
    BY <1>4, Facts, Zenon DEF OpenStream, LiveGood, PointGood, SessionGood
  <2>1. CASE m0.entry \in stage[t].files
    <3>1. Goto(t, "catch") /\ UNCHANGED <<journal, tmp, mem, stage, target, published, faults>>
      BY <1>4, <2>1 DEF OpenStream
    <3>2. LiveGood(journal[t], stage[t], m0, "catch", t \in published)
      BY <2>0, Facts, Zenon DEF LiveGood, StartGood, SessionGood, PointGood
    <3>3. "catch" \in Points /\ faults' \in 0..MaxFaults /\ mem' = [mem EXCEPT ![t] = m0]
      BY <3>1 DEF Points, IndInv, TypeOK
    <3> QED
      BY <1>0, <3>1, <3>2, <3>3, QuietStep, Zenon DEF Goto
  <2>2. CASE m0.entry \notin stage[t].files
    <3> DEFINE m == [m0 EXCEPT !.phase = "writing"]
    <3>1. /\ m \in Session /\ m.state = m0.state /\ m.started = m0.started
          /\ m.stream = m0.stream /\ m.commit = m0.commit /\ m.files = m0.files
          /\ m.entry = m0.entry
      BY <1>0 DEF Session, Phases
    <3>2. /\ stage' = [stage EXCEPT ![t].files = @ \cup {m0.entry},
                                    ![t].streamed = @ \cup {m0.entry}]
          /\ Persist(t, m, m, "read", "catch")
          /\ UNCHANGED <<target, published>>
      BY <1>4, <2>2 DEF OpenStream, persist_snapshot
    <3>3. m0.entry \in File
      BY <1>0, <2>0, Facts DEF LiveGood, PointGood, Session
    <3>4. /\ stage' \in [Tx -> StageContents \cup {None}]
          /\ \A u \in Tx : u # t => stage'[u] = stage[u]
          /\ stage'[t] # None /\ stage[t].files \subseteq stage'[t].files
      BY <1>0, <2>0, <3>2, <3>3, StageAddStreamed, Zenon
    <3> HIDE DEF m
    <3> QED
      BY <2>0, <3>1, <3>2, <3>3, <3>4, TxAssumption, SnapshotStep, Zenon
  <2> QED
    BY <2>1, <2>2
<1>5. CASE FinishStream(t)
  <2> DEFINE m == [m0 EXCEPT !.phase = "complete", !.files = @ \cup {m0.entry}]
  <2>0. pc[t] = "read" /\ stage[t] # None /\ m0.stream /\ m0.state = "staging"
        /\ m0.entry \in File
    BY <1>0, <1>5, Facts DEF FinishStream, LiveGood, PointGood, Session
  <2>1. /\ m \in Session /\ m.state = m0.state /\ m.started = m0.started
        /\ m.stream = m0.stream /\ m.commit = m0.commit /\ m0.files \subseteq m.files
    BY <1>0, <2>0, Zenon DEF Session, Phases
  <2> HIDE DEF m
  <2>2. Persist(t, m, m, "idle", "catch") /\ UNCHANGED <<stage, target, published>>
    BY <1>5 DEF FinishStream, persist_snapshot, m
  <2> QED
    BY <1>0, <2>0, <2>1, <2>2, SnapshotStep, Zenon
<1>6. CASE StreamFails(t)
  <2>1. LiveGood(journal[t], stage[t], m0, "catch", t \in published)
    BY <1>6, Facts, Zenon DEF StreamFails, LiveGood, StartGood, SessionGood, PointGood
  <2>2. "catch" \in Points /\ faults' \in 0..MaxFaults /\ mem' = [mem EXCEPT ![t] = m0]
    BY <1>6, SpendType DEF Points, IndInv, TypeOK, StreamFails
  <2> QED
    BY <1>0, <1>6, <2>1, <2>2, QuietStep, Zenon DEF StreamFails, Goto
<1>7. CASE RecordRecovery(t)
  <2>1. valid_transition(m0.state, "recovery_required")
    BY <1>7 DEF RecordRecovery, persist_transition
  <2>2. m0.state # "recovery_required"
    BY <2>1, Zenon DEF valid_transition
  <2>3. Persist(t, advance(m0, "recovery_required"), m0, "idle", "idle")
    BY <1>7 DEF RecordRecovery, persist_transition
  <2>4. "recovery_required" \in States
    BY DEF States
  <2> QED
    BY <1>0, <1>7, <2>2, <2>3, <2>4, TransitionStep, Zenon DEF RecordRecovery
<1>8. CASE bind_stream_source(t)
  <2> DEFINE m == [m0 EXCEPT !.stream = TRUE, !.pub = TRUE]
  <2>1. /\ m \in Session /\ m.state = m0.state /\ m.started = m0.started
        /\ m.stream /\ m.commit = m0.commit /\ m.files = m0.files
    BY <1>0, Zenon DEF Session
  <2> HIDE DEF m
  <2>2. Persist(t, m, m, "idle", "idle")
    BY <1>8 DEF bind_stream_source, persist_snapshot, m
  <2>3. stage[t] # None
    BY <1>8, Facts, Zenon DEF bind_stream_source, InState, LiveGood, SessionGood
  <2> QED
    BY <1>0, <1>8, <2>1, <2>2, <2>3, SnapshotStep DEF bind_stream_source, InState
<1>9. CASE mark_staged(t)
  <2>1. Persist(t, advance(m0, "staged"), m0, "idle", "idle")
    BY <1>9 DEF mark_staged, persist_transition
  <2>2. "staged" \in States
    BY DEF States
  <2> QED
    BY <1>0, <1>9, <2>1, <2>2, TransitionStep, Zenon DEF mark_staged, InState
<1> QED
  BY <1>1, <1>2, <1>3, <1>4, <1>5, <1>6, <1>7, <1>8, <1>9 DEF Staging

\* Verification, the commit effect and its records.
LEMMA CommitStep ==
    ASSUME IndInv, NEW t \in Tx, Commit(t)
    PROVE  Preserved
<1> DEFINE m0 == mem[t]
<1>0. m0 \in Session /\ stage \in [Tx -> StageContents \cup {None}]
  BY Facts
<1>1. CASE mark_verified(t)
  <2> DEFINE m == [m0 EXCEPT !.verified = TRUE]
  <2>1. m \in Session /\ m.state = m0.state /\ m.files = m0.files
    BY <1>0, Zenon DEF Session
  <2>2. Persist(t, advance(m, "verified"), m, "idle", "idle")
    BY <1>1 DEF mark_verified
  <2>3. m0.files # {} /\ stage[t] # None /\ "verified" \in States
    BY <1>1, Facts, Zenon DEF mark_verified, InState, LiveGood, SessionGood, States
  <2>4. pc[t] = "idle" /\ m0.state = "staged" /\ UNCHANGED <<stage, target, published>>
    BY <1>1 DEF mark_verified, InState
  <2> HIDE DEF m
  <2> QED
    BY <2>1, <2>2, <2>3, <2>4, TransitionStep, Zenon DEF m
<1>2. CASE commit_effect(t)
  <2>0. pc[t] = "idle" /\ m0.state = "verified" /\ stage[t] # None
        /\ UNCHANGED <<stage, target, published>>
    BY <1>2 DEF commit_effect, InState
  <2>1. CASE target # None
    <3>1. Persist(t, advance(m0, "refused"), m0, "idle", "idle") /\ "refused" \in States
      BY <1>2, <2>1 DEF commit_effect, persist_transition, States
    <3> QED
      BY <1>0, <2>0, <3>1, TransitionStep, Zenon
  <2>2. CASE target = None
    <3> DEFINE m == [m0 EXCEPT !.commit = TRUE]
    <3>1. /\ m \in Session /\ m.state = m0.state /\ m.started = m0.started
          /\ m.stream = m0.stream /\ m.commit /\ m.files = m0.files
      BY <1>0, Zenon DEF Session
    <3>2. Persist(t, m, m, "observe", "idle")
      BY <1>2, <2>2 DEF commit_effect, persist_snapshot
    <3>3. stage[t].streamed # {} => m0.stream
      BY <2>0, Facts, Zenon DEF DiskGood, EffectsGood, LiveGood, SessionGood
    <3> HIDE DEF m
    <3> QED
      BY <1>0, <2>0, <3>1, <3>2, <3>3, SnapshotStep
  <2> QED
    BY <2>1, <2>2
<1>3. CASE ObserveCommitClosure(t)
  <2>0. /\ pc[t] = "observe" /\ stage[t] # None /\ m0.commit
        /\ m0.state = "verified" /\ m0.files # {}
        /\ UNCHANGED <<stage, target, published>>
    BY <1>3, Facts, Zenon DEF ObserveCommitClosure, LiveGood, PointGood, SessionGood
  <2>1. CASE ~m0.bound /\ m0.verified /\ ClosureIntact(t, m0.files)
    <3>1. Persist(t, advance(m0, "committing"), m0, "rename", "idle") /\ "committing" \in States
      BY <1>3, <2>1 DEF ObserveCommitClosure, persist_transition, States
    <3> QED
      BY <1>0, <2>0, <2>1, <3>1, TransitionStep, Zenon DEF ClosureIntact
  <2>2. CASE ~(~m0.bound /\ m0.verified /\ ClosureIntact(t, m0.files))
    <3>1. Persist(t, advance(m0, "recovery_required"), m0, "idle", "idle")
          /\ "recovery_required" \in States
      BY <1>3, <2>2 DEF ObserveCommitClosure, persist_transition, States
    <3> QED
      BY <1>0, <2>0, <3>1, TransitionStep, Zenon
  <2> QED
    BY <2>1, <2>2
<1>4. CASE RenameDirectoryNoReplace(t)
  <2>0. /\ journal[t] = render_journal(m0) /\ m0.started /\ m0.commit
        /\ m0.state = "committing" /\ pc[t] = "rename"
        /\ target' = t /\ published' = published \cup {t}
        /\ UNCHANGED <<journal, tmp, mem, faults>>
    BY <1>4, Facts DEF RenameDirectoryNoReplace, LiveGood, PointGood
  <2>1. journal[t].started /\ journal[t].commit /\ journal[t].state = "committing"
    BY <1>0, <2>0, RenderFields
  <2>2. /\ stage' \in [Tx -> StageContents \cup {None}]
        /\ \A u \in Tx : u # t => stage'[u] = stage[u]
        /\ stage'[t] = None
    BY <1>0, <1>4 DEF RenameDirectoryNoReplace
  <2>3. /\ pc' \in [Tx -> Points] /\ pc'[t] = "idle"
        /\ \A u \in Tx : u # t => pc'[u] = pc[u]
    BY <1>4 DEF RenameDirectoryNoReplace, Goto, IndInv, TypeOK, Points
  <2>4. TypeOK'
    BY <2>0, <2>2, <2>3 DEF IndInv, TypeOK
  <2>5. TxGood(t)'
    BY <2>0, <2>1, <2>2, <2>3, Facts, Zenon
       DEF TxGood, DiskGood, JournalGood, EffectsGood, LiveGood, StartGood,
           SessionGood, PointGood
  <2>6. DeletionGranted(t) /\ LatchKept(t)
    BY <2>0, <2>2, Facts, Zenon DEF DiskGood, JournalGood, DeletionGranted, LatchKept
  <2>7. ClosurePublished(t)
    <3>1. /\ target = None /\ stage[t].files = m0.files /\ m0.files # {}
          /\ stage[t].foreign # "early"
      BY <1>4, Facts DEF RenameDirectoryNoReplace, LiveGood, PointGood
    <3>2. journal[t].files = m0.files
      BY <1>0, <2>0, RenderFields
    <3> QED
      BY <3>1, <3>2 DEF ClosurePublished
  <2> QED
    BY <2>0, <2>2, <2>3, <2>4, <2>5, <2>6, <2>7, LocalStep
<1>5. CASE RenameFindsTarget(t)
  <2>1. pc[t] = "rename" /\ m0.state = "committing" /\ UNCHANGED <<stage, target, published>>
    BY <1>5, Facts DEF RenameFindsTarget, LiveGood, PointGood
  <2>2. Persist(t, advance(m0, "recovery_required"), m0, "idle", "idle")
        /\ "recovery_required" \in States
    BY <1>5 DEF RenameFindsTarget, persist_transition, States
  <2> QED
    BY <1>0, <2>1, <2>2, TransitionStep, Zenon
<1>6. CASE RenameFails(t) \/ mark_recovery_required(t)
  <2>1. LiveGood(journal[t], stage[t], m0, "catch", t \in published)
    BY <1>6, Facts, Zenon DEF RenameFails, mark_recovery_required, InState, LiveGood,
                       StartGood, SessionGood, PointGood
  <2>2. "catch" \in Points /\ faults' \in 0..MaxFaults /\ mem' = [mem EXCEPT ![t] = m0]
    BY <1>6, SpendType DEF Points, IndInv, TypeOK, RenameFails, mark_recovery_required
  <2> QED
    BY <1>0, <1>6, <2>1, <2>2, QuietStep, Zenon DEF RenameFails, mark_recovery_required, Goto
<1>7. CASE mark_committed(t)
  <2>1. Persist(t, advance(m0, "committed"), m0, "idle", "idle") /\ "committed" \in States
    BY <1>7 DEF mark_committed, persist_transition, States
  <2>2. m0.stream => t \in published
    BY <1>7, Facts, Zenon DEF mark_committed, InState, VisibleOnly, LiveGood, SessionGood
  <2> QED
    BY <1>0, <1>7, <2>1, <2>2, TransitionStep, Zenon DEF mark_committed, InState
<1>8. CASE mark_completed(t)
  <2>1. Persist(t, advance(m0, "completed"), m0, "idle", "idle") /\ "completed" \in States
    BY <1>8 DEF mark_completed, persist_transition, States
  <2>2. m0.stream => t \in published
    BY <1>8, Facts, Zenon DEF mark_completed, InState, LiveGood, SessionGood
  <2> QED
    BY <1>0, <1>8, <2>1, <2>2, TransitionStep, Zenon DEF mark_completed, InState
<1>9. CASE resume_committing(t)
  <2>1. Persist(t, advance(m0, "committing"), m0, "idle", "idle") /\ "committing" \in States
    BY <1>9 DEF resume_committing, persist_transition, States
  <2> QED
    BY <1>0, <1>9, <2>1, TransitionStep, Zenon DEF resume_committing, InState, VisibleOnly
<1> QED
  BY <1>1, <1>2, <1>3, <1>4, <1>5, <1>6, <1>7, <1>8, <1>9 DEF Commit

\* A session that deletes has its authority on disk.
LEMMA UnlinkAuthority ==
    ASSUME IndInv, NEW t \in Tx, pc[t] = "unlink"
    PROVE  /\ journal[t].ident /\ journal[t].state = "recovery_required"
           /\ ~journal[t].stream /\ ~journal[t].commit
<1>1. /\ journal[t] = render_journal(mem[t]) /\ mem[t] \in Session
      /\ mem[t].ident /\ ~mem[t].stream /\ ~mem[t].commit
      /\ mem[t].state = "recovery_required"
  BY Facts, Zenon DEF LiveGood, PointGood, SessionGood
<1> QED
  BY <1>1 DEF render_journal, Session

\* Rollback: the record, the check of the closure, the deletions.
LEMMA RollbackStep ==
    ASSUME IndInv, NEW t \in Tx, Rollback(t)
    PROVE  Preserved
<1> DEFINE m0 == mem[t]
<1>0. m0 \in Session /\ stage \in [Tx -> StageContents \cup {None}]
  BY Facts
<1>1. CASE rollback(t)
  <2>0. pc[t] = "idle" /\ UNCHANGED <<stage, target, published>>
    BY <1>1 DEF rollback, InState
  <2>1. CASE m0.state = "recovery_required"
    <3>1. Goto(t, "remove") /\ UNCHANGED <<journal, tmp, mem, faults>>
      BY <1>1, <2>1 DEF rollback
    <3>2. LiveGood(journal[t], stage[t], m0, "remove", t \in published)
      BY <2>0, <2>1, Facts, Zenon DEF LiveGood, StartGood, SessionGood, PointGood
    <3>3. "remove" \in Points /\ faults' \in 0..MaxFaults /\ mem' = [mem EXCEPT ![t] = m0]
      BY <3>1 DEF Points, IndInv, TypeOK
    <3> QED
      BY <1>0, <2>0, <3>1, <3>2, <3>3, QuietStep, Zenon DEF Goto
  <2>2. CASE m0.state # "recovery_required"
    <3>1. Persist(t, advance(m0, "recovery_required"), m0, "remove", "idle")
          /\ "recovery_required" \in States
      BY <1>1, <2>2 DEF rollback, persist_transition, States
    <3> QED
      BY <1>0, <2>0, <2>2, <3>1, TransitionStep, Zenon
  <2> QED
    BY <2>1, <2>2
<1>2. CASE RemoveClosureStart(t)
  <2>0. pc[t] = "remove" /\ mem' = [mem EXCEPT ![t] = m0]
        /\ UNCHANGED <<journal, tmp, stage, target, mem, published, faults>>
    BY <1>2 DEF RemoveClosureStart, IndInv, TypeOK
  <2>1. PICK p \in {"unlink", "idle"} :
          /\ Goto(t, p)
          /\ p = "unlink" => ~m0.stream /\ ~m0.commit /\ m0.ident /\ stage[t] # None
    BY <1>2 DEF RemoveClosureStart, ClosureIntact
  <2>2. LiveGood(journal[t], stage[t], m0, p, t \in published)
    BY <2>0, <2>1, Facts, Zenon DEF LiveGood, StartGood, SessionGood, PointGood
  <2>3. p \in Points /\ faults' \in 0..MaxFaults
    BY <2>0 DEF Points, IndInv, TypeOK
  <2> QED
    BY <1>0, <2>0, <2>1, <2>2, <2>3, QuietStep, Zenon DEF Goto
<1>3. CASE RemoveStagingRoot(t)
  <2>0. /\ pc[t] = "unlink" /\ m0.state = "recovery_required" /\ stage[t] # None
        /\ ~m0.stream /\ ~m0.commit /\ journal[t] # None
        /\ UNCHANGED <<target, published>>
    BY <1>3, Facts, Zenon DEF RemoveStagingRoot, LiveGood, PointGood, SessionGood
  <2>1. CASE stage[t].foreign # "none"
    <3>1. Goto(t, "idle") /\ UNCHANGED <<journal, tmp, mem, stage, faults>>
      BY <1>3, <2>1 DEF RemoveStagingRoot
    <3>2. LiveGood(journal[t], stage[t], m0, "idle", t \in published)
      BY <2>0, Facts, Zenon DEF LiveGood, StartGood, SessionGood, PointGood
    <3>3. "idle" \in Points /\ faults' \in 0..MaxFaults /\ mem' = [mem EXCEPT ![t] = m0]
      BY <3>1 DEF Points, IndInv, TypeOK
    <3> QED
      BY <1>0, <2>0, <3>1, <3>2, <3>3, QuietStep, Zenon DEF Goto
  <2>2. CASE stage[t].foreign = "none"
    <3> DEFINE a == advance(m0, "rolled_back")
               r == render_journal(a)
    <3>1. Persist(t, a, m0, "idle", "idle")
      BY <1>3, <2>2 DEF RemoveStagingRoot, persist_transition
    <3>2. /\ stage' \in [Tx -> StageContents \cup {None}] /\ stage'[t] = None
          /\ \A u \in Tx : u # t => stage'[u] = stage[u]
      BY <1>0, <1>3, <2>2 DEF RemoveStagingRoot
    <3>3. /\ "rolled_back" \in States /\ "idle" \in Points
      BY DEF States, Points
    <3>4. /\ a \in Session /\ a.state = "rolled_back"
          /\ ~a.stream /\ ~a.commit
      BY <1>0, <2>0, <3>3, AdvanceFields
    <3>5. /\ r # None /\ r.state = "rolled_back" /\ ~r.stream /\ ~r.commit /\ ~r.verified
      BY <3>4, RenderFields
    <3>6. t \notin published
      BY <2>0, Facts DEF DiskGood, EffectsGood
    <3> HIDE DEF a, r
    <3>7. DiskGood(r, None, t \in published)
      BY <3>5, <3>6 DEF DiskGood, JournalGood, EffectsGood
    <3>8. DiskGood(journal[t], None, t \in published)
      BY <2>0, <3>6, Facts, Zenon DEF DiskGood, JournalGood, EffectsGood, LiveGood, SessionGood
    <3>9. LiveGood(journal[t], None, m0, "idle", t \in published)
      BY <2>0, <3>6, Facts, Zenon DEF LiveGood, StartGood, SessionGood, PointGood
    <3>10. LiveGood(r, None, m0, "idle", t \in published)
      BY <2>0, <3>5, <3>6 DEF LiveGood, StartGood, SessionGood, PointGood
    <3>11. LiveGood(r, None, a, "idle", t \in published)
      BY <3>4, <3>5, <3>6 DEF LiveGood, StartGood, SessionGood, PointGood
    <3>12. DeletionGranted(t)
      BY <2>0, <3>6, UnlinkAuthority DEF DeletionGranted
    <3>13. ~journal[t].stream /\ ~journal[t].commit
      BY <2>0, UnlinkAuthority
    <3> QED
      BY <1>0, <2>0, <3>1, <3>2, <3>3, <3>4, <3>7, <3>8, <3>9, <3>10, <3>11, <3>12, <3>13,
         PersistStep DEF r
  <2> QED
    BY <2>1, <2>2
<1>4. ASSUME NEW f \in File, RemoveRecordedFile(t, f) PROVE Preserved
  <2>0. pc[t] = "unlink" /\ stage[t] # None
        /\ stage' = [stage EXCEPT ![t].files = @ \ {f}]
        /\ UNCHANGED <<journal, tmp, target, mem, pc, published, faults>>
    BY <1>4, Facts DEF RemoveRecordedFile, LiveGood, PointGood
  <2>1. /\ stage' \in [Tx -> StageContents \cup {None}]
        /\ \A u \in Tx : u # t => stage'[u] = stage[u]
        /\ stage'[t] # None /\ stage'[t].streamed = stage[t].streamed
    <3>1. stage[t] \in StageContents /\ stage'[t] = [stage[t] EXCEPT !.files = @ \ {f}]
      BY <1>0, <2>0
    <3>2. stage'[t] \in StageContents /\ stage'[t].streamed = stage[t].streamed
      BY <3>1 DEF StageContents
    <3> QED
      BY <1>0, <2>0, <3>2, NoneAssumption
  <2>2. TypeOK'
    BY <2>0, <2>1 DEF IndInv, TypeOK
  <2>3. TxGood(t)'
    BY <2>0, <2>1, Facts, Zenon
       DEF TxGood, DiskGood, JournalGood, EffectsGood, LiveGood, StartGood,
           SessionGood, PointGood
  <2>4. DeletionGranted(t) /\ LatchKept(t) /\ ClosurePublished(t)
    BY <2>0, <2>1, UnlinkAuthority, Facts, Zenon
       DEF DiskGood, JournalGood, EffectsGood, DeletionGranted, LatchKept, ClosurePublished
  <2> QED
    BY <2>0, <2>1, <2>2, <2>3, <2>4, LocalStep DEF IndInv
<1> QED
  BY <1>1, <1>2, <1>3, <1>4 DEF Rollback

\* Recovery: a session is rebuilt from the journal, or a new transaction is
\* started on behalf of an interrupted one.
LEMMA RecoveryStep ==
    ASSUME IndInv, NEW t \in Tx, Recovery(t)
    PROVE  Preserved
<1>0. faults \in 0..MaxFaults /\ "idle" \in Points /\ "start" \in Points
  BY DEF IndInv, TypeOK, Points
<1>1. CASE resume_finalization(t) \/ resume_rollback(t)
  <2>1. journal[t] \in Session
    BY <1>1, Facts DEF resume_finalization, resume_rollback, Readable
  <2>2. /\ journal[t] # None /\ ~journal[t].verified
        /\ (journal[t].stream \/ journal[t].commit) => ~journal[t].ident
    BY <1>1, Facts, Zenon DEF resume_finalization, resume_rollback, Readable, DiskGood, JournalGood
  <2>3. render_journal(journal[t]) = journal[t]
    BY <2>1, <2>2, RenderIdempotent
  <2>4. LiveGood(journal[t], stage[t], journal[t], "idle", t \in published)
    <3>1. CASE resume_finalization(t)
      BY <2>2, <2>3, <3>1, Facts, Zenon
         DEF resume_finalization, VisibleOnly, DiskGood, JournalGood, EffectsGood,
             LiveGood, StartGood, SessionGood, PointGood, Early
    <3>2. CASE resume_rollback(t)
      BY <2>2, <2>3, <3>2, Facts, Zenon
         DEF resume_rollback, RollbackCandidate, ClosureIntact, DiskGood, JournalGood,
             EffectsGood, LiveGood, StartGood, SessionGood, PointGood
    <3> QED
      BY <1>1, <3>1, <3>2
  <2> QED
    BY <1>0, <1>1, <2>1, <2>4, QuietStep DEF resume_finalization, resume_rollback, Goto
<1>2. ASSUME NEW prior \in Tx, restart_streaming(t, prior) PROVE Preserved
  <2> DEFINE m == [Blank EXCEPT !.stream = TRUE, !.origin = prior,
                                !.osnap = Snapshot(journal[prior])]
  <2>1. journal[prior] \in Session
    BY <1>2, Facts DEF restart_streaming
  <2>2. Snapshot(journal[prior]) \in Snapshots
    BY <2>1, Zenon DEF Snapshot, Snapshots, Session
  <2>3. m \in Session /\ m.state = "" /\ ~m.started
    BY <2>2, Zenon DEF Blank, Session, States, Phases
  <2> HIDE DEF m
  <2>4. LiveGood(journal[t], stage[t], m, "start", t \in published)
    BY <1>2, <2>3, Zenon DEF restart_streaming, LiveGood, StartGood, SessionGood, PointGood
  <2> QED
    BY <1>0, <1>2, <2>3, <2>4, QuietStep, Zenon DEF restart_streaming, Goto, m
<1> QED
  BY <1>1, <1>2 DEF Recovery

\* Crashes and the other users of the file system.
LEMMA EnvironmentStep ==
    ASSUME IndInv, NEW t \in Tx, Crash(t) \/ ForeignChild(t)
    PROVE  Preserved
<1>1. CASE Crash(t)
  <2>1. Blank \in Session /\ "dead" \in Points
    BY DEF Blank, Session, States, Phases, Points
  <2>2. LiveGood(journal[t], stage[t], Blank, "dead", t \in published)
    BY DEF LiveGood, StartGood, SessionGood, PointGood
  <2>3. faults' \in 0..MaxFaults
    BY <1>1, SpendType DEF Crash, IndInv
  <2> QED
    BY <1>1, <2>1, <2>2, <2>3, QuietStep, Zenon DEF Crash, Die, Goto
<1>2. CASE ForeignChild(t)
  <2>1. /\ stage' \in [Tx -> StageContents \cup {None}]
        /\ \A u \in Tx : u # t => stage'[u] = stage[u]
        /\ stage[t] # None /\ stage'[t] # None
        /\ stage'[t].streamed = stage[t].streamed /\ stage'[t].files = stage[t].files
        /\ pc[t] = "rename" => stage'[t].foreign # "early"
    <3> DEFINE x == IF pc[t] = "rename" THEN "late" ELSE "early"
    <3>0. x \in {"early", "late"} /\ (pc[t] = "rename" => x # "early")
      OBVIOUS
    <3>1. stage[t] \in StageContents /\ stage'[t] = [stage[t] EXCEPT !.foreign = x]
      BY <1>2, Facts, Zenon DEF ForeignChild
    <3> HIDE DEF x
    <3>2. /\ stage'[t] \in StageContents
          /\ stage'[t].streamed = stage[t].streamed /\ stage'[t].files = stage[t].files
          /\ stage'[t].foreign = x
      BY <3>0, <3>1, SMT DEF StageContents
    <3> QED
      BY <1>2, <3>0, <3>2, Facts, NoneAssumption, Zenon DEF ForeignChild
  <2>2. TypeOK'
    BY <1>2, <2>1 DEF ForeignChild, IndInv, TypeOK
  <2>3. TxGood(t)'
    BY <1>2, <2>1, Facts, Zenon
       DEF ForeignChild, TxGood, DiskGood, JournalGood, EffectsGood, LiveGood, StartGood,
           SessionGood, PointGood
  <2>4. DeletionGranted(t) /\ LatchKept(t) /\ ClosurePublished(t)
    BY <1>2, <2>1, Facts, Zenon DEF ForeignChild, DiskGood, JournalGood, DeletionGranted,
                             LatchKept, ClosurePublished
  <2> QED
    BY <1>2, <2>1, <2>2, <2>3, <2>4, LocalStep DEF ForeignChild, IndInv
<1> QED
  BY <1>1, <1>2

\* Somebody else makes or removes the directory at the target path.
LEMMA TargetStep ==
    ASSUME IndInv, ForeignTarget \/ TargetRemoved
    PROVE  Preserved
<1>1. TypeOK'
  BY SpendType DEF IndInv, TypeOK, ForeignTarget, TargetRemoved
<1>2. target' \notin Tx /\ UNCHANGED <<journal, stage, mem, pc, published>>
  BY TxAssumption DEF ForeignTarget, TargetRemoved
<1>3. ASSUME NEW t \in Tx PROVE TxGood(t)'
  BY <1>2, <1>3 DEF IndInv, TxGood
<1>4. ASSUME NEW t \in Tx PROVE DeletionGranted(t) /\ LatchKept(t) /\ ClosurePublished(t)
  BY <1>2, Facts, Zenon DEF DiskGood, JournalGood, DeletionGranted, LatchKept, ClosurePublished
<1> QED
  BY <1>1, <1>2, <1>3, <1>4 DEF IndInv, Preserved

-----------------------------------------------------------------------------
(* The theorems.                                                           *)

\* The empty disk satisfies IndInv.
LEMMA InitIndInv == Init => IndInv
<1> SUFFICES ASSUME Init PROVE IndInv
  OBVIOUS
<1>1. Blank \in Session /\ "dead" \in Points
  BY DEF Blank, Session, States, Phases, Points
<1>2. TypeOK
  BY <1>1, TxAssumption, SMTT(40) DEF Init, TypeOK
<1>3. ASSUME NEW t \in Tx PROVE TxGood(t)
  BY DEF Init, TxGood, DiskGood, JournalGood, EffectsGood, LiveGood, StartGood,
         SessionGood, PointGood
<1>4. target \notin Tx
  BY TxAssumption DEF Init
<1> QED
  BY <1>2, <1>3, <1>4 DEF IndInv

\* Every step keeps IndInv and obeys the three action properties.
LEMMA NextPreserves == IndInv /\ [Next]_vars => IndInv' /\ (Preserved \/ UNCHANGED vars)
<1> SUFFICES ASSUME IndInv, [Next]_vars PROVE IndInv' /\ (Preserved \/ UNCHANGED vars)
  OBVIOUS
<1>1. CASE Next
  <2>1. ASSUME NEW t \in Tx,
               Construction(t) \/ Staging(t) \/ Commit(t) \/ Rollback(t) \/ Recovery(t)
                 \/ Crash(t) \/ ForeignChild(t)
        PROVE  Preserved
    BY <2>1, ConstructionStep, StagingStep, CommitStep, RollbackStep, RecoveryStep,
       EnvironmentStep
  <2>2. Preserved
    BY <1>1, <2>1, TargetStep DEF Next
  <2> QED
    BY <2>2 DEF Preserved
<1>2. CASE UNCHANGED vars
  <2>1. TypeOK'
    BY <1>2 DEF vars, IndInv, TypeOK
  <2>2. ASSUME NEW t \in Tx PROVE TxGood(t)'
    BY <1>2, <2>2 DEF vars, IndInv, TxGood
  <2> QED
    BY <1>2, <2>1, <2>2 DEF vars, IndInv
<1> QED
  BY <1>1, <1>2

\* IndInv holds in every reachable state.
THEOREM Invariance == Spec => []IndInv
BY InitIndInv, NextPreserves, PTL DEF Spec

\* Type correctness of the session model.
THEOREM TypeCorrect == Spec => []TypeOK
BY Invariance, PTL DEF IndInv

\* Intent before visibility, for any number of transactions, files and faults:
\* whatever the commit rename ever published has a durable journal with the
\* commit attempt and the latch.
THEOREM IntentBeforeVisibility == Spec => []PublishedHasIntent
<1>1. IndInv => PublishedHasIntent
  BY DEF IndInv, TypeOK, TxGood, DiskGood, EffectsGood, PublishedHasIntent
<1> QED
  BY <1>1, Invariance, PTL

\* A recorded rollback is truthful.
THEOREM RollbackIsTruthful == Spec => []RolledBackLeavesNothing
<1>1. IndInv => RolledBackLeavesNothing
  BY Zenon DEF IndInv, TxGood, DiskGood, JournalGood, RolledBackLeavesNothing
<1> QED
  BY <1>1, Invariance, PTL

\* A recorded completion of a source-bound stream is truthful.
THEOREM StreamCompletion == Spec => []StreamCompletionIsTruthful
<1>1. IndInv => StreamCompletionIsTruthful
  BY Zenon DEF IndInv, TxGood, DiskGood, JournalGood, StreamCompletionIsTruthful
<1> QED
  BY <1>1, Invariance, PTL

\* Streamed files are never under a journal that grants rollback.
THEOREM StreamRetention == Spec => []StreamedFilesAreRetained
<1>1. IndInv => StreamedFilesAreRetained
  BY Zenon DEF IndInv, TxGood, DiskGood, JournalGood, EffectsGood, StreamedFilesAreRetained
<1> QED
  BY <1>1, Invariance, PTL

\* No step deletes staged content without durable authority.
THEOREM DeletionAuthority == Spec => DeletionNeedsAuthority
<1>1. IndInv /\ [Next]_vars => [\A t \in Tx : DeletionGranted(t)]_vars
  BY NextPreserves DEF Preserved
<1> QED
  BY <1>1, Invariance, PTL DEF Spec, DeletionNeedsAuthority

\* No step clears a latch or regains rollback authority.
THEOREM LatchPermanence == Spec => LatchIsPermanent
<1>1. IndInv /\ [Next]_vars => [\A t \in Tx : LatchKept(t)]_vars
  BY NextPreserves DEF Preserved
<1> QED
  BY <1>1, Invariance, PTL DEF Spec, LatchIsPermanent

\* The commit rename publishes the recorded files on a free name, and with them
\* at most what appeared after commit_effect observed the closure.
THEOREM ExactPublication == Spec => PublishesRecordedClosure
<1>1. IndInv /\ [Next]_vars => [\A t \in Tx : ClosurePublished(t)]_vars
  BY NextPreserves DEF Preserved
<1> QED
  BY <1>1, Invariance, PTL DEF Spec, PublishesRecordedClosure

-----------------------------------------------------------------------------
(* Transactions that require staged_child_bound_v1.  The requirement is    *)
(* part of every journal, and no session that carries it gets past the     *)
(* commit effect's authority check or past the latch a rollback meets.     *)

\* States a transaction with the requirement never records.
Unreached == {"committing", "committed", "completed", "rolled_back"}

BoundGood(t) ==
    /\ journal[t] # None /\ journal[t].bound =>
         t \notin published /\ journal[t].commit /\ journal[t].state \notin Unreached
    /\ pc[t] # "dead" =>
         /\ journal[t] # None => journal[t].bound = mem[t].bound
         /\ mem[t].bound => /\ t \notin published
                            /\ mem[t].commit
                            /\ mem[t].state \notin Unreached
                            /\ pc[t] \notin {"rename", "unlink"}

BoundInv == \A t \in Tx : BoundGood(t)

\* A persist keeps the requirement and its consequences.
LEMMA BoundPersist ==
    ASSUME IndInv, NEW t \in Tx, BoundGood(t), pc[t] # "dead",
           NEW m \in Session, NEW base \in Session,
           NEW then \in Points, NEW fail \in Points,
           Persist(t, m, base, then, fail), published' = published,
           m.bound = mem[t].bound, base.bound = mem[t].bound,
           mem[t].bound => /\ m.commit /\ m.state \notin Unreached
                           /\ base.commit /\ base.state \notin Unreached
                           /\ {then, fail} \cap {"rename", "unlink"} = {}
    PROVE  BoundGood(t)'
<1> DEFINE r == render_journal(m)
<1>1. r.bound = m.bound /\ r.commit = m.commit /\ r.state = m.state
  BY DEF render_journal, Session
<1> HIDE DEF r
<1>2. \/ journal'[t] = r /\ mem'[t] = m /\ pc'[t] = then
      \/ journal'[t] \in {journal[t], r} /\ mem'[t] = base /\ pc'[t] = fail
      \/ journal'[t] \in {journal[t], r} /\ pc'[t] = "dead"
  BY PersistOutcome DEF IndInv, r
<1> QED
  BY <1>1, <1>2, Zenon DEF BoundGood

\* A transition keeps the requirement unless it moves a session that carries
\* it to a state such a session never records.
LEMMA BoundTransition ==
    ASSUME IndInv, NEW t \in Tx, BoundGood(t), pc[t] # "dead",
           NEW next \in States, NEW then \in Points, NEW fail \in Points,
           persist_transition(t, next, then, fail), published' = published,
           mem[t].bound => next \notin Unreached /\ {then, fail} \cap {"rename", "unlink"} = {}
    PROVE  BoundGood(t)'
<1> DEFINE a == advance(mem[t], next)
<1>1. mem[t] \in Session
  BY Facts
<1>2. a \in Session /\ a.state = next /\ a.commit = mem[t].commit
  BY <1>1, AdvanceFields
<1>3. a.bound = mem[t].bound
  BY <1>1 DEF advance, Session
<1> HIDE DEF a
<1>4. Persist(t, a, mem[t], then, fail)
  BY DEF persist_transition, a
<1> QED
  BY <1>1, <1>2, <1>3, <1>4, BoundPersist DEF BoundGood

\* A snapshot keeps it.
LEMMA BoundSnapshot ==
    ASSUME IndInv, NEW t \in Tx, BoundGood(t), pc[t] # "dead",
           NEW m \in Session, NEW then \in Points \ {"rename", "unlink"},
           NEW fail \in Points \ {"rename", "unlink"},
           persist_snapshot(t, m, then, fail), published' = published,
           m.bound = mem[t].bound, m.state = mem[t].state, mem[t].commit => m.commit
    PROVE  BoundGood(t)'
BY BoundPersist DEF persist_snapshot, BoundGood

\* A step that leaves the journal alone, and keeps the session or ends it.
LEMMA BoundFrame ==
    ASSUME NEW t \in Tx, BoundGood(t),
           journal'[t] = journal[t], t \in published' <=> t \in published,
           \/ pc'[t] = "dead"
           \/ /\ pc[t] # "dead" /\ mem'[t] = mem[t]
              /\ mem[t].bound => pc'[t] = pc[t] \/ pc'[t] \notin {"rename", "unlink"}
    PROVE  BoundGood(t)'
BY DEF BoundGood

\* Construction and reopening.
LEMMA BoundOpens ==
    ASSUME IndInv, NEW t \in Tx, BoundGood(t), Construction(t) \/ Recovery(t)
    PROVE  BoundGood(t)'
<1> USE Facts
<1>1. ASSUME NEW streaming \in BOOLEAN, NEW bound \in BOOLEAN, Begin(t, streaming, bound)
      PROVE  BoundGood(t)'
  <2> DEFINE m == [Blank EXCEPT !.stream = streaming, !.commit = bound, !.bound = bound]
  <2>1. m.bound = bound /\ m.commit = bound /\ m.state = ""
    BY DEF Blank
  <2> HIDE DEF m
  <2>2. mem'[t] = m /\ pc'[t] = "start" /\ journal'[t] = None /\ published' = published
    BY <1>1 DEF Begin, Goto, IndInv, TypeOK, m
  <2>3. t \notin published
    BY <1>1 DEF Begin, DiskGood, EffectsGood
  <2> QED
    BY <2>1, <2>2, <2>3, Zenon DEF BoundGood, Unreached
<1>2. CASE PersistInitial(t)
  <2>1. PICK next \in {"created", "validated", "planned", "staging"} :
          persist_transition(t, next, "start", "dead")
    BY <1>2 DEF PersistInitial
  <2> QED
    BY <1>2, <2>1, BoundTransition, Zenon DEF PersistInitial, Unreached, States, Points
<1>3. CASE create_staging_root(t)
  <2> DEFINE m == [mem[t] EXCEPT !.ident = TRUE, !.pub = mem[t].stream]
  <2>1. m \in Session /\ m.bound = mem[t].bound /\ m.state = mem[t].state /\ m.commit = mem[t].commit
    BY Zenon DEF Session
  <2> HIDE DEF m
  <2> QED
    BY <1>3, <2>1, BoundSnapshot, Zenon DEF create_staging_root, Points, m
<1>4. CASE resume_finalization(t)
  BY <1>4 DEF resume_finalization, Goto, IndInv, TypeOK, BoundGood
<1>5. CASE resume_rollback(t)
  <2>1. /\ mem'[t] = journal[t] /\ pc'[t] = "idle" /\ journal' = journal
        /\ published' = published /\ journal[t] # None
    BY <1>5, SMTT(40) DEF resume_rollback, Goto, IndInv, TypeOK, Readable
  <2> QED
    BY <2>1 DEF BoundGood
<1>6. ASSUME NEW prior \in Tx, restart_streaming(t, prior) PROVE BoundGood(t)'
  <2> DEFINE m == [Blank EXCEPT !.stream = TRUE, !.origin = prior,
                                !.osnap = Snapshot(journal[prior])]
  <2>1. ~m.bound
    BY DEF Blank
  <2> HIDE DEF m
  <2>2. mem'[t] = m /\ journal'[t] = None
    BY <1>6, SMTT(40) DEF restart_streaming, IndInv, TypeOK, m
  <2> QED
    BY <2>1, <2>2 DEF BoundGood
<1> QED
  BY <1>1, <1>2, <1>3, <1>4, <1>5, <1>6 DEF Construction, Recovery

\* Staging.
LEMMA BoundStages ==
    ASSUME IndInv, NEW t \in Tx, BoundGood(t), Staging(t)
    PROVE  BoundGood(t)'
<1> USE Facts DEF Points
<1>1. ASSUME NEW f \in File, stage_file(t, f) PROVE BoundGood(t)'
  <2> DEFINE m == [mem[t] EXCEPT !.files = @ \cup {f}]
  <2>1. m \in Session /\ m.bound = mem[t].bound /\ m.state = mem[t].state /\ m.commit = mem[t].commit
    BY DEF Session
  <2> HIDE DEF m
  <2> QED
    BY <1>1, <2>1, BoundSnapshot, Zenon DEF stage_file, InState, m
<1>2. ASSUME NEW f \in File, stage_file_fails(t, f) PROVE BoundGood(t)'
  BY <1>2, BoundFrame DEF stage_file_fails, InState
<1>3. ASSUME NEW f \in File, stage_file_stream(t, f) PROVE BoundGood(t)'
  <2> DEFINE m == [mem[t] EXCEPT !.stream = TRUE, !.pub = TRUE, !.entry = f, !.phase = "intent"]
  <2>1. m \in Session /\ m.bound = mem[t].bound /\ m.state = mem[t].state /\ m.commit = mem[t].commit
    BY Zenon DEF Session, Phases
  <2> HIDE DEF m
  <2> QED
    BY <1>3, <2>1, BoundSnapshot, Zenon DEF stage_file_stream, InState, m
<1>4. CASE OpenStream(t)
  <2> DEFINE m == [mem[t] EXCEPT !.phase = "writing"]
  <2>1. m \in Session /\ m.bound = mem[t].bound /\ m.state = mem[t].state /\ m.commit = mem[t].commit
    BY DEF Session, Phases
  <2> HIDE DEF m
  <2>2. CASE mem[t].entry \in stage[t].files
    BY <1>4, <2>2, BoundFrame DEF OpenStream, Goto, IndInv, TypeOK
  <2>3. CASE mem[t].entry \notin stage[t].files
    BY <1>4, <2>1, <2>3, BoundSnapshot, Zenon DEF OpenStream, m
  <2> QED
    BY <2>2, <2>3
<1>5. CASE FinishStream(t)
  <2> DEFINE m == [mem[t] EXCEPT !.phase = "complete", !.files = @ \cup {mem[t].entry}]
  <2>0. mem[t].entry \in File
    BY <1>5 DEF FinishStream, LiveGood, PointGood, Session
  <2>1. m \in Session /\ m.bound = mem[t].bound /\ m.state = mem[t].state /\ m.commit = mem[t].commit
    BY <2>0, Zenon DEF Session, Phases
  <2>2. persist_snapshot(t, m, "idle", "catch") /\ published' = published /\ pc[t] = "read"
    BY <1>5, Zenon DEF FinishStream
  <2> HIDE DEF m
  <2> QED
    BY <2>1, <2>2, BoundSnapshot
<1>6. CASE StreamFails(t)
  BY <1>6, BoundFrame DEF StreamFails, Goto, IndInv, TypeOK
<1>7. CASE RecordRecovery(t)
  BY <1>7, BoundTransition, Zenon DEF RecordRecovery, Unreached, States
<1>8. CASE bind_stream_source(t)
  <2> DEFINE m == [mem[t] EXCEPT !.stream = TRUE, !.pub = TRUE]
  <2>1. m \in Session /\ m.bound = mem[t].bound /\ m.state = mem[t].state /\ m.commit = mem[t].commit
    BY Zenon DEF Session
  <2> HIDE DEF m
  <2> QED
    BY <1>8, <2>1, BoundSnapshot, Zenon DEF bind_stream_source, InState, m
<1>9. CASE mark_staged(t)
  BY <1>9, BoundTransition, Zenon DEF mark_staged, InState, Unreached, States
<1> QED
  BY <1>1, <1>2, <1>3, <1>4, <1>5, <1>6, <1>7, <1>8, <1>9 DEF Staging

\* Verification, commit and rollback.
LEMMA BoundEnds ==
    ASSUME IndInv, NEW t \in Tx, BoundGood(t), Commit(t) \/ Rollback(t)
    PROVE  BoundGood(t)'
<1> USE Facts DEF Points
<1>1. CASE mark_verified(t)
  <2> DEFINE m == [mem[t] EXCEPT !.verified = TRUE]
             a == advance(m, "verified")
  <2>1. m \in Session /\ m.bound = mem[t].bound /\ m.state = mem[t].state /\ m.commit = mem[t].commit
    BY Zenon DEF Session
  <2>2. Persist(t, a, m, "idle", "idle") /\ published' = published /\ pc[t] = "idle"
    BY <1>1 DEF mark_verified, InState
  <2> HIDE DEF m
  <2>3. a \in Session /\ a.state = "verified" /\ a.commit = m.commit
    BY <2>1, AdvanceFields, Zenon DEF States
  <2>4. a.bound = m.bound
    BY <2>1 DEF advance, Session
  <2> HIDE DEF a
  <2> QED
    BY <2>1, <2>2, <2>3, <2>4, BoundPersist, Zenon DEF BoundGood, Unreached
<1>2. CASE commit_effect(t)
  <2> DEFINE m == [mem[t] EXCEPT !.commit = TRUE]
  <2>1. m \in Session /\ m.bound = mem[t].bound /\ m.state = mem[t].state /\ m.commit
    BY Zenon DEF Session
  <2> HIDE DEF m
  <2>2. CASE target # None
    BY <1>2, <2>2, BoundTransition, Zenon DEF commit_effect, InState, Unreached, States
  <2>3. CASE target = None
    BY <1>2, <2>1, <2>3, BoundSnapshot, Zenon DEF commit_effect, InState, m
  <2> QED
    BY <2>2, <2>3
<1>3. CASE ObserveCommitClosure(t)
  BY <1>3, BoundTransition, Zenon DEF ObserveCommitClosure, Unreached, States
<1>4. CASE RenameDirectoryNoReplace(t)
  BY <1>4 DEF RenameDirectoryNoReplace, Goto, IndInv, TypeOK, BoundGood
<1>5. CASE RenameFindsTarget(t) \/ mark_committed(t) \/ mark_completed(t) \/ resume_committing(t)
  BY <1>5, BoundTransition, Zenon
     DEF RenameFindsTarget, mark_committed, mark_completed, resume_committing, InState,
         Unreached, States
<1>6. CASE RenameFails(t) \/ mark_recovery_required(t)
  BY <1>6, BoundFrame DEF RenameFails, mark_recovery_required, InState, Goto, IndInv, TypeOK
<1>7. CASE rollback(t)
  <2>1. CASE mem[t].state = "recovery_required"
    BY <1>7, <2>1, BoundFrame DEF rollback, InState, Goto, IndInv, TypeOK
  <2>2. CASE mem[t].state # "recovery_required"
    BY <1>7, <2>2, BoundTransition, Zenon DEF rollback, InState, Unreached, States
  <2> QED
    BY <2>1, <2>2
<1>8. CASE RemoveClosureStart(t)
  BY <1>8 DEF RemoveClosureStart, Goto, IndInv, TypeOK, BoundGood
<1>9. CASE RemoveStagingRoot(t)
  <2>1. CASE stage[t].foreign # "none"
    BY <1>9, <2>1, BoundFrame DEF RemoveStagingRoot, Goto, IndInv, TypeOK
  <2>2. CASE stage[t].foreign = "none"
    <3>1. ~mem[t].bound
      BY <1>9 DEF RemoveStagingRoot, BoundGood
    <3> QED
      BY <1>9, <2>2, <3>1, BoundTransition, Zenon DEF RemoveStagingRoot, States
  <2> QED
    BY <2>1, <2>2, Zenon
<1>10. ASSUME NEW f \in File, RemoveRecordedFile(t, f) PROVE BoundGood(t)'
  BY <1>10, BoundFrame, SMTT(40) DEF RemoveRecordedFile
<1> QED
  BY <1>1, <1>2, <1>3, <1>4, <1>5, <1>6, <1>7, <1>8, <1>9, <1>10, Zenon DEF Commit, Rollback

\* Steps of one transaction leave the journals, sessions and publication of the
\* others alone.
LEMMA OtherKept ==
    ASSUME IndInv, NEW u \in Tx, NEW t \in Tx, u # t,
           \/ Construction(u) \/ Staging(u) \/ Commit(u)
           \/ Rollback(u) \/ Recovery(u) \/ Crash(u) \/ ForeignChild(u)
    PROVE  /\ journal'[t] = journal[t] /\ mem'[t] = mem[t] /\ pc'[t] = pc[t]
           /\ t \in published' <=> t \in published
<1> USE PersistFrame DEF IndInv, persist_transition, persist_snapshot, Goto
<1> DEFINE Kept == /\ journal'[t] = journal[t] /\ mem'[t] = mem[t] /\ pc'[t] = pc[t]
                   /\ t \in published' <=> t \in published
<1>1. CASE Construction(u)
  <2>1. ASSUME NEW s \in BOOLEAN, NEW b \in BOOLEAN, Begin(u, s, b) PROVE Kept
    BY <2>1, SMTT(40) DEF Begin, TypeOK
  <2>2. CASE PersistInitial(u)
    BY <2>2 DEF PersistInitial
  <2>3. CASE create_staging_root(u)
    BY <2>3 DEF create_staging_root
  <2> QED
    BY <1>1, <2>1, <2>2, <2>3, Zenon DEF Construction
<1>2. CASE Staging(u)
  <2>1. ASSUME NEW f \in File,
               stage_file(u, f) \/ stage_file_fails(u, f) \/ stage_file_stream(u, f)
        PROVE  Kept
    BY <2>1 DEF stage_file, stage_file_fails, stage_file_stream
  <2>2. CASE OpenStream(u)
    BY <2>2 DEF OpenStream, TypeOK
  <2>3. CASE FinishStream(u) \/ StreamFails(u)
    BY <2>3 DEF FinishStream, StreamFails, TypeOK
  <2>4. CASE RecordRecovery(u) \/ bind_stream_source(u) \/ mark_staged(u)
    BY <2>4, SMTT(40) DEF RecordRecovery, bind_stream_source, mark_staged
  <2> QED
    BY <1>2, <2>1, <2>2, <2>3, <2>4, Zenon DEF Staging
<1>3. CASE Commit(u)
  <2>1. CASE mark_verified(u) \/ commit_effect(u) \/ ObserveCommitClosure(u)
    BY <2>1 DEF mark_verified, commit_effect, ObserveCommitClosure
  <2>2. CASE RenameDirectoryNoReplace(u) \/ RenameFails(u) \/ mark_recovery_required(u)
    BY <2>2 DEF RenameDirectoryNoReplace, RenameFails, mark_recovery_required, TypeOK
  <2>3. CASE RenameFindsTarget(u) \/ mark_committed(u) \/ mark_completed(u) \/ resume_committing(u)
    BY <2>3, Zenon DEF RenameFindsTarget, mark_committed, mark_completed, resume_committing
  <2> QED
    BY <1>3, <2>1, <2>2, <2>3 DEF Commit
<1>4. CASE Rollback(u)
  <2>1. CASE rollback(u) \/ RemoveClosureStart(u)
    BY <2>1, SMTT(40) DEF rollback, RemoveClosureStart, TypeOK
  <2>2. CASE RemoveStagingRoot(u)
    BY <2>2 DEF RemoveStagingRoot, TypeOK
  <2>3. ASSUME NEW f \in File, RemoveRecordedFile(u, f) PROVE Kept
    BY <2>3 DEF RemoveRecordedFile
  <2> QED
    BY <1>4, <2>1, <2>2, <2>3 DEF Rollback
<1>5. CASE Recovery(u)
  <2>1. CASE resume_finalization(u) \/ resume_rollback(u)
    BY <2>1 DEF resume_finalization, resume_rollback, TypeOK
  <2>2. ASSUME NEW prior \in Tx, restart_streaming(u, prior) PROVE Kept
    BY <2>2 DEF restart_streaming, TypeOK
  <2> QED
    BY <1>5, <2>1, <2>2, Zenon DEF Recovery
<1>6. CASE Crash(u) \/ ForeignChild(u)
  BY <1>6 DEF Crash, Die, ForeignChild, TypeOK
<1> QED
  BY <1>1, <1>2, <1>3, <1>4, <1>5, <1>6

\* The requirement is kept by every step.
LEMMA BoundNext == IndInv /\ BoundInv /\ [Next]_vars => BoundInv'
<1> SUFFICES ASSUME IndInv, BoundInv, [Next]_vars, NEW t \in Tx PROVE BoundGood(t)'
  BY DEF BoundInv
<1>1. BoundGood(t)
  BY DEF BoundInv
<1>2. ASSUME NEW u \in Tx,
             \/ Construction(u) \/ Staging(u) \/ Commit(u)
             \/ Rollback(u) \/ Recovery(u) \/ Crash(u) \/ ForeignChild(u)
      PROVE  BoundGood(t)'
  <2>1. CASE u = t
    <3>1. CASE Crash(t)
      BY <1>1, <3>1, BoundFrame DEF Crash, Die, Goto, IndInv, TypeOK
    <3>2. CASE ForeignChild(t)
      BY <1>1, <3>2 DEF ForeignChild, BoundGood
    <3> QED
      BY <1>1, <1>2, <2>1, <3>1, <3>2, BoundOpens, BoundStages, BoundEnds
  <2>2. CASE u # t
    <3>1. /\ journal'[t] = journal[t] /\ mem'[t] = mem[t] /\ pc'[t] = pc[t]
          /\ t \in published' <=> t \in published
      BY <1>2, <2>2, OtherKept
    <3> QED
      BY <1>1, <3>1 DEF BoundGood
  <2> QED
    BY <2>1, <2>2
<1>3. CASE ForeignTarget \/ TargetRemoved \/ UNCHANGED vars
  BY <1>1, <1>3 DEF ForeignTarget, TargetRemoved, vars, BoundGood
<1> QED
  BY <1>2, <1>3 DEF Next

\* A transaction that requires staged_child_bound_v1 stays invisible and is
\* retained, for any number of transactions, files and faults.
THEOREM BoundRetention == Spec => []BoundIsRetained
<1>1. Init => BoundInv
  BY DEF Init, BoundInv, BoundGood
<1>2. BoundInv => BoundIsRetained
  BY DEF BoundInv, BoundGood, BoundIsRetained, Unreached
<1> QED
  BY <1>1, <1>2, BoundNext, Invariance, PTL DEF Spec
=============================================================================
