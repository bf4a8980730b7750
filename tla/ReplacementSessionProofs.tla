---------------------- MODULE ReplacementSessionProofs ----------------------
(***************************************************************************)
(* The invariants of ReplacementSession for any number of competing        *)
(* sessions and any directories other programs make.                       *)
(***************************************************************************)
EXTENDS ReplacementSession, TLAPS

(* A directory nobody made yet is nowhere.                                 *)
Unmade == \A x \in Foreign \ made, p \in Place : root[p] # x

(* What a session remembers and where it stands agree with its journal,    *)
(* which is at most one record ahead of phase_.                            *)
Coherent(t) ==
    /\ pc[t] = "none" => journal[t] = [last |-> "absent", torn |-> FALSE]
    /\ pc[t] \in {"none", "create"} => phase[t] = "empty"
    /\ \/ journal[t].last = "absent" /\ pc[t] = "none"
       \/ journal[t].last = phase[t]
       \/ valid_transition(phase[t], journal[t].last)
    /\ pc[t] \in {"retire_check", "retire_rename", "retire_verify", "retire_record"} =>
         phase[t] = "old_retire_prepared"
    /\ pc[t] \in {"activate_check", "activate_rename", "activate_verify", "activate_record"} =>
         phase[t] = "new_activate_prepared"
    /\ pc[t] = "idle" => phase[t] # "empty"

(* A session that has verified its retirement still has the old root.      *)
Kept(t) == pc[t] = "retire_record" \/ Retired(t) => root[Retained(t)] = Old

(* The three layouts an undisturbed exchange passes through.               *)
Untouched(t) ==
    root[Live] = Old /\ root[Staged(t)] = t /\ root[Retained(t)] = None
Between(t) ==
    root[Live] = None /\ root[Staged(t)] = t /\ root[Retained(t)] = Old
Swapped(t) ==
    root[Live] = t /\ root[Staged(t)] = None /\ root[Retained(t)] = Old

Layout(t) ==
    /\ \/ /\ Untouched(t)
          /\ journal[t].last \in {"empty", "intent", "old_retire_prepared"}
          /\ pc[t] \notin {"retire_verify", "retire_record"}
       \/ /\ Between(t)
          /\ journal[t].last \in {"old_retire_prepared", "old_retired", "new_activate_prepared"}
          /\ pc[t] \notin {"retire_check", "retire_rename", "activate_verify", "activate_record"}
       \/ /\ Swapped(t)
          /\ journal[t].last \in {"new_activate_prepared", "new_active", "state_published", "completed"}
          /\ pc[t] \notin {"retire_check", "retire_rename", "retire_verify", "retire_record",
                           "activate_check", "activate_rename"}
          /\ phase[t] # "old_retired"

Classifiable(t) ==
    Undisturbed(t) /\ journal[t].last # "absent" => Layout(t)

IndInv ==
    /\ TypeOK
    /\ NothingLost
    /\ Unmade
    /\ IntentBeforeMove
    /\ \A t \in Tx : Coherent(t) /\ Kept(t) /\ Classifiable(t)

----------------------------------------------------------------------------
(* The places are distinct.                                                *)

(* The live place, the staged and the retained places are distinct.        *)
LEMMA Places ==
    /\ Live \in Place
    /\ \A t \in Tx : /\ Staged(t) \in Place /\ Retained(t) \in Place
                     /\ Live # Staged(t) /\ Live # Retained(t)
    /\ \A t, u \in Tx : /\ Staged(t) # Retained(u)
                        /\ Staged(t) = Staged(u) => t = u
                        /\ Retained(t) = Retained(u) => t = u
BY DEF Place, Live, Staged, Retained

(* The initial layout.                                                     *)
LEMMA InitialRoot ==
    ASSUME Init
    PROVE  /\ root \in [Place -> Reviewed \cup {None}]
           /\ root[Live] = Old
           /\ \A t \in Tx : root[Staged(t)] = t /\ root[Retained(t)] = None
           /\ \A p \in Place : root[p] = Old => p = Live
           /\ \A p \in Place, t \in Tx : root[p] = t => p = Staged(t)
<1>1. \A p \in Place :
        \/ p = Live /\ root[p] = Old
        \/ \E t \in Tx : p = Staged(t) /\ root[p] = t
        \/ \E t \in Tx : p = Retained(t) /\ root[p] = None
  <2> TAKE p \in Place
  <2>1. CASE p = Live
    BY <2>1, Places, Zenon DEF Init
  <2>2. ASSUME NEW t \in Tx, p = Staged(t)
        PROVE  root[p] = t
    <3>1. p # Live /\ p \in {Staged(u) : u \in Tx} /\ p[2] = t
      BY <2>2, Places DEF Staged
    <3> QED BY <3>1 DEF Init
  <2>3. ASSUME NEW t \in Tx, p = Retained(t)
        PROVE  root[p] = None
    <3>1. p # Live /\ p \notin {Staged(u) : u \in Tx}
      BY <2>3, Places
    <3> QED BY <3>1 DEF Init
  <2> QED BY <2>1, <2>2, <2>3 DEF Place
<1>2. root \in [Place -> Reviewed \cup {None}]
  <2>1. root = [p \in Place |-> root[p]]
    BY DEF Init
  <2>2. \A p \in Place : root[p] \in Reviewed \cup {None}
    BY <1>1 DEF Reviewed
  <2> QED BY <2>1, <2>2
<1>3. root[Live] = Old
  BY Places DEF Init
<1>4. ASSUME NEW t \in Tx
      PROVE  root[Staged(t)] = t /\ root[Retained(t)] = None
  BY <1>1, Places
<1>5. ASSUME NEW p \in Place, root[p] = Old
      PROVE  p = Live
  BY <1>1, <1>5, ReplacementAssumption
<1>6. ASSUME NEW p \in Place, NEW t \in Tx, root[p] = t
      PROVE  p = Staged(t)
  BY <1>1, <1>6, ReplacementAssumption
<1> QED BY <1>2, <1>3, <1>4, <1>5, <1>6

(* The inductive invariant holds before any session starts.                *)
LEMMA Initially == Init => IndInv
<1> SUFFICES ASSUME Init PROVE IndInv
  OBVIOUS
<1>1. TypeOK
  BY InitialRoot, Zenon DEF Init, TypeOK, Journal, Control
<1>2. NothingLost
  <2> SUFFICES ASSUME NEW o \in Reviewed
               PROVE  \E p \in Place : \A q \in Place : root[q] = o <=> q = p
    BY DEF NothingLost, Init
  <2>1. CASE o = Old
    BY <2>1, InitialRoot, Places
  <2>2. CASE o \in Tx
    BY <2>2, InitialRoot, Places
  <2> QED BY <2>1, <2>2 DEF Reviewed
<1>3. Unmade
  BY InitialRoot, ReplacementAssumption DEF Unmade, Reviewed
<1>4. IntentBeforeMove
  BY InitialRoot, ReplacementAssumption, Zenon DEF IntentBeforeMove, Reviewed
<1>5. ASSUME NEW t \in Tx
      PROVE  Coherent(t) /\ Kept(t) /\ Classifiable(t)
  <2>1. Coherent(t)
    BY DEF Init, Coherent
  <2>2. Kept(t)
    BY DEF Init, Kept, Retired, Phases
  <2>3. Classifiable(t)
    BY DEF Init, Classifiable
  <2> QED BY <2>1, <2>2, <2>3
<1> QED BY <1>1, <1>2, <1>3, <1>4, <1>5 DEF IndInv

----------------------------------------------------------------------------
(* Directories move and are never lost.                                    *)

(* A rename of a directory to an absent place loses nothing.               *)
LEMMA MoveKeeps ==
    ASSUME TypeOK, NothingLost, Unmade,
           NEW from \in Place, NEW to \in Place,
           root[from] # None, root[to] = None,
           root' = [root EXCEPT ![from] = None, ![to] = root[from]],
           UNCHANGED made
    PROVE  NothingLost' /\ Unmade'
<1>1. root \in [Place -> Reviewed \cup Foreign \cup {None}]
  BY DEF TypeOK
<1>2. from # to
  OBVIOUS
<1>3. \A q \in Place : root'[q] = IF q = from THEN None
                                 ELSE IF q = to THEN root[from] ELSE root[q]
  BY <1>1, <1>2
<1>4. ASSUME NEW o \in Reviewed \cup made
      PROVE  \E p \in Place : \A q \in Place : root'[q] = o <=> q = p
  <2>1. PICK p \in Place : \A q \in Place : root[q] = o <=> q = p
    BY DEF NothingLost
  <2>2. o # None
    BY ReplacementAssumption DEF Reviewed, TypeOK
  <2>3. CASE p = from
    <3>1. \A q \in Place : root'[q] = o <=> q = to
      BY <1>2, <1>3, <2>1, <2>2, <2>3, Zenon
    <3> QED BY <3>1, Zenon
  <2>4. CASE p # from
    <3>1. \A q \in Place : root'[q] = o <=> q = p
      BY <1>2, <1>3, <2>1, <2>2, <2>4, Zenon
    <3> QED BY <3>1, Zenon
  <2> QED BY <2>3, <2>4, Zenon
<1>5. NothingLost'
  BY <1>4, Zenon DEF NothingLost, Reviewed
<1>6. Unmade'
  <2> SUFFICES ASSUME NEW x \in Foreign \ made, NEW q \in Place
               PROVE  root'[q] # x
    BY Zenon DEF Unmade
  <2>1. x # None /\ root[q] # x /\ root[from] # x
    BY ReplacementAssumption DEF Unmade
  <2> QED BY <1>3, <2>1, Zenon
<1> QED BY <1>5, <1>6

(* Neither does a foreign directory that appears at a place.               *)
LEMMA ForeignKeeps ==
    ASSUME TypeOK, NothingLost, Unmade,
           NEW p \in Place, NEW x \in Foreign \ made, ForeignRoot(p, x)
    PROVE  NothingLost' /\ Unmade'
<1>1. \A q \in Place : root'[q] = IF q = p THEN x ELSE root[q]
  BY DEF ForeignRoot, TypeOK
<1>2. root[p] = None /\ made' = made \cup {x}
  BY DEF ForeignRoot, exists
<1>3. ASSUME NEW o \in Reviewed \cup made
      PROVE  \E r \in Place : \A q \in Place : root'[q] = o <=> q = r
  <2>1. PICK r \in Place : \A q \in Place : root[q] = o <=> q = r
    BY DEF NothingLost
  <2>2. o # None /\ o # x
    BY ReplacementAssumption DEF Reviewed, TypeOK
  <2>3. \A q \in Place : root'[q] = o <=> q = r
    BY <1>1, <1>2, <2>1, <2>2
  <2> QED BY <2>3
<1>4. \A q \in Place : root'[q] = x <=> q = p
  BY <1>1 DEF Unmade
<1>5. NothingLost'
  BY <1>2, <1>3, <1>4 DEF NothingLost, Reviewed
<1>6. Unmade'
  BY <1>1, <1>2 DEF Unmade
<1> QED BY <1>5, <1>6

(* Nothing of another session changes.                                     *)
Alone(t) ==
    \A u \in Tx \ {t} :
        journal'[u] = journal[u] /\ phase'[u] = phase[u] /\ pc'[u] = pc[u]

(* What a record leaves of session t when it succeeds and when it fails.   *)
Recorded(t, next, then) ==
    /\ valid_transition(phase[t], next) /\ journal[t].last = phase[t]
    /\ journal'[t] = [last |-> next, torn |-> FALSE]
    /\ phase'[t] = next
    /\ pc'[t] = then
Unrecorded(t, next) ==
    /\ phase'[t] = phase[t]
    /\ pc'[t] \in {"idle", "dead"} /\ (pc[t] = "create" => pc'[t] = "dead")
    /\ \/ journal'[t] = journal[t]
       \/ /\ journal[t].last = phase[t]
          /\ journal'[t] = [last |-> phase[t], torn |-> TRUE]
       \/ /\ journal[t].last = phase[t]
          /\ journal'[t] = [last |-> next, torn |-> FALSE]

(* What recording a phase leaves behind: the record, or a torn one.        *)
LEMMA RecordStep ==
    ASSUME TypeOK, NEW t \in Tx, NEW next \in Phases, NEW then \in Control,
           Record(t, next, then)
    PROVE  /\ TypeOK'
           /\ UNCHANGED <<root, intact, made>>
           /\ Alone(t)
           /\ Recorded(t, next, then) \/ Unrecorded(t, next)
<1> USE DEF TypeOK, Journal, Goto
<1>1. CASE persist(t, next, then)
  <2>1. TypeOK'
    BY <1>1 DEF persist
  <2>2. Alone(t) /\ Recorded(t, next, then)
    BY <1>1 DEF persist, Writable, Alone, Recorded
  <2> QED BY <1>1, <2>1, <2>2 DEF persist
<1>2. CASE persist_fails(t, next)
  <2>1. \/ journal' = journal
        \/ /\ journal' = [journal EXCEPT ![t] = [last |-> phase[t], torn |-> TRUE]]
           /\ journal[t].last = phase[t]
        \/ /\ journal' = [journal EXCEPT ![t] = [last |-> next, torn |-> FALSE]]
           /\ journal[t].last = phase[t]
    BY <1>2 DEF persist_fails, Writable
  <2>2. PICK l \in {"idle", "dead"} :
          (pc[t] = "create" => l = "dead") /\ pc' = [pc EXCEPT ![t] = l]
    BY <1>2, Zenon DEF persist_fails
  <2>3. UNCHANGED <<root, intact, phase, made>>
    BY <1>2 DEF persist_fails
  <2>4. TypeOK'
    <3>1. /\ [last |-> phase[t], torn |-> TRUE] \in Journal
          /\ [last |-> next, torn |-> FALSE] \in Journal
      OBVIOUS
    <3>2. journal' \in [Tx -> Journal]
      <4> HIDE DEF Journal
      <4> QED BY <2>1, <3>1, Zenon
    <3>3. pc' \in [Tx -> Control]
      BY <2>2 DEF Control
    <3> QED BY <2>3, <3>2, <3>3
  <2>5. Alone(t)
    BY <2>1, <2>2, <2>3 DEF Alone
  <2>6. Unrecorded(t, next)
    BY <2>1, <2>2, <2>3, Zenon DEF Unrecorded
  <2> QED BY <2>3, <2>4, <2>5, <2>6
<1> QED BY <1>1, <1>2 DEF Record

----------------------------------------------------------------------------
(* A step of t that moves no directory is checked at t alone.              *)

Announced(t) ==
    /\ root[Retained(t)] \in Reviewed => RetirePrepared(t)
    /\ root[Staged(t)] # t => ActivatePrepared(t)

(* A step that moves no directory needs care for its own session only.     *)
LEMMA QuietStep ==
    ASSUME IndInv, NEW t \in Tx,
           TypeOK', UNCHANGED <<root, intact, made>>, Alone(t),
           journal'[t].last = "absent" => journal[t].last = "absent",
           Announced(t)', Coherent(t)', Kept(t)', Classifiable(t)'
    PROVE  IndInv'
<1>1. NothingLost' /\ Unmade'
  BY DEF IndInv, NothingLost, Unmade
<1>2. ASSUME NEW u \in Tx, u # t
      PROVE  Announced(u)' /\ Coherent(u)' /\ Kept(u)' /\ Classifiable(u)'
  <2>1. journal'[u] = journal[u] /\ phase'[u] = phase[u] /\ pc'[u] = pc[u]
    BY <1>2 DEF Alone
  <2>2. Coherent(u) /\ Kept(u) /\ Classifiable(u) /\ Announced(u)
    BY DEF IndInv, IntentBeforeMove, Announced
  <2>3. Announced(u)'
    BY <2>1, <2>2 DEF Announced, RetirePrepared, ActivatePrepared
  <2>4. Coherent(u)'
    BY <2>1, <2>2 DEF Coherent
  <2>5. Kept(u)'
    BY <2>1, <2>2 DEF Kept, Retired
  <2>6. Undisturbed(u)' => Undisturbed(u)
    BY <1>2 DEF Undisturbed, Alone
  <2>7. Layout(u) => Layout(u)'
    BY <2>1 DEF Layout, Untouched, Between, Swapped
  <2>8. Classifiable(u)'
    BY <2>1, <2>2, <2>6, <2>7 DEF Classifiable
  <2> QED BY <2>3, <2>4, <2>5, <2>8
<1>3. \A u \in Tx : Announced(u)' /\ Coherent(u)' /\ Kept(u)' /\ Classifiable(u)'
  BY <1>2
<1>4. IntentBeforeMove'
  BY <1>3 DEF IntentBeforeMove, Announced
<1> QED BY <1>1, <1>3, <1>4 DEF IndInv

(* The facts the invariant gives about one session.                        *)
LEMMA At ==
    ASSUME IndInv, NEW t \in Tx
    PROVE  /\ TypeOK /\ NothingLost /\ Unmade
           /\ Announced(t) /\ Coherent(t) /\ Kept(t) /\ Classifiable(t)
           /\ journal[t].last \in {"absent", "empty"} \cup Phases
           /\ phase[t] \in {"empty"} \cup Phases /\ pc[t] \in Control
BY DEF IndInv, IntentBeforeMove, Announced, TypeOK, Journal

(* A step that changes only where t stands.                                *)
LEMMA CheckStep ==
    ASSUME TypeOK, NEW t \in Tx, NEW l \in Control, Goto(t, l),
           UNCHANGED <<root, intact, journal, phase, made>>
    PROVE  TypeOK' /\ Alone(t) /\ pc'[t] = l
BY DEF TypeOK, Goto, Alone

(* A crash keeps the invariant.                                            *)
LEMMA CrashKeeps ==
    ASSUME IndInv, NEW t \in Tx, Crash(t)
    PROVE  IndInv'
<1>1. /\ UNCHANGED <<root, intact, journal, phase, made>> /\ Goto(t, "dead")
      /\ pc[t] # "none"
  BY DEF Crash
<1>2. TypeOK' /\ Alone(t) /\ pc'[t] = "dead"
  BY <1>1, CheckStep DEF IndInv, Control
<1>3. Announced(t)' /\ Coherent(t)' /\ Kept(t)'
  BY <1>1, <1>2, At DEF Announced, Coherent, Kept, Retired, RetirePrepared, ActivatePrepared
<1>4. Classifiable(t)'
  BY <1>1, <1>2, At DEF Classifiable, Undisturbed, Layout, Untouched, Between, Swapped
<1> QED BY <1>1, <1>2, <1>3, <1>4, QuietStep

(* The constructor of a session keeps the invariant.                       *)
LEMMA ConstructKeeps ==
    ASSUME IndInv, NEW t \in Tx, construct(t)
    PROVE  IndInv'
<1>1. /\ UNCHANGED <<root, intact, made>> /\ phase' = phase
      /\ pc[t] = "none" /\ journal[t].last = "absent" /\ RootsAsReviewed(t)
  BY DEF construct
<1>2. TypeOK' /\ Alone(t)
      /\ pc'[t] = "create" /\ journal'[t] = [last |-> "empty", torn |-> FALSE]
  <2>1. TypeOK /\ journal[t] = [last |-> "absent", torn |-> FALSE]
    BY <1>1, At DEF Coherent
  <2>2. journal' = [journal EXCEPT ![t] = [last |-> "empty", torn |-> FALSE]]
    BY <2>1 DEF construct, TypeOK
  <2>3. pc' = [pc EXCEPT ![t] = "create"]
    BY DEF construct, Goto
  <2> QED BY <1>1, <2>1, <2>2, <2>3 DEF TypeOK, Alone, Control, Journal
<1>3. Announced(t)'
  BY <1>1, ReplacementAssumption
     DEF Announced, RootsAsReviewed, matches_root, exists, Reviewed
<1>4. Coherent(t)' /\ Kept(t)'
  BY <1>1, <1>2, At DEF Coherent, Kept, Retired, Phases
<1>5. Classifiable(t)'
  BY <1>1, <1>2 DEF Classifiable, Layout, Untouched, RootsAsReviewed, matches_root, exists
<1> QED BY <1>1, <1>2, <1>3, <1>4, <1>5, QuietStep

(* The checks between the records: t goes on or the call throws.           *)
LEMMA CheckKeeps ==
    ASSUME IndInv, NEW t \in Tx,
           CheckRetire(t) \/ VerifyRetired(t) \/ CheckActivate(t) \/ VerifyActive(t)
    PROVE  IndInv'
<1>1. /\ UNCHANGED <<root, intact, journal, phase, made>>
      /\ \/ pc[t] = "retire_check" /\ Goto(t, "retire_rename")
         \/ /\ pc[t] = "retire_verify" /\ root[Retained(t)] = Old
            /\ Goto(t, "retire_record")
         \/ pc[t] = "activate_check" /\ Goto(t, "activate_rename")
         \/ pc[t] = "activate_verify" /\ Goto(t, "activate_record")
         \/ /\ pc[t] \in {"retire_check", "retire_verify", "activate_check", "activate_verify"}
            /\ Goto(t, "idle")
  BY Zenon DEF CheckRetire, VerifyRetired, CheckActivate, VerifyActive, Check, matches_root
<1>2. /\ TypeOK' /\ Alone(t)
      /\ \/ pc[t] = "retire_check" /\ pc'[t] = "retire_rename"
         \/ /\ pc[t] = "retire_verify" /\ root[Retained(t)] = Old
            /\ pc'[t] = "retire_record"
         \/ pc[t] = "activate_check" /\ pc'[t] = "activate_rename"
         \/ pc[t] = "activate_verify" /\ pc'[t] = "activate_record"
         \/ /\ pc[t] \in {"retire_check", "retire_verify", "activate_check", "activate_verify"}
            /\ pc'[t] = "idle"
  BY <1>1, CheckStep DEF IndInv, Control
<1>3. Announced(t)'
  BY <1>1, <1>2, At DEF Announced, RetirePrepared, ActivatePrepared
<1>4. Coherent(t)'
  BY <1>1, <1>2, At DEF Coherent
<1>5. Kept(t)'
  BY <1>1, <1>2, At DEF Kept, Retired
<1>6. Classifiable(t)'
  BY <1>1, <1>2, At
     DEF Classifiable, Undisturbed, Layout, Untouched, Between, Swapped
<1> QED BY <1>1, <1>2, <1>3, <1>4, <1>5, <1>6, QuietStep

(* The records: each extends the journal by the phase that follows.        *)
LEMMA RecordKeeps ==
    ASSUME IndInv, NEW t \in Tx,
           \/ RecordIntent(t) \/ retire_old_root(t) \/ RecordRetired(t)
           \/ activate_new_root(t) \/ RecordActive(t)
           \/ mark_state_published(t) \/ mark_completed(t)
    PROVE  IndInv'
<1>1. PICK next \in Phases, then \in Control :
        /\ Record(t, next, then)
        /\ \/ pc[t] = "create" /\ next = "intent" /\ then = "idle"
           \/ /\ pc[t] = "idle" /\ phase[t] = "intent"
              /\ next = "old_retire_prepared" /\ then = "retire_check"
           \/ pc[t] = "retire_record" /\ next = "old_retired" /\ then = "idle"
           \/ /\ pc[t] = "idle" /\ phase[t] = "old_retired"
              /\ next = "new_activate_prepared" /\ then = "activate_check"
           \/ pc[t] = "activate_record" /\ next = "new_active" /\ then = "idle"
           \/ /\ pc[t] = "idle" /\ phase[t] = "new_active"
              /\ next = "state_published" /\ then = "idle"
           \/ /\ pc[t] = "idle" /\ phase[t] = "state_published"
              /\ next = "completed" /\ then = "idle"
  BY DEF RecordIntent, retire_old_root, RecordRetired, activate_new_root,
         RecordActive, mark_state_published, mark_completed, Phases, Control
<1>2. /\ TypeOK' /\ UNCHANGED <<root, intact, made>> /\ Alone(t)
      /\ Recorded(t, next, then) \/ Unrecorded(t, next)
  BY <1>1, RecordStep DEF IndInv
<1>3. journal'[t].last \in {journal[t].last, next}
  BY <1>2 DEF Recorded, Unrecorded
<1>4. Announced(t)'
  BY <1>1, <1>2, <1>3, At
     DEF Announced, Coherent, RetirePrepared, ActivatePrepared, Phases, Recorded,
         Unrecorded, valid_transition
<1>5. Coherent(t)'
  BY <1>1, <1>2, At, SMTT(40) DEF Coherent, Recorded, Unrecorded, valid_transition
<1>6. Kept(t)'
  BY <1>1, <1>2, <1>3, At DEF Kept, Coherent, Retired, Phases, Recorded, Unrecorded,
     valid_transition
<1>7. Classifiable(t)'
  BY <1>1, <1>2, At
     DEF Classifiable, Coherent, Undisturbed, Alone, Layout, Untouched, Between, Swapped,
         Recorded, Unrecorded, valid_transition
<1>8. journal'[t].last = "absent" => journal[t].last = "absent"
  BY <1>3 DEF Phases
<1> QED BY <1>2, <1>4, <1>5, <1>6, <1>7, <1>8, QuietStep

----------------------------------------------------------------------------
(* The steps that move or make a directory.                                *)

(* A rename that does not happen is a call that throws.                    *)
LEMMA RefusedKeeps ==
    ASSUME IndInv, NEW t \in Tx, pc[t] \in {"retire_rename", "activate_rename"},
           Goto(t, "idle"), UNCHANGED <<root, intact, journal, phase, made>>
    PROVE  IndInv'
<1>1. TypeOK' /\ Alone(t) /\ pc'[t] = "idle"
  BY CheckStep DEF IndInv, Control
<1>2. Announced(t)' /\ Coherent(t)' /\ Kept(t)'
  BY <1>1, At DEF Announced, Coherent, Kept, Retired, RetirePrepared, ActivatePrepared
<1>3. Classifiable(t)'
  BY <1>1, At DEF Classifiable, Undisturbed, Layout, Untouched, Between, Swapped
<1> QED BY <1>1, <1>2, <1>3, QuietStep

(* Retiring the old root keeps the invariant.                              *)
LEMMA RenameOldKeeps ==
    ASSUME IndInv, NEW t \in Tx, RenameOld(t)
    PROVE  IndInv'
<1>1. CASE ~(exists(Live) /\ ~exists(Retained(t)))
  BY <1>1, RefusedKeeps, Zenon DEF RenameOld, rename_no_replace
<1>2. CASE exists(Live) /\ ~exists(Retained(t))
  <2>1. /\ pc[t] = "retire_rename"
        /\ root[Live] # None /\ root[Retained(t)] = None
        /\ root' = [root EXCEPT ![Live] = None, ![Retained(t)] = root[Live]]
        /\ Goto(t, "retire_verify")
        /\ UNCHANGED <<intact, journal, phase, made>>
    BY <1>2 DEF RenameOld, rename_no_replace, exists
  <2>2. NothingLost' /\ Unmade'
    BY <2>1, MoveKeeps, Places, At, Zenon
  <2>3. /\ root' \in [Place -> Reviewed \cup Foreign \cup {None}]
        /\ root'[Live] = None /\ root'[Retained(t)] = root[Live]
        /\ \A u \in Tx : root'[Staged(u)] = root[Staged(u)]
        /\ \A u \in Tx \ {t} : root'[Retained(u)] = root[Retained(u)]
    BY <2>1, Places DEF IndInv, TypeOK
  <2>4. /\ pc' \in [Tx -> Control] /\ pc'[t] = "retire_verify"
        /\ \A u \in Tx \ {t} : pc'[u] = pc[u]
    BY <2>1 DEF Goto, IndInv, TypeOK, Control
  <2>5. TypeOK'
    BY <2>1, <2>3, <2>4 DEF IndInv, TypeOK
  <2>6. (RetirePrepared(t) /\ ~Retired(t)) \/ root[Retained(t)] = Old
    BY <2>1, At DEF Coherent, Kept, Retired, RetirePrepared, Phases, valid_transition
  <2>7. RetirePrepared(t) /\ ~Retired(t)
    BY <2>1, <2>6, ReplacementAssumption
  <2>8. ASSUME NEW u \in Tx
        PROVE  Announced(u)' /\ Coherent(u)' /\ Kept(u)' /\ Classifiable(u)'
    <3>1. Announced(u) /\ Coherent(u) /\ Kept(u) /\ Classifiable(u)
      BY At
    <3>2. Announced(u)'
      BY <2>1, <2>3, <2>7, <3>1, Zenon DEF Announced, RetirePrepared, ActivatePrepared
    <3>3. Coherent(u)'
      BY <2>1, <2>4, <3>1 DEF Coherent
    <3>4. Kept(u)'
      BY <2>1, <2>3, <2>4, <2>7, <3>1, Zenon DEF Kept, Retired
    <3>5. Classifiable(u)'
      <4>1. CASE u # t
        BY <4>1, <2>1, <2>7 DEF Classifiable, Undisturbed, RetirePrepared, Phases
      <4>2. CASE u = t
        BY <4>2, <2>1, <2>3, <2>4, <2>7, <3>1, Zenon
           DEF Classifiable, Undisturbed, Layout, Untouched, Between, Swapped,
               RetirePrepared, Phases
      <4> QED BY <4>1, <4>2
    <3> QED BY <3>2, <3>3, <3>4, <3>5
  <2> QED BY <2>2, <2>5, <2>8 DEF IndInv, IntentBeforeMove, Announced
<1> QED BY <1>1, <1>2, Zenon

(* Activating the new root keeps the invariant.                            *)
LEMMA RenameNewKeeps ==
    ASSUME IndInv, NEW t \in Tx, RenameNew(t)
    PROVE  IndInv'
<1>1. CASE ~(exists(Staged(t)) /\ ~exists(Live))
  BY <1>1, RefusedKeeps, Zenon DEF RenameNew, rename_no_replace
<1>2. CASE exists(Staged(t)) /\ ~exists(Live)
  <2>1. /\ pc[t] = "activate_rename"
        /\ root[Staged(t)] # None /\ root[Live] = None
        /\ root' = [root EXCEPT ![Staged(t)] = None, ![Live] = root[Staged(t)]]
        /\ Goto(t, "activate_verify")
        /\ UNCHANGED <<intact, journal, phase, made>>
    BY <1>2 DEF RenameNew, rename_no_replace, exists
  <2>2. NothingLost' /\ Unmade'
    BY <2>1, MoveKeeps, Places, At, Zenon
  <2>3. /\ root' \in [Place -> Reviewed \cup Foreign \cup {None}]
        /\ root'[Live] = root[Staged(t)] /\ root'[Staged(t)] = None
        /\ \A u \in Tx : root'[Retained(u)] = root[Retained(u)]
        /\ \A u \in Tx \ {t} : root'[Staged(u)] = root[Staged(u)]
    BY <2>1, Places DEF IndInv, TypeOK
  <2>4. /\ pc' \in [Tx -> Control] /\ pc'[t] = "activate_verify"
        /\ \A u \in Tx \ {t} : pc'[u] = pc[u]
    BY <2>1 DEF Goto, IndInv, TypeOK, Control
  <2>5. TypeOK'
    BY <2>1, <2>3, <2>4 DEF IndInv, TypeOK
  <2>6. ActivatePrepared(t) /\ phase[t] = "new_activate_prepared"
    BY <2>1, At DEF Coherent, ActivatePrepared, Phases, valid_transition
  <2>7. ASSUME NEW u \in Tx
        PROVE  Announced(u)' /\ Coherent(u)' /\ Kept(u)' /\ Classifiable(u)'
    <3>1. Announced(u) /\ Coherent(u) /\ Kept(u) /\ Classifiable(u)
      BY At
    <3>2. Announced(u)'
      BY <2>1, <2>3, <2>6, <3>1, Zenon DEF Announced, RetirePrepared, ActivatePrepared
    <3>3. Coherent(u)'
      BY <2>1, <2>4, <3>1 DEF Coherent
    <3>4. Kept(u)'
      BY <2>1, <2>3, <2>4, <3>1, Zenon DEF Kept, Retired
    <3>5. Classifiable(u)'
      <4>1. CASE u # t
        BY <4>1, <2>1, <2>6 DEF Classifiable, Undisturbed, ActivatePrepared, Phases
      <4>2. CASE u = t
        BY <4>2, <2>1, <2>3, <2>4, <2>6, <3>1, Zenon
           DEF Classifiable, Undisturbed, Layout, Untouched, Between, Swapped,
               ActivatePrepared, Phases
      <4> QED BY <4>1, <4>2
    <3> QED BY <3>2, <3>3, <3>4, <3>5
  <2> QED BY <2>2, <2>5, <2>7 DEF IndInv, IntentBeforeMove, Announced
<1> QED BY <1>1, <1>2, Zenon

(* Other programs: a new directory or changed content disturbs every       *)
(* session and moves nothing.                                              *)
LEMMA ForeignRootKeeps ==
    ASSUME IndInv, NEW p \in Place, NEW x \in Foreign \ made, ForeignRoot(p, x)
    PROVE  IndInv'
<1>1. NothingLost' /\ Unmade'
  BY ForeignKeeps DEF IndInv
<1>2. /\ UNCHANGED <<intact, journal, phase, pc>> /\ made' = made \cup {x}
      /\ root[p] = None /\ root' = [root EXCEPT ![p] = x]
  BY DEF ForeignRoot, exists
<1>3. TypeOK'
  BY <1>2 DEF IndInv, TypeOK
<1>4. \A q \in Place : root[q] \in Reviewed \/ root'[q] \in Reviewed => root'[q] = root[q]
  BY <1>2, ReplacementAssumption DEF IndInv, TypeOK, Reviewed
<1>5. ASSUME NEW u \in Tx
      PROVE  Announced(u)' /\ Coherent(u)' /\ Kept(u)' /\ Classifiable(u)'
  <2>1. Announced(u) /\ Coherent(u) /\ Kept(u)
    BY At
  <2>2. Announced(u)'
    BY <1>2, <1>4, <2>1, Places DEF Announced, RetirePrepared, ActivatePrepared, Reviewed
  <2>3. Coherent(u)'
    BY <1>2, <2>1 DEF Coherent
  <2>4. Kept(u)'
    BY <1>2, <1>4, <2>1, Places DEF Kept, Retired, Reviewed
  <2>5. Classifiable(u)'
    BY <1>2 DEF Classifiable, Undisturbed
  <2> QED BY <2>2, <2>3, <2>4, <2>5
<1> QED BY <1>1, <1>3, <1>5 DEF IndInv, IntentBeforeMove, Announced

(* A change of content inside a directory keeps the invariant.             *)
LEMMA ContentKeeps ==
    ASSUME IndInv, NEW o \in intact, ContentChanges(o)
    PROVE  IndInv'
<1>1. UNCHANGED <<root, journal, phase, pc, made>> /\ intact' = intact \ {o}
  BY DEF ContentChanges
<1>2. TypeOK' /\ NothingLost' /\ Unmade' /\ IntentBeforeMove'
  BY <1>1 DEF IndInv, TypeOK, NothingLost, Unmade, IntentBeforeMove, RetirePrepared,
     ActivatePrepared
<1>3. ASSUME NEW u \in Tx
      PROVE  Coherent(u)' /\ Kept(u)' /\ Classifiable(u)'
  <2>1. Coherent(u)' /\ Kept(u)'
    BY <1>1, At DEF Coherent, Kept, Retired
  <2>2. ~Undisturbed(u)'
    BY <1>1 DEF Undisturbed, IndInv, TypeOK
  <2> QED BY <2>1, <2>2 DEF Classifiable
<1> QED BY <1>2, <1>3 DEF IndInv

(* So does a step that changes nothing.                                    *)
LEMMA StutterKeeps ==
    ASSUME IndInv, UNCHANGED vars
    PROVE  IndInv'
<1>1. TypeOK' /\ NothingLost' /\ Unmade' /\ IntentBeforeMove'
  BY DEF IndInv, TypeOK, NothingLost, Unmade, IntentBeforeMove, RetirePrepared,
     ActivatePrepared, vars
<1>2. ASSUME NEW u \in Tx
      PROVE  Coherent(u)' /\ Kept(u)' /\ Classifiable(u)'
  BY At DEF vars, Coherent, Kept, Retired, Classifiable, Undisturbed, Layout, Untouched,
     Between, Swapped
<1> QED BY <1>1, <1>2 DEF IndInv

(* The inductive invariant holds in every reachable state of the exchange. *)
THEOREM Invariance == Spec => []IndInv
<1>1. Init => IndInv
  BY Initially
<1>2. IndInv /\ [Next]_vars => IndInv'
  <2> SUFFICES ASSUME IndInv, [Next]_vars PROVE IndInv'
    OBVIOUS
  <2>1. ASSUME NEW t \in Tx, Step(t) PROVE IndInv'
    BY <2>1, ConstructKeeps, RecordKeeps, CheckKeeps, RenameOldKeeps, RenameNewKeeps,
       CrashKeeps DEF Step
  <2> QED BY <2>1, ForeignRootKeeps, ContentKeeps, StutterKeeps DEF Next
<1> QED BY <1>1, <1>2, PTL DEF Spec

(* Every variable keeps its type.                                          *)
THEOREM TypeCorrect == Spec => []TypeOK
<1>1. IndInv => TypeOK
  BY DEF IndInv
<1> QED BY <1>1, Invariance, PTL

(* However many sessions compete and whatever other programs create, the   *)
(* renames of the exchange never lose or overwrite a directory.            *)
THEOREM ExchangeLosesNothing == Spec => []NothingLost
<1>1. IndInv => NothingLost
  BY DEF IndInv
<1> QED BY <1>1, Invariance, PTL

(* A moved root is always announced by a durable journal record.           *)
THEOREM MovesAreAnnounced == Spec => []IntentBeforeMove
<1>1. IndInv => IntentBeforeMove
  BY DEF IndInv
<1> QED BY <1>1, Invariance, PTL

(* At most one of the competing sessions records that it retired the old   *)
(* root: it still has the old root, which is in only one place.            *)
THEOREM OneSessionRetires == Spec => []OneRetires
<1>1. IndInv => OneRetires
  <2> SUFFICES ASSUME IndInv, NEW t \in Tx, NEW u \in Tx, Retired(t), Retired(u)
               PROVE  t = u
    BY DEF OneRetires
  <2>1. root[Retained(t)] = Old /\ root[Retained(u)] = Old
    BY DEF IndInv, Kept
  <2>2. PICK p \in Place : \A q \in Place : root[q] = Old <=> q = p
    BY DEF IndInv, NothingLost, Reviewed
  <2>3. Retained(t) = Retained(u)
    BY <2>1, <2>2, Places
  <2> QED BY <2>3, Places
<1> QED BY <1>1, Invariance, PTL

(* Wherever an undisturbed exchange stops, inspect() knows how far it got. *)
THEOREM EveryStopIsClassified == Spec => []CrashIsClassified
<1>1. IndInv => CrashIsClassified
  <2> SUFFICES ASSUME IndInv, NEW t \in Tx, Undisturbed(t), ~Corrupt(t)
               PROVE  disposition(t) # "indeterminate"
    BY DEF CrashIsClassified
  <2>1. Layout(t) /\ journal[t].last # "empty"
    BY DEF IndInv, Classifiable, Corrupt
  <2>2. t \in intact /\ Old \in intact /\ t # None /\ Old # None /\ t # Old
    BY ReplacementAssumption DEF Undisturbed, Reviewed
  <2> QED
    BY <2>1, <2>2 DEF disposition, Layout, Untouched, Between, Swapped, RootsAsReviewed,
       Exchanged, matches_root, exists
<1> QED BY <1>1, Invariance, PTL
=============================================================================
