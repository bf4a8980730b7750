----------------------- MODULE InstallLifecycleProofs -----------------------
(***************************************************************************)
(* Proofs about InstallLifecycle for any transactions, any uninstalls and  *)
(* any bounds on faults and outside changes.                               *)
(*                                                                         *)
(* The audit chains are read through the set of what they say, to which an *)
(* append adds and from which nothing is taken.  What a transaction may    *)
(* rely on is then about its own journal, records and call, and about that *)
(* set, so a step of another transaction leaves it alone.                  *)
(***************************************************************************)
EXTENDS InstallLifecycle, WellFoundedInduction, TLAPS

(* What the audit chains say: chain, transaction and phase.                *)
said == {e \in Chain \X (Tx \cup Un) \X {"validated", "completed"} : Says(e[1], e[2], e[3])}

Finalizing == {"ownership", "installed", "audit", "committed", "completed"}

(* Nothing but the transactions touched the target so far.                 *)
Calm == edits = 0 /\ \A u \in Un : ~Removed(u)

(* A caller is in a call, and what it does has a journal behind it.        *)
CallGood(t) ==
    /\ pc[t] = "idle" <=> call[t] = None
    /\ pc[t] = "replay" => t \in streamed /\ call[t].ref \in Tx /\ Replay(call[t].chain)
    /\ pc[t] \in {"commit", "rename"} \cup Finalizing => journal[t] # "none"
    /\ pc[t] \in {"chain", "genesis"} /\ Replay(call[t].chain) => journal[t] # "none"
    /\ installed[t] # None => journal[t] # "none"
    /\ installed[t] \in Record => installed[t].status = "installed"

(* The plan was revalidated on record before the payload is visible.       *)
AuditGood(t) ==
    t \in published \/ pc[t] \in {"session", "commit", "rename"} =>
        \E c \in Chain : <<c, t, "validated">> \in said

(* The authority records come in their order, and stay.                    *)
RecordGood(t) ==
    /\ pc[t] \in Finalizing \ {"ownership"} \/ journal[t] = "completed" => owner[t] = "written"
    /\ pc[t] \in {"audit", "committed", "completed"} \/ journal[t] = "completed" =>
           installed[t] \in Record
    /\ pc[t] \in {"audit", "committed", "completed"} => call[t].chain = installed[t].chain
    /\ pc[t] \in {"committed", "completed"} \/ journal[t] = "completed" =>
           <<installed[t].chain, t, "completed">> \in said

(* A source-bound install finalizes what it published.                     *)
OwnGood(t) ==
    t \in streamed /\ (installed[t] # None \/ pc[t] \in Finalizing) => t \in published

(* While nothing took a payload away there is one generation: who has a    *)
(* journal began it, or replays a source-bound transaction that did.       *)
CalmGood(t) ==
    Calm => /\ pc[t] \in {"chain", "genesis", "session"} =>
                   call[t].chain = <<"audit">> \/ Replay(call[t].chain)
            /\ pc[t] = "session" \/ (journal[t] # "none" /\ origin[t] = None) =>
                   <<<<"audit">>, t, "validated">> \in said
            /\ origin[t] # None =>
                   t \in streamed /\ \E r \in streamed : <<<<"audit">>, r, "validated">> \in said

TxGood(t) ==
    CallGood(t) /\ AuditGood(t) /\ RecordGood(t) /\ OwnGood(t) /\ CalmGood(t)

(* An uninstall that removed the payload leaves a trace, wherever it stops.*)
UnGood(u) ==
    /\ pc[u] = "idle" <=> call[u] = None
    /\ pc[u] # "idle" => call[u].ref \in Tx
    /\ pc[u] \in {"commit", "installed"} => installed[u] = None
    /\ pc[u] = "commit" => ~call[u].gone
    /\ pc[u] = "audit" /\ call[u].gone =>
           installed[u] \in Record /\ installed[u].status = "retired"

(* One transaction is between the creation of a chain and its first event, *)
(* and no other has begun there.                                           *)
GenesisGood ==
    /\ \A t \in Tx : pc[t] = "genesis" =>
           /\ chain[call[t].chain] # None
           /\ \A x \in Tx \cup Un : <<call[t].chain, x, "validated">> \notin said
    /\ \A t, s \in Tx : pc[t] = "genesis" /\ pc[s] = "genesis" /\ t # s =>
           call[t].chain # call[s].chain

OneEach ==
    \A c \in Chain, x, y \in Tx \cup Un :
        <<c, x, "validated">> \in said /\ <<c, y, "validated">> \in said => x = y

(* What stands at the target and is not foreign was published there, and   *)
(* as long as nothing else touched the target it is the only publication.  *)
TargetGood ==
    /\ target # None /\ target.by \in Tx => target.by \in published
    /\ Calm => \A t \in published : target # None /\ target.by = t

IndInv ==
    /\ TypeOK
    /\ \A t \in Tx : TxGood(t)
    /\ \A u \in Un : UnGood(u)
    /\ GenesisGood /\ OneEach /\ TargetGood

----------------------------------------------------------------------------
(* The latest record, and the time of a call.                              *)

(* A set of naturals that is not empty has a least element.                *)
LEMMA Least ==
    ASSUME NEW S \in SUBSET Nat, S # {}
    PROVE  \E m \in S : \A n \in S : m <= n
<1> DEFINE R == OpToRel(<, Nat)
<1>1. \A x, y \in Nat : <<x, y>> \in R <=> x < y
  BY DEF OpToRel
<1>2. IsWellFoundedOn(R, Nat)
  BY NatLessThanWellFounded, Zenon
<1> HIDE DEF R
<1>3. PICK p \in S : \A q \in S : ~(<<q, p>> \in R)
  BY <1>2, WFMin, Zenon
<1>4. \A q \in S : p <= q
  <2> SUFFICES ASSUME NEW q \in S PROVE p <= q
    OBVIOUS
  <2>1. p \in Nat /\ q \in Nat
    OBVIOUS
  <2>2. ~(q < p)
    BY <1>1, <1>3, <2>1, Zenon
  <2> QED
    BY <2>1, <2>2, SMT, Z3
<1> QED
  BY <1>4

(* A bounded set of naturals that is not empty has a greatest element.     *)
LEMMA Greatest ==
    ASSUME NEW S \in SUBSET Nat, S # {}, NEW b \in Nat, \A n \in S : n <= b
    PROVE  \E m \in S : \A n \in S : n <= m
<1> DEFINE B == {x \in Nat : \A n \in S : n <= x}
<1>1. B \in SUBSET Nat /\ B # {}
  OBVIOUS
<1>2. PICK m \in B : \A x \in B : m <= x
  <2> HIDE DEF B
  <2> QED
    BY <1>1, Least, Zenon
<1>3. m \in Nat /\ \A n \in S : n <= m
  OBVIOUS
<1>4. m \in S
  <2> SUFFICES ASSUME m \notin S PROVE FALSE
    OBVIOUS
  <2>1. \A n \in S : n \in Nat /\ n < m
    BY <1>3, SMT, Z3
  <2>2. m # 0
    <3>1. PICK n \in S : TRUE
      BY Zenon
    <3> QED
      BY <2>1, <1>3, <3>1, SMT, Z3
  <2>3. m - 1 \in Nat /\ \A n \in S : n <= m - 1
    BY <1>3, <2>1, <2>2, SMT, Z3
  <2>4. m - 1 \in B
    BY <2>3
  <2> QED
    BY <1>2, <1>3, <2>4, SMT, Z3
<1> QED
  BY <1>3, <1>4

(* The values of a function from a finite set to the naturals are bounded. *)
LEMMA Bounded ==
    ASSUME NEW X, IsFiniteSet(X), NEW f \in [X -> Nat]
    PROVE  \E b \in Nat : \A x \in X : f[x] <= b
<1>1. PICK q \in Seq(X) : \A x \in X : \E n \in 1 .. Len(q) : q[n] = x
  BY DEF IsFiniteSet
<1>2. Len(q) \in Nat /\ \A n \in 1 .. Len(q) : q[n] \in X /\ f[q[n]] \in Nat
  <2>1. Len(q) \in Nat /\ q \in [1 .. Len(q) -> X]
    BY <1>1, SMT, Z3
  <2>2. \A n \in 1 .. Len(q) : q[n] \in X
    BY <2>1
  <2>3. \A x \in X : f[x] \in Nat
    OBVIOUS
  <2> QED
    BY <2>1, <2>2, <2>3, Zenon
<1> DEFINE Free == {n \in 0 .. Len(q) : \A b \in Nat : \E k \in 1 .. n : ~(f[q[k]] <= b)}
<1>3. Free = {}
  <2> SUFFICES ASSUME Free # {} PROVE FALSE
    BY Zenon
  <2>1. Free \in SUBSET Nat
    BY <1>2, SMT, Z3
  <2>2. PICK n \in Free : \A k \in Free : n <= k
    <3> HIDE DEF Free
    <3> QED
      BY <2>1, Least, Zenon
  <2>3. n \in 0 .. Len(q) /\ \A b \in Nat : \E k \in 1 .. n : ~(f[q[k]] <= b)
    OBVIOUS
  <2>4. n # 0
    BY <2>3, SMT, Z3
  <2>5. n - 1 \in 0 .. Len(q) /\ ~(n <= n - 1)
    BY <1>2, <2>3, <2>4, SMT, Z3
  <2>6. n - 1 \notin Free
    BY <2>2, <2>5, Zenon
  <2>7. PICK b \in Nat : \A k \in 1 .. n - 1 : f[q[k]] <= b
    BY <2>5, <2>6, Zenon
  <2>8. n \in 1 .. Len(q) /\ f[q[n]] \in Nat
    BY <1>2, <2>3, <2>4, SMT, Z3
  <2>9. PICK m \in Nat : b <= m /\ f[q[n]] <= m
    <3>1. \A v \in Nat : \E m \in Nat : b <= m /\ v <= m
      <4> SUFFICES ASSUME NEW v \in Nat PROVE \E m \in Nat : b <= m /\ v <= m
        BY Zenon
      <4>1. b + v \in Nat /\ b <= b + v /\ v <= b + v
        OBVIOUS
      <4> QED
        BY <4>1, Zenon
    <3> QED
      BY <2>8, <3>1, Zenon
  <2>10. \A k \in 1 .. n : f[q[k]] <= m
    <3> SUFFICES ASSUME NEW k \in 1 .. n PROVE f[q[k]] <= m
      OBVIOUS
    <3>1. CASE k = n
      BY <2>9, <3>1
    <3>2. CASE k # n
      <4>1. k \in 1 .. n - 1 /\ k \in 1 .. Len(q)
        BY <3>2, <2>8, <1>2, SMT, Z3
      <4>2. f[q[k]] \in Nat /\ f[q[k]] <= b
        BY <4>1, <2>7, <1>2, Zenon
      <4>3. \A v \in Nat : v <= b => v <= m
        BY <2>9, SMT, Z3
      <4> QED
        BY <4>2, <4>3, Zenon
    <3> QED
      BY <3>1, <3>2
  <2> QED
    BY <2>3, <2>10, Zenon
<1>4. Len(q) \notin Free
  BY <1>3, Zenon
<1>5. PICK b \in Nat : \A k \in 1 .. Len(q) : f[q[k]] <= b
  <2>1. Len(q) \in 0 .. Len(q)
    BY <1>2, SMT, Z3
  <2> QED
    BY <2>1, <1>4, Zenon
<1> QED
  BY <1>1, <1>5, Zenon

(* read_installed finds a latest record where it finds one at all.         *)
LEMMA ReadsRecord ==
    ASSUME TypeOK, read_installed \notin {None, Torn}
    PROVE  read_installed \in Tx \cup Un /\ installed[read_installed] \in Record
<1>1. Readable /\ Recorded # {}
  BY Zenon DEF read_installed
<1>2. \A x \in Recorded : x \in Tx \cup Un /\ installed[x] \in Record /\ installed[x].at \in Nat
  BY <1>1 DEF TypeOK, Readable, Recorded, Record
<1> DEFINE f == [x \in Tx \cup Un |-> IF x \in Recorded THEN installed[x].at ELSE 0]
           S == {installed[x].at : x \in Recorded}
<1>3. f \in [Tx \cup Un -> Nat]
  BY <1>2
<1>4. PICK b \in Nat : \A x \in Tx \cup Un : f[x] <= b
  <2> HIDE DEF f
  <2> QED
    BY <1>3, Bounded, InstallAssumption
<1>5. \A n \in S : n <= b
  BY <1>2, <1>4, Zenon
<1>6. S \in SUBSET Nat /\ S # {}
  BY <1>1, <1>2
<1>7. PICK m \in S : \A n \in S : n <= m
  <2> HIDE DEF S
  <2> QED
    BY <1>5, <1>6, Greatest, Zenon
<1>8. PICK x \in Recorded : m = installed[x].at
  BY <1>7
<1>9. Latest(x)
  BY <1>7, <1>8 DEF Latest
<1>10. (CHOOSE y \in Recorded : Latest(y)) \in Recorded
  BY <1>8, <1>9
<1>11. read_installed = (CHOOSE y \in Recorded : Latest(y))
  BY <1>1, Zenon DEF read_installed
<1> QED
  BY <1>2, <1>10, <1>11

(* The time of a call is a time.                                           *)
LEMMA NowIsTime ==
    ASSUME TypeOK
    PROVE  Now \in Nat
<1> DEFINE f == [x \in Tx \cup Un |-> IF installed[x] \in Record THEN installed[x].at ELSE 0]
           g == [x \in Tx \cup Un |-> IF call[x] \in Call THEN call[x].at ELSE 0]
           S == Times \cup {0}
<1>1. f \in [Tx \cup Un -> Nat] /\ g \in [Tx \cup Un -> Nat]
  BY DEF Record, Call
<1>2. PICK a \in Nat : \A x \in Tx \cup Un : f[x] <= a
  <2> HIDE DEF f
  <2> QED
    BY <1>1, Bounded, InstallAssumption
<1>3. PICK b \in Nat : \A x \in Tx \cup Un : g[x] <= b
  <2> HIDE DEF g
  <2> QED
    BY <1>1, Bounded, InstallAssumption
<1>4. ASSUME NEW n \in Times PROVE n \in Nat /\ n <= a + b
  <2>1. CASE \E x \in Tx \cup Un : installed[x] \in Record /\ n = installed[x].at
    <3>1. PICK x \in Tx \cup Un : installed[x] \in Record /\ n = installed[x].at
      BY <2>1
    <3>2. f[x] = n /\ n \in Nat
      BY <3>1 DEF Record
    <3>3. n <= a
      BY <1>2, <3>2, Zenon
    <3> QED
      BY <3>2, <3>3, SMT, Z3
  <2>2. CASE \E x \in Tx \cup Un : call[x] \in Call /\ n = call[x].at
    <3>1. PICK x \in Tx \cup Un : call[x] \in Call /\ n = call[x].at
      BY <2>2
    <3>2. g[x] = n /\ n \in Nat
      BY <3>1 DEF Call
    <3>3. n <= b
      BY <1>3, <3>2, Zenon
    <3> QED
      BY <3>2, <3>3, SMT, Z3
  <2> QED
    BY <1>4, <2>1, <2>2 DEF Times, Recorded, TypeOK
<1>5. S \in SUBSET Nat /\ S # {} /\ \A n \in S : n <= a + b
  BY <1>4, SMT, Z3
<1>6. a + b \in Nat
  OBVIOUS
<1>7. PICK m \in S : \A n \in S : n <= m
  <2> HIDE DEF S
  <2> QED
    BY <1>5, <1>6, Greatest, Zenon
<1>8. \A n \in S : m >= n
  BY <1>5, <1>7
<1>9. Max(S) \in S
  <2> HIDE DEF S
  <2> QED
    BY <1>8, Zenon DEF Max
<1> QED
  BY <1>5, <1>9, SMT, Z3 DEF Now

----------------------------------------------------------------------------
(* What the chains say.                                                    *)

(* Chains that stay the same say the same.                                 *)
LEMMA SaidSame ==
    ASSUME UNCHANGED chain
    PROVE  said' = said
BY Zenon DEF said, Says

(* What is said, without the set.                                          *)
LEMMA SaidIs ==
    ASSUME NEW c \in Chain, NEW x \in Tx \cup Un, NEW p \in {"validated", "completed"}
    PROVE  <<c, x, p>> \in said <=> Says(c, x, p)
BY DEF said

(* What a chain says is in it.                                             *)
LEMMA SaysIs ==
    ASSUME TypeOK, NEW c \in Chain, NEW x, NEW p
    PROVE  Says(c, x, p) <=> /\ chain[c] # None
                             /\ \E k \in 1 .. Len(chain[c]) :
                                    chain[c][k] # Torn /\ chain[c][k].tx = x /\ chain[c][k].phase = p
BY DEF Says

(* The same of the next state.                                             *)
LEMMA SaysBecomes ==
    ASSUME NEW c \in Chain, NEW x, NEW p
    PROVE  Says(c, x, p)' <=> /\ chain'[c] # None
                              /\ \E k \in 1 .. Len(chain'[c]) :
                                    chain'[c][k] # Torn /\ chain'[c][k].tx = x /\ chain'[c][k].phase = p
BY DEF Says

(* The chains say one thing more, or nothing more.                         *)
Adds(c, x, p) ==
    \A a \in Chain, y \in Tx \cup Un, q \in {"validated", "completed"} :
        <<a, y, q>> \in said' <=> <<a, y, q>> \in said \/ (a = c /\ y = x /\ q = p)
AddsNothing ==
    \A a \in Chain, y \in Tx \cup Un, q \in {"validated", "completed"} :
        <<a, y, q>> \in said' <=> <<a, y, q>> \in said

(* An append to a chain adds what the event says, or nothing when the      *)
(* event is cut short.                                                     *)
LEMMA Appended ==
    ASSUME TypeOK, NEW c \in Chain, chain[c] # None, NEW e \in Event \cup {Torn},
           Append1(c, e)
    PROVE  /\ chain' \in [Chain -> Seq(Event \cup {Torn}) \cup {None}]
           /\ \A a \in Chain : chain[a] # None => chain'[a] # None
           /\ \A a \in Chain, x \in Tx \cup Un, p \in {"validated", "completed"} :
                 <<a, x, p>> \in said' <=>
                     <<a, x, p>> \in said \/ (e # Torn /\ a = c /\ x = e.tx /\ p = e.phase)
           /\ said \subseteq said'
<1>1. chain[c] \in Seq(Event \cup {Torn})
  BY DEF TypeOK
<1>2. /\ Append(chain[c], e) \in Seq(Event \cup {Torn})
      /\ Len(Append(chain[c], e)) = Len(chain[c]) + 1 /\ Len(chain[c]) \in Nat
      /\ Append(chain[c], e)[Len(chain[c]) + 1] = e
      /\ \A k \in 1 .. Len(chain[c]) : Append(chain[c], e)[k] = chain[c][k]
  BY <1>1, SMT, Z3
<1>3. chain' = [chain EXCEPT ![c] = Append(chain[c], e)]
  BY DEF Append1
<1>4. /\ chain' \in [Chain -> Seq(Event \cup {Torn}) \cup {None}]
      /\ chain'[c] = Append(chain[c], e)
      /\ \A a \in Chain \ {c} : chain'[a] = chain[a]
  BY <1>2, <1>3 DEF TypeOK
<1>5. chain'[c] # None
  BY <1>2, <1>4, NoneAssumption
<1>6. \A x, p : Says(c, x, p)' <=> Says(c, x, p) \/ (e # Torn /\ e.tx = x /\ e.phase = p)
  <2> SUFFICES ASSUME NEW x, NEW p
               PROVE  Says(c, x, p)' <=> Says(c, x, p) \/ (e # Torn /\ e.tx = x /\ e.phase = p)
    OBVIOUS
  <2> DEFINE n == Len(chain[c])
             T(k) == chain[c][k] # Torn /\ chain[c][k].tx = x /\ chain[c][k].phase = p
             U(k) == chain'[c][k] # Torn /\ chain'[c][k].tx = x /\ chain'[c][k].phase = p
  <2>1. Says(c, x, p) <=> \E k \in 1 .. n : T(k)
    BY SaysIs, SMT, Z3
  <2>2. Says(c, x, p)' <=> \E k \in 1 .. n + 1 : U(k)
    BY SaysBecomes, <1>2, <1>4, <1>5, SMT, Z3
  <2>3. \A k \in 1 .. n : U(k) <=> T(k)
    BY <1>2, <1>4
  <2>4. U(n + 1) <=> e # Torn /\ e.tx = x /\ e.phase = p
    BY <1>2, <1>4
  <2> HIDE DEF T, U
  <2>5. n \in Nat
    BY <1>2
  <2> QED
    BY <2>1, <2>2, <2>3, <2>4, <2>5, SMT, Z3
<1>7. \A a \in Chain \ {c} : \A x, p : Says(a, x, p)' <=> Says(a, x, p)
  BY <1>4, SaysIs, SaysBecomes, SMT, Z3
<1>8. \A a \in Chain, x \in Tx \cup Un, p \in {"validated", "completed"} :
         (<<a, x, p>> \in said' <=> Says(a, x, p)') /\ (<<a, x, p>> \in said <=> Says(a, x, p))
  BY DEF said
<1>9. \A a \in Chain, x \in Tx \cup Un, p \in {"validated", "completed"} :
         <<a, x, p>> \in said' <=>
             <<a, x, p>> \in said \/ (e # Torn /\ a = c /\ x = e.tx /\ p = e.phase)
  BY <1>6, <1>7, <1>8, Zenon
<1>10. said \subseteq said'
  <2> SUFFICES ASSUME NEW w \in said PROVE w \in said'
    OBVIOUS
  <2>1. PICK a \in Chain, x \in Tx \cup Un, p \in {"validated", "completed"} : w = <<a, x, p>>
    BY SMT, Z3 DEF said
  <2> QED
    BY <1>9, <2>1, Zenon
<1> QED
  BY <1>4, <1>5, <1>9, <1>10

(* A chain that is created says nothing, before and after.                 *)
LEMMA Created ==
    ASSUME TypeOK, NEW c \in Chain, chain[c] = None, chain' = [chain EXCEPT ![c] = <<>>]
    PROVE  /\ chain' \in [Chain -> Seq(Event \cup {Torn}) \cup {None}]
           /\ \A a \in Chain : chain[a] # None => chain'[a] # None
           /\ chain'[c] # None
           /\ said' = said
           /\ \A x \in Tx \cup Un : <<c, x, "validated">> \notin said
<1>1. <<>> \in Seq(Event \cup {Torn}) /\ Len(<<>>) = 0
  OBVIOUS
<1>2. /\ chain' \in [Chain -> Seq(Event \cup {Torn}) \cup {None}]
      /\ chain'[c] = <<>>
      /\ \A a \in Chain \ {c} : chain'[a] = chain[a]
  BY <1>1 DEF TypeOK
<1>3. chain'[c] # None
  BY <1>1, <1>2, NoneAssumption, Zenon
<1>4. \A x, p : ~Says(c, x, p) /\ ~Says(c, x, p)'
  BY <1>1, <1>2, SaysIs, SaysBecomes, SMT, Z3
<1>5. \A a \in Chain \ {c} : \A x, p : Says(a, x, p)' <=> Says(a, x, p)
  BY <1>2, SaysIs, SaysBecomes, SMT, Z3
<1>6. \A a \in Chain : \A x, p : Says(a, x, p)' <=> Says(a, x, p)
  BY <1>4, <1>5, Zenon
<1>7. said' = said
  BY <1>6 DEF said
<1>8. \A x \in Tx \cup Un : <<c, x, "validated">> \notin said
  BY <1>4 DEF said
<1> QED
  BY <1>2, <1>3, <1>7, <1>8

----------------------------------------------------------------------------
(* One lemma for each kind of write: its type, what it sets, and that the  *)
(* others keep theirs.                                                     *)

(* Goto sets the control of one caller.                                    *)
LEMMA Goes ==
    ASSUME TypeOK, NEW x \in Tx \cup Un, NEW l \in Control, Goto(x, l)
    PROVE  /\ pc' \in [Tx \cup Un -> Control] /\ pc'[x] = l
           /\ \A y \in (Tx \cup Un) \ {x} : pc'[y] = pc[y]
BY DEF TypeOK, Goto

(* Enter sets the control and the call of one caller.                      *)
LEMMA Enters ==
    ASSUME TypeOK, NEW x \in Tx \cup Un, NEW l \in Control, NEW c \in Call \cup {None},
           Enter(x, l, c)
    PROVE  /\ pc' \in [Tx \cup Un -> Control] /\ pc'[x] = l
           /\ call' \in [Tx \cup Un -> Call \cup {None}] /\ call'[x] = c
           /\ \A y \in (Tx \cup Un) \ {x} : pc'[y] = pc[y] /\ call'[y] = call[y]
BY DEF TypeOK, Enter, Goto

(* Return ends the call of one caller.                                     *)
LEMMA Returns ==
    ASSUME TypeOK, NEW x \in Tx \cup Un, Return(x)
    PROVE  /\ pc' \in [Tx \cup Un -> Control] /\ pc'[x] = "idle"
           /\ call' \in [Tx \cup Un -> Call \cup {None}] /\ call'[x] = None
           /\ \A y \in (Tx \cup Un) \ {x} : pc'[y] = pc[y] /\ call'[y] = call[y]
BY DEF TypeOK, Return, Enter, Goto, Control

(* A journal write.                                                        *)
LEMMA SetJournal ==
    ASSUME TypeOK, NEW t \in Tx, NEW j \in JournalState, journal' = [journal EXCEPT ![t] = j]
    PROVE  /\ journal' \in [Tx -> JournalState] /\ journal'[t] = j
           /\ \A s \in Tx \ {t} : journal'[s] = journal[s]
BY DEF TypeOK

(* A write of an installed-state record, whole or cut short.               *)
LEMMA SetInstalled ==
    ASSUME TypeOK, NEW x \in Tx \cup Un, NEW r \in Record \cup {Torn},
           installed' = [installed EXCEPT ![x] = r]
    PROVE  /\ installed' \in [Tx \cup Un -> Record \cup {None, Torn}] /\ installed'[x] = r
           /\ \A y \in (Tx \cup Un) \ {x} : installed'[y] = installed[y]
BY DEF TypeOK

(* A write of an ownership manifest, whole or cut short.                   *)
LEMMA SetOwner ==
    ASSUME TypeOK, NEW t \in Tx, NEW o \in {"written", Torn}, owner' = [owner EXCEPT ![t] = o]
    PROVE  /\ owner' \in [Tx -> {"none", Torn, "written"}] /\ owner'[t] = o
           /\ \A s \in Tx \ {t} : owner'[s] = owner[s]
BY DEF TypeOK

(* A fault is counted.                                                     *)
LEMMA Counts ==
    ASSUME TypeOK, Fault \/ NoFault
    PROVE  faults' \in 0 .. MaxFaults
BY InstallAssumption, SMT, Z3 DEF TypeOK, Fault, NoFault

----------------------------------------------------------------------------
(* A step of one caller leaves the others alone.                           *)

Frame(x) ==
    /\ streamed' = streamed /\ said \subseteq said'
    /\ Calm' => Calm
    /\ \A y \in (Tx \cup Un) \ {x} :
          pc'[y] = pc[y] /\ call'[y] = call[y] /\ installed'[y] = installed[y]
    /\ \A s \in Tx \ {x} :
          /\ journal'[s] = journal[s] /\ owner'[s] = owner[s] /\ origin'[s] = origin[s]
          /\ s \in published' <=> s \in published

(* A transaction's step does not end the calm.                             *)
LEMMA StillCalm ==
    ASSUME NEW t \in Tx, edits' = edits,
           \A y \in (Tx \cup Un) \ {t} : call'[y] = call[y] /\ installed'[y] = installed[y]
    PROVE  Calm' = Calm
<1>1. \A u \in Un : call'[u] = call[u] /\ installed'[u] = installed[u]
  BY InstallAssumption
<1>2. \A u \in Un : Removed(u)' <=> Removed(u)
  BY <1>1, Zenon DEF Removed
<1> QED
  BY <1>2, Zenon DEF Calm

(* What a transaction relies on stays when its own state does.             *)
LEMMA TxStays ==
    ASSUME IndInv, NEW s \in Tx, streamed' = streamed, said \subseteq said', Calm' => Calm,
           pc'[s] = pc[s], call'[s] = call[s], installed'[s] = installed[s],
           journal'[s] = journal[s], owner'[s] = owner[s], origin'[s] = origin[s],
           s \in published' <=> s \in published
    PROVE  TxGood(s)'
<1>1. TxGood(s)
  BY DEF IndInv
<1>2. CallGood(s)'
  BY <1>1 DEF TxGood, CallGood
<1>3. AuditGood(s)'
  BY <1>1, Zenon DEF TxGood, AuditGood
<1>4. RecordGood(s)'
  BY <1>1 DEF TxGood, RecordGood
<1>5. OwnGood(s)'
  BY <1>1 DEF TxGood, OwnGood
<1>6. CalmGood(s)'
  BY <1>1 DEF TxGood, CalmGood
<1> QED
  BY <1>2, <1>3, <1>4, <1>5, <1>6 DEF TxGood

(* What an uninstall relies on stays when its own state does.              *)
LEMMA UnStays ==
    ASSUME IndInv, NEW u \in Un, pc'[u] = pc[u], call'[u] = call[u], installed'[u] = installed[u]
    PROVE  UnGood(u)'
<1>1. UnGood(u)
  BY DEF IndInv
<1> QED
  BY <1>1 DEF UnGood

(* The first events stay in order when no transaction comes to a new chain *)
(* and no first event is written.                                          *)
LEMMA GenesisKept ==
    ASSUME IndInv,
           \A s \in Tx : pc'[s] = "genesis" => pc[s] = "genesis" /\ call'[s] = call[s],
           \A a \in Chain : chain[a] # None => chain'[a] # None,
           \A a \in Chain, x \in Tx \cup Un :
               <<a, x, "validated">> \in said' => <<a, x, "validated">> \in said
    PROVE  GenesisGood' /\ OneEach'
<1>1. OneEach'
  BY Zenon DEF IndInv, OneEach
<1>2. \A s \in Tx : pc[s] = "genesis" => call[s].chain \in Chain
  BY DEF IndInv, TypeOK, TxGood, CallGood, Call
<1>3. \A s \in Tx : pc'[s] = "genesis" =>
         pc[s] = "genesis" /\ call'[s].chain = call[s].chain /\ call[s].chain \in Chain
  BY <1>2
<1>4. GenesisGood'
  BY <1>3, Zenon DEF IndInv, GenesisGood
<1> QED
  BY <1>1, <1>4

(* The target keeps what is said of it when nobody touches it.             *)
LEMMA TargetKept ==
    ASSUME IndInv, UNCHANGED <<target, published>>, Calm' => Calm
    PROVE  TargetGood'
BY DEF IndInv, TargetGood

(* A transaction's step keeps the invariant when it keeps what concerns    *)
(* the transaction and what all share.                                     *)
LEMMA TxStep ==
    ASSUME IndInv, NEW t \in Tx, Frame(t), TypeOK', TxGood(t)', GenesisGood', OneEach', TargetGood'
    PROVE  IndInv'
<1>1. \A s \in Tx : TxGood(s)'
  BY TxStays DEF Frame
<1>2. \A u \in Un : UnGood(u)'
  BY UnStays, InstallAssumption DEF Frame
<1> QED
  BY <1>1, <1>2 DEF IndInv

(* Likewise for an uninstall.                                              *)
LEMMA UnStep ==
    ASSUME IndInv, NEW v \in Un, Frame(v), TypeOK', UnGood(v)', GenesisGood', OneEach', TargetGood'
    PROVE  IndInv'
<1>1. \A s \in Tx : TxGood(s)'
  BY TxStays, InstallAssumption DEF Frame
<1>2. \A u \in Un : UnGood(u)'
  BY UnStays DEF Frame
<1> QED
  BY <1>1, <1>2 DEF IndInv

(* Most steps of a transaction write no first event and leave the target.  *)
LEMMA PlainStep ==
    ASSUME IndInv, NEW t \in Tx, Frame(t), TypeOK', TxGood(t)', UNCHANGED <<target, published>>,
           pc'[t] # "genesis",
           \A a \in Chain : chain[a] # None => chain'[a] # None,
           \A a \in Chain, x \in Tx \cup Un :
               <<a, x, "validated">> \in said' => <<a, x, "validated">> \in said
    PROVE  IndInv'
<1>1. \A s \in Tx : pc'[s] = "genesis" => pc[s] = "genesis" /\ call'[s] = call[s]
  BY DEF Frame
<1>2. GenesisGood' /\ OneEach'
  BY <1>1, GenesisKept
<1>3. TargetGood'
  BY TargetKept DEF Frame
<1> QED
  BY <1>2, <1>3, TxStep

(* A transaction's step that leaves the chains and the target and enters *)
(* no genesis.                                                             *)
LEMMA SmallStep ==
    ASSUME IndInv, NEW t \in Tx, TypeOK', TxGood(t)',
           UNCHANGED <<streamed, target, published, chain, edits>>, pc'[t] # "genesis",
           \A y \in (Tx \cup Un) \ {t} :
               pc'[y] = pc[y] /\ call'[y] = call[y] /\ installed'[y] = installed[y],
           \A s \in Tx \ {t} :
               journal'[s] = journal[s] /\ owner'[s] = owner[s] /\ origin'[s] = origin[s]
    PROVE  IndInv'
<1>1. said' = said
  BY SaidSame
<1>2. Calm' = Calm
  BY StillCalm
<1>3. Frame(t)
  BY <1>1, <1>2 DEF Frame
<1>4. \A a \in Chain : chain[a] # None => chain'[a] # None
  OBVIOUS
<1>5. \A a \in Chain, x \in Tx \cup Un :
         <<a, x, "validated">> \in said' => <<a, x, "validated">> \in said
  BY <1>1
<1> QED
  BY <1>3, <1>4, <1>5, PlainStep

----------------------------------------------------------------------------
(* apply_install_impl.                                                     *)

(* A caller that is not idle is in a call.                                 *)
LEMMA InCall ==
    ASSUME IndInv, NEW t \in Tx, pc[t] # "idle"
    PROVE  /\ call[t] \in Call /\ call[t].chain \in Chain /\ call[t].at \in Nat
           /\ call[t] # None
BY DEF IndInv, TypeOK, TxGood, CallGood, Call

(* The three kinds of chain.                                               *)
LEMMA Kinds ==
    /\ <<"audit">> \in Chain /\ ~Replay(<<"audit">>)
    /\ \A u \in Un : <<"cycle", u>> \in Chain /\ ~Replay(<<"cycle", u>>)
    /\ \A t \in Tx : <<"replay", t>> \in Chain /\ Replay(<<"replay", t>>)
BY DEF Chain, Replay

(* A new identity begins the first generation, a retired one the next.     *)
LEMMA ApplyKeeps ==
    ASSUME IndInv, NEW t \in Tx, apply_install(t), streamed' = streamed
    PROVE  IndInv'
<1>1. PICK c \in Chain :
         /\ ~Replay(c) /\ (Calm => c = <<"audit">>)
         /\ Enter(t, "chain", [mode |-> "apply", at |-> Now, chain |-> c, ref |-> None,
                               gone |-> FALSE])
  <2>1. CASE read_installed \notin {None, Torn} /\ Retired(read_installed)
    <3>1. read_installed \in Un /\ Removed(read_installed)
      BY <2>1, ReadsRecord, NoneAssumption DEF IndInv, Retired, Removed
    <3> QED
      BY <2>1, <3>1, Kinds, Zenon DEF apply_install, Calm
  <2>2. CASE ~(read_installed \notin {None, Torn} /\ Retired(read_installed))
    BY <2>2, Kinds, Zenon DEF apply_install
  <2> QED
    BY <2>1, <2>2
<1> DEFINE k == [mode |-> "apply", at |-> Now, chain |-> c, ref |-> None, gone |-> FALSE]
<1>2. k \in Call /\ k.chain = c /\ k # None
  <2>1. Now \in Nat
    BY NowIsTime DEF IndInv
  <2>2. k \in Call /\ k.chain = c
    BY <2>1 DEF Call
  <2> QED
    BY <2>2, NoneAssumption, Zenon
<1> HIDE DEF k
<1>3. UNCHANGED <<disk, faults, edits>> /\ pc[t] = "idle"
  BY DEF apply_install
<1>4. /\ pc' \in [Tx \cup Un -> Control] /\ pc'[t] = "chain"
      /\ call' \in [Tx \cup Un -> Call \cup {None}] /\ call'[t] = k
      /\ \A y \in (Tx \cup Un) \ {t} : pc'[y] = pc[y] /\ call'[y] = call[y]
  BY <1>1, <1>2, Enters, Zenon DEF IndInv, Control, k
<1>5. UNCHANGED <<journal, attempted, origin, stage, target, published, owner, installed, chain>>
  BY <1>3 DEF disk
<1>6. TypeOK'
  BY <1>3, <1>4, <1>5 DEF IndInv, TypeOK
<1>7. said' = said /\ Calm' = Calm
  BY <1>3, <1>4, <1>5, SaidSame, StillCalm
<1>8. CallGood(t)' /\ AuditGood(t)'
  BY <1>1, <1>2, <1>3, <1>4, <1>5, <1>7
     DEF IndInv, TxGood, CallGood, AuditGood, Finalizing
<1>9. RecordGood(t)' /\ OwnGood(t)'
  BY <1>3, <1>4, <1>5, <1>7 DEF IndInv, TxGood, RecordGood, OwnGood, Finalizing
<1>10. CalmGood(t)'
  BY <1>1, <1>2, <1>3, <1>4, <1>5, <1>7, Zenon DEF IndInv, TxGood, CalmGood
<1> QED
  BY <1>3, <1>4, <1>5, <1>6, <1>8, <1>9, <1>10, SmallStep DEF TxGood

(* The creation of a generation's chain.                                   *)
LEMMA InitializeKeeps ==
    ASSUME IndInv, NEW t \in Tx, initialize_chain(t), streamed' = streamed
    PROVE  IndInv'
<1>1. /\ pc[t] = "chain" /\ chain[call[t].chain] = None
      /\ chain' = [chain EXCEPT ![call[t].chain] = <<>>] /\ Goto(t, "genesis")
      /\ UNCHANGED <<journal, attempted, origin, stage, target, published, owner, installed,
                     call, faults, edits>>
  BY DEF initialize_chain
<1>2. call[t].chain \in Chain
  BY <1>1, InCall
<1>3. /\ chain' \in [Chain -> Seq(Event \cup {Torn}) \cup {None}]
      /\ \A a \in Chain : chain[a] # None => chain'[a] # None
      /\ chain'[call[t].chain] # None /\ said' = said
      /\ \A x \in Tx \cup Un : <<call[t].chain, x, "validated">> \notin said
  BY <1>1, <1>2, Created, Zenon DEF IndInv
<1>4. /\ pc' \in [Tx \cup Un -> Control] /\ pc'[t] = "genesis"
      /\ \A y \in (Tx \cup Un) \ {t} : pc'[y] = pc[y]
  BY <1>1, Goes, Zenon DEF IndInv, Control
<1>5. TypeOK'
  BY <1>1, <1>3, <1>4 DEF IndInv, TypeOK
<1>6. Calm' = Calm
  BY <1>1, StillCalm
<1>7. CallGood(t)' /\ AuditGood(t)'
  BY <1>1, <1>3, <1>4, Zenon DEF IndInv, TxGood, CallGood, AuditGood, Finalizing
<1>8. RecordGood(t)' /\ OwnGood(t)' /\ CalmGood(t)'
  BY <1>1, <1>3, <1>4, <1>6, Zenon DEF IndInv, TxGood, RecordGood, OwnGood, CalmGood, Finalizing
<1>9. Frame(t)
  BY <1>1, <1>3, <1>4, <1>6 DEF Frame
<1>10. TargetGood'
  BY <1>1, <1>6, TargetKept
<1>11. OneEach'
  BY <1>3, Zenon DEF IndInv, OneEach
<1>12. \A s \in Tx : pc[s] = "genesis" =>
          call[s].chain \in Chain /\ chain[call[s].chain] # None /\ call[s].chain # call[t].chain
  BY <1>1, InCall DEF IndInv, GenesisGood
<1>13. GenesisGood'
  <2>1. \A s \in Tx : pc'[s] = "genesis" => s = t \/ pc[s] = "genesis"
    BY <1>4
  <2>2. call' = call
    BY <1>1
  <2>3. \A s \in Tx : pc'[s] = "genesis" =>
           /\ chain'[call'[s].chain] # None
           /\ \A x \in Tx \cup Un : <<call'[s].chain, x, "validated">> \notin said'
    BY <1>3, <1>12, <2>1, <2>2, Zenon DEF IndInv, GenesisGood
  <2>4. \A r, s \in Tx : pc'[r] = "genesis" /\ pc'[s] = "genesis" /\ r # s =>
           call'[r].chain # call'[s].chain
    BY <1>12, <2>1, <2>2, ZenonT(40) DEF IndInv, GenesisGood
  <2> QED
    BY <2>3, <2>4 DEF GenesisGood
<1> QED
  BY <1>5, <1>7, <1>8, <1>9, <1>10, <1>11, <1>13, TxStep, Zenon DEF TxGood

(* An audit append goes on, or is cut short and ends the call.             *)
LEMMA Appends ==
    ASSUME IndInv, NEW x \in Tx \cup Un, NEW c \in Chain, NEW e \in Event, NEW l \in Control,
           append(x, c, e, l)
    PROVE  /\ chain' \in [Chain -> Seq(Event \cup {Torn}) \cup {None}]
           /\ \A a \in Chain : chain[a] # None => chain'[a] # None
           /\ said \subseteq said'
           /\ pc' \in [Tx \cup Un -> Control] /\ call' \in [Tx \cup Un -> Call \cup {None}]
           /\ \A y \in (Tx \cup Un) \ {x} : pc'[y] = pc[y] /\ call'[y] = call[y]
           /\ faults' \in 0 .. MaxFaults
           /\ \/ pc'[x] = l /\ call'[x] = call[x] /\ Adds(c, e.tx, e.phase)
              \/ pc'[x] = "idle" /\ call'[x] = None /\ AddsNothing
<1>1. TypeOK /\ chain[c] # None
  BY DEF IndInv, append, ChainValid
<1>2. e # Torn
  BY NoneAssumption
<1>3. CASE Append1(c, e) /\ NoFault /\ Goto(x, l) /\ UNCHANGED call
  <2>1. /\ chain' \in [Chain -> Seq(Event \cup {Torn}) \cup {None}]
        /\ \A a \in Chain : chain[a] # None => chain'[a] # None
        /\ Adds(c, e.tx, e.phase)
        /\ said \subseteq said'
    BY <1>1, <1>2, <1>3, Appended, Zenon DEF Adds
  <2>2. /\ pc' \in [Tx \cup Un -> Control] /\ pc'[x] = l
        /\ \A y \in (Tx \cup Un) \ {x} : pc'[y] = pc[y]
    BY <1>1, <1>3, Goes
  <2>3. faults' \in 0 .. MaxFaults
    BY <1>1, <1>3, Counts
  <2>4. call' = call /\ call' \in [Tx \cup Un -> Call \cup {None}]
    BY <1>1, <1>3 DEF TypeOK
  <2> QED
    BY <2>1, <2>2, <2>3, <2>4, Zenon
<1>4. CASE Append1(c, Torn) /\ Dies(x)
  <2>1. /\ chain' \in [Chain -> Seq(Event \cup {Torn}) \cup {None}]
        /\ \A a \in Chain : chain[a] # None => chain'[a] # None
        /\ AddsNothing
        /\ said \subseteq said'
    BY <1>1, <1>4, Appended, Zenon DEF AddsNothing
  <2>2. /\ pc' \in [Tx \cup Un -> Control] /\ pc'[x] = "idle"
        /\ call' \in [Tx \cup Un -> Call \cup {None}] /\ call'[x] = None
        /\ \A y \in (Tx \cup Un) \ {x} : pc'[y] = pc[y] /\ call'[y] = call[y]
    BY <1>1, <1>4, Returns DEF Dies
  <2>3. faults' \in 0 .. MaxFaults
    BY <1>1, <1>4, Counts DEF Dies
  <2> QED
    BY <2>1, <2>2, <2>3, Zenon
<1> QED
  BY <1>3, <1>4 DEF append

(* What the chains say after it.                                           *)
LEMMA AppendSays ==
    ASSUME IndInv, NEW x \in Tx \cup Un, NEW c \in Chain, NEW e \in Event, NEW l \in Control,
           append(x, c, e, l)
    PROVE  \/ pc'[x] = l /\ call'[x] = call[x] /\ Adds(c, e.tx, e.phase)
           \/ pc'[x] = "idle" /\ call'[x] = None /\ AddsNothing
BY Appends, Zenon

(* The first event of a chain.                                             *)
LEMMA ValidateKeeps ==
    ASSUME IndInv, NEW t \in Tx, append_validated(t), streamed' = streamed
    PROVE  IndInv'
<1> DEFINE c == call[t].chain
           e == [tx |-> t, op |-> IF Replay(c) THEN "recovery" ELSE "install_local",
                 phase |-> "validated", pass |-> TRUE]
           l == IF Replay(c) THEN "commit" ELSE "session"
<1>1. /\ pc[t] = "genesis" /\ append(t, c, e, l)
      /\ UNCHANGED <<journal, attempted, origin, stage, target, published, owner, installed,
                     edits>>
  BY DEF append_validated
<1>2. c \in Chain
  BY <1>1, InCall
<1>3. e \in Event /\ e.tx = t /\ e.phase = "validated"
  BY DEF Event
<1>4. l \in Control /\ (Replay(c) => l = "commit") /\ (~Replay(c) => l = "session")
  BY Zenon DEF Control
<1> HIDE DEF e, l
<1>5. /\ chain' \in [Chain -> Seq(Event \cup {Torn}) \cup {None}]
      /\ \A a \in Chain : chain[a] # None => chain'[a] # None
      /\ said \subseteq said'
      /\ pc' \in [Tx \cup Un -> Control] /\ call' \in [Tx \cup Un -> Call \cup {None}]
      /\ \A y \in (Tx \cup Un) \ {t} : pc'[y] = pc[y] /\ call'[y] = call[y]
      /\ faults' \in 0 .. MaxFaults
  BY <1>1, <1>2, <1>3, <1>4, Appends, Zenon
<1>6. TypeOK'
  BY <1>1, <1>5 DEF IndInv, TypeOK
<1>7. Calm' = Calm
  BY <1>1, <1>5, StillCalm
<1>8. Frame(t)
  BY <1>1, <1>5, <1>7 DEF Frame
<1>9. TargetGood'
  BY <1>1, <1>7, TargetKept
<1>10. CASE pc'[t] = l /\ call'[t] = call[t] /\ Adds(c, t, "validated")
  <2>1. <<c, t, "validated">> \in said'
    BY <1>2, <1>10, Zenon DEF Adds
  <2>2. CallGood(t)'
    BY <1>1, <1>4, <1>10, <1>5, Zenon DEF IndInv, TxGood, CallGood, Finalizing
  <2>3. AuditGood(t)'
    BY <1>2, <2>1 DEF AuditGood
  <2>4. RecordGood(t)' /\ OwnGood(t)'
    BY <1>1, <1>4, <1>5, <1>10, Zenon DEF IndInv, TxGood, RecordGood, OwnGood, Finalizing
  <2>5. CalmGood(t)'
    BY <1>1, <1>4, <1>5, <1>7, <1>10, <2>1, Zenon DEF IndInv, TxGood, CalmGood
  <2>6. OneEach'
    <3>1. \A x \in Tx \cup Un : <<c, x, "validated">> \notin said
      BY <1>1 DEF IndInv, GenesisGood
    <3> HIDE DEF c
    <3> SUFFICES ASSUME NEW a \in Chain, NEW x \in Tx \cup Un, NEW y \in Tx \cup Un,
                        <<a, x, "validated">> \in said', <<a, y, "validated">> \in said'
                 PROVE  x = y
      BY DEF OneEach
    <3>2. CASE a = c
      BY <1>10, <3>1, <3>2, Zenon DEF Adds
    <3>3. CASE a # c
      BY <1>10, <3>3, ZenonT(40) DEF IndInv, OneEach, Adds
    <3> QED
      BY <3>2, <3>3
  <2>7. \A s \in Tx : pc'[s] = "genesis" =>
           /\ s # t /\ pc[s] = "genesis" /\ call'[s] = call[s]
           /\ call[s].chain \in Chain /\ call[s].chain # c
    BY <1>1, <1>4, <1>5, <1>10, InCall, Zenon DEF IndInv, GenesisGood
  <2>8. GenesisGood'
    <3> HIDE DEF c
    <3>1. \A s \in Tx : pc'[s] = "genesis" =>
             /\ chain'[call'[s].chain] # None
             /\ \A x \in Tx \cup Un : <<call'[s].chain, x, "validated">> \notin said'
      BY <1>5, <1>10, <2>7, Zenon DEF IndInv, GenesisGood, Adds
    <3>2. \A r, s \in Tx : pc'[r] = "genesis" /\ pc'[s] = "genesis" /\ r # s =>
             call'[r].chain # call'[s].chain
      BY <2>7, Zenon DEF IndInv, GenesisGood
    <3> QED
      BY <3>1, <3>2 DEF GenesisGood
  <2> QED
    BY <1>6, <1>8, <1>9, <2>2, <2>3, <2>4, <2>5, <2>6, <2>8, TxStep DEF TxGood
<1>11. CASE pc'[t] = "idle" /\ call'[t] = None /\ AddsNothing
  <2>1. TxGood(t)'
    BY <1>1, <1>5, <1>7, <1>11, Zenon
       DEF IndInv, TxGood, CallGood, AuditGood, RecordGood, OwnGood, CalmGood, Finalizing
  <2>2. \A a \in Chain, x \in Tx \cup Un :
           <<a, x, "validated">> \in said' => <<a, x, "validated">> \in said
    BY <1>11, Zenon DEF AddsNothing
  <2>3. pc'[t] # "genesis"
    BY <1>11
  <2> QED
    BY <1>1, <1>5, <1>6, <1>8, <2>1, <2>2, <2>3, PlainStep, Zenon
<1>12. \/ pc'[t] = l /\ call'[t] = call[t] /\ Adds(c, e.tx, e.phase)
       \/ pc'[t] = "idle" /\ call'[t] = None /\ AddsNothing
  BY <1>1, <1>2, <1>3, <1>4, AppendSays
<1> QED
  BY <1>3, <1>10, <1>11, <1>12

(* A call of a transaction that ends where it is keeps what concerns it,   *)
(* whatever recovery its journal asks for.                                 *)
LEMMA EndsGood ==
    ASSUME IndInv, NEW t \in Tx, pc'[t] = "idle", call'[t] = None, streamed' = streamed,
           said' = said, Calm' = Calm, UNCHANGED <<published, origin, installed, owner>>,
           journal[t] = "none" => journal'[t] = "none",
           journal[t] # "none" => journal'[t] # "none",
           journal'[t] = "completed" => \/ journal[t] = "completed"
                                        \/ pc[t] = "completed"
    PROVE  TxGood(t)'
<1>1. CallGood(t)' /\ AuditGood(t)'
  BY DEF IndInv, TxGood, CallGood, AuditGood, Finalizing
<1>2. RecordGood(t)' /\ OwnGood(t)'
  BY Zenon DEF IndInv, TxGood, RecordGood, OwnGood, Finalizing
<1>3. CalmGood(t)'
  BY ZenonT(40) DEF IndInv, TxGood, CalmGood
<1> QED
  BY <1>1, <1>2, <1>3 DEF TxGood

(* A session is opened, or ends with the journal alone.                    *)
LEMMA Opens ==
    ASSUME IndInv, NEW t \in Tx, NEW l \in Control, OpenSession(t, l)
    PROVE  /\ pc' \in [Tx \cup Un -> Control] /\ call' \in [Tx \cup Un -> Call \cup {None}]
           /\ \A y \in (Tx \cup Un) \ {t} : pc'[y] = pc[y] /\ call'[y] = call[y]
           /\ journal' \in [Tx -> JournalState] /\ journal'[t] = "open"
           /\ \A s \in Tx \ {t} : journal'[s] = journal[s]
           /\ stage' \subseteq Tx /\ faults' \in 0 .. MaxFaults
           /\ \/ pc'[t] = l /\ call'[t] = call[t]
              \/ pc'[t] = "idle" /\ call'[t] = None
           /\ UNCHANGED <<attempted, target, published, owner, installed, chain, edits>>
<1>1. /\ journal' \in [Tx -> JournalState] /\ journal'[t] = "open"
      /\ \A s \in Tx \ {t} : journal'[s] = journal[s]
  BY SetJournal, Zenon DEF IndInv, JournalState, OpenSession
<1>2. UNCHANGED <<attempted, target, published, owner, installed, chain, edits>>
  BY DEF OpenSession
<1>3. CASE stage' = stage \cup {t} /\ NoFault /\ Goto(t, l) /\ UNCHANGED call
  <2>1. /\ pc' \in [Tx \cup Un -> Control] /\ pc'[t] = l
        /\ \A y \in (Tx \cup Un) \ {t} : pc'[y] = pc[y]
    BY <1>3, Goes DEF IndInv
  <2>2. stage' \subseteq Tx /\ call' = call /\ call' \in [Tx \cup Un -> Call \cup {None}]
    BY <1>3 DEF IndInv, TypeOK
  <2>3. faults' \in 0 .. MaxFaults
    BY <1>3, Counts DEF IndInv
  <2> QED
    BY <1>1, <1>2, <2>1, <2>2, <2>3, Zenon
<1>4. CASE UNCHANGED stage /\ Dies(t)
  <2>1. /\ pc' \in [Tx \cup Un -> Control] /\ pc'[t] = "idle"
        /\ call' \in [Tx \cup Un -> Call \cup {None}] /\ call'[t] = None
        /\ \A y \in (Tx \cup Un) \ {t} : pc'[y] = pc[y] /\ call'[y] = call[y]
    BY <1>4, Returns DEF IndInv, Dies
  <2>2. stage' \subseteq Tx
    BY <1>4 DEF IndInv, TypeOK
  <2>3. faults' \in 0 .. MaxFaults
    BY <1>4, Counts DEF IndInv, Dies
  <2> QED
    BY <1>1, <1>2, <2>1, <2>2, <2>3, Zenon
<1> QED
  BY <1>3, <1>4, Zenon DEF OpenSession

(* The session of an install.                                              *)
LEMMA SessionKeeps ==
    ASSUME IndInv, NEW t \in Tx, begin_session(t), streamed' = streamed
    PROVE  IndInv'
<1>1. pc[t] = "session" /\ OpenSession(t, "commit") /\ UNCHANGED origin
  BY DEF begin_session
<1>2. /\ pc' \in [Tx \cup Un -> Control] /\ call' \in [Tx \cup Un -> Call \cup {None}]
      /\ \A y \in (Tx \cup Un) \ {t} : pc'[y] = pc[y] /\ call'[y] = call[y]
      /\ journal' \in [Tx -> JournalState] /\ journal'[t] = "open"
      /\ \A s \in Tx \ {t} : journal'[s] = journal[s]
      /\ stage' \subseteq Tx /\ faults' \in 0 .. MaxFaults
      /\ \/ pc'[t] = "commit" /\ call'[t] = call[t]
         \/ pc'[t] = "idle" /\ call'[t] = None
      /\ UNCHANGED <<attempted, target, published, owner, installed, chain, edits>>
  BY <1>1, Opens, Zenon DEF Control
<1>3. call[t] # None
  BY <1>1, InCall
<1>4. TypeOK'
  BY <1>1, <1>2 DEF IndInv, TypeOK
<1>5. said' = said /\ Calm' = Calm
  BY <1>2, SaidSame, StillCalm
<1>6. CallGood(t)' /\ AuditGood(t)'
  BY <1>1, <1>2, <1>3, <1>5, Zenon DEF IndInv, TxGood, CallGood, AuditGood, Finalizing
<1>7. RecordGood(t)' /\ OwnGood(t)' /\ CalmGood(t)'
  BY <1>1, <1>2, <1>5, Zenon DEF IndInv, TxGood, RecordGood, OwnGood, CalmGood, Finalizing
<1> QED
  BY <1>1, <1>2, <1>4, <1>6, <1>7, SmallStep DEF TxGood

(* A replay is requested.                                                  *)
LEMMA RestartKeeps ==
    ASSUME IndInv, NEW t \in Tx, NEW s \in Tx, restart_install(t, s), streamed' = streamed
    PROVE  IndInv'
<1> DEFINE k == [mode |-> "apply", at |-> Now, chain |-> <<"replay", t>>, ref |-> s,
                 gone |-> FALSE]
<1>1. /\ pc[t] = "idle" /\ t \in streamed /\ Enter(t, "replay", k)
      /\ UNCHANGED <<journal, attempted, origin, stage, target, published, owner, installed,
                     chain, faults, edits>>
  BY DEF restart_install, disk
<1>2. k \in Call /\ Replay(k.chain) /\ k.ref = s
  <2>1. Now \in Nat
    BY NowIsTime DEF IndInv
  <2> QED
    BY <2>1, Kinds DEF Call
<1>3. k # None
  BY <1>2, NoneAssumption, Zenon
<1> HIDE DEF k
<1>4. /\ pc' \in [Tx \cup Un -> Control] /\ pc'[t] = "replay"
      /\ call' \in [Tx \cup Un -> Call \cup {None}] /\ call'[t] = k
      /\ \A y \in (Tx \cup Un) \ {t} : pc'[y] = pc[y] /\ call'[y] = call[y]
  BY <1>1, <1>2, Enters, Zenon DEF IndInv, Control
<1>5. TypeOK'
  BY <1>1, <1>4 DEF IndInv, TypeOK
<1>6. said' = said /\ Calm' = Calm
  BY <1>1, <1>4, SaidSame, StillCalm
<1>7. CallGood(t)' /\ AuditGood(t)'
  BY <1>1, <1>2, <1>3, <1>4, <1>6, Zenon DEF IndInv, TxGood, CallGood, AuditGood, Finalizing
<1>8. RecordGood(t)' /\ OwnGood(t)' /\ CalmGood(t)'
  BY <1>1, <1>4, <1>6, Zenon DEF IndInv, TxGood, RecordGood, OwnGood, CalmGood, Finalizing
<1> QED
  BY <1>1, <1>4, <1>5, <1>7, <1>8, SmallStep, Zenon DEF TxGood

(* The journal of a replay: what is replayed has a journal, so it began    *)
(* the generation or replays one that did.                                 *)
LEMMA StreamingKeeps ==
    ASSUME IndInv, NEW t \in Tx, restart_streaming(t), streamed' = streamed
    PROVE  IndInv'
<1>1. /\ pc[t] = "replay" /\ Replayable(call[t].ref)
      /\ origin' = [origin EXCEPT ![t] = <<call[t].ref, journal[call[t].ref]>>]
      /\ OpenSession(t, "chain")
  BY Zenon DEF restart_streaming
<1> DEFINE s == call[t].ref
<1>2. s \in Tx /\ t \in streamed /\ Replay(call[t].chain)
  <2>1. CallGood(t)
    BY ZenonT(40) DEF IndInv, TxGood
  <2> QED
    BY <1>1, <2>1, Zenon DEF CallGood
<1> HIDE DEF s
<1>3. s \in streamed /\ journal[s] # "none"
  <2>1. s \in Lineage(s)
    BY <1>2 DEF Lineage
  <2> QED
    BY <1>1, <2>1 DEF Replayable, s
<1>4. /\ origin' \in [Tx -> {None} \cup (Tx \X JournalState)] /\ origin'[t] # None
      /\ \A r \in Tx \ {t} : origin'[r] = origin[r]
  <2>1. <<s, journal[s]>> \in Tx \X JournalState
    BY <1>2 DEF IndInv, TypeOK
  <2>2. <<s, journal[s]>> # None
    BY <2>1, NoneAssumption
  <2>3. origin' = [origin EXCEPT ![t] = <<s, journal[s]>>]
    BY <1>1, Zenon DEF s
  <2> QED
    BY <2>1, <2>2, <2>3, ZenonT(40) DEF IndInv, TypeOK
<1>5. /\ pc' \in [Tx \cup Un -> Control] /\ call' \in [Tx \cup Un -> Call \cup {None}]
      /\ \A y \in (Tx \cup Un) \ {t} : pc'[y] = pc[y] /\ call'[y] = call[y]
      /\ journal' \in [Tx -> JournalState] /\ journal'[t] = "open"
      /\ \A r \in Tx \ {t} : journal'[r] = journal[r]
      /\ stage' \subseteq Tx /\ faults' \in 0 .. MaxFaults
      /\ \/ pc'[t] = "chain" /\ call'[t] = call[t]
         \/ pc'[t] = "idle" /\ call'[t] = None
      /\ UNCHANGED <<attempted, target, published, owner, installed, chain, edits>>
  BY <1>1, Opens, Zenon DEF Control
<1>6. call[t] # None
  BY <1>1, InCall
<1>7. TypeOK'
  BY <1>4, <1>5, Zenon DEF IndInv, TypeOK
<1>8. said' = said /\ Calm' = Calm
  BY <1>5, SaidSame, StillCalm, Zenon
<1>9. CallGood(t)' /\ AuditGood(t)'
  BY <1>1, <1>2, <1>5, <1>6, <1>8, Zenon DEF IndInv, TxGood, CallGood, AuditGood, Finalizing
<1>10. RecordGood(t)' /\ OwnGood(t)'
  BY <1>1, <1>5, <1>6, <1>8, Zenon DEF IndInv, TxGood, RecordGood, OwnGood, Finalizing
<1>11. Calm => \E r \in streamed : <<<<"audit">>, r, "validated">> \in said
  BY <1>2, <1>3, Zenon DEF IndInv, TxGood, CalmGood
<1>12. CalmGood(t)'
  BY <1>1, <1>2, <1>4, <1>5, <1>6, <1>8, <1>11, Zenon DEF CalmGood
<1> QED
  BY <1>1, <1>4, <1>5, <1>6, <1>7, <1>9, <1>10, <1>12, SmallStep, Zenon DEF TxGood

(* The commit is announced, or refused for a target that appeared.         *)
LEMMA CommitKeeps ==
    ASSUME IndInv, NEW t \in Tx, commit_intent(t), streamed' = streamed
    PROVE  IndInv'
<1>1. /\ pc[t] = "commit"
      /\ UNCHANGED <<origin, stage, target, published, owner, installed, chain, faults, edits>>
  BY Zenon DEF commit_intent
<1>2. journal[t] # "none"
  BY <1>1 DEF IndInv, TxGood, CallGood
<1>3. said' = said
  BY <1>1, SaidSame, Zenon
<1>4. CASE /\ journal' = [journal EXCEPT ![t] = "committing"]
           /\ attempted' = attempted \cup {t} /\ Goto(t, "rename") /\ UNCHANGED call
  <2>1. /\ pc' \in [Tx \cup Un -> Control] /\ pc'[t] = "rename"
        /\ \A y \in (Tx \cup Un) \ {t} : pc'[y] = pc[y]
    BY <1>4, Goes, Zenon DEF IndInv, Control
  <2>2. /\ journal' \in [Tx -> JournalState] /\ journal'[t] = "committing"
        /\ \A s \in Tx \ {t} : journal'[s] = journal[s]
    BY <1>4, SetJournal, Zenon DEF IndInv, JournalState
  <2>3. TypeOK'
    BY <1>1, <1>4, <2>1, <2>2 DEF IndInv, TypeOK
  <2>4. Calm' = Calm
    BY <1>1, <1>4, StillCalm, Zenon
  <2>5. CallGood(t)' /\ AuditGood(t)'
    BY <1>1, <1>3, <1>4, <2>1, <2>2, Zenon DEF IndInv, TxGood, CallGood, AuditGood, Finalizing
  <2>6. RecordGood(t)' /\ OwnGood(t)'
    BY <1>1, <1>3, <1>4, <2>1, <2>2, Zenon DEF IndInv, TxGood, RecordGood, OwnGood, Finalizing
  <2>7. CalmGood(t)'
    BY <1>1, <1>2, <1>3, <1>4, <2>1, <2>2, <2>4, Zenon DEF IndInv, TxGood, CalmGood
  <2> QED
    BY <1>1, <1>4, <2>1, <2>2, <2>3, <2>5, <2>6, <2>7, SmallStep DEF TxGood
<1>5. CASE /\ journal' = [journal EXCEPT ![t] = "refused"]
           /\ Return(t) /\ UNCHANGED attempted
  <2>1. /\ pc' \in [Tx \cup Un -> Control] /\ pc'[t] = "idle"
        /\ call' \in [Tx \cup Un -> Call \cup {None}] /\ call'[t] = None
        /\ \A y \in (Tx \cup Un) \ {t} : pc'[y] = pc[y] /\ call'[y] = call[y]
    BY <1>5, Returns DEF IndInv
  <2>2. /\ journal' \in [Tx -> JournalState] /\ journal'[t] = "refused"
        /\ \A s \in Tx \ {t} : journal'[s] = journal[s]
    BY <1>5, SetJournal, Zenon DEF IndInv, JournalState
  <2>3. TypeOK'
    BY <1>1, <1>5, <2>1, <2>2 DEF IndInv, TypeOK
  <2>4. Calm' = Calm
    BY <1>1, <2>1, StillCalm
  <2>5. TxGood(t)'
    BY <1>1, <1>2, <1>3, <2>1, <2>2, <2>4, EndsGood
  <2> QED
    BY <1>1, <2>1, <2>2, <2>3, <2>5, SmallStep, Zenon
<1> QED
  BY <1>4, <1>5, Zenon DEF commit_intent

(* The rename publishes where nothing stands, so in the calm nothing was   *)
(* published before.                                                       *)
LEMMA RenameKeeps ==
    ASSUME IndInv, NEW t \in Tx, rename(t), streamed' = streamed
    PROVE  IndInv'
<1>1. /\ pc[t] = "rename" /\ target = None /\ target' = [by |-> t, exact |-> TRUE]
      /\ stage' = stage \ {t} /\ published' = published \cup {t} /\ Goto(t, "ownership")
      /\ UNCHANGED <<journal, attempted, origin, owner, installed, chain, call, faults, edits>>
  BY DEF rename
<1>2. /\ pc' \in [Tx \cup Un -> Control] /\ pc'[t] = "ownership"
      /\ \A y \in (Tx \cup Un) \ {t} : pc'[y] = pc[y]
  BY <1>1, Goes DEF IndInv, Control
<1>3. target' \in Target /\ target'.by = t
  BY <1>1 DEF Target
<1>4. target' # None
  BY <1>3, NoneAssumption
<1>5. TypeOK'
  BY <1>1, <1>2, <1>3, Zenon DEF IndInv, TypeOK
<1>6. said' = said /\ Calm' = Calm
  BY <1>1, SaidSame, StillCalm, Zenon
<1>7. CallGood(t)' /\ AuditGood(t)'
  BY <1>1, <1>2, <1>6 DEF IndInv, TxGood, CallGood, AuditGood, Finalizing
<1>8. RecordGood(t)' /\ OwnGood(t)' /\ CalmGood(t)'
  BY <1>1, <1>2, <1>6, Zenon DEF IndInv, TxGood, RecordGood, OwnGood, CalmGood, Finalizing
<1>9. Frame(t)
  BY <1>1, <1>2, <1>6 DEF Frame
<1>10. GenesisGood' /\ OneEach'
  BY <1>1, <1>2, <1>6, GenesisKept
<1>11. Calm => published = {}
  BY <1>1 DEF IndInv, TargetGood
<1>12. TargetGood'
  BY <1>1, <1>3, <1>4, <1>6, <1>11 DEF TargetGood
<1> QED
  BY <1>5, <1>7, <1>8, <1>9, <1>10, <1>12, TxStep DEF TxGood

(* The finalization of an interrupted install is taken up.                 *)
LEMMA FinalizationKeeps ==
    ASSUME IndInv, NEW t \in Tx, recover_install_finalization(t), streamed' = streamed
    PROVE  IndInv'
<1> DEFINE k == [mode |-> "recovery", at |-> Now, chain |-> <<"audit">>, ref |-> None,
                 gone |-> FALSE]
           j == IF journal[t] = "recovery_required" THEN "committing" ELSE journal[t]
<1>1. /\ pc[t] = "idle" /\ journal[t] \in {"committing", "committed", "recovery_required"}
      /\ target # None /\ (t \in streamed => target.by = t)
      /\ journal' = [journal EXCEPT ![t] = j] /\ attempted' = attempted \cup {t}
      /\ Enter(t, "ownership", k)
      /\ UNCHANGED <<origin, stage, target, published, owner, installed, chain, faults, edits>>
  BY DEF recover_install_finalization, Resumable
<1>2. k \in Call
  <2>1. Now \in Nat
    BY NowIsTime DEF IndInv
  <2> QED
    BY <2>1, Kinds DEF Call
<1>3. k # None
  BY <1>2, NoneAssumption, Zenon
<1>4. j \in {"committing", "committed"}
  BY <1>1
<1> HIDE DEF k, j
<1>5. /\ pc' \in [Tx \cup Un -> Control] /\ pc'[t] = "ownership"
      /\ call' \in [Tx \cup Un -> Call \cup {None}] /\ call'[t] = k
      /\ \A y \in (Tx \cup Un) \ {t} : pc'[y] = pc[y] /\ call'[y] = call[y]
  BY <1>1, <1>2, Enters, Zenon DEF IndInv, Control
<1>6. /\ journal' \in [Tx -> JournalState] /\ journal'[t] = j
      /\ \A s \in Tx \ {t} : journal'[s] = journal[s]
  BY <1>1, <1>4, SetJournal, ZenonT(40) DEF IndInv, JournalState
<1>7. TypeOK'
  BY <1>1, <1>5, <1>6 DEF IndInv, TypeOK
<1>8. said' = said /\ Calm' = Calm
  BY <1>1, <1>5, SaidSame, StillCalm, Zenon
<1>9. CallGood(t)' /\ AuditGood(t)'
  BY <1>1, <1>3, <1>4, <1>5, <1>6, <1>8, Zenon DEF IndInv, TxGood, CallGood, AuditGood, Finalizing
<1>10. RecordGood(t)'
  BY <1>1, <1>4, <1>5, <1>6, <1>8, Zenon DEF IndInv, TxGood, RecordGood, Finalizing
<1>11. OwnGood(t)'
  BY <1>1, Zenon DEF IndInv, TargetGood, OwnGood
<1>12. CalmGood(t)'
  BY <1>1, <1>4, <1>5, <1>6, <1>8, Zenon DEF IndInv, TxGood, CalmGood
<1> QED
  BY <1>1, <1>5, <1>6, <1>7, <1>9, <1>10, <1>11, <1>12, SmallStep, Zenon DEF TxGood

(* The ownership manifest.                                                 *)
LEMMA OwnershipKeeps ==
    ASSUME IndInv, NEW t \in Tx, write_ownership(t), streamed' = streamed
    PROVE  IndInv'
<1>1. /\ pc[t] = "ownership"
      /\ UNCHANGED <<journal, attempted, origin, stage, target, published, installed, chain,
                     edits>>
  BY Zenon DEF write_ownership
<1>2. said' = said
  BY <1>1, SaidSame
<1>3. CASE /\ Goto(t, "installed") /\ UNCHANGED call /\ NoFault
           /\ \/ owner' = [owner EXCEPT ![t] = "written"]
              \/ owner[t] = "written" /\ owner' = owner
  <2>1. /\ pc' \in [Tx \cup Un -> Control] /\ pc'[t] = "installed"
        /\ \A y \in (Tx \cup Un) \ {t} : pc'[y] = pc[y]
    BY <1>3, Goes, Zenon DEF IndInv, Control
  <2>2. /\ owner' \in [Tx -> {"none", Torn, "written"}] /\ owner'[t] = "written"
        /\ \A s \in Tx \ {t} : owner'[s] = owner[s]
    BY <1>3, SetOwner DEF IndInv, TypeOK
  <2>3. TypeOK'
    BY <1>1, <1>3, <2>1, <2>2, Counts, Zenon DEF IndInv, TypeOK
  <2>4. Calm' = Calm
    BY <1>1, <1>3, StillCalm
  <2>5. CallGood(t)' /\ AuditGood(t)' /\ OwnGood(t)'
    BY <1>1, <1>2, <1>3, <2>1, Zenon DEF IndInv, TxGood, CallGood, AuditGood, OwnGood, Finalizing
  <2>6. RecordGood(t)' /\ CalmGood(t)'
    BY <1>1, <1>2, <1>3, <2>1, <2>2, <2>4, Zenon DEF IndInv, TxGood, RecordGood, CalmGood, Finalizing
  <2> QED
    BY <1>1, <1>3, <2>1, <2>2, <2>3, <2>5, <2>6, SmallStep, Zenon DEF TxGood
<1>4. CASE owner[t] = "none" /\ owner' = [owner EXCEPT ![t] = Torn] /\ Dies(t)
  <2>1. /\ pc' \in [Tx \cup Un -> Control] /\ pc'[t] = "idle"
        /\ call' \in [Tx \cup Un -> Call \cup {None}] /\ call'[t] = None
        /\ \A y \in (Tx \cup Un) \ {t} : pc'[y] = pc[y] /\ call'[y] = call[y]
    BY <1>4, Returns, Zenon DEF IndInv, Dies
  <2>2. /\ owner' \in [Tx -> {"none", Torn, "written"}]
        /\ \A s \in Tx \ {t} : owner'[s] = owner[s]
    BY <1>4, SetOwner, Zenon DEF IndInv
  <2>3. faults' \in 0 .. MaxFaults
    BY <1>4, Counts DEF IndInv, Dies
  <2>4. TypeOK'
    BY <1>1, <2>1, <2>2, <2>3, Zenon DEF IndInv, TypeOK
  <2>5. Calm' = Calm
    BY <1>1, <2>1, StillCalm, Zenon
  <2>6. CallGood(t)' /\ AuditGood(t)' /\ OwnGood(t)'
    BY <1>1, <1>2, <2>1, Zenon DEF IndInv, TxGood, CallGood, AuditGood, OwnGood, Finalizing
  <2>7. RecordGood(t)' /\ CalmGood(t)'
    BY <1>1, <1>2, <1>4, <2>1, <2>5, Zenon DEF IndInv, TxGood, RecordGood, CalmGood, Finalizing
  <2> QED
    BY <1>1, <2>1, <2>2, <2>4, <2>6, <2>7, SmallStep, Zenon DEF TxGood
<1> QED
  BY <1>3, <1>4, Zenon DEF write_ownership, NoFault

(* A chain found again from the current state is one.                      *)
LEMMA Resolves ==
    ASSUME IndInv, NEW t \in Tx, resolve_install_audit_chain_id(t) # None
    PROVE  resolve_install_audit_chain_id(t) \in Chain
<1>1. CASE origin[t] # None
  BY <1>1, Kinds DEF resolve_install_audit_chain_id
<1>2. CASE origin[t] = None /\ read_installed = None
  BY <1>2, Kinds DEF resolve_install_audit_chain_id
<1>3. CASE origin[t] = None /\ read_installed \notin {None, Torn}
  <2> DEFINE x == read_installed
  <2>1. x \in Tx \cup Un /\ installed[x] \in Record
    BY <1>3, ReadsRecord DEF IndInv
  <2>2. installed[x].chain \in Chain
    BY <2>1, Zenon DEF Record
  <2>3. installed[x].status = "retired" => x \in Un
    BY <2>1 DEF IndInv, TxGood, CallGood
  <2>4. resolve_install_audit_chain_id(t) =
           IF x = t THEN installed[t].chain
           ELSE IF installed[x].status = "retired" THEN <<"cycle", x>> ELSE None
    BY <1>3 DEF resolve_install_audit_chain_id
  <2> HIDE DEF x
  <2> QED
    BY <2>2, <2>3, <2>4, Kinds
<1> QED
  BY <1>1, <1>2, <1>3, Zenon DEF resolve_install_audit_chain_id

(* The installed-state record, written or found.                           *)
LEMMA InstalledKeeps ==
    ASSUME IndInv, NEW t \in Tx, write_installed(t), streamed' = streamed
    PROVE  IndInv'
<1>1. /\ pc[t] = "installed" /\ owner[t] = "written"
      /\ UNCHANGED <<journal, attempted, origin, stage, target, published, owner, chain, edits>>
  BY DEF write_installed
<1>2. call[t] \in Call /\ call[t].chain \in Chain /\ call[t].at \in Nat
  BY <1>1, InCall
<1>3. said' = said
  BY <1>1, SaidSame
<1> DEFINE c == IF call[t].mode = "apply" THEN call[t].chain ELSE resolve_install_audit_chain_id(t)
           r == [at |-> call[t].at, ref |-> t, chain |-> c, status |-> "installed"]
<1>4. c # None
  BY <1>1 DEF write_installed
<1>5. c \in Chain
  BY <1>2, <1>4, Resolves
<1>6. r \in Record /\ r.chain = c /\ r.status = "installed"
  <2> HIDE DEF c
  <2> QED
    BY <1>2, <1>5 DEF Record
<1>7. PICK a \in Chain :
         \/ /\ installed[t] = None /\ a = c
            /\ installed' = [installed EXCEPT ![t] = r] /\ NoFault
            /\ Enter(t, "audit", [call[t] EXCEPT !.chain = a])
         \/ /\ installed[t] = None
            /\ installed' = [installed EXCEPT ![t] = Torn] /\ Dies(t)
         \/ /\ installed[t] \in Record /\ a = installed[t].chain
            /\ Enter(t, "audit", [call[t] EXCEPT !.chain = a])
            /\ UNCHANGED <<installed, faults>>
  <2>1. \/ /\ installed[t] = None
           /\ installed' = [installed EXCEPT ![t] = r] /\ NoFault
           /\ Enter(t, "audit", [call[t] EXCEPT !.chain = c])
        \/ /\ installed[t] = None
           /\ installed' = [installed EXCEPT ![t] = Torn] /\ Dies(t)
        \/ /\ installed[t] \notin {None, Torn}
           /\ Enter(t, "audit", [call[t] EXCEPT !.chain = installed[t].chain])
           /\ UNCHANGED <<installed, faults>>
    BY ZenonT(40) DEF write_installed
  <2>2. installed[t] \notin {None, Torn} => installed[t] \in Record /\ installed[t].chain \in Chain
    BY DEF IndInv, TypeOK, Record
  <2> HIDE DEF c, r
  <2> QED
    BY <1>5, <2>1, <2>2, Zenon
<1> DEFINE k == [call[t] EXCEPT !.chain = a]
<1>8. k \in Call /\ k.chain = a
  BY <1>2 DEF Call
<1>9. k # None
  BY <1>8, NoneAssumption
<1> HIDE DEF c, r, k
<1>10. CASE /\ Enter(t, "audit", k) /\ NoFault
            /\ \/ installed[t] = None /\ installed' = [installed EXCEPT ![t] = r] /\ a = c
               \/ installed' = installed /\ installed[t] \in Record /\ a = installed[t].chain
  <2>1. /\ pc' \in [Tx \cup Un -> Control] /\ pc'[t] = "audit"
        /\ call' \in [Tx \cup Un -> Call \cup {None}] /\ call'[t] = k
        /\ \A y \in (Tx \cup Un) \ {t} : pc'[y] = pc[y] /\ call'[y] = call[y]
    BY <1>8, <1>10, Enters, Zenon DEF IndInv, Control
  <2>2. CASE installed[t] = None /\ installed' = [installed EXCEPT ![t] = r] /\ a = c
    <3>1. /\ installed' \in [Tx \cup Un -> Record \cup {None, Torn}] /\ installed'[t] = r
          /\ \A y \in (Tx \cup Un) \ {t} : installed'[y] = installed[y]
      BY <1>6, <2>2, SetInstalled, Zenon DEF IndInv
    <3>2. TypeOK'
      BY <1>1, <1>10, <2>1, <3>1, Zenon DEF IndInv, TypeOK, NoFault
    <3>3. Calm' = Calm
      BY <1>1, <2>1, <3>1, StillCalm, Zenon
    <3>4. CallGood(t)' /\ AuditGood(t)'
      BY <1>1, <1>3, <1>6, <1>9, <2>1, <3>1, Zenon DEF IndInv, TxGood, CallGood, AuditGood, Finalizing
    <3>5. OwnGood(t)' /\ CalmGood(t)'
      BY <1>1, <1>3, <2>1, <3>3, Zenon DEF IndInv, TxGood, OwnGood, CalmGood, Finalizing
    <3>6. journal[t] # "completed"
      BY <2>2, NoneAssumption, Zenon DEF IndInv, TxGood, RecordGood
    <3>7. RecordGood(t)'
      BY <1>1, <1>3, <1>6, <1>8, <2>1, <2>2, <3>1, <3>6, Zenon DEF IndInv, TxGood, RecordGood, Finalizing
    <3> QED
      BY <1>1, <2>1, <3>1, <3>2, <3>4, <3>5, <3>7, SmallStep, Zenon DEF TxGood
  <2>3. CASE installed' = installed /\ installed[t] \in Record /\ a = installed[t].chain
    <3>2. TypeOK'
      BY <1>1, <1>10, <2>1, <2>3, Zenon DEF IndInv, TypeOK, NoFault
    <3>3. Calm' = Calm
      BY <1>1, <2>1, <2>3, StillCalm
    <3>4. CallGood(t)' /\ AuditGood(t)'
      BY <1>1, <1>3, <1>9, <2>1, <2>3, Zenon DEF IndInv, TxGood, CallGood, AuditGood, Finalizing
    <3>5. OwnGood(t)' /\ CalmGood(t)'
      BY <1>1, <1>3, <2>1, <2>3, <3>3, ZenonT(40) DEF IndInv, TxGood, OwnGood, CalmGood, Finalizing
    <3>6. RecordGood(t)'
      BY <1>1, <1>3, <1>8, <2>1, <2>3 DEF IndInv, TxGood, RecordGood, Finalizing
    <3> QED
      BY <1>1, <2>1, <2>3, <3>2, <3>4, <3>5, <3>6, SmallStep, Zenon DEF TxGood
  <2> QED
    BY <1>10, <2>2, <2>3, Zenon
<1>11. CASE installed[t] = None /\ installed' = [installed EXCEPT ![t] = Torn] /\ Dies(t)
  <2>1. /\ pc' \in [Tx \cup Un -> Control] /\ pc'[t] = "idle"
        /\ call' \in [Tx \cup Un -> Call \cup {None}] /\ call'[t] = None
        /\ \A y \in (Tx \cup Un) \ {t} : pc'[y] = pc[y] /\ call'[y] = call[y]
    BY <1>11, Returns DEF IndInv, Dies
  <2>2. /\ installed' \in [Tx \cup Un -> Record \cup {None, Torn}] /\ installed'[t] = Torn
        /\ \A y \in (Tx \cup Un) \ {t} : installed'[y] = installed[y]
    BY <1>11, SetInstalled, Zenon DEF IndInv
  <2>3. faults' \in 0 .. MaxFaults
    BY <1>11, Counts DEF IndInv, Dies
  <2>4. TypeOK'
    BY <1>1, <2>1, <2>2, <2>3, Zenon DEF IndInv, TypeOK
  <2>5. Calm' = Calm
    BY <1>1, <2>1, <2>2, StillCalm, Zenon
  <2>6. Torn \notin Record /\ None \notin Record
    BY NoneAssumption
  <2>7. CallGood(t)' /\ AuditGood(t)' /\ OwnGood(t)'
    BY <1>1, <1>3, <2>1, <2>2, <2>6, Zenon
       DEF IndInv, TxGood, CallGood, AuditGood, OwnGood, Finalizing
  <2>8. journal[t] # "completed"
    BY <1>11, <2>6, Zenon DEF IndInv, TxGood, RecordGood
  <2>9. RecordGood(t)' /\ CalmGood(t)'
    BY <1>1, <1>3, <2>1, <2>5, <2>8, Zenon DEF IndInv, TxGood, RecordGood, CalmGood, Finalizing
  <2> QED
    BY <1>1, <2>1, <2>2, <2>4, <2>7, <2>9, SmallStep, Zenon DEF TxGood
<1> QED
  BY <1>7, <1>10, <1>11 DEF k, NoFault

(* The completion event, written or found.                                 *)
LEMMA CompletionKeeps ==
    ASSUME IndInv, NEW t \in Tx, append_completed(t), streamed' = streamed
    PROVE  IndInv'
<1> DEFINE c == call[t].chain
           e == [tx |-> t, op |-> IF call[t].mode = "apply" THEN "install_local" ELSE "recovery",
                 phase |-> "completed", pass |-> TRUE]
<1>1. /\ pc[t] = "audit" /\ ChainValid(c)
      /\ UNCHANGED <<journal, attempted, origin, stage, target, published, owner, installed, edits>>
  BY DEF append_completed
<1>2. c \in Chain /\ c = installed[t].chain
  BY <1>1, InCall, Zenon DEF IndInv, TxGood, RecordGood
<1>3. e \in Event /\ e.tx = t /\ e.phase = "completed"
  BY DEF Event
<1> HIDE DEF c, e
<1>4. CASE AlreadyAudited(t, c) /\ Goto(t, "committed") /\ UNCHANGED <<chain, call, faults>>
  <2>1. <<c, t, "completed">> \in said
    <3>1. Says(c, t, "completed")
      BY <1>1, <1>2, <1>4, SaysIs DEF AlreadyAudited, ChainValid, IndInv
    <3> QED
      BY <1>2, <3>1, SaidIs, Zenon
  <2>2. /\ pc' \in [Tx \cup Un -> Control] /\ pc'[t] = "committed"
        /\ \A y \in (Tx \cup Un) \ {t} : pc'[y] = pc[y]
    BY <1>4, Goes, Zenon DEF IndInv, Control
  <2>3. TypeOK'
    BY <1>1, <1>4, <2>2, Zenon DEF IndInv, TypeOK
  <2>4. said' = said /\ Calm' = Calm
    BY <1>1, <1>4, SaidSame, StillCalm, Zenon
  <2>5. CallGood(t)' /\ AuditGood(t)' /\ OwnGood(t)'
    BY <1>1, <1>4, <2>2, <2>4, Zenon DEF IndInv, TxGood, CallGood, AuditGood, OwnGood, Finalizing
  <2>6. RecordGood(t)' /\ CalmGood(t)'
    BY <1>1, <1>2, <1>4, <2>1, <2>2, <2>4, Zenon
       DEF IndInv, TxGood, RecordGood, CalmGood, Finalizing
  <2> QED
    BY <1>1, <1>4, <2>2, <2>3, <2>5, <2>6, SmallStep, Zenon DEF TxGood
<1>5. CASE append(t, c, e, "committed")
  <2>1. "committed" \in Control
    BY DEF Control
  <2>2. /\ chain' \in [Chain -> Seq(Event \cup {Torn}) \cup {None}]
        /\ \A a \in Chain : chain[a] # None => chain'[a] # None
        /\ said \subseteq said'
        /\ pc' \in [Tx \cup Un -> Control] /\ call' \in [Tx \cup Un -> Call \cup {None}]
        /\ \A y \in (Tx \cup Un) \ {t} : pc'[y] = pc[y] /\ call'[y] = call[y]
        /\ faults' \in 0 .. MaxFaults
    BY <1>2, <1>3, <1>5, <2>1, Appends, Zenon
  <2>3. TypeOK'
    BY <1>1, <2>2, Zenon DEF IndInv, TypeOK
  <2>4. Calm' = Calm
    BY <1>1, <2>2, StillCalm, Zenon
  <2>5. Frame(t)
    BY <1>1, <2>2, <2>4, Zenon DEF Frame
  <2>6. CASE pc'[t] = "committed" /\ call'[t] = call[t] /\ Adds(c, t, "completed")
    <3>1. <<c, t, "completed">> \in said'
      BY <1>2, <2>6, Zenon DEF Adds
    <3>2. CallGood(t)' /\ AuditGood(t)' /\ OwnGood(t)'
      BY <1>1, <2>2, <2>6, Zenon DEF IndInv, TxGood, CallGood, AuditGood, OwnGood, Finalizing
    <3>3. RecordGood(t)'
      BY <1>1, <1>2, <2>6, <3>1, Zenon DEF IndInv, TxGood, RecordGood, Finalizing
    <3>4. CalmGood(t)'
      BY <1>1, <2>2, <2>4, <2>6, Zenon DEF IndInv, TxGood, CalmGood
    <3>5. \A a \in Chain, x \in Tx \cup Un :
             <<a, x, "validated">> \in said' => <<a, x, "validated">> \in said
      BY <2>6, Zenon DEF Adds
    <3>6. pc'[t] # "genesis"
      BY <2>6
    <3> QED
      BY <1>1, <2>2, <2>3, <2>5, <3>2, <3>3, <3>4, <3>5, <3>6, PlainStep DEF TxGood
  <2>7. CASE pc'[t] = "idle" /\ call'[t] = None /\ AddsNothing
    <3>1. TxGood(t)'
      BY <1>1, <2>2, <2>4, <2>7, Zenon
         DEF IndInv, TxGood, CallGood, AuditGood, RecordGood, OwnGood, CalmGood, Finalizing
    <3>2. \A a \in Chain, x \in Tx \cup Un :
             <<a, x, "validated">> \in said' => <<a, x, "validated">> \in said
      BY <2>7, Zenon DEF AddsNothing
    <3>3. pc'[t] # "genesis"
      BY <2>7
    <3> QED
      BY <1>1, <2>2, <2>3, <2>5, <3>1, <3>2, <3>3, PlainStep, Zenon
  <2>8. \/ pc'[t] = "committed" /\ call'[t] = call[t] /\ Adds(c, e.tx, e.phase)
        \/ pc'[t] = "idle" /\ call'[t] = None /\ AddsNothing
    BY <1>2, <1>3, <1>5, <2>1, AppendSays
  <2> QED
    BY <1>3, <2>6, <2>7, <2>8
<1> QED
  BY <1>4, <1>5 DEF append_completed, c, e

(* The journal says committed.                                             *)
LEMMA CommittedKeeps ==
    ASSUME IndInv, NEW t \in Tx, mark_committed(t), streamed' = streamed
    PROVE  IndInv'
<1>1. /\ pc[t] = "committed" /\ journal' = [journal EXCEPT ![t] = "committed"]
      /\ Goto(t, "completed")
      /\ UNCHANGED <<attempted, origin, stage, target, published, owner, installed, chain, call,
                     faults, edits>>
  BY DEF mark_committed
<1>2. /\ pc' \in [Tx \cup Un -> Control] /\ pc'[t] = "completed"
      /\ \A y \in (Tx \cup Un) \ {t} : pc'[y] = pc[y]
  BY <1>1, Goes, Zenon DEF IndInv, Control
<1>3. /\ journal' \in [Tx -> JournalState] /\ journal'[t] = "committed"
      /\ \A s \in Tx \ {t} : journal'[s] = journal[s]
  BY <1>1, SetJournal, Zenon DEF IndInv, JournalState
<1>4. TypeOK'
  BY <1>1, <1>2, <1>3, Zenon DEF IndInv, TypeOK
<1>5. said' = said /\ Calm' = Calm
  BY <1>1, SaidSame, StillCalm, Zenon
<1>6. CallGood(t)' /\ AuditGood(t)' /\ OwnGood(t)'
  BY <1>1, <1>2, <1>3, <1>5, Zenon DEF IndInv, TxGood, CallGood, AuditGood, OwnGood, Finalizing
<1>7. journal[t] # "none"
  BY <1>1, Zenon DEF IndInv, TxGood, CallGood, Finalizing
<1>8. RecordGood(t)' /\ CalmGood(t)'
  BY <1>1, <1>2, <1>3, <1>5, <1>7, Zenon DEF IndInv, TxGood, RecordGood, CalmGood, Finalizing
<1> QED
  BY <1>1, <1>2, <1>3, <1>4, <1>6, <1>8, SmallStep, ZenonT(40) DEF TxGood

(* A call that ends with a journal write, or with none.                    *)
LEMMA EndKeeps ==
    ASSUME IndInv, NEW t \in Tx, Return(t), NEW j \in JournalState \ {"none"},
           \/ journal' = journal
           \/ journal[t] # "none" /\ journal' = [journal EXCEPT ![t] = j],
           j = "completed" => pc[t] = "completed",
           stage' \subseteq stage, Fault \/ NoFault,
           UNCHANGED <<streamed, attempted, origin, target, published, owner, installed, chain, edits>>
    PROVE  IndInv'
<1>1. /\ pc' \in [Tx \cup Un -> Control] /\ pc'[t] = "idle"
      /\ call' \in [Tx \cup Un -> Call \cup {None}] /\ call'[t] = None
      /\ \A y \in (Tx \cup Un) \ {t} : pc'[y] = pc[y] /\ call'[y] = call[y]
  BY Returns, Zenon DEF IndInv
<1>2. /\ journal' \in [Tx -> JournalState]
      /\ journal'[t] = journal[t] \/ (journal[t] # "none" /\ journal'[t] = j)
      /\ \A s \in Tx \ {t} : journal'[s] = journal[s]
  <2>1. CASE journal' = journal
    BY <2>1 DEF IndInv, TypeOK
  <2>2. CASE journal[t] # "none" /\ journal' = [journal EXCEPT ![t] = j]
    BY <2>2, SetJournal, Zenon DEF IndInv
  <2> QED
    BY <2>1, <2>2, Zenon
<1>3. TypeOK'
  BY <1>1, <1>2, Counts, Zenon DEF IndInv, TypeOK
<1>4. said' = said /\ Calm' = Calm
  BY <1>1, SaidSame, StillCalm, ZenonT(40)
<1>5. TxGood(t)'
  BY <1>1, <1>2, <1>4, EndsGood
<1> QED
  BY <1>1, <1>2, <1>3, <1>5, SmallStep, Zenon

(* The journal says completed.                                             *)
LEMMA CompletedKeeps ==
    ASSUME IndInv, NEW t \in Tx, mark_completed(t), streamed' = streamed
    PROVE  IndInv'
<1>1. /\ pc[t] = "completed" /\ journal' = [journal EXCEPT ![t] = "completed"] /\ Return(t)
      /\ UNCHANGED <<attempted, origin, stage, target, published, owner, installed, chain, faults,
                     edits>>
  BY DEF mark_completed
<1>2. journal[t] # "none"
  BY <1>1 DEF IndInv, TxGood, CallGood, Finalizing
<1>3. "completed" \in JournalState \ {"none"}
  BY DEF JournalState
<1> QED
  BY <1>1, <1>2, <1>3, EndKeeps, Zenon DEF NoFault

(* A call that fails, with whatever its catch block still does.            *)
LEMMA ThrowKeeps ==
    ASSUME IndInv, NEW t \in Tx, throw(t), streamed' = streamed
    PROVE  IndInv'
<1>1. /\ Return(t) /\ (Fault \/ NoFault) /\ catch(t)
      /\ UNCHANGED <<attempted, origin, target, published, owner, installed, chain, edits>>
  BY DEF throw
<1>2. PICK j \in {"recovery_required", "rolled_back"} :
         /\ \/ journal' = journal
            \/ journal[t] # "none" /\ journal' = [journal EXCEPT ![t] = j]
         /\ stage' \subseteq stage
  <2>1. CASE UNCHANGED <<journal, stage>>
    BY <2>1
  <2>2. CASE journal[t] = "open" /\ rollback(t)
    <3>1. CASE journal' = [journal EXCEPT ![t] = "recovery_required"] /\ UNCHANGED stage
      BY <2>2, <3>1
    <3>2. CASE /\ \E j \in {"recovery_required", "rolled_back"} :
                     journal' = [journal EXCEPT ![t] = j]
               /\ stage' = stage \ {t}
      <4>1. stage' \subseteq stage
        BY <3>2
      <4> QED
        BY <2>2, <3>2, <4>1, Zenon
    <3> QED
      BY <2>2, <3>1, <3>2 DEF rollback
  <2>3. CASE /\ journal[t] \in {"committing", "committed"} /\ UNCHANGED stage
             /\ journal' = [journal EXCEPT ![t] = "recovery_required"]
    BY <2>3
  <2> QED
    BY <1>1, <2>1, <2>2, <2>3 DEF catch
<1>3. j \in JournalState \ {"none"} /\ j # "completed"
  BY <1>2, Zenon DEF JournalState
<1> QED
  BY <1>1, <1>2, <1>3, EndKeeps

(* The reviewed rollback of an interrupted transaction.                    *)
LEMMA RollbackKeeps ==
    ASSUME IndInv, NEW t \in Tx, recover_rollback(t), streamed' = streamed
    PROVE  IndInv'
<1>1. /\ pc[t] = "idle" /\ journal[t] \in {"open", "recovery_required"} /\ rollback(t)
      /\ UNCHANGED <<attempted, origin, target, published, owner, installed, chain, pc, call,
                     faults, edits>>
  BY Zenon DEF recover_rollback
<1>2. PICK j \in {"recovery_required", "rolled_back"} : journal' = [journal EXCEPT ![t] = j]
  BY <1>1, Zenon DEF rollback
<1>3. j \in JournalState /\ stage' \subseteq stage
  BY <1>1, <1>2 DEF rollback, JournalState
<1>4. /\ journal' \in [Tx -> JournalState] /\ journal'[t] = j
      /\ \A s \in Tx \ {t} : journal'[s] = journal[s]
  BY <1>2, <1>3, SetJournal, ZenonT(40) DEF IndInv
<1>5. TypeOK'
  BY <1>1, <1>3, <1>4 DEF IndInv, TypeOK
<1>6. said' = said /\ Calm' = Calm
  BY <1>1, SaidSame, StillCalm, Zenon
<1>7. call[t] = None
  BY <1>1, Zenon DEF IndInv, TxGood, CallGood
<1>8. TxGood(t)'
  BY <1>1, <1>2, <1>4, <1>6, <1>7, EndsGood, Zenon
<1> QED
  BY <1>1, <1>4, <1>5, <1>8, SmallStep

----------------------------------------------------------------------------
(* apply_uninstall, and changes from outside.                              *)

(* An uninstall's step does not restore the calm if what it removed is     *)
(* still on record.                                                        *)
LEMMA NotCalmAgain ==
    ASSUME NEW u \in Un, edits' = edits, Removed(u) => Removed(u)',
           \A y \in (Tx \cup Un) \ {u} : call'[y] = call[y] /\ installed'[y] = installed[y]
    PROVE  Calm' => Calm
<1>1. \A v \in Un \ {u} : Removed(v)' <=> Removed(v)
  BY Zenon DEF Removed
<1> QED
  BY <1>1, Zenon DEF Calm

(* An uninstall in a call has a record to retire.                          *)
LEMMA InUninstall ==
    ASSUME IndInv, NEW u \in Un, pc[u] # "idle"
    PROVE  /\ call[u] \in Call /\ call[u].chain \in Chain /\ call[u].at \in Nat
           /\ call[u].ref \in Tx /\ call[u].gone \in BOOLEAN /\ call[u] # None
BY DEF IndInv, TypeOK, UnGood, Call

(* An uninstall's step that leaves the target and writes no first event.   *)
LEMMA PlainUninstall ==
    ASSUME IndInv, NEW u \in Un, TypeOK', UnGood(u)', Removed(u) => Removed(u)',
           UNCHANGED <<streamed, target, published, journal, owner, origin, edits>>,
           said \subseteq said',
           \A a \in Chain : chain[a] # None => chain'[a] # None,
           \A a \in Chain, x \in Tx \cup Un :
               <<a, x, "validated">> \in said' => <<a, x, "validated">> \in said,
           \A y \in (Tx \cup Un) \ {u} :
               pc'[y] = pc[y] /\ call'[y] = call[y] /\ installed'[y] = installed[y]
    PROVE  IndInv'
<1>1. Calm' => Calm
  BY NotCalmAgain, Zenon
<1>2. Frame(u)
  BY <1>1, ZenonT(40) DEF Frame
<1>3. \A s \in Tx : pc'[s] = "genesis" => pc[s] = "genesis" /\ call'[s] = call[s]
  BY InstallAssumption, Zenon
<1>4. GenesisGood' /\ OneEach'
  BY <1>3, GenesisKept
<1>5. TargetGood'
  BY <1>1, TargetKept, Zenon
<1> QED
  BY <1>2, <1>4, <1>5, UnStep, Zenon

(* An uninstall of the current installation begins.                        *)
LEMMA UninstallKeeps ==
    ASSUME IndInv, NEW u \in Un, apply_uninstall(u), streamed' = streamed
    PROVE  IndInv'
<1> DEFINE x == read_installed
           k == [mode |-> "apply", at |-> Now, chain |-> installed[x].chain,
                 ref |-> installed[x].ref, gone |-> FALSE]
<1>1. /\ pc[u] = "idle" /\ installed[u] = None /\ x \notin {None, Torn} /\ Enter(u, "commit", k)
      /\ UNCHANGED <<journal, attempted, origin, stage, target, published, owner, installed,
                     chain, faults, edits>>
  BY Zenon DEF apply_uninstall, disk
<1>2. installed[x].chain \in Chain /\ installed[x].ref \in Tx
  BY <1>1, ReadsRecord DEF IndInv, Record
<1>3. k \in Call /\ k.ref \in Tx /\ ~k.gone
  <2> HIDE DEF x
  <2>1. Now \in Nat
    BY NowIsTime, Zenon DEF IndInv
  <2> QED
    BY <1>2, <2>1 DEF Call
<1>4. k # None
  BY <1>3, NoneAssumption, Zenon
<1> HIDE DEF k, x
<1>5. /\ pc' \in [Tx \cup Un -> Control] /\ pc'[u] = "commit"
      /\ call' \in [Tx \cup Un -> Call \cup {None}] /\ call'[u] = k
      /\ \A y \in (Tx \cup Un) \ {u} : pc'[y] = pc[y] /\ call'[y] = call[y]
  BY <1>1, <1>3, Enters, Zenon DEF IndInv, Control
<1>6. TypeOK'
  BY <1>1, <1>5, Zenon DEF IndInv, TypeOK
<1>7. UnGood(u)'
  BY <1>1, <1>3, <1>4, <1>5, Zenon DEF UnGood
<1>8. ~Removed(u)
  BY <1>1, InstallAssumption, Zenon DEF IndInv, UnGood, Removed
<1>9. said' = said
  BY <1>1, SaidSame, Zenon
<1> QED
  BY <1>1, <1>5, <1>6, <1>7, <1>8, <1>9, PlainUninstall

(* The payload is removed, or what is left of it stays.                    *)
LEMMA RemoveKeeps ==
    ASSUME IndInv, NEW u \in Un, remove_owned(u), streamed' = streamed
    PROVE  IndInv'
<1> DEFINE g == target' = None
           k == [call[u] EXCEPT !.gone = g]
<1>1. /\ pc[u] = "commit" /\ target' \in {None, target} /\ Enter(u, "installed", k)
      /\ UNCHANGED <<journal, attempted, origin, stage, published, owner, installed, chain,
                     faults, edits>>
  BY DEF remove_owned
<1>2. g \in BOOLEAN /\ (g <=> target' = None)
  OBVIOUS
<1> HIDE DEF g
<1>3. /\ call[u] \in Call /\ call[u].ref \in Tx /\ call[u] # None
      /\ installed[u] = None /\ ~call[u].gone
  BY <1>1, InUninstall DEF IndInv, UnGood
<1>4. k \in Call /\ k.ref = call[u].ref /\ k.gone = g
  BY <1>2, <1>3 DEF Call
<1>5. k # None
  BY <1>4, NoneAssumption, Zenon
<1> HIDE DEF k
<1>6. /\ pc' \in [Tx \cup Un -> Control] /\ pc'[u] = "installed"
      /\ call' \in [Tx \cup Un -> Call \cup {None}] /\ call'[u] = k
      /\ \A y \in (Tx \cup Un) \ {u} : pc'[y] = pc[y] /\ call'[y] = call[y]
  BY <1>1, <1>4, Enters, Zenon DEF IndInv, Control
<1>7. TypeOK'
  BY <1>1, <1>6, Zenon DEF IndInv, TypeOK
<1>8. UnGood(u)'
  BY <1>1, <1>3, <1>4, <1>5, <1>6, Zenon DEF UnGood
<1>9. ~Removed(u) /\ (target' = None => Removed(u)')
  BY <1>1, <1>2, <1>3, <1>4, <1>5, <1>6, InstallAssumption, Zenon DEF Removed
<1>10. (Calm' => Calm) /\ (Calm' => target' # None)
  BY <1>1, <1>6, <1>9, NotCalmAgain, Zenon DEF Calm
<1>11. said' = said
  BY <1>1, SaidSame, Zenon
<1>12. Frame(u)
  BY <1>1, <1>6, <1>10, <1>11, Zenon DEF Frame
<1>13. GenesisGood' /\ OneEach'
  BY <1>1, <1>6, <1>11, GenesisKept, InstallAssumption
<1>14. TargetGood'
  BY <1>1, <1>10, Zenon DEF IndInv, TargetGood
<1> QED
  BY <1>7, <1>8, <1>12, <1>13, <1>14, UnStep

(* The record of an uninstall.                                             *)
LEMMA RetireKeeps ==
    ASSUME IndInv, NEW u \in Un, write_retired(u), streamed' = streamed
    PROVE  IndInv'
<1> DEFINE r == [at |-> call[u].at, ref |-> call[u].ref, chain |-> call[u].chain,
                 status |-> IF call[u].gone THEN "retired" ELSE "uninstall_blocked"]
<1>1. /\ pc[u] = "installed"
      /\ UNCHANGED <<journal, attempted, origin, stage, target, published, owner, chain, edits>>
  BY Zenon DEF write_retired
<1>2. /\ call[u] \in Call /\ call[u].chain \in Chain /\ call[u].at \in Nat
      /\ call[u].ref \in Tx /\ call[u].gone \in BOOLEAN /\ call[u] # None
      /\ installed[u] = None
  BY <1>1, InUninstall DEF IndInv, UnGood
<1>3. r \in Record /\ (call[u].gone => r.status = "retired")
  BY <1>2 DEF Record
<1> HIDE DEF r
<1>4. said' = said
  BY <1>1, SaidSame
<1>5. CASE installed' = [installed EXCEPT ![u] = r] /\ NoFault /\ Goto(u, "audit") /\ UNCHANGED call
  <2>1. /\ pc' \in [Tx \cup Un -> Control] /\ pc'[u] = "audit"
        /\ \A y \in (Tx \cup Un) \ {u} : pc'[y] = pc[y]
    BY <1>5, Goes DEF IndInv, Control
  <2>2. /\ installed' \in [Tx \cup Un -> Record \cup {None, Torn}] /\ installed'[u] = r
        /\ \A y \in (Tx \cup Un) \ {u} : installed'[y] = installed[y]
    BY <1>3, <1>5, SetInstalled, Zenon DEF IndInv
  <2>3. TypeOK'
    BY <1>1, <1>5, <2>1, <2>2, Zenon DEF IndInv, TypeOK, NoFault
  <2>4. UnGood(u)'
    BY <1>2, <1>3, <1>5, <2>1, <2>2, Zenon DEF UnGood
  <2>5. Removed(u) => Removed(u)'
    BY <1>2, <1>5, InstallAssumption DEF Removed
  <2> QED
    BY <1>1, <1>4, <1>5, <2>1, <2>2, <2>3, <2>4, <2>5, PlainUninstall, Zenon
<1>6. CASE installed' = [installed EXCEPT ![u] = Torn] /\ Dies(u)
  <2>1. /\ pc' \in [Tx \cup Un -> Control] /\ pc'[u] = "idle"
        /\ call' \in [Tx \cup Un -> Call \cup {None}] /\ call'[u] = None
        /\ \A y \in (Tx \cup Un) \ {u} : pc'[y] = pc[y] /\ call'[y] = call[y]
    BY <1>6, Returns, Zenon DEF IndInv, Dies
  <2>2. /\ installed' \in [Tx \cup Un -> Record \cup {None, Torn}] /\ installed'[u] = Torn
        /\ \A y \in (Tx \cup Un) \ {u} : installed'[y] = installed[y]
    BY <1>6, SetInstalled, Zenon DEF IndInv
  <2>3. faults' \in 0 .. MaxFaults
    BY <1>6, Counts DEF IndInv, Dies
  <2>4. TypeOK'
    BY <1>1, <2>1, <2>2, <2>3, Zenon DEF IndInv, TypeOK
  <2>5. UnGood(u)'
    BY <2>1 DEF UnGood
  <2>6. Removed(u)'
    BY <2>2 DEF Removed
  <2> QED
    BY <1>1, <1>4, <2>1, <2>2, <2>4, <2>5, <2>6, PlainUninstall, Zenon
<1> QED
  BY <1>5, <1>6, Zenon DEF write_retired, r

(* The event of an uninstall.                                              *)
LEMMA UninstalledKeeps ==
    ASSUME IndInv, NEW u \in Un, append_uninstalled(u), streamed' = streamed
    PROVE  IndInv'
<1> DEFINE c == call[u].chain
           e == [tx |-> u, op |-> "uninstall", phase |-> "completed", pass |-> call[u].gone]
<1>1. /\ pc[u] = "audit" /\ append(u, c, e, "completed")
      /\ UNCHANGED <<journal, attempted, origin, stage, target, published, owner, installed, edits>>
  BY DEF append_uninstalled
<1>2. /\ c \in Chain /\ call[u].gone \in BOOLEAN /\ call[u].ref \in Tx /\ call[u] # None
      /\ call[u].gone => installed[u] \in Record /\ installed[u].status = "retired"
  BY <1>1, InUninstall, Zenon DEF IndInv, UnGood
<1>3. e \in Event /\ e.tx = u /\ e.phase = "completed" /\ "completed" \in Control
  BY <1>2 DEF Event, Control
<1> HIDE DEF c, e
<1>4. /\ chain' \in [Chain -> Seq(Event \cup {Torn}) \cup {None}]
      /\ \A a \in Chain : chain[a] # None => chain'[a] # None
      /\ said \subseteq said'
      /\ pc' \in [Tx \cup Un -> Control] /\ call' \in [Tx \cup Un -> Call \cup {None}]
      /\ \A y \in (Tx \cup Un) \ {u} : pc'[y] = pc[y] /\ call'[y] = call[y]
      /\ faults' \in 0 .. MaxFaults
  BY <1>1, <1>2, <1>3, Appends, Zenon
<1>5. /\ \/ pc'[u] = "completed" /\ call'[u] = call[u]
         \/ pc'[u] = "idle" /\ call'[u] = None
      /\ \A a \in Chain, x \in Tx \cup Un :
            <<a, x, "validated">> \in said' => <<a, x, "validated">> \in said
  <2>1. \/ pc'[u] = "completed" /\ call'[u] = call[u] /\ Adds(c, e.tx, e.phase)
        \/ pc'[u] = "idle" /\ call'[u] = None /\ AddsNothing
    BY <1>1, <1>2, <1>3, AppendSays
  <2>2. e.phase # "validated"
    BY <1>3
  <2> QED
    BY <2>1, <2>2, ZenonT(40) DEF Adds, AddsNothing
<1>6. TypeOK'
  BY <1>1, <1>4, Zenon DEF IndInv, TypeOK
<1>7. UnGood(u)'
  BY <1>2, <1>5, SMT, Z3 DEF UnGood
<1>8. Removed(u) => Removed(u)'
  <2>1. call[u].gone => installed[u] # None
    BY <1>2, NoneAssumption
  <2> QED
    BY <1>1, <1>2, <2>1 DEF Removed
<1> QED
  BY <1>1, <1>4, <1>5, <1>6, <1>7, <1>8, PlainUninstall, Zenon

(* Whatever others do to the target ends the calm.                         *)
LEMMA EditKeeps ==
    ASSUME IndInv, Edit, streamed' = streamed
    PROVE  IndInv'
<1>1. /\ edits < MaxEdits /\ edits' = edits + 1
      /\ UNCHANGED <<journal, attempted, origin, stage, published, owner, installed, chain,
                     pc, call, faults>>
  BY DEF Edit
<1>2. edits' \in 0 .. MaxEdits /\ edits' # 0
  BY <1>1, InstallAssumption, SMT, Z3 DEF IndInv, TypeOK
<1>3. target' \in Target \cup {None} /\ (target' # None /\ target'.by \in Tx => target'.by \in published)
  <2>1. CASE target = None /\ target' \in [by : {Foreign}, exact : BOOLEAN]
    BY <2>1, InstallAssumption DEF Target
  <2>2. CASE target # None /\ target' = None
    BY <2>2
  <2>3. CASE target # None /\ target' = [target EXCEPT !.exact = FALSE]
    BY <2>3, Zenon DEF IndInv, TypeOK, Target, TargetGood
  <2> QED
    BY <2>1, <2>2, <2>3 DEF Edit
<1>4. TypeOK'
  BY <1>1, <1>2, <1>3 DEF IndInv, TypeOK
<1>5. ~Calm' /\ said' = said
  BY <1>1, <1>2, SaidSame DEF Calm
<1>6. \A s \in Tx : TxGood(s)'
  BY <1>1, <1>5, TxStays, Zenon
<1>7. \A u \in Un : UnGood(u)'
  BY <1>1, UnStays, Zenon
<1>8. GenesisGood' /\ OneEach'
  BY <1>1, <1>5, GenesisKept
<1>9. TargetGood'
  BY <1>1, <1>3, <1>5 DEF TargetGood
<1> QED
  BY <1>4, <1>6, <1>7, <1>8, <1>9 DEF IndInv

----------------------------------------------------------------------------
(* The invariant, and what follows from it.                                *)

(* Nothing is on record at first.                                          *)
LEMMA InitGood ==
    ASSUME Init
    PROVE  IndInv
<1>1. TypeOK
  BY InstallAssumption, SMT, Z3 DEF Init, TypeOK, JournalState, Control
<1>2. said = {}
  BY DEF Init, said, Says
<1>3. \A t \in Tx : TxGood(t)
  BY <1>2, NoneAssumption
     DEF Init, TxGood, CallGood, AuditGood, RecordGood, OwnGood, CalmGood, Finalizing
<1>4. \A u \in Un : UnGood(u)
  BY DEF Init, UnGood
<1>5. GenesisGood /\ OneEach /\ TargetGood
  BY <1>2 DEF Init, GenesisGood, OneEach, TargetGood
<1> QED
  BY <1>1, <1>3, <1>4, <1>5 DEF IndInv

(* A state that stays the same stays good.                                 *)
LEMMA StutterKeeps ==
    ASSUME IndInv, UNCHANGED vars
    PROVE  IndInv'
<1>1. UNCHANGED <<streamed, journal, attempted, origin, stage, target, published, owner,
                  installed, chain, pc, call, faults, edits>>
  BY DEF vars, disk
<1>2. TypeOK'
  BY <1>1, Zenon DEF IndInv, TypeOK
<1>3. said' = said
  BY <1>1, SaidSame
<1>4. Calm' = Calm
  BY <1>1, ZenonT(40) DEF Calm, Removed
<1>5. \A s \in Tx : TxGood(s)'
  BY <1>1, <1>3, <1>4, TxStays
<1>6. \A u \in Un : UnGood(u)'
  BY <1>1, UnStays
<1>7. GenesisGood' /\ OneEach'
  BY <1>1, <1>3, GenesisKept
<1>8. TargetGood'
  BY <1>1, <1>4, TargetKept
<1> QED
  BY <1>2, <1>5, <1>6, <1>7, <1>8 DEF IndInv

(* Every step keeps the invariant.                                         *)
LEMMA StepKeeps ==
    ASSUME IndInv, [Next]_vars
    PROVE  IndInv'
<1>1. ASSUME NEW t \in Tx, Step(t) PROVE IndInv'
  BY <1>1, InitializeKeeps, ValidateKeeps, SessionKeeps, StreamingKeeps, CommitKeeps,
     RenameKeeps, OwnershipKeeps, InstalledKeeps, CompletionKeeps, CommittedKeeps,
     CompletedKeeps, ThrowKeeps, Zenon DEF Step
<1>2. ASSUME NEW t \in Tx, streamed' = streamed,
             apply_install(t) \/ recover_install_finalization(t) \/ recover_rollback(t)
      PROVE  IndInv'
  BY <1>2, ApplyKeeps, FinalizationKeeps, RollbackKeeps, Zenon
<1>3. ASSUME NEW t \in Tx, NEW s \in Tx, streamed' = streamed, restart_install(t, s) PROVE IndInv'
  BY <1>3, RestartKeeps
<1>4. ASSUME NEW u \in Un, streamed' = streamed, Uninstall(u) PROVE IndInv'
  BY <1>4, UninstallKeeps, RemoveKeeps, RetireKeeps, UninstalledKeeps, Zenon DEF Uninstall
<1>5. CASE Edit /\ streamed' = streamed
  BY <1>5, EditKeeps
<1>6. CASE UNCHANGED vars
  BY <1>6, StutterKeeps
<1> QED
  BY <1>1, <1>2, <1>3, <1>4, <1>5, <1>6, Zenon DEF Next

(* The invariant holds in every reachable state.                           *)
THEOREM Invariance == Spec => []IndInv
<1>1. Init => IndInv
  BY InitGood
<1>2. IndInv /\ [Next]_vars => IndInv'
  BY StepKeeps
<1> QED
  BY <1>1, <1>2, PTL DEF Spec

(* For any number of transactions and uninstalls, what an install records  *)
(* is so: a completed journal has its manifest, its record and its event,  *)
(* one transaction begins a generation, and no payload is visible before   *)
(* the plan is revalidated on record (apply_install_impl,                  *)
(* recover_install_finalization, initialize_chain).                        *)
THEOREM TruthfulRecords == Spec => []RecordsAreTruthful
<1>1. IndInv => RecordsAreTruthful
  <2> SUFFICES ASSUME IndInv PROVE RecordsAreTruthful
    OBVIOUS
  <2>1. CompletedMeansRecorded
    <3> SUFFICES ASSUME NEW t \in Tx, journal[t] = "completed"
                 PROVE  /\ owner[t] = "written" /\ installed[t] \notin {None, Torn}
                        /\ Says(installed[t].chain, t, "completed")
      BY DEF CompletedMeansRecorded
    <3>1. /\ owner[t] = "written" /\ installed[t] \in Record
          /\ <<installed[t].chain, t, "completed">> \in said
      BY DEF IndInv, TxGood, RecordGood
    <3>2. installed[t] \notin {None, Torn}
      BY <3>1, NoneAssumption, Zenon
    <3>3. installed[t].chain \in Chain
      BY <3>1 DEF Record
    <3> QED
      BY <3>1, <3>2, <3>3, SaidIs, Zenon
  <2>2. OneContender
    BY SaidIs, Zenon DEF IndInv, OneEach, OneContender
  <2>3. AttemptIsAudited
    <3> SUFFICES ASSUME NEW t \in published PROVE \E c \in Chain : Says(c, t, "validated")
      BY DEF AttemptIsAudited
    <3>1. t \in Tx
      BY DEF IndInv, TypeOK
    <3>2. \E c \in Chain : <<c, t, "validated">> \in said
      BY <3>1 DEF IndInv, TxGood, AuditGood
    <3> QED
      BY <3>1, <3>2, SaidIs, Zenon
  <2> QED
    BY <2>1, <2>2, <2>3 DEF RecordsAreTruthful, IndInv
<1> QED
  BY <1>1, Invariance, PTL

(* A source-bound install has a record only after its own rename, and as   *)
(* long as nobody else changed the target and no uninstall removed a       *)
(* payload the tree at the target is its own, whoever finalized it         *)
(* (resume_finalization, the publication identity).                        *)
THEOREM StreamOwnership == Spec => []StreamInstalledIsOwn
<1>1. IndInv => StreamInstalledIsOwn
  <2> SUFFICES ASSUME IndInv, NEW t \in streamed, installed[t] # None
               PROVE  t \in published /\ (Calm => target # None /\ target.by = t)
    BY Zenon DEF StreamInstalledIsOwn, Calm
  <2>1. t \in Tx
    BY InstallAssumption DEF IndInv, TypeOK
  <2>2. t \in published
    BY <2>1 DEF IndInv, TxGood, OwnGood
  <2> QED
    BY <2>2 DEF IndInv, TargetGood
<1> QED
  BY <1>1, Invariance, PTL

(* Without outside changes two installs of an identity are on record only  *)
(* with the removal of an uninstall between them: of the transactions of   *)
(* one generation only the one that began it, or source-bound replays of   *)
(* it, have a journal, and the target takes one of these                   *)
(* (next_install_audit_chain_id, the no-replace commit rename).            *)
THEOREM SingleInstallation == Spec => []OneLiveInstallation
<1>1. IndInv => OneLiveInstallation
  <2> SUFFICES ASSUME IndInv, NEW t \in Tx, NEW s \in Tx, t # s, edits = 0,
                      installed[t] \notin {None, Torn}, installed[s] \notin {None, Torn},
                      \A u \in Un : ~Removed(u)
               PROVE  FALSE
    BY Zenon DEF OneLiveInstallation
  <2>1. Calm
    BY ZenonT(40) DEF Calm
  <2>2. /\ streamed \subseteq Tx /\ <<"audit">> \in Chain
        /\ journal[t] # "none" /\ journal[s] # "none"
    BY InstallAssumption, Kinds DEF IndInv, TypeOK, TxGood, CallGood
  <2>3. \A x \in {t, s} : \E r \in Tx : /\ <<<<"audit">>, r, "validated">> \in said
                                        /\ r \in streamed <=> x \in streamed
    BY <2>1, <2>2, Zenon DEF IndInv, TxGood, CalmGood
  <2>4. t \in streamed <=> s \in streamed
    BY <2>2, <2>3, ZenonT(40) DEF IndInv, OneEach
  <2>5. CASE t \in streamed
    <3>1. t \in published /\ s \in published
      BY <2>4, <2>5 DEF IndInv, TxGood, OwnGood
    <3> QED
      BY <2>1, <3>1 DEF IndInv, TargetGood
  <2>6. CASE t \notin streamed
    <3>1. /\ <<<<"audit">>, t, "validated">> \in said
          /\ <<<<"audit">>, s, "validated">> \in said
      BY <2>1, <2>2, <2>4, <2>6, Zenon DEF IndInv, TxGood, CalmGood
    <3> QED
      BY <2>2, <3>1 DEF IndInv, OneEach
  <2> QED
    BY <2>5, <2>6
<1> QED
  BY <1>1, Invariance, PTL
=============================================================================
