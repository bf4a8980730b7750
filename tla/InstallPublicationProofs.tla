---------------------- MODULE InstallPublicationProofs ----------------------
(***************************************************************************)
(* InstallPublication for any plans, files, interruptions and edits: it    *)
(* implements PublicationPhases, what readers see is an installation, and  *)
(* what workers report is true.                                            *)
(***************************************************************************)
EXTENDS InstallPublication, TLAPS

(* The records are written in order, each only over the one before it.     *)
Evidence ==
    /\ d.reviewed # "none" => d.anchors = Anchors
    /\ d.tree.at # "none" => Readable
    /\ d.prepared.rec # "none" => d.tree.at # "none"
    /\ d.tree.at = "destination" => d.prepared.rec = "ok"
    /\ d.visible.rec # "none" => d.tree.at = "destination"
    /\ d.completion.rec # "none" => d.visible.rec = "ok"
    /\ d.public.installed => d.completion.rec = "ok"
    /\ d.granted # {} => d.completion.rec = "ok" /\ Finalized
    /\ route = "child" /\ d.anchors > 0 => d.setup
    /\ route = "lab" => d.lease = "none"

(* An intact record binds the one before it, and the seal binds the tree.  *)
Bindings ==
    /\ d.prepared.rec = "ok" =>
         /\ d.prepared.plan = d.reviewed
         /\ edits = 0 => d.prepared.seal.files = Payload(d.reviewed) /\ SealedStill
    /\ d.visible.rec = "ok" => d.visible.of = d.prepared
    /\ d.completion.rec = "ok" => d.completion = lab_selected_installed_record

(* What a request fixes for its worker, and what the reply keeps of it.    *)
Requested ==
    /\ w.kind = "apply" => w.plan \in Plan
    /\ w.kind \in {"snapshot_only", "observe", "forward", "verify"} => w.plan = "none"
    /\ w.kind = "recover" /\ route = "lab" => w.plan = "none"
    /\ w.mode = "first" => w.kind = "apply"
    /\ w.kind \in {"observe", "verify"} \/ w.reply \in {"stale", "recovery_required"} =>
         ~w.wrote
    /\ w.claim = "renamed" <=> w.renamed
    /\ w.pc # "idle" => w.reply = "none"
    /\ w.kind = "verify" => w.pc \in {"idle", "admit", "route"}
    /\ w.kind = "observe" => w.pc \in {"idle", "admit", "route", "recover"}

(* The request is for the stored plan.                                     *)
Bound == w.plan \in {"none", d.reviewed}

Opening == {"intent", "lease", "reserve", "move"}
Staging == {"enter", "anchors", "snapshot", "snapshot_flush", "candidate", "stage"}
Sealing == {"seal", "setup", "prepared", "prepared_flush"}
Showing == {"visible", "visible_flush"}
Completing == {"completion", "completion_flush", "closure", "finalize", "readback",
               "grant", "finish"}

(* Where the worker stands agrees with what the volume holds: up to the    *)
(* candidate,                                                              *)
StandsEarly ==
    /\ w.pc = "admit" => ~w.wrote
    /\ w.pc \in {"route", "enter"} /\ w.wrote =>
         w.kind = "apply" /\ d.anchors = 0 /\ d.setup /\ d.lease = w.plan
    /\ w.pc \in Opening => w.kind = "apply" /\ route = "child" /\ d.tree.at = "none"
    /\ w.pc \in {"reserve", "move"} => d.setup /\ d.lease = w.plan
    /\ w.pc \in Staging => w.mode = "first"
    /\ w.pc = "enter" => d.anchors = 0
    /\ w.pc \in {"anchors", "snapshot", "snapshot_flush"} /\ route = "child" =>
         d.lease = w.plan
    /\ w.pc = "anchors" => d.anchors < Anchors /\ (route = "child" => d.setup)
    /\ w.pc = "snapshot" => d.anchors = Anchors /\ d.reviewed = "none"
    /\ w.pc = "snapshot_flush" => d.anchors = Anchors /\ d.reviewed = "torn"
    /\ w.pc \in {"candidate", "stage"} => d.reviewed = w.plan
    /\ w.pc = "candidate" => d.tree.at = "none"
    /\ w.pc = "stage" => d.tree.at = "staging" /\ d.prepared.rec = "none"

(* and from the sealed candidate on.                                       *)
StandsLate ==
    /\ w.pc \notin Showing \cup Completing => w.claim = "none"
    /\ w.pc \in Showing => w.claim # "none"
    /\ w.pc = "recover" /\ (w.wrote \/ w.kind # "apply") => Bound
    /\ w.pc \in {"reenter", "commit"} \cup Sealing \cup Showing \cup Completing => Bound
    /\ w.pc = "reenter" => Readable /\ d.prepared.rec = "none"
    /\ w.pc \in Sealing => Readable /\ d.tree.at = "staging"
    /\ w.pc \in {"seal", "setup", "prepared"} => d.prepared.rec = "none"
    /\ w.pc = "prepared_flush" => d.prepared.rec = "torn"
    /\ w.pc \in Sealing \ {"seal"} /\ edits = 0 => d.tree.files = Payload(d.reviewed)
    /\ w.pc = "commit" => d.tree.at = "staging" /\ d.prepared.rec = "ok"
    /\ w.pc = "visible" => d.tree.at = "destination" /\ d.visible.rec = "none"
    /\ w.pc = "visible_flush" => d.visible.rec = "torn"
    /\ w.pc = "completion" => d.visible.rec = "ok"
    /\ w.pc = "completion_flush" => d.completion.rec = "torn"
    /\ w.pc \in {"closure", "finalize", "readback", "grant", "finish"} =>
         d.completion.rec = "ok"
    /\ w.pc = "finish" => Finalized /\ (route = "child" => d.granted = Object)

IndInv == TypeOK /\ Evidence /\ Bindings /\ Requested /\ StandsEarly /\ StandsLate
----------------------------------------------------------------------------
(* What an update of the volume or of the worker leaves alone.             *)

SameSite(u, v) == u.anchors = v.anchors /\ u.setup = v.setup /\ u.lease = v.lease
SamePapers(u, v) ==
    /\ u.reviewed = v.reviewed /\ u.prepared = v.prepared
    /\ u.visible = v.visible /\ u.completion = v.completion
SameGoods(u, v) == u.tree = v.tree /\ u.public = v.public /\ u.granted = v.granted

Remembers ==
    /\ w'.kind = w.kind /\ w'.plan = w.plan /\ w'.mode = w.mode
    /\ w'.claim = w.claim /\ w'.renamed = w.renamed /\ w'.reply = w.reply

(* The parts of a volume have their types.                                 *)
LEMMA Parts ==
    ASSUME NEW v \in Volume
    PROVE  /\ v.anchors \in 0 .. Anchors /\ v.reviewed \in Plan \cup {"none", "torn"}
           /\ v.prepared \in Prepared /\ v.visible \in Visible /\ v.completion \in Completion
           /\ v.tree \in Tree /\ v.public \in Public /\ v.granted \in SUBSET Object
           /\ v.setup \in BOOLEAN /\ v.intent \in SUBSET Plan /\ v.lease \in Plan \cup {"none"}
           /\ v.attempts \in [Plan -> 0 .. MaxAttempts]
           /\ v.last \in [Plan -> {"none", "open", "moving", "closed"}]
BY DEF Volume

(* Another anchor.                                                         *)
LEMMA SetAnchors ==
    ASSUME NEW v \in Volume, NEW x \in 0 .. Anchors, NEW u,
           u = [v EXCEPT !.anchors = x]
    PROVE  /\ u \in Volume /\ u.anchors = x /\ u.setup = v.setup /\ u.lease = v.lease
           /\ SamePapers(u, v) /\ SameGoods(u, v)
BY DEF Volume, SameSite, SamePapers, SameGoods

(* The setup root.                                                         *)
LEMMA SetSetup ==
    ASSUME NEW v \in Volume,  NEW u,
           u = [v EXCEPT !.setup = TRUE]
    PROVE  /\ u \in Volume /\ u.setup = TRUE /\ u.anchors = v.anchors /\ u.lease = v.lease
           /\ SamePapers(u, v) /\ SameGoods(u, v)
BY Zenon DEF Volume, SameSite, SamePapers, SameGoods

(* A lease.                                                                *)
LEMMA SetLease ==
    ASSUME NEW v \in Volume, NEW x \in Plan \cup {"none"}, NEW u,
           u = [v EXCEPT !.lease = x]
    PROVE  /\ u \in Volume /\ u.lease = x /\ u.anchors = v.anchors /\ u.setup = v.setup
           /\ SamePapers(u, v) /\ SameGoods(u, v)
BY DEF Volume, SameSite, SamePapers, SameGoods

(* The setup root and a lease.                                             *)
LEMMA SetSetupLease ==
    ASSUME NEW v \in Volume, NEW x \in Plan \cup {"none"}, NEW u,
           u = [v EXCEPT !.setup = TRUE, !.lease = x]
    PROVE  /\ u \in Volume /\ u.setup = TRUE /\ u.anchors = v.anchors /\ u.lease = x
           /\ SamePapers(u, v) /\ SameGoods(u, v)
BY Zenon DEF Volume, SameSite, SamePapers, SameGoods

(* The state of the last reservation.                                      *)
LEMMA SetLast ==
    ASSUME NEW v \in Volume, NEW p \in Plan, NEW x \in {"none", "open", "moving", "closed"},
           NEW u, u = [v EXCEPT !.last[p] = x]
    PROVE  /\ u \in Volume /\ SameSite(u, v) /\ SamePapers(u, v) /\ SameGoods(u, v)
<1> DEFINE t == [v.last EXCEPT ![p] = x]
<1>1. t \in [Plan -> {"none", "open", "moving", "closed"}]
  BY Parts
<1>2. u = [v EXCEPT !.last = t]
  OBVIOUS
<1> HIDE DEF t
<1> QED
  BY <1>1, <1>2 DEF Volume, SameSite, SamePapers, SameGoods

(* Another reservation.                                                    *)
LEMMA SetReserved ==
    ASSUME NEW v \in Volume, NEW p \in Plan, v.attempts[p] < MaxAttempts, NEW u,
           u = [v EXCEPT !.attempts[p] = @ + 1, !.last[p] = "open"]
    PROVE  /\ u \in Volume /\ SameSite(u, v) /\ SamePapers(u, v) /\ SameGoods(u, v)
<1> DEFINE t == [v.last EXCEPT ![p] = "open"]
           n == [v.attempts EXCEPT ![p] = @ + 1]
<1>1. t \in [Plan -> {"none", "open", "moving", "closed"}]
  BY Parts
<1>2. n \in [Plan -> 0 .. MaxAttempts]
  <2>1. v.attempts \in [Plan -> 0 .. MaxAttempts] /\ MaxAttempts \in Nat
    BY Parts, PublicationAssumption
  <2>2. v.attempts[p] + 1 \in 0 .. MaxAttempts
    BY <2>1
  <2> QED
    BY <2>1, <2>2
<1>3. u = [v EXCEPT !.attempts = n, !.last = t]
  BY Zenon
<1> HIDE DEF t, n
<1> QED
  BY <1>1, <1>2, <1>3 DEF Volume, SameSite, SamePapers, SameGoods

(* The empty records and tree are of their types.                          *)
LEMMA Nothing ==
    /\ NoTree \in Tree /\ NoTree.at = "none"
    /\ NoPrepared \in Prepared /\ NoPrepared.rec = "none"
    /\ NoVisible \in Visible /\ NoVisible.rec = "none"
    /\ NoCompletion \in Completion /\ NoCompletion.rec = "none"
<1>1. Blank \in [File -> Content]
  BY DEF Blank, Content
<1>2. NoPrepared \in Prepared /\ NoPrepared.rec = "none"
  BY <1>1 DEF NoPrepared, Prepared, Sealed, Rec
<1>3. NoVisible \in Visible /\ NoVisible.rec = "none"
  BY <1>2 DEF NoVisible, Visible, Rec
<1>4. NoCompletion \in Completion /\ NoCompletion.rec = "none"
  BY <1>2, <1>3 DEF NoCompletion, Completion, Rec
<1>5. NoTree \in Tree /\ NoTree.at = "none"
  BY <1>1 DEF NoTree, Tree
<1> QED
  BY <1>2, <1>3, <1>4, <1>5

(* A volume whose publication is put aside.                                *)
Aside(v, p) ==
    [v EXCEPT !.anchors = 0, !.reviewed = "none", !.tree = NoTree,
              !.prepared = NoPrepared, !.visible = NoVisible,
              !.completion = NoCompletion, !.last[p] = "closed"]

(* A publication that is put aside.                                        *)
LEMMA SetAside ==
    ASSUME NEW v \in Volume, NEW p \in Plan, NEW u, u = Aside(v, p)
    PROVE  /\ u \in Volume /\ u.anchors = 0 /\ u.reviewed = "none" /\ u.tree = NoTree
           /\ u.prepared = NoPrepared /\ u.visible = NoVisible
           /\ u.completion = NoCompletion /\ u.public = v.public
           /\ u.granted = v.granted /\ u.setup = v.setup /\ u.lease = v.lease
<1> DEFINE t == [v.last EXCEPT ![p] = "closed"]
<1>1. t \in [Plan -> {"none", "open", "moving", "closed"}]
  BY Parts
<1>2. u = [v EXCEPT !.anchors = 0, !.reviewed = "none", !.tree = NoTree,
                    !.prepared = NoPrepared, !.visible = NoVisible,
                    !.completion = NoCompletion, !.last = t]
  BY Zenon DEF Aside
<1>3. 0 \in 0 .. Anchors
  BY DEF Anchors
<1> HIDE DEF t
<1>4. /\ u.anchors = 0 /\ u.reviewed = "none" /\ u.tree = NoTree
      /\ u.prepared = NoPrepared /\ u.visible = NoVisible /\ u.completion = NoCompletion
      /\ u.last = t
  BY <1>2, Zenon DEF Volume
<1>5. /\ u.public = v.public /\ u.granted = v.granted /\ u.setup = v.setup
      /\ u.lease = v.lease
  BY <1>2, Zenon DEF Volume
<1>6. u \in Volume
  <2> DEFINE a == [v EXCEPT !.anchors = 0, !.reviewed = "none", !.tree = NoTree]
             b == [a EXCEPT !.prepared = NoPrepared, !.visible = NoVisible]
             c == [b EXCEPT !.completion = NoCompletion, !.last = t]
  <2>1. a \in Volume
    BY <1>3, Nothing DEF Volume
  <2> HIDE DEF a
  <2>2. b \in Volume
    BY <2>1, Nothing DEF Volume
  <2> HIDE DEF b
  <2>3. c \in Volume
    BY <1>1, <2>2, Nothing DEF Volume
  <2>4. u = c
    BY <1>2, Zenon DEF a, b, c
  <2> QED
    BY <2>3, <2>4
<1> QED
  BY <1>4, <1>5, <1>6

(* An intent.                                                              *)
LEMMA SetIntent ==
    ASSUME NEW v \in Volume, NEW x \in SUBSET Plan, NEW u,
           u = [v EXCEPT !.intent = x]
    PROVE  /\ u \in Volume /\ SameSite(u, v) /\ SamePapers(u, v)
           /\ SameGoods(u, v)
BY DEF Volume, SameSite, SamePapers, SameGoods

(* The snapshot.                                                           *)
LEMMA SetReviewed ==
    ASSUME NEW v \in Volume, NEW x \in Plan \cup {"none", "torn"}, NEW u,
           u = [v EXCEPT !.reviewed = x]
    PROVE  /\ u \in Volume /\ u.reviewed = x /\ SameSite(u, v)
           /\ u.prepared = v.prepared /\ u.visible = v.visible
           /\ u.completion = v.completion /\ SameGoods(u, v)
BY DEF Volume, SameSite, SamePapers, SameGoods

(* A grant.                                                                *)
LEMMA SetGranted ==
    ASSUME NEW v \in Volume, NEW x \in SUBSET Object, NEW u,
           u = [v EXCEPT !.granted = x]
    PROVE  /\ u \in Volume /\ u.granted = x /\ SameSite(u, v)
           /\ SamePapers(u, v) /\ u.tree = v.tree /\ u.public = v.public
BY DEF Volume, SameSite, SamePapers, SameGoods

(* A whole prepared record.                                                *)
LEMMA SetPrepared ==
    ASSUME NEW v \in Volume, NEW x \in Prepared, NEW u,
           u = [v EXCEPT !.prepared = x]
    PROVE  /\ u \in Volume /\ u.prepared = x /\ SameSite(u, v)
           /\ u.reviewed = v.reviewed /\ u.visible = v.visible
           /\ u.completion = v.completion /\ SameGoods(u, v)
BY DEF Volume, SameSite, SamePapers, SameGoods

(* A prepared record that is begun.                                        *)
LEMMA TearPrepared ==
    ASSUME NEW v \in Volume,  NEW u,
           u = [v EXCEPT !.prepared.rec = "torn"]
    PROVE  /\ u \in Volume /\ u.prepared.rec = "torn" /\ SameSite(u, v)
           /\ u.reviewed = v.reviewed /\ u.visible = v.visible
           /\ u.completion = v.completion /\ SameGoods(u, v)
<1>1. v.prepared \in Prepared
  BY Parts
<1> DEFINE t == [v.prepared EXCEPT !.rec = "torn"]
<1>2. t \in Prepared /\ t.rec = "torn"
  BY <1>1 DEF Prepared, Rec
<1>3. u = [v EXCEPT !.prepared = t]
  OBVIOUS
<1> HIDE DEF t
<1> QED
  BY <1>2, <1>3 DEF Volume, SameSite, SamePapers, SameGoods

(* A whole visible record.                                                 *)
LEMMA SetVisible ==
    ASSUME NEW v \in Volume, NEW x \in Visible, NEW u,
           u = [v EXCEPT !.visible = x]
    PROVE  /\ u \in Volume /\ u.visible = x /\ SameSite(u, v)
           /\ u.reviewed = v.reviewed /\ u.prepared = v.prepared
           /\ u.completion = v.completion /\ SameGoods(u, v)
BY DEF Volume, SameSite, SamePapers, SameGoods

(* A visible record that is begun.                                         *)
LEMMA TearVisible ==
    ASSUME NEW v \in Volume,  NEW u,
           u = [v EXCEPT !.visible.rec = "torn"]
    PROVE  /\ u \in Volume /\ u.visible.rec = "torn" /\ SameSite(u, v)
           /\ u.reviewed = v.reviewed /\ u.prepared = v.prepared
           /\ u.completion = v.completion /\ SameGoods(u, v)
<1>1. v.visible \in Visible
  BY Parts
<1> DEFINE t == [v.visible EXCEPT !.rec = "torn"]
<1>2. t \in Visible /\ t.rec = "torn"
  BY <1>1 DEF Visible, Rec
<1>3. u = [v EXCEPT !.visible = t]
  OBVIOUS
<1> HIDE DEF t
<1> QED
  BY <1>2, <1>3 DEF Volume, SameSite, SamePapers, SameGoods

(* A whole completion record.                                              *)
LEMMA SetCompletion ==
    ASSUME NEW v \in Volume, NEW x \in Completion, NEW u,
           u = [v EXCEPT !.completion = x]
    PROVE  /\ u \in Volume /\ u.completion = x /\ SameSite(u, v)
           /\ u.reviewed = v.reviewed /\ u.prepared = v.prepared
           /\ u.visible = v.visible /\ SameGoods(u, v)
BY DEF Volume, SameSite, SamePapers, SameGoods

(* A completion record that is begun.                                      *)
LEMMA TearCompletion ==
    ASSUME NEW v \in Volume,  NEW u,
           u = [v EXCEPT !.completion.rec = "torn"]
    PROVE  /\ u \in Volume /\ u.completion.rec = "torn" /\ SameSite(u, v)
           /\ u.reviewed = v.reviewed /\ u.prepared = v.prepared
           /\ u.visible = v.visible /\ SameGoods(u, v)
<1>1. v.completion \in Completion
  BY Parts
<1> DEFINE t == [v.completion EXCEPT !.rec = "torn"]
<1>2. t \in Completion /\ t.rec = "torn"
  BY <1>1 DEF Completion, Rec
<1>3. u = [v EXCEPT !.completion = t]
  OBVIOUS
<1> HIDE DEF t
<1> QED
  BY <1>2, <1>3 DEF Volume, SameSite, SamePapers, SameGoods

(* The tree moves.                                                         *)
LEMMA SetPlace ==
    ASSUME NEW v \in Volume, NEW x \in {"none", "staging", "destination"}, NEW u,
           u = [v EXCEPT !.tree.at = x]
    PROVE  /\ u \in Volume /\ u.tree.at = x /\ u.tree.id = v.tree.id
           /\ u.tree.files = v.tree.files /\ SameSite(u, v) /\ SamePapers(u, v)
           /\ u.public = v.public /\ u.granted = v.granted
<1>1. v.tree \in Tree
  BY Parts
<1> DEFINE t == [v.tree EXCEPT !.at = x]
<1>2. t \in Tree /\ t.at = x /\ t.id = v.tree.id /\ t.files = v.tree.files
  BY <1>1 DEF Tree
<1>3. u = [v EXCEPT !.tree = t]
  OBVIOUS
<1> HIDE DEF t
<1> QED
  BY <1>2, <1>3 DEF Volume, SameSite, SamePapers, SameGoods

(* A copy takes the place of the tree.                                     *)
LEMMA SetIdentity ==
    ASSUME NEW v \in Volume,  NEW u,
           u = [v EXCEPT !.tree.id = 1]
    PROVE  /\ u \in Volume /\ u.tree.at = v.tree.at /\ SameSite(u, v)
           /\ SamePapers(u, v) /\ u.public = v.public /\ u.granted = v.granted
<1>1. v.tree \in Tree
  BY Parts
<1> DEFINE t == [v.tree EXCEPT !.id = 1]
<1>2. t \in Tree /\ t.at = v.tree.at
  BY <1>1 DEF Tree
<1>3. u = [v EXCEPT !.tree = t]
  OBVIOUS
<1> HIDE DEF t
<1> QED
  BY <1>2, <1>3 DEF Volume, SameSite, SamePapers, SameGoods

(* The files of the tree.                                                  *)
LEMMA SetFiles ==
    ASSUME NEW v \in Volume, NEW x \in [File -> Content], NEW u,
           u = [v EXCEPT !.tree.files = x]
    PROVE  /\ u \in Volume /\ u.tree.at = v.tree.at /\ SameSite(u, v)
           /\ SamePapers(u, v) /\ u.public = v.public /\ u.granted = v.granted
<1>1. v.tree \in Tree
  BY Parts
<1> DEFINE t == [v.tree EXCEPT !.files = x]
<1>2. t \in Tree /\ t.at = v.tree.at
  BY <1>1 DEF Tree
<1>3. u = [v EXCEPT !.tree = t]
  OBVIOUS
<1> HIDE DEF t
<1> QED
  BY <1>2, <1>3 DEF Volume, SameSite, SamePapers, SameGoods

(* A file of the tree.                                                     *)
LEMMA SetFile ==
    ASSUME NEW v \in Volume, NEW f \in File, NEW x \in Content, NEW u,
           u = [v EXCEPT !.tree.files[f] = x]
    PROVE  /\ u \in Volume /\ u.tree.at = v.tree.at /\ SameSite(u, v)
           /\ SamePapers(u, v) /\ u.public = v.public /\ u.granted = v.granted
<1>1. v.tree \in Tree
  BY Parts
<1> DEFINE t == [v.tree EXCEPT !.files[f] = x]
<1>2. t \in Tree /\ t.at = v.tree.at
  BY <1>1 DEF Tree
<1>3. u = [v EXCEPT !.tree = t]
  OBVIOUS
<1> HIDE DEF t
<1> QED
  BY <1>2, <1>3 DEF Volume, SameSite, SamePapers, SameGoods

(* The public chain.                                                       *)
LEMMA SetChain ==
    ASSUME NEW v \in Volume, NEW x \in 0 .. 3, NEW u,
           u = [v EXCEPT !.public.chain = x]
    PROVE  /\ u \in Volume /\ u.public.chain = x
           /\ u.public.ownership = v.public.ownership
           /\ u.public.installed = v.public.installed /\ SameSite(u, v)
           /\ SamePapers(u, v) /\ u.tree = v.tree /\ u.granted = v.granted
<1>1. v.public \in Public
  BY Parts
<1> DEFINE t == [v.public EXCEPT !.chain = x]
<1>2. t \in Public /\ t.chain = x /\ t.ownership = v.public.ownership /\ t.installed = v.public.installed
  BY <1>1 DEF Public
<1>3. u = [v EXCEPT !.public = t]
  OBVIOUS
<1> HIDE DEF t
<1> QED
  BY <1>2, <1>3 DEF Volume, SameSite, SamePapers, SameGoods

(* The public ownership.                                                   *)
LEMMA SetOwnership ==
    ASSUME NEW v \in Volume,  NEW u,
           u = [v EXCEPT !.public.ownership = TRUE]
    PROVE  /\ u \in Volume /\ u.public.ownership = TRUE
           /\ u.public.chain = v.public.chain
           /\ u.public.installed = v.public.installed /\ SameSite(u, v)
           /\ SamePapers(u, v) /\ u.tree = v.tree /\ u.granted = v.granted
<1>1. v.public \in Public
  BY Parts
<1> DEFINE t == [v.public EXCEPT !.ownership = TRUE]
<1>2. t \in Public /\ t.ownership = TRUE /\ t.chain = v.public.chain /\ t.installed = v.public.installed
  BY <1>1, Zenon DEF Public
<1>3. u = [v EXCEPT !.public = t]
  OBVIOUS
<1> HIDE DEF t
<1> QED
  BY <1>2, <1>3, Zenon DEF Volume, SameSite, SamePapers, SameGoods

(* The public installed.                                                   *)
LEMMA SetInstalled ==
    ASSUME NEW v \in Volume,  NEW u,
           u = [v EXCEPT !.public.installed = TRUE]
    PROVE  /\ u \in Volume /\ u.public.installed = TRUE
           /\ u.public.chain = v.public.chain
           /\ u.public.ownership = v.public.ownership /\ SameSite(u, v)
           /\ SamePapers(u, v) /\ u.tree = v.tree /\ u.granted = v.granted
<1>1. v.public \in Public
  BY Parts
<1> DEFINE t == [v.public EXCEPT !.installed = TRUE]
<1>2. t \in Public /\ t.installed = TRUE /\ t.chain = v.public.chain /\ t.ownership = v.public.ownership
  BY <1>1, Zenon DEF Public
<1>3. u = [v EXCEPT !.public = t]
  OBVIOUS
<1> HIDE DEF t
<1> QED
  BY <1>2, <1>3, Zenon DEF Volume, SameSite, SamePapers, SameGoods

(* A worker that moves on.                                                 *)
LEMMA Moves ==
    ASSUME w \in Employed, NEW l \in Control, w' = [w EXCEPT !.pc = l]
    PROVE  w' \in Employed /\ w'.pc = l /\ Remembers /\ w'.wrote = w.wrote
BY DEF Employed, Remembers

(* A worker that moves on after a write.                                   *)
LEMMA MovesWriting ==
    ASSUME w \in Employed, NEW l \in Control, w' = [w EXCEPT !.pc = l, !.wrote = TRUE]
    PROVE  w' \in Employed /\ w'.pc = l /\ Remembers /\ w'.wrote = TRUE
BY Zenon DEF Employed, Remembers

(* A worker that ends.                                                     *)
LEMMA Stops ==
    ASSUME w \in Employed, NEW r \in Reply, Done(r)
    PROVE  /\ w' \in Employed /\ w'.pc = "idle" /\ w'.reply = r
           /\ w'.kind = w.kind /\ w'.plan = w.plan /\ w'.wrote = w.wrote
           /\ w'.mode = "none" /\ w'.claim = "none" /\ w'.renamed = FALSE
BY Zenon DEF Employed, Done, NoWorker, Control

----------------------------------------------------------------------------
(* The kinds of step.                                                      *)

(* What is on the volume stays as good as it was.                          *)
LEMMA Stays ==
    ASSUME Evidence, Bindings, UNCHANGED <<d, route, edits>>
    PROVE  Evidence' /\ Bindings'
BY DEF Evidence, Bindings, Readable, Finalized, SealedStill, lab_selected_installed_record

(* A worker that stands still, on a volume that stays the same.            *)
LEMMA StandsStill ==
    ASSUME Requested, StandsEarly, StandsLate, UNCHANGED <<d, w, route, edits>>
    PROVE  Requested' /\ StandsEarly' /\ StandsLate'
<1>1. Requested' /\ StandsEarly'
  BY SMTT(40) DEF Requested, StandsEarly
<1>2. Bound' = Bound /\ Readable' = Readable /\ Finalized' = Finalized
  BY DEF Bound, Readable, Finalized
<1>3. StandsLate'
  BY <1>2, SMTT(60) DEF StandsLate
<1> QED
  BY <1>1, <1>3

(* Setup root, lease and intent are no evidence.                           *)
LEMMA Housekeeping ==
    ASSUME Evidence, Bindings, SamePapers(d', d), SameGoods(d', d), d'.anchors = d.anchors,
           d'.setup = d.setup \/ d'.setup = TRUE, UNCHANGED <<route, edits>>,
           d'.lease = d.lease \/ d'.lease = "none" \/ route # "lab"
    PROVE  Evidence' /\ Bindings'
<1>1. Evidence'
  BY DEF Evidence, Readable, Finalized, SamePapers, SameGoods
<1>2. Bindings'
  BY DEF Bindings, SealedStill, lab_selected_installed_record, SamePapers, SameGoods
<1> QED
  BY <1>1, <1>2

(* A worker that ends leaves no place to stand.                            *)
LEMMA Ending ==
    ASSUME TypeOK, Requested, NEW r \in Reply, Done(r), route' = route,
           r \in {"stale", "recovery_required"} => ~w.wrote
    PROVE  w' \in Employed /\ Requested' /\ StandsEarly' /\ StandsLate'
<1>1. /\ w' \in Employed /\ w'.pc = "idle" /\ w'.reply = r
      /\ w'.kind = w.kind /\ w'.plan = w.plan /\ w'.wrote = w.wrote
      /\ w'.mode = "none" /\ w'.claim = "none" /\ w'.renamed = FALSE
  BY Stops, Zenon DEF TypeOK
<1>2. Requested'
  BY <1>1 DEF Requested
<1>3. StandsEarly' /\ StandsLate'
  BY <1>1 DEF StandsEarly, StandsLate, Opening, Staging, Sealing, Showing, Completing
<1> QED
  BY <1>1, <1>2, <1>3

(* A worker that ends without a write.                                     *)
LEMMA Ends ==
    ASSUME IndInv, NEW r \in Reply, End(r), r \in {"stale", "recovery_required"} => ~w.wrote
    PROVE  IndInv'
<1>1. Done(r) /\ UNCHANGED <<d, route, source, markers, faults, edits>>
  BY DEF End, env
<1>2. w' \in Employed /\ Requested' /\ StandsEarly' /\ StandsLate'
  BY <1>1, Ending DEF IndInv
<1>3. Evidence' /\ Bindings'
  BY <1>1, Stays DEF IndInv
<1>4. TypeOK'
  BY <1>1, <1>2 DEF IndInv, TypeOK
<1> QED
  BY <1>2, <1>3, <1>4 DEF IndInv

(* A worker that fails.                                                    *)
LEMMA Fails == ASSUME IndInv, End("failed") PROVE IndInv'
BY Ends DEF Reply

(* A worker that moves on without a write.                                 *)
LEMMA Goes ==
    ASSUME IndInv, NEW l \in Control, Goto(l)
    PROVE  /\ w'.pc = l /\ Remembers /\ w'.wrote = w.wrote
           /\ UNCHANGED <<d, route, edits>> /\ TypeOK' /\ Evidence' /\ Bindings'
<1>1. w' = [w EXCEPT !.pc = l] /\ UNCHANGED <<d, route, source, markers, faults, edits>>
  BY DEF Goto, env
<1>2. w' \in Employed /\ w'.pc = l /\ Remembers /\ w'.wrote = w.wrote
  BY <1>1, Moves DEF IndInv, TypeOK
<1>3. Evidence' /\ Bindings'
  BY <1>1, Stays DEF IndInv
<1>4. TypeOK'
  BY <1>1, <1>2 DEF IndInv, TypeOK
<1> QED
  BY <1>1, <1>2, <1>3, <1>4

(* A worker that writes.                                                   *)
LEMMA Puts ==
    ASSUME IndInv, NEW l \in Control, NEW v \in Volume, Write(l, v)
    PROVE  /\ d' = v /\ w'.pc = l /\ Remembers /\ w'.wrote = TRUE
           /\ UNCHANGED <<route, edits>> /\ TypeOK'
<1>1. /\ d' = v /\ w' = [w EXCEPT !.pc = l, !.wrote = TRUE]
      /\ UNCHANGED <<route, source, markers, faults, edits>>
  BY DEF Write, env
<1>2. w' \in Employed /\ w'.pc = l /\ Remembers /\ w'.wrote = TRUE
  BY <1>1, MovesWriting, Zenon DEF IndInv, TypeOK
<1>3. TypeOK'
  BY <1>1, <1>2 DEF IndInv, TypeOK
<1> QED
  BY <1>1, <1>2, <1>3

(* What a worker remembers stays what was requested.                       *)
LEMMA StillRequested ==
    ASSUME Requested, Remembers, route' = route, w.pc # "idle",
           \/ w.kind \notin {"observe", "verify"}
           \/ w'.wrote = w.wrote /\ w'.pc \in {"admit", "route"}
    PROVE  Requested'
BY DEF Requested, Remembers

(* Whoever only observes or verifies goes no further than the recovery.    *)
LEMMA Engaged ==
    ASSUME IndInv, w.pc \notin {"idle", "admit", "route", "recover"}
    PROVE  w.kind \notin {"observe", "verify"}
BY DEF IndInv, Requested

(* An engaged worker that moves on without a write.                        *)
LEMMA GoesOn ==
    ASSUME IndInv, NEW l \in Control, Goto(l),
           w.pc # "idle", w.kind \notin {"observe", "verify"}
    PROVE  /\ w'.pc = l /\ Remembers /\ w'.wrote = w.wrote /\ UNCHANGED <<d, route, edits>>
           /\ TypeOK' /\ Evidence' /\ Bindings' /\ Requested'
BY Goes, StillRequested DEF IndInv

(* An engaged worker that writes.                                          *)
LEMMA PutsOn ==
    ASSUME IndInv, NEW l \in Control, NEW v \in Volume, Write(l, v),
           w.pc # "idle", w.kind \notin {"observe", "verify"}
    PROVE  /\ d' = v /\ w'.pc = l /\ Remembers /\ UNCHANGED <<route, edits>>
           /\ TypeOK' /\ Requested'
BY Puts, StillRequested, Zenon DEF IndInv

----------------------------------------------------------------------------
(* Each step keeps the invariant.                                          *)

(* The initial state.                                                      *)
LEMMA Initially == Init => IndInv
<1> SUFFICES ASSUME Init PROVE IndInv
  OBVIOUS
<1>5. d \in Volume
  BY Nothing, PublicationAssumption DEF Init, Volume, Public, Anchors
<1>6. w \in Employed
  BY DEF Init, NoWorker, Employed, Control, Reply
<1>7. TypeOK
  BY <1>5, <1>6, PublicationAssumption DEF Init, TypeOK
<1>8. /\ d.reviewed = "none" /\ d.tree.at = "none" /\ d.anchors = 0 /\ d.granted = {}
      /\ d.prepared = NoPrepared /\ d.visible = NoVisible /\ d.completion = NoCompletion
      /\ d.public.installed = FALSE /\ d.lease = "none"
  BY DEF Init, NoTree
<1>9. d.prepared.rec = "none" /\ d.visible.rec = "none" /\ d.completion.rec = "none"
  BY <1>8 DEF NoPrepared, NoVisible, NoCompletion
<1>10. Evidence /\ Bindings
  BY <1>8, <1>9 DEF Evidence, Bindings
<1>11. Requested /\ StandsEarly /\ StandsLate
  BY DEF Init, NoWorker, Requested, StandsEarly, StandsLate, Opening, Staging, Sealing, Showing, Completing
<1> QED
  BY <1>7, <1>10, <1>11 DEF IndInv

(* A new request.                                                          *)
LEMMA RequestKeeps == ASSUME IndInv, Request PROVE IndInv'
<1> PICK k \in Kind, p \in Plan \cup {"none"}, g \in Gate \cup {"none"} : ScopedExecution(k, p, g)
  BY DEF Request
<1>1. w' = [NoWorker EXCEPT !.pc = "admit", !.kind = k, !.plan = p, !.gate = g]
  BY DEF ScopedExecution
<1>2. UNCHANGED <<d, route, source, markers, faults, edits>>
  BY DEF ScopedExecution, env
<1>3. /\ w' \in Employed /\ w'.pc = "admit" /\ w'.kind = k /\ w'.plan = p
      /\ w'.mode = "none" /\ w'.claim = "none" /\ w'.renamed = FALSE
      /\ w'.wrote = FALSE /\ w'.reply = "none"
  BY <1>1, Zenon DEF NoWorker, Employed, Control, Reply
<1>4. TypeOK'
  BY <1>2, <1>3 DEF IndInv, TypeOK
<1>5. Evidence' /\ Bindings'
  BY <1>2, Stays DEF IndInv
<1>6. /\ k = "apply" => p \in Plan
      /\ k \in {"snapshot_only", "observe", "forward", "verify"} => p = "none"
      /\ k = "recover" /\ route = "lab" => p = "none"
  BY DEF ScopedExecution
<1>7. Requested'
  BY <1>2, <1>3, <1>6 DEF Requested
<1>8. StandsEarly' /\ StandsLate'
  BY <1>3 DEF StandsEarly, StandsLate, Opening, Staging, Sealing, Showing, Completing
<1> QED
  BY <1>4, <1>5, <1>7, <1>8 DEF IndInv

(* Admission: a write happens only before anything is published.           *)
LEMMA AdmissionKeeps ==
    ASSUME IndInv, operation_context_apply \/ operation_context_recover \/ admit_unregistered
    PROVE  IndInv'
<1>1. w.pc = "admit" /\ ~w.wrote
  BY DEF operation_context_apply, operation_context_recover, admit_unregistered,
         IndInv, StandsEarly
<1>2. CASE Goto("route")
  <2>1. /\ w'.pc = "route" /\ Remembers /\ w'.wrote = w.wrote
        /\ UNCHANGED <<d, route, edits>> /\ TypeOK' /\ Evidence' /\ Bindings'
    BY <1>2, Goes DEF Control
  <2>2. Requested'
    BY <1>1, <2>1, StillRequested DEF IndInv
  <2>3. StandsEarly'
    BY <1>1, <2>1 DEF StandsEarly, Opening, Staging
  <2>4. StandsLate'
    BY <1>1, <2>1 DEF IndInv, StandsLate, Opening, Staging, Sealing, Showing, Completing, Remembers
  <2> QED
    BY <2>1, <2>2, <2>3, <2>4 DEF IndInv
<1>3. CASE End("stale") \/ End("failed")
  BY <1>1, <1>3, Ends DEF Reply
<1>4. CASE /\ w.kind = "apply" /\ route = "child" /\ bootstrap_resume_required
           /\ Goto("intent")
  <2>1. d.tree.at = "none" /\ w.claim = "none"
    <3>1. d.tree.at # "destination"
      BY <1>4 DEF bootstrap_resume_required, IndInv, Evidence
    <3>2. d.tree.at \in {"none", "staging", "destination"}
      BY Parts DEF IndInv, TypeOK, Tree
    <3> QED
      BY <1>1, <1>4, <3>1, <3>2
         DEF bootstrap_resume_required, IndInv, StandsLate, Showing, Completing
  <2>2. /\ w'.pc = "intent" /\ Remembers /\ w'.wrote = w.wrote
        /\ UNCHANGED <<d, route, edits>> /\ TypeOK' /\ Evidence' /\ Bindings'
    BY <1>4, Goes DEF Control
  <2>3. Requested'
    BY <1>1, <1>4, <2>2, StillRequested DEF IndInv
  <2>4. StandsEarly'
    BY <1>4, <2>1, <2>2 DEF StandsEarly, Opening, Staging, Remembers
  <2>5. StandsLate'
    BY <2>1, <2>2 DEF StandsLate, Sealing, Showing, Completing, Remembers
  <2> QED
    BY <2>2, <2>3, <2>4, <2>5 DEF IndInv
<1> QED
  BY <1>2, <1>3, <1>4 DEF operation_context_apply, operation_context_recover, admit_unregistered

(* Whoever opens an operation, for the first time or again, stages later.  *)
LEMMA OpeningIs ==
    ASSUME IndInv, w.pc \in Opening
    PROVE  /\ d \in Volume /\ w.kind = "apply" /\ w.plan \in Plan /\ route = "child"
           /\ d.tree.at = "none" /\ w.claim = "none"
           /\ d.prepared.rec = "none" /\ d.visible.rec = "none"
           /\ d.completion.rec = "none" /\ ~d.public.installed /\ d.granted = {}
<1>1. /\ d \in Volume /\ w.kind = "apply" /\ w.plan \in Plan /\ route = "child"
      /\ d.tree.at = "none"
  BY DEF IndInv, TypeOK, StandsEarly, Requested
<1>2. w.claim = "none"
  BY DEF IndInv, StandsLate, Opening, Showing, Completing
<1>3. d.prepared.rec = "none" /\ d.visible.rec = "none"
  BY <1>1 DEF IndInv, Evidence
<1>4. d.completion.rec = "none"
  BY <1>3 DEF IndInv, Evidence
<1>5. ~d.public.installed /\ d.granted = {}
  BY <1>4 DEF IndInv, Evidence
<1> QED
  BY <1>1, <1>2, <1>3, <1>4, <1>5

(* Intent and lease precede the first anchor.                              *)
LEMMA LeaseKeeps ==
    ASSUME IndInv, prepare_intent \/ start_installation_lease
    PROVE  IndInv'
<1>1. w.pc \in {"intent", "lease"} /\ w.pc \in Opening
  BY DEF prepare_intent, start_installation_lease, Opening
<1>2. /\ d \in Volume /\ w.kind = "apply" /\ w.plan \in Plan /\ route = "child"
      /\ d.tree.at = "none" /\ w.claim = "none"
  BY <1>1, OpeningIs
<1>3. CASE End("failed")
  BY <1>3, Fails
<1>4. CASE w.pc = "intent" /\ Write("lease", [d EXCEPT !.intent = @ \cup {w.plan}])
  <2> DEFINE v == [d EXCEPT !.intent = @ \cup {w.plan}]
  <2>1. d.intent \cup {w.plan} \in SUBSET Plan
    BY <1>2, Parts
  <2>2. /\ v \in Volume /\ SameSite(v, d) /\ SamePapers(v, d) /\ SameGoods(v, d)
    BY <1>2, <2>1, SetIntent
  <2> HIDE DEF v
  <2>3. /\ d' = v /\ w'.pc = "lease" /\ Remembers /\ UNCHANGED <<route, edits>>
        /\ TypeOK' /\ Requested'
    BY <1>1, <1>2, <1>4, <2>2, PutsOn DEF Control, v
  <2>4. Evidence' /\ Bindings'
    BY <2>2, <2>3, Housekeeping DEF IndInv, SameSite
  <2>5. StandsEarly'
    BY <1>2, <2>2, <2>3 DEF StandsEarly, Opening, Staging, Remembers, SameGoods
  <2>6. StandsLate'
    BY <1>2, <2>3 DEF StandsLate, Sealing, Showing, Completing, Remembers
  <2> QED
    BY <2>3, <2>4, <2>5, <2>6 DEF IndInv
<1>5. CASE Write("reserve", [d EXCEPT !.setup = TRUE, !.lease = w.plan])
  <2> DEFINE v == [d EXCEPT !.setup = TRUE, !.lease = w.plan]
  <2>1. /\ v \in Volume /\ v.setup = TRUE /\ v.anchors = d.anchors /\ v.lease = w.plan
        /\ SamePapers(v, d) /\ SameGoods(v, d)
    BY <1>2, SetSetupLease, Zenon
  <2> HIDE DEF v
  <2>2. /\ d' = v /\ w'.pc = "reserve" /\ Remembers /\ UNCHANGED <<route, edits>>
        /\ TypeOK' /\ Requested'
    BY <1>1, <1>2, <1>5, <2>1, PutsOn DEF Control, v
  <2>3. Evidence' /\ Bindings'
    BY <1>2, <2>1, <2>2, Housekeeping DEF IndInv
  <2>4. StandsEarly'
    BY <1>2, <2>1, <2>2 DEF StandsEarly, Opening, Staging, Remembers, SameGoods
  <2>5. StandsLate'
    BY <1>2, <2>2 DEF StandsLate, Sealing, Showing, Completing, Remembers
  <2> QED
    BY <2>2, <2>3, <2>4, <2>5 DEF IndInv
<1>6. CASE d' = [d EXCEPT !.setup = TRUE] /\ Done("failed") /\ UNCHANGED env
  <2>1. /\ d' \in Volume /\ d'.setup = TRUE /\ d'.anchors = d.anchors /\ d'.lease = d.lease
        /\ SamePapers(d', d) /\ SameGoods(d', d)
    BY <1>2, <1>6, SetSetup, Zenon
  <2>2. UNCHANGED <<route, source, markers, faults, edits>>
    BY <1>6 DEF env
  <2>3. w' \in Employed /\ Requested' /\ StandsEarly' /\ StandsLate'
    BY <1>6, <2>2, Ending DEF IndInv, Reply
  <2>4. Evidence' /\ Bindings'
    BY <2>1, <2>2, Housekeeping DEF IndInv
  <2>5. TypeOK'
    BY <2>1, <2>2, <2>3 DEF IndInv, TypeOK
  <2> QED
    BY <2>3, <2>4, <2>5 DEF IndInv
<1> QED
  BY <1>3, <1>4, <1>5, <1>6 DEF prepare_intent, start_installation_lease

(* Reservations, and what an earlier one left.                             *)
LEMMA ReservationKeeps ==
    ASSUME IndInv,
           \/ preserve_publication \/ move_publication
           \/ record_absence \/ reserve_publication
    PROVE  IndInv'
<1>1. w.pc \in {"reserve", "move"} /\ w.pc \in Opening
  BY DEF preserve_publication, move_publication, record_absence, reserve_publication, Opening
<1>2. /\ d \in Volume /\ w.kind = "apply" /\ w.plan \in Plan /\ route = "child"
      /\ d.tree.at = "none" /\ w.claim = "none"
      /\ d.prepared.rec = "none" /\ d.visible.rec = "none"
      /\ d.completion.rec = "none" /\ ~d.public.installed /\ d.granted = {}
  BY <1>1, OpeningIs
<1>3. d.setup /\ d.lease = w.plan
  BY <1>1 DEF IndInv, StandsEarly
<1>4. CASE End("failed")
  BY <1>4, Fails
<1>5. ASSUME NEW l \in {"move", "reserve"}, NEW v \in Volume, Write(l, v),
             SameSite(v, d), SamePapers(v, d), SameGoods(v, d)
      PROVE  IndInv'
  <2>1. /\ d' = v /\ w'.pc = l /\ Remembers /\ UNCHANGED <<route, edits>>
        /\ TypeOK' /\ Requested'
    BY <1>1, <1>2, <1>5, PutsOn DEF Control
  <2>2. Evidence' /\ Bindings'
    BY <1>5, <2>1, Housekeeping DEF IndInv, SameSite
  <2>3. StandsEarly'
    BY <1>2, <1>3, <1>5, <2>1 DEF StandsEarly, Opening, Staging, Remembers, SameSite, SameGoods
  <2>4. StandsLate'
    BY <1>2, <1>5, <2>1 DEF StandsLate, Sealing, Showing, Completing, Remembers
  <2> QED
    BY <2>1, <2>2, <2>3, <2>4 DEF IndInv
<1>6. ASSUME NEW l \in {"move", "reserve"}, NEW x \in {"moving", "closed"},
             Write(l, [d EXCEPT !.last[w.plan] = x])
      PROVE  IndInv'
  <2> DEFINE v == [d EXCEPT !.last[w.plan] = x]
  <2>1. v \in Volume /\ SameSite(v, d) /\ SamePapers(v, d) /\ SameGoods(v, d)
    BY <1>2, SetLast
  <2> HIDE DEF v
  <2> QED
    BY <1>5, <1>6, <2>1 DEF v
<1>7. CASE preserve_publication
  BY <1>4, <1>6, <1>7 DEF preserve_publication
<1>8. CASE record_absence
  BY <1>6, <1>8 DEF record_absence
<1>9. CASE move_publication
  <2> DEFINE v == Aside(d, w.plan)
  <2>1. /\ v \in Volume /\ v.anchors = 0 /\ v.reviewed = "none" /\ v.tree = NoTree
        /\ v.prepared = NoPrepared /\ v.visible = NoVisible
        /\ v.completion = NoCompletion /\ v.public = d.public
        /\ v.granted = d.granted /\ v.setup = d.setup /\ v.lease = d.lease
    BY <1>2, SetAside
  <2> HIDE DEF v
  <2>2. CASE Write("reserve", v)
    <3>1. /\ d' = v /\ w'.pc = "reserve" /\ Remembers /\ UNCHANGED <<route, edits>>
          /\ TypeOK' /\ Requested'
      BY <1>1, <1>2, <2>1, <2>2, PutsOn DEF Control
    <3>2. /\ d'.tree.at = "none" /\ d'.prepared.rec = "none" /\ d'.visible.rec = "none"
          /\ d'.completion.rec = "none" /\ d'.granted = {} /\ ~d'.public.installed
          /\ d'.lease = w.plan /\ d'.setup /\ d'.anchors = 0 /\ d'.reviewed = "none"
      BY <1>2, <1>3, <2>1, <3>1, Nothing
    <3>3. Evidence' /\ Bindings'
      BY <1>2, <3>1, <3>2 DEF Evidence, Bindings
    <3>4. StandsEarly'
      BY <1>2, <3>1, <3>2 DEF StandsEarly, Opening, Staging, Remembers
    <3>5. StandsLate'
      BY <1>2, <3>1 DEF StandsLate, Sealing, Showing, Completing, Remembers
    <3> QED
      BY <3>1, <3>3, <3>4, <3>5 DEF IndInv
  <2> QED
    BY <1>4, <1>9, <2>2 DEF move_publication, v, Aside
<1>10. CASE reserve_publication
  <2> DEFINE l == IF First THEN "anchors" ELSE "route"
             v == [d EXCEPT !.attempts[w.plan] = @ + 1, !.last[w.plan] = "open"]
  <2>1. l \in Control /\ l \in {"anchors", "route"} /\ (l = "anchors" => w.mode = "first")
    BY DEF Control, First
  <2>2. d.anchors = 0
    BY <1>2, <1>10, Parts DEF reserve_publication, present
  <2>3. CASE d.attempts[w.plan] < MaxAttempts /\ Write(l, v)
    <3>1. v \in Volume /\ SameSite(v, d) /\ SamePapers(v, d) /\ SameGoods(v, d)
      BY <1>2, <2>3, SetReserved
    <3> HIDE DEF v, l
    <3>2. /\ d' = v /\ w'.pc = l /\ Remembers /\ UNCHANGED <<route, edits>>
          /\ TypeOK' /\ Requested'
      BY <1>1, <1>2, <2>1, <2>3, <3>1, PutsOn
    <3>3. Evidence' /\ Bindings'
      BY <3>1, <3>2, Housekeeping DEF IndInv, SameSite
    <3>4. StandsEarly'
      <4>1. /\ d'.anchors = 0 /\ d'.setup /\ d'.lease = w'.plan /\ w'.kind = "apply"
            /\ w'.pc = "anchors" => w'.mode = "first"
        BY <1>2, <1>3, <2>1, <2>2, <3>1, <3>2 DEF Remembers, SameSite
      <4> QED
        BY <2>1, <3>2, <4>1 DEF StandsEarly, Opening, Staging, Anchors
    <3>5. StandsLate'
      BY <1>2, <2>1, <3>2 DEF StandsLate, Sealing, Showing, Completing, Remembers
    <3> QED
      BY <3>2, <3>3, <3>4, <3>5 DEF IndInv
  <2> QED
    BY <1>4, <1>10, <2>3 DEF reserve_publication
<1> QED
  BY <1>7, <1>8, <1>9, <1>10

(* A publication that is there is taken up again.                          *)
LEMMA DispatchKeeps ==
    ASSUME IndInv, dispatch_present
    PROVE  IndInv'
<1>1. /\ w.pc = "route" /\ d.anchors > 0 /\ d \in Volume /\ w \in Employed
      /\ w.kind \in {"apply", "recover", "snapshot_only"}
  BY DEF dispatch_present, present, IndInv, TypeOK
<1>2. ~w.wrote /\ w.claim = "none" /\ d.anchors # 0
  BY <1>1, Parts DEF IndInv, StandsEarly, StandsLate, Showing, Completing
<1>3. CASE End("failed") \/ End("stale")
  BY <1>2, <1>3, Ends DEF Reply
<1>4. CASE /\ Readable /\ ~snapshot_refuses
           /\ d' = IF route = "child" THEN [d EXCEPT !.lease = d.reviewed] ELSE d
           /\ w' = [w EXCEPT !.pc = IF recovery_journal_has_snapshot_only
                                    THEN "reenter" ELSE "recover",
                             !.mode = IF recovery_journal_has_snapshot_only
                                      THEN "reentry" ELSE "recover",
                             !.wrote = @ \/ route = "child"]
           /\ UNCHANGED env
  <2>1. UNCHANGED <<route, source, markers, faults, edits>>
    BY <1>4 DEF env
  <2>2. /\ d' \in Volume /\ SamePapers(d', d) /\ SameGoods(d', d)
        /\ d'.anchors = d.anchors /\ d'.setup = d.setup
        /\ d'.lease = d.lease \/ route # "lab"
    <3>1. CASE route = "child"
      <4>1. d.reviewed \in Plan \cup {"none"}
        BY <1>4 DEF Readable
      <4> QED
        BY <1>1, <1>4, <3>1, <4>1, SetLease
    <3>2. CASE route # "child"
      BY <1>1, <1>4, <3>2 DEF SameSite, SamePapers, SameGoods
    <3> QED
      BY <3>1, <3>2
  <2> DEFINE l == IF recovery_journal_has_snapshot_only THEN "reenter" ELSE "recover"
             m == IF recovery_journal_has_snapshot_only THEN "reentry" ELSE "recover"
             b == w.wrote \/ route = "child"
  <2>3. l \in Control /\ m \in {"reentry", "recover"} /\ b \in BOOLEAN
    BY DEF Control
  <2>4. w' = [w EXCEPT !.pc = l, !.mode = m, !.wrote = b]
    BY <1>4
  <2>5. b => route = "child"
    BY <1>2
  <2>6. recovery_journal_has_snapshot_only <=> l = "reenter"
    OBVIOUS
  <2>7. l \in {"reenter", "recover"}
    OBVIOUS
  <2> HIDE DEF l, m, b
  <2>8. /\ w' \in Employed /\ w'.pc = l /\ w'.mode = m /\ w'.wrote = b
        /\ w'.kind = w.kind /\ w'.plan = w.plan /\ w'.claim = w.claim
        /\ w'.renamed = w.renamed /\ w'.reply = w.reply
    BY <1>1, <2>3, <2>4, Zenon DEF Employed
  <2>9. TypeOK'
    BY <2>1, <2>2, <2>8 DEF IndInv, TypeOK
  <2>10. Evidence' /\ Bindings'
    BY <2>1, <2>2, Housekeeping DEF IndInv
  <2>11. Requested'
    BY <1>1, <2>1, <2>3, <2>7, <2>8 DEF IndInv, Requested
  <2>12. StandsEarly'
    BY <2>7, <2>8 DEF StandsEarly, Opening, Staging
  <2>13. (l = "reenter" \/ route = "child" \/ w.kind # "apply") => w.plan \in {"none", d.reviewed}
    <3>1. w.plan \in Plan \cup {"none"} /\ route \in {"lab", "child"}
      BY <1>1, PublicationAssumption DEF Employed, IndInv, TypeOK
    <3>2. CASE l = "reenter" \/ route = "child"
      BY <1>4, <2>6, <3>1, <3>2 DEF snapshot_refuses, require_candidate_snapshot_apply_binding
    <3>3. CASE w.kind # "apply" /\ route = "lab"
      BY <1>1, <3>3 DEF IndInv, Requested
    <3> QED
      BY <3>1, <3>2, <3>3
  <2>14. l = "reenter" => d.prepared.rec = "none"
    BY <2>6 DEF recovery_journal_has_snapshot_only
  <2>15. StandsLate'
    BY <1>2, <1>4, <2>2, <2>5, <2>7, <2>8, <2>13, <2>14
       DEF StandsLate, Sealing, Showing, Completing, Bound, Readable, SamePapers
  <2> QED
    BY <2>9, <2>10, <2>11, <2>12, <2>15 DEF IndInv
<1> QED
  BY <1>3, <1>4 DEF dispatch_present

(* A first publication begins where there is none.                         *)
LEMMA EntryKeeps ==
    ASSUME IndInv, dispatch_absent \/ apply_in_candidate_publisher_context
    PROVE  IndInv'
<1>1. d \in Volume /\ w \in Employed
  BY DEF IndInv, TypeOK
<1>2. CASE End("failed") \/ (~w.wrote /\ End("stale"))
  BY <1>2, Fails, Ends DEF Reply
<1>3. CASE /\ w.pc = "route" /\ ~present /\ w.kind = "apply"
           /\ w' = [w EXCEPT !.mode = "first", !.pc = "enter"] /\ UNCHANGED <<d, env>>
  <2>1. UNCHANGED <<d, route, source, markers, faults, edits>>
    BY <1>3 DEF env
  <2>2. /\ w' \in Employed /\ w'.pc = "enter" /\ w'.mode = "first" /\ w'.wrote = w.wrote
        /\ w'.kind = w.kind /\ w'.plan = w.plan /\ w'.claim = w.claim
        /\ w'.renamed = w.renamed /\ w'.reply = w.reply
    BY <1>1, <1>3, Zenon DEF Employed, Control
  <2>3. d.anchors = 0 /\ w.claim = "none"
    BY <1>1, <1>3, Parts DEF present, IndInv, StandsLate, Showing, Completing
  <2>4. TypeOK'
    BY <2>1, <2>2 DEF IndInv, TypeOK
  <2>5. Evidence' /\ Bindings'
    BY <2>1, Stays DEF IndInv
  <2>6. Requested'
    BY <1>3, <2>1, <2>2 DEF IndInv, Requested
  <2>9. w.wrote => d.setup /\ d.lease = w.plan
    BY <1>3 DEF IndInv, StandsEarly
  <2>7. StandsEarly'
    BY <1>3, <2>1, <2>2, <2>3, <2>9 DEF StandsEarly, Opening, Staging
  <2>8. StandsLate'
    BY <2>2, <2>3 DEF StandsLate, Sealing, Showing, Completing
  <2> QED
    BY <2>4, <2>5, <2>6, <2>7, <2>8 DEF IndInv
<1>4. CASE /\ w.pc = "enter"
           /\ Goto(IF route = "child" /\ ~installation_lease THEN "intent" ELSE "anchors")
  <2> DEFINE l == IF route = "child" /\ ~installation_lease THEN "intent" ELSE "anchors"
  <2>1. /\ l \in Control /\ l \in {"intent", "anchors"}
        /\ l = "anchors" /\ route = "child" => w.wrote
        /\ l = "intent" => route = "child"
    BY DEF Control, installation_lease
  <2> HIDE DEF l
  <2>2. /\ w.mode = "first" /\ d.anchors = 0 /\ w.claim = "none" /\ w.kind = "apply"
        /\ w.wrote => d.setup /\ d.lease = w.plan
    BY <1>4 DEF Requested, Evidence, IndInv, StandsEarly, StandsLate, Opening, Staging, Showing, Completing
  <2>3. /\ w'.pc = l /\ Remembers /\ w'.wrote = w.wrote /\ UNCHANGED <<d, route, edits>>
        /\ TypeOK' /\ Evidence' /\ Bindings' /\ Requested'
    BY <1>4, <2>1, GoesOn, Engaged DEF l
  <2>6. d.tree.at = "none"
    BY <2>2, PublicationAssumption DEF IndInv, Evidence, Readable, Anchors
  <2>4. StandsEarly'
    BY <2>1, <2>2, <2>3, <2>6 DEF StandsEarly, Opening, Staging, Remembers, Anchors
  <2>5. StandsLate'
    BY <2>1, <2>2, <2>3 DEF StandsLate, Sealing, Showing, Completing, Remembers
  <2> QED
    BY <2>3, <2>4, <2>5 DEF IndInv
<1>5. CASE apply_in_candidate_publisher_context
  BY <1>2, <1>4, <1>5 DEF apply_in_candidate_publisher_context
<1> QED
  BY <1>2, <1>3, <1>5 DEF dispatch_absent

(* The laboratory's observation and forward recovery, and verification.    *)
LEMMA InspectionKeeps ==
    ASSUME IndInv, dispatch_recover_prepared \/ verify_completed_install_in_service
    PROVE  IndInv'
<1>1. CASE verify_completed_install_in_service
  <2>1. End("pass") \/ End("failed")
    BY <1>1 DEF verify_completed_install_in_service
  <2> QED
    BY <2>1, Ends DEF Reply
<1>2. CASE dispatch_recover_prepared
  <2>1. /\ w.pc = "route" /\ w.kind \in {"observe", "forward"} /\ w \in Employed
        /\ w' = [w EXCEPT !.pc = "recover", !.mode = "recover"]
        /\ UNCHANGED <<d, route, source, markers, faults, edits>>
    BY <1>2 DEF dispatch_recover_prepared, env, IndInv, TypeOK
  <2>2. /\ w' \in Employed /\ w'.pc = "recover" /\ w'.mode = "recover" /\ w'.wrote = w.wrote
        /\ w'.kind = w.kind /\ w'.plan = w.plan /\ w'.claim = w.claim
        /\ w'.renamed = w.renamed /\ w'.reply = w.reply
    BY <2>1, Zenon DEF Employed, Control
  <2>3. TypeOK'
    BY <2>1, <2>2 DEF IndInv, TypeOK
  <2>4. Evidence' /\ Bindings'
    BY <2>1, Stays DEF IndInv
  <2>5. Requested'
    BY <2>1, <2>2 DEF IndInv, Requested
  <2>6. w.plan = "none" /\ w.claim = "none"
    BY <2>1 DEF IndInv, Requested, StandsLate, Showing, Completing
  <2>7. StandsEarly' /\ StandsLate'
    BY <2>2, <2>6 DEF StandsEarly, StandsLate, Opening, Staging, Sealing, Showing, Completing, Bound
  <2> QED
    BY <2>3, <2>4, <2>5, <2>7 DEF IndInv
<1> QED
  BY <1>1, <1>2

(* Anchors and snapshot.                                                   *)
LEMMA SnapshotKeeps ==
    ASSUME IndInv, create_anchor \/ create_snapshot \/ flush_snapshot
    PROVE  IndInv'
<1>1. w.pc \in {"anchors", "snapshot", "snapshot_flush"} /\ d \in Volume
  BY DEF create_anchor, create_snapshot, flush_snapshot, IndInv, TypeOK
<1>2. w.mode = "first" /\ w.kind = "apply" /\ w.plan \in Plan /\ w.claim = "none"
  BY <1>1 DEF IndInv, StandsEarly, StandsLate, Requested, Opening, Staging, Showing, Completing
<1>3. d.reviewed \notin Plan
  <2>1. d.anchors < Anchors => d.anchors # Anchors
    BY <1>1, Parts DEF Anchors
  <2>2. d.reviewed \in {"none", "torn"}
    BY <1>1, <2>1 DEF IndInv, StandsEarly, Evidence
  <2> QED
    BY <2>2, PublicationAssumption
<1>4. d.tree.at = "none"
  BY <1>3 DEF IndInv, Evidence, Readable
<1>5. /\ d.prepared.rec = "none" /\ d.visible.rec = "none" /\ d.completion.rec = "none"
      /\ ~d.public.installed /\ d.granted = {}
  BY <1>4 DEF IndInv, Evidence
<1>9. /\ route = "lab" => d.lease = "none"
      /\ route = "child" => d.lease = w.plan
  BY DEF IndInv, Evidence, StandsEarly, create_anchor, create_snapshot, flush_snapshot
<1>6. CASE create_anchor
  <2> DEFINE v == [d EXCEPT !.anchors = @ + 1]
             l == IF d.anchors + 1 = Anchors THEN "snapshot" ELSE "anchors"
  <2>1. d.anchors \in 0 .. Anchors /\ d.anchors < Anchors /\ (route = "child" => d.setup)
    BY <1>1, <1>6, Parts DEF create_anchor, IndInv, StandsEarly
  <2>2. d.reviewed = "none"
    BY <2>1 DEF IndInv, Evidence, Anchors
  <2>3. d.anchors + 1 \in 0 .. Anchors /\ d.anchors + 1 > 0
    BY <2>1 DEF Anchors
  <2>4. /\ v \in Volume /\ v.anchors = d.anchors + 1 /\ v.setup = d.setup
        /\ v.lease = d.lease /\ SamePapers(v, d) /\ SameGoods(v, d)
    BY <1>1, <2>3, SetAnchors
  <2>5. /\ l \in Control /\ l \in {"snapshot", "anchors"}
        /\ l = "snapshot" => d.anchors + 1 = Anchors
        /\ l = "anchors" => d.anchors + 1 < Anchors
    BY <2>1 DEF Control, Anchors
  <2> HIDE DEF v, l
  <2>6. /\ d' = v /\ w'.pc = l /\ Remembers /\ UNCHANGED <<route, edits>>
        /\ TypeOK' /\ Requested'
    BY <1>1, <1>2, <1>6, <2>4, <2>5, PutsOn DEF create_anchor, v, l
  <2>7. Evidence' /\ Bindings'
    BY <1>4, <1>5, <1>9, <2>1, <2>2, <2>4, <2>6
       DEF Evidence, Bindings, SamePapers, SameGoods
  <2>8. StandsEarly'
    BY <1>2, <1>9, <2>1, <2>2, <2>4, <2>5, <2>6 DEF StandsEarly, Opening, Staging, Remembers, SamePapers
  <2>9. StandsLate'
    BY <1>2, <2>5, <2>6 DEF StandsLate, Sealing, Showing, Completing, Remembers
  <2> QED
    BY <2>6, <2>7, <2>8, <2>9 DEF IndInv
<1>7. CASE create_snapshot
  <2> DEFINE v == [d EXCEPT !.reviewed = "torn"]
  <2>1. w.pc = "snapshot" /\ d.anchors = Anchors /\ (route = "child" => d.setup)
    BY <1>7 DEF create_snapshot, IndInv, StandsEarly, Evidence, Anchors
  <2>2. /\ v \in Volume /\ v.reviewed = "torn" /\ SameSite(v, d) /\ SameGoods(v, d)
        /\ v.prepared = d.prepared /\ v.visible = d.visible /\ v.completion = d.completion
    BY <1>1, SetReviewed
  <2> HIDE DEF v
  <2>3. /\ d' = v /\ w'.pc = "snapshot_flush" /\ Remembers /\ UNCHANGED <<route, edits>>
        /\ TypeOK' /\ Requested'
    BY <1>1, <1>2, <1>7, <2>2, PutsOn DEF create_snapshot, v, Control
  <2>4. Evidence' /\ Bindings'
    BY <1>4, <1>5, <1>9, <2>1, <2>2, <2>3 DEF Evidence, Bindings, SameSite, SameGoods
  <2>5. StandsEarly'
    BY <1>2, <1>9, <2>1, <2>2, <2>3 DEF StandsEarly, Opening, Staging, Remembers, SameSite
  <2>6. StandsLate'
    BY <1>2, <2>3 DEF StandsLate, Sealing, Showing, Completing, Remembers
  <2> QED
    BY <2>3, <2>4, <2>5, <2>6 DEF IndInv
<1>8. CASE flush_snapshot
  <2> DEFINE v == [d EXCEPT !.reviewed = w.plan]
  <2>1. w.pc = "snapshot_flush" /\ d.anchors = Anchors /\ (route = "child" => d.setup)
    BY <1>8 DEF flush_snapshot, IndInv, StandsEarly, Evidence, Anchors
  <2>2. /\ v \in Volume /\ v.reviewed = w.plan /\ SameSite(v, d) /\ SameGoods(v, d)
        /\ v.prepared = d.prepared /\ v.visible = d.visible /\ v.completion = d.completion
    BY <1>1, <1>2, SetReviewed
  <2> HIDE DEF v
  <2>3. /\ d' = v /\ w'.pc = "candidate" /\ Remembers /\ UNCHANGED <<route, edits>>
        /\ TypeOK' /\ Requested'
    BY <1>1, <1>2, <1>8, <2>2, PutsOn DEF flush_snapshot, v, Control
  <2>4. Evidence' /\ Bindings'
    BY <1>4, <1>5, <1>9, <2>1, <2>2, <2>3 DEF Evidence, Bindings, SameSite, SameGoods
  <2>5. StandsEarly'
    BY <1>2, <1>4, <2>2, <2>3 DEF StandsEarly, Opening, Staging, Remembers, SameGoods
  <2>6. StandsLate'
    BY <1>2, <2>3 DEF StandsLate, Sealing, Showing, Completing, Remembers
  <2> QED
    BY <2>3, <2>4, <2>5, <2>6 DEF IndInv
<1> QED
  BY <1>6, <1>7, <1>8

(* The candidate tree and its files.                                       *)
LEMMA StagingKeeps ==
    ASSUME IndInv,
           \/ create_candidate \/ staged_all
           \/ \E f \in File : stage_selected_archive_file(f)
    PROVE  IndInv'
<1>1. w.pc \in {"candidate", "stage"} /\ d \in Volume
  BY Zenon DEF create_candidate, staged_all, stage_selected_archive_file, IndInv, TypeOK
<1>2. /\ w.mode = "first" /\ w.kind = "apply" /\ w.plan \in Plan /\ w.claim = "none"
      /\ d.reviewed = w.plan
  BY <1>1 DEF IndInv, StandsEarly, StandsLate, Requested, Opening, Staging, Showing, Completing
<1>3. d.prepared.rec = "none" /\ d.tree.at # "destination"
  BY <1>1 DEF IndInv, StandsEarly, Evidence
<1>4. /\ d.visible.rec = "none" /\ d.completion.rec = "none"
      /\ ~d.public.installed /\ d.granted = {}
  BY <1>3 DEF IndInv, Evidence
<1>5. CASE End("failed")
  BY <1>5, Fails
<1>6. ASSUME NEW v \in Volume, Write("stage", v), SameSite(v, d), SamePapers(v, d),
             v.public = d.public, v.granted = d.granted, v.tree.at = "staging"
      PROVE  IndInv'
  <2>1. /\ d' = v /\ w'.pc = "stage" /\ Remembers /\ UNCHANGED <<route, edits>>
        /\ TypeOK' /\ Requested'
    BY <1>1, <1>2, <1>6, PutsOn DEF Control
  <2>2. Evidence'
    BY <1>2, <1>3, <1>4, <1>6, <2>1 DEF IndInv, Evidence, SameSite, SamePapers, Readable
  <2>3. Bindings'
    BY <1>3, <1>4, <1>6, <2>1 DEF Bindings, SamePapers
  <2>4. StandsEarly'
    BY <1>2, <1>3, <1>6, <2>1 DEF StandsEarly, Opening, Staging, Remembers, SamePapers
  <2>5. StandsLate'
    BY <1>2, <2>1 DEF StandsLate, Sealing, Showing, Completing, Remembers
  <2> QED
    BY <2>1, <2>2, <2>3, <2>4, <2>5 DEF IndInv
<1>7. CASE Write("stage", [d EXCEPT !.tree.at = "staging"])
  BY <1>1, <1>6, <1>7, SetPlace
<1>8. ASSUME NEW f \in File, NEW x \in {"torn", w.plan}, w.pc = "stage",
             Write("stage", [d EXCEPT !.tree.files[f] = x])
      PROVE  IndInv'
  <2>1. x \in Content /\ d.tree.at = "staging"
    BY <1>2, <1>8 DEF Content, IndInv, StandsEarly
  <2> QED
    BY <1>1, <1>6, <1>8, <2>1, SetFile
<1>9. CASE staged_all
  <2>1. /\ w'.pc = "seal" /\ Remembers /\ w'.wrote = w.wrote /\ UNCHANGED <<d, route, edits>>
        /\ TypeOK' /\ Evidence' /\ Bindings' /\ Requested'
    BY <1>1, <1>2, <1>9, GoesOn DEF staged_all, Control
  <2>2. StandsEarly'
    BY <2>1 DEF StandsEarly, Opening, Staging
  <2>3. d.tree.at = "staging"
    BY <1>9 DEF staged_all, IndInv, StandsEarly
  <2>4. StandsLate'
    BY <1>2, <1>3, <2>1, <2>3
       DEF StandsLate, Sealing, Showing, Completing, Remembers, Bound, Readable
  <2> QED
    BY <2>1, <2>2, <2>4 DEF IndInv
<1>10. CASE create_candidate
  BY <1>5, <1>7, <1>10 DEF create_candidate
<1>11. ASSUME NEW f \in File, stage_selected_archive_file(f) PROVE IndInv'
  BY <1>5, <1>8, <1>11 DEF stage_selected_archive_file
<1> QED
  BY <1>9, <1>10, <1>11

(* Sealing: what the sealing worker saw is the plan's files.               *)
LEMMA SealingKeeps ==
    ASSUME IndInv, reopen_anchors \/ seal_candidate \/ initialize_setup_root
    PROVE  IndInv'
<1>1. w.pc \in {"reenter", "seal", "setup"} /\ d \in Volume
  BY DEF reopen_anchors, seal_candidate, initialize_setup_root, IndInv, TypeOK
<1>2. /\ w.claim = "none" /\ Bound /\ Readable /\ d.prepared.rec = "none"
      /\ w.kind \notin {"observe", "verify"}
  BY <1>1, Engaged DEF IndInv, StandsLate, Sealing, Showing, Completing
<1>3. CASE End("failed")
  BY <1>3, Fails
<1>4. CASE d.tree.at = "staging" /\ Goto("seal")
  <2>1. /\ w'.pc = "seal" /\ Remembers /\ w'.wrote = w.wrote /\ UNCHANGED <<d, route, edits>>
        /\ TypeOK' /\ Evidence' /\ Bindings' /\ Requested'
    BY <1>1, <1>2, <1>4, GoesOn DEF Control
  <2>2. StandsEarly'
    BY <2>1 DEF StandsEarly, Opening, Staging
  <2>3. StandsLate'
    BY <1>2, <1>4, <2>1
       DEF StandsLate, Sealing, Showing, Completing, Remembers, Bound, Readable
  <2> QED
    BY <2>1, <2>2, <2>3 DEF IndInv
<1>5. CASE w.pc = "seal" /\ wait_for_poststage_gate
  <2>1. Done("failed") /\ UNCHANGED <<d, route, source, faults, edits>> /\ markers' \subseteq Gate
    BY <1>5 DEF wait_for_poststage_gate, Gate, IndInv, TypeOK
  <2>2. w' \in Employed /\ Requested' /\ StandsEarly' /\ StandsLate'
    BY <2>1, Ending DEF IndInv, Reply
  <2>3. Evidence' /\ Bindings'
    BY <2>1, Stays DEF IndInv
  <2>4. TypeOK'
    BY <2>1, <2>2 DEF IndInv, TypeOK
  <2> QED
    BY <2>2, <2>3, <2>4 DEF IndInv
<1>6. CASE w.pc = "seal" /\ exact_file_closure /\ Goto("setup")
  <2>1. /\ w'.pc = "setup" /\ Remembers /\ w'.wrote = w.wrote /\ UNCHANGED <<d, route, edits>>
        /\ TypeOK' /\ Evidence' /\ Bindings' /\ Requested'
    BY <1>1, <1>2, <1>6, GoesOn DEF Control
  <2>2. StandsEarly'
    BY <2>1 DEF StandsEarly, Opening, Staging
  <2>3. First => w.plan \in Plan
    BY DEF First, IndInv, Requested
  <2>4. Acting = d.reviewed
    BY <1>2, <2>3, PublicationAssumption DEF Acting, Bound
  <2>5. d.tree.files = Payload(d.reviewed) /\ d.tree.at = "staging"
    BY <1>6, <2>4 DEF exact_file_closure, IndInv, StandsLate, Sealing
  <2>6. StandsLate'
    BY <1>2, <2>1, <2>5
       DEF StandsLate, Sealing, Showing, Completing, Remembers, Bound, Readable
  <2> QED
    BY <2>1, <2>2, <2>6 DEF IndInv
<1>7. CASE initialize_setup_root
  <2> DEFINE v == [d EXCEPT !.setup = TRUE]
  <2>1. /\ v \in Volume /\ v.setup = TRUE /\ v.anchors = d.anchors
        /\ v.lease = d.lease /\ SamePapers(v, d) /\ SameGoods(v, d)
    BY <1>1, SetSetup, Zenon
  <2> HIDE DEF v
  <2>2. /\ d' = v /\ w'.pc = "prepared" /\ Remembers /\ UNCHANGED <<route, edits>>
        /\ TypeOK' /\ Requested'
    BY <1>1, <1>2, <1>7, <2>1, PutsOn DEF initialize_setup_root, v, Control
  <2>3. Evidence' /\ Bindings'
    BY <2>1, <2>2, Housekeeping, Zenon DEF IndInv
  <2>4. StandsEarly'
    BY <2>2 DEF StandsEarly, Opening, Staging
  <2>5. d.tree.at = "staging" /\ (edits = 0 => d.tree.files = Payload(d.reviewed))
    BY <1>7 DEF initialize_setup_root, IndInv, StandsLate, Sealing
  <2>6. StandsLate'
    BY <1>2, <2>1, <2>2, <2>5 DEF StandsLate, Sealing, Showing, Completing, Remembers, Bound,
           Readable, SamePapers, SameGoods
  <2> QED
    BY <2>2, <2>3, <2>4, <2>6 DEF IndInv
<1> QED
  BY <1>3, <1>4, <1>5, <1>6, <1>7 DEF reopen_anchors, seal_candidate

(* The prepared record.                                                    *)
LEMMA PreparedKeeps ==
    ASSUME IndInv, create_prepared \/ flush_prepared
    PROVE  IndInv'
<1>1. w.pc \in {"prepared", "prepared_flush"} /\ d \in Volume /\ w \in Employed
  BY DEF create_prepared, flush_prepared, IndInv, TypeOK
<1>2. /\ w.claim = "none" /\ Bound /\ Readable /\ d.tree.at = "staging"
      /\ edits = 0 => d.tree.files = Payload(d.reviewed)
      /\ w.kind \notin {"observe", "verify"}
  BY <1>1, Engaged DEF IndInv, StandsLate, Sealing, Showing, Completing
<1>3. /\ d.prepared.rec # "ok" /\ d.visible.rec = "none" /\ d.completion.rec = "none"
      /\ ~d.public.installed /\ d.granted = {}
  BY <1>1, <1>2 DEF IndInv, Evidence, StandsLate
<1>4. CASE create_prepared
  <2> DEFINE v == [d EXCEPT !.prepared.rec = "torn"]
  <2>1. /\ v \in Volume /\ v.prepared.rec = "torn" /\ SameSite(v, d) /\ SameGoods(v, d)
        /\ v.reviewed = d.reviewed /\ v.visible = d.visible /\ v.completion = d.completion
    BY <1>1, TearPrepared, Zenon
  <2> HIDE DEF v
  <2>2. /\ d' = v /\ w'.pc = "prepared_flush" /\ Remembers /\ UNCHANGED <<route, edits>>
        /\ TypeOK' /\ Requested'
    BY <1>1, <1>2, <1>4, <2>1, PutsOn DEF create_prepared, v, Control
  <2>3. Evidence'
    BY <1>2, <1>3, <2>1, <2>2 DEF IndInv, Evidence, SameSite, SameGoods, Readable
  <2>4. Bindings'
    BY <1>3, <2>1, <2>2 DEF Bindings
  <2>5. StandsEarly'
    BY <2>2 DEF StandsEarly, Opening, Staging
  <2>6. StandsLate'
    BY <1>2, <2>1, <2>2 DEF StandsLate, Sealing, Showing, Completing, Remembers, Bound,
           Readable, SameGoods
  <2> QED
    BY <2>2, <2>3, <2>4, <2>5, <2>6 DEF IndInv
<1>5. CASE flush_prepared
  <2>1. /\ PreparedRecord \in Prepared /\ PreparedRecord.rec = "ok"
        /\ PreparedRecord.plan = d.reviewed /\ PreparedRecord.seal = Seal(d.tree)
    <3>1. d.tree \in Tree
      BY <1>1, Parts
    <3>2. Seal(d.tree) \in Sealed
      BY <3>1 DEF Seal, Sealed, Tree
    <3>3. First \in BOOLEAN /\ (route = "child" /\ First) \in BOOLEAN
      BY DEF First
    <3> QED
      BY <1>2, <3>2, <3>3 DEF PreparedRecord, Prepared, Rec, Readable
  <2>2. Seal(d.tree).files = d.tree.files
    BY DEF Seal
  <2> DEFINE v == [d EXCEPT !.prepared = PreparedRecord]
  <2>3. /\ v \in Volume /\ v.prepared = PreparedRecord /\ SameSite(v, d) /\ SameGoods(v, d)
        /\ v.reviewed = d.reviewed /\ v.visible = d.visible /\ v.completion = d.completion
    BY <1>1, <2>1, SetPrepared
  <2> HIDE DEF v
  <2>4. /\ d' = v /\ w'.pc = "commit" /\ Remembers /\ UNCHANGED <<route, edits>>
        /\ TypeOK' /\ Requested'
    BY <1>1, <1>2, <1>5, <2>3, PutsOn DEF flush_prepared, v, Control
  <2>5. /\ d'.prepared.rec = "ok" /\ d'.prepared.plan = d'.reviewed
        /\ d'.prepared.seal = Seal(d.tree)
    BY <2>1, <2>3, <2>4
  <2>6. Evidence'
    BY <1>2, <1>3, <2>3, <2>4, <2>5 DEF IndInv, Evidence, SameSite, SameGoods, Readable
  <2>7. Bindings'
    BY <1>2, <1>3, <2>2, <2>3, <2>4, <2>5 DEF Bindings, SameGoods, SealedStill
  <2>8. StandsEarly'
    BY <2>4 DEF StandsEarly, Opening, Staging
  <2>9. StandsLate'
    BY <1>2, <2>3, <2>4, <2>5 DEF StandsLate, Sealing, Showing, Completing, Remembers, Bound,
           SameGoods
  <2> QED
    BY <2>4, <2>6, <2>7, <2>8, <2>9 DEF IndInv
<1> QED
  BY <1>4, <1>5

(* A gate that is passed changes nothing that matters.                     *)
LEMMA GateKeeps ==
    ASSUME IndInv, NEW g \in Gate, wait_for_gate(g, w.pc), w.pc # "idle"
    PROVE  IndInv'
<1>1. markers' \subseteq Gate /\ UNCHANGED <<d, route, source, faults, edits>>
  BY DEF wait_for_gate, IndInv, TypeOK
<1>2. Evidence' /\ Bindings'
  BY <1>1, Stays DEF IndInv
<1>3. CASE Done("failed")
  <2>1. w' \in Employed /\ Requested' /\ StandsEarly' /\ StandsLate'
    BY <1>1, <1>3, Ending DEF IndInv, Reply
  <2>2. TypeOK'
    BY <1>1, <2>1 DEF IndInv, TypeOK
  <2> QED
    BY <1>2, <2>1, <2>2 DEF IndInv
<1>4. CASE w' = [w EXCEPT !.pc = w.pc, !.gate = "none"]
  <2>1. w' \in Employed /\ w'.pc = w.pc /\ Remembers /\ w'.wrote = w.wrote
    BY <1>4, Zenon DEF IndInv, TypeOK, Employed, Remembers
  <2>2. TypeOK'
    BY <1>1, <2>1 DEF IndInv, TypeOK
  <2>3. Requested'
    BY <1>1, <2>1 DEF IndInv, Requested, Remembers
  <2>4. StandsEarly'
    BY <1>1, <2>1 DEF IndInv, StandsEarly, Remembers
  <2>5. StandsLate'
    BY <1>1, <2>1 DEF IndInv, StandsLate, Remembers, Bound, Readable, Finalized
  <2> QED
    BY <1>2, <2>2, <2>3, <2>4, <2>5 DEF IndInv
<1> QED
  BY <1>3, <1>4 DEF wait_for_gate

(* The rename, whether or not its worker learns of it.                     *)
LEMMA RenameKeeps ==
    ASSUME IndInv, probe_publisher_bound_rename_no_replace \/ rename_uncertain
    PROVE  IndInv'
<1>1. w.pc = "commit" /\ d \in Volume /\ w \in Employed
  BY DEF probe_publisher_bound_rename_no_replace, rename_uncertain, IndInv, TypeOK
<1>2. /\ w.claim = "none" /\ Bound /\ d.tree.at = "staging" /\ d.prepared.rec = "ok"
      /\ w.kind \notin {"observe", "verify"} /\ w.reply = "none"
  BY <1>1, Engaged DEF IndInv, StandsLate, Requested, Sealing, Showing, Completing
<1>3. d.visible.rec = "none" /\ d.completion.rec = "none" /\ Readable
  BY <1>2 DEF IndInv, Evidence
<1>4. CASE End("failed")
  BY <1>4, Fails
<1>5. CASE wait_for_prepublish_gate
  BY <1>1, <1>5, GateKeeps DEF wait_for_prepublish_gate, Gate
<1>6. ASSUME d' = [d EXCEPT !.tree.at = "destination"], UNCHANGED <<route, edits>>
      PROVE  /\ d' \in Volume /\ d'.tree.at = "destination" /\ SamePapers(d', d)
             /\ Evidence' /\ Bindings'
  <2>1. /\ d' \in Volume /\ d'.tree.at = "destination" /\ d'.tree.id = d.tree.id
        /\ d'.tree.files = d.tree.files /\ SameSite(d', d) /\ SamePapers(d', d)
        /\ d'.public = d.public /\ d'.granted = d.granted
    BY <1>1, <1>6, SetPlace
  <2>2. Seal(d'.tree) = Seal(d.tree)
    BY <2>1 DEF Seal
  <2>3. Evidence'
    BY <1>2, <1>3, <1>6, <2>1 DEF IndInv, Evidence, SameSite, SamePapers, Readable, Finalized
  <2>4. Bindings'
    BY <1>6, <2>1, <2>2 DEF IndInv, Bindings, SamePapers, SealedStill,
           lab_selected_installed_record
  <2> QED
    BY <2>1, <2>3, <2>4
<1>7. CASE /\ d' = [d EXCEPT !.tree.at = "destination"] /\ UNCHANGED env
           /\ w' = [w EXCEPT !.pc = "visible", !.claim = "renamed", !.renamed = TRUE,
                             !.wrote = TRUE]
  <2>1. UNCHANGED <<route, source, markers, faults, edits>>
    BY <1>7 DEF env
  <2>2. /\ d' \in Volume /\ d'.tree.at = "destination" /\ SamePapers(d', d)
        /\ Evidence' /\ Bindings'
    BY <1>6, <1>7, <2>1
  <2>3. /\ w' \in Employed /\ w'.pc = "visible" /\ w'.claim = "renamed" /\ w'.renamed = TRUE
        /\ w'.kind = w.kind /\ w'.plan = w.plan /\ w'.mode = w.mode /\ w'.reply = w.reply
    BY <1>1, <1>7, Zenon DEF Employed, Control
  <2>4. TypeOK'
    BY <2>1, <2>2, <2>3 DEF IndInv, TypeOK
  <2>5. Requested'
    BY <1>2, <2>1, <2>3 DEF IndInv, Requested
  <2>6. StandsEarly'
    BY <2>3 DEF StandsEarly, Opening, Staging
  <2>7. StandsLate'
    BY <1>2, <1>3, <2>2, <2>3 DEF StandsLate, Sealing, Showing, Completing, Bound, SamePapers
  <2> QED
    BY <2>2, <2>4, <2>5, <2>6, <2>7 DEF IndInv
<1>8. CASE rename_uncertain
  <2>1. UNCHANGED <<route, source, markers, edits>> /\ faults' = faults + 1 /\ faults < MaxFaults
    BY <1>8 DEF rename_uncertain
  <2>2. d' \in Volume /\ Evidence' /\ Bindings'
    BY <1>6, <1>8, <2>1 DEF rename_uncertain
  <2>3. w' = [NoWorker EXCEPT !.kind = w.kind, !.plan = w.plan, !.wrote = TRUE,
                             !.reply = "failed"]
    BY <1>8 DEF rename_uncertain
  <2>4. /\ w' \in Employed /\ w'.pc = "idle" /\ w'.reply = "failed" /\ w'.kind = w.kind
        /\ w'.plan = w.plan /\ w'.mode = "none" /\ w'.claim = "none" /\ w'.renamed = FALSE
    BY <1>1, <2>3, Zenon DEF NoWorker, Employed, Control, Reply
  <2>5. faults' \in 0 .. MaxFaults
    BY <2>1, PublicationAssumption DEF IndInv, TypeOK
  <2>6. TypeOK'
    BY <2>1, <2>2, <2>4, <2>5 DEF IndInv, TypeOK
  <2>7. Requested'
    BY <1>2, <2>1, <2>4 DEF IndInv, Requested
  <2>8. StandsEarly' /\ StandsLate'
    BY <2>4 DEF StandsEarly, StandsLate, Opening, Staging, Sealing, Showing, Completing
  <2> QED
    BY <2>2, <2>6, <2>7, <2>8 DEF IndInv
<1> QED
  BY <1>4, <1>5, <1>7, <1>8 DEF probe_publisher_bound_rename_no_replace

(* The visible record.                                                     *)
LEMMA VisibleKeeps ==
    ASSUME IndInv, create_visible \/ flush_visible
    PROVE  IndInv'
<1>1. w.pc \in {"visible", "visible_flush"} /\ d \in Volume /\ w \in Employed
  BY DEF create_visible, flush_visible, IndInv, TypeOK
<1>2. /\ w.claim # "none" /\ Bound /\ d.visible.rec # "ok" /\ d.tree.at = "destination"
      /\ w.kind \notin {"observe", "verify"}
  BY <1>1, Engaged DEF IndInv, StandsLate, Evidence, Showing
<1>3. d.completion.rec = "none" /\ ~d.public.installed /\ d.granted = {}
  BY <1>2 DEF IndInv, Evidence
<1>4. CASE End("failed")
  BY <1>4, Fails
<1>5. CASE w.pc = "visible" /\ wait_for_postrename_gate
  BY <1>5, GateKeeps DEF wait_for_postrename_gate, Gate
<1>6. CASE w.pc = "visible" /\ Write("visible_flush", [d EXCEPT !.visible.rec = "torn"])
  <2> DEFINE v == [d EXCEPT !.visible.rec = "torn"]
  <2>1. /\ v \in Volume /\ v.visible.rec = "torn" /\ SameSite(v, d) /\ SameGoods(v, d)
        /\ v.reviewed = d.reviewed /\ v.prepared = d.prepared /\ v.completion = d.completion
    BY <1>1, TearVisible, Zenon
  <2> HIDE DEF v
  <2>2. /\ d' = v /\ w'.pc = "visible_flush" /\ Remembers /\ UNCHANGED <<route, edits>>
        /\ TypeOK' /\ Requested'
    BY <1>1, <1>2, <1>6, <2>1, PutsOn DEF v, Control
  <2>3. Evidence'
    BY <1>2, <1>3, <2>1, <2>2 DEF IndInv, Evidence, SameSite, SameGoods, Readable
  <2>4. Bindings'
    BY <1>3, <2>1, <2>2 DEF IndInv, Bindings, SameGoods, SealedStill
  <2>5. StandsEarly'
    BY <2>2 DEF StandsEarly, Opening, Staging
  <2>6. StandsLate'
    BY <1>2, <2>1, <2>2 DEF StandsLate, Sealing, Showing, Completing, Remembers, Bound
  <2> QED
    BY <2>2, <2>3, <2>4, <2>5, <2>6 DEF IndInv
<1>7. CASE flush_visible
  <2>1. /\ lab_visible_record \in Visible /\ lab_visible_record.rec = "ok"
        /\ lab_visible_record.of = d.prepared
    <3>1. d.prepared \in Prepared /\ w.claim \in {"none", "renamed", "observed"}
      BY <1>1, Parts DEF Employed
    <3> QED
      BY <3>1 DEF lab_visible_record, Visible, Rec
  <2> DEFINE v == [d EXCEPT !.visible = lab_visible_record]
  <2>2. /\ v \in Volume /\ v.visible = lab_visible_record /\ SameSite(v, d) /\ SameGoods(v, d)
        /\ v.reviewed = d.reviewed /\ v.prepared = d.prepared /\ v.completion = d.completion
    BY <1>1, <2>1, SetVisible
  <2> HIDE DEF v
  <2>3. /\ d' = v /\ w'.pc = "completion" /\ Remembers /\ UNCHANGED <<route, edits>>
        /\ TypeOK' /\ Requested'
    BY <1>1, <1>2, <1>7, <2>2, PutsOn DEF flush_visible, v, Control
  <2>4. d'.visible.rec = "ok" /\ d'.visible.of = d.prepared
    BY <2>1, <2>2, <2>3
  <2>5. Evidence'
    BY <1>2, <1>3, <2>2, <2>3, <2>4 DEF IndInv, Evidence, SameSite, SameGoods, Readable
  <2>6. Bindings'
    BY <1>3, <2>2, <2>3, <2>4 DEF IndInv, Bindings, SameGoods, SealedStill
  <2>7. StandsEarly'
    BY <2>3 DEF StandsEarly, Opening, Staging
  <2>8. StandsLate'
    BY <1>2, <2>2, <2>3, <2>4 DEF StandsLate, Sealing, Showing, Completing, Remembers, Bound
  <2> QED
    BY <2>3, <2>5, <2>6, <2>7, <2>8 DEF IndInv
<1> QED
  BY <1>1, <1>4, <1>5, <1>6, <1>7 DEF create_visible

(* The completion record and the final closure.                            *)
LEMMA CompletionKeeps ==
    ASSUME IndInv, complete_selected_lab_state \/ flush_completion \/ final_closure
    PROVE  IndInv'
<1>1. w.pc \in {"completion", "completion_flush", "closure"} /\ d \in Volume
  BY SMTT(40) DEF complete_selected_lab_state, flush_completion, final_closure, IndInv, TypeOK
<1>2. d.visible.rec = "ok" /\ Bound /\ w.kind \notin {"observe", "verify"}
  BY <1>1, Engaged DEF IndInv, StandsLate, Evidence, Completing
<1>3. /\ lab_selected_installed_record \in Completion /\ lab_selected_installed_record.rec = "ok"
      /\ lab_selected_installed_record.prepared = d.prepared
      /\ lab_selected_installed_record.visible = d.visible
  <2>1. d.prepared \in Prepared /\ d.visible \in Visible
    BY <1>1, Parts
  <2> QED
    BY <2>1 DEF lab_selected_installed_record, Completion, Rec
<1>4. CASE End("failed")
  BY <1>4, Fails
<1>5. CASE w.pc = "completion" /\ wait_for_postjournal_gate
  BY <1>5, GateKeeps DEF wait_for_postjournal_gate, Gate
<1>6. ASSUME d.completion = lab_selected_installed_record,
             NEW l \in {"closure", "finalize"}, Goto(l)
      PROVE  IndInv'
  <2>1. /\ w'.pc = l /\ Remembers /\ w'.wrote = w.wrote /\ UNCHANGED <<d, route, edits>>
        /\ TypeOK' /\ Evidence' /\ Bindings' /\ Requested'
    BY <1>1, <1>2, <1>6, GoesOn DEF Control
  <2>2. StandsEarly'
    BY <1>6, <2>1 DEF StandsEarly, Opening, Staging
  <2>3. StandsLate'
    BY <1>2, <1>3, <1>6, <2>1 DEF StandsLate, Sealing, Showing, Completing, Remembers, Bound
  <2> QED
    BY <2>1, <2>2, <2>3 DEF IndInv
<1>7. CASE /\ w.pc = "completion" /\ d.completion.rec = "none"
           /\ Write("completion_flush", [d EXCEPT !.completion.rec = "torn"])
  <2> DEFINE v == [d EXCEPT !.completion.rec = "torn"]
  <2>1. /\ v \in Volume /\ v.completion.rec = "torn" /\ SameSite(v, d) /\ SameGoods(v, d)
        /\ v.reviewed = d.reviewed /\ v.prepared = d.prepared /\ v.visible = d.visible
    BY <1>1, TearCompletion, Zenon
  <2> HIDE DEF v
  <2>2. /\ d' = v /\ w'.pc = "completion_flush" /\ Remembers /\ UNCHANGED <<route, edits>>
        /\ TypeOK' /\ Requested'
    BY <1>1, <1>2, <1>7, <2>1, PutsOn DEF v, Control
  <2>3. Evidence'
    BY <1>2, <1>7, <2>1, <2>2 DEF IndInv, Evidence, SameSite, SameGoods, Readable
  <2>4. Bindings'
    BY <2>1, <2>2 DEF IndInv, Bindings, SameGoods, SealedStill
  <2>5. StandsEarly'
    BY <2>2 DEF StandsEarly, Opening, Staging
  <2>6. StandsLate'
    BY <1>2, <2>1, <2>2 DEF StandsLate, Sealing, Showing, Completing, Remembers, Bound
  <2> QED
    BY <2>2, <2>3, <2>4, <2>5, <2>6 DEF IndInv
<1>8. CASE flush_completion
  <2> DEFINE v == [d EXCEPT !.completion = lab_selected_installed_record]
  <2>1. /\ v \in Volume /\ v.completion = lab_selected_installed_record
        /\ SameSite(v, d) /\ SameGoods(v, d)
        /\ v.reviewed = d.reviewed /\ v.prepared = d.prepared /\ v.visible = d.visible
    BY <1>1, <1>3, SetCompletion
  <2> HIDE DEF v
  <2>2. /\ d' = v /\ w'.pc = "closure" /\ Remembers /\ UNCHANGED <<route, edits>>
        /\ TypeOK' /\ Requested'
    BY <1>1, <1>2, <1>8, <2>1, PutsOn DEF flush_completion, v, Control
  <2>3. d'.completion.rec = "ok" /\ d'.completion = (lab_selected_installed_record)'
    BY <1>3, <2>1, <2>2 DEF lab_selected_installed_record
  <2>4. Evidence'
    BY <1>2, <2>1, <2>2, <2>3 DEF IndInv, Evidence, SameSite, SameGoods, Readable, Finalized
  <2>5. Bindings'
    BY <2>1, <2>2, <2>3 DEF IndInv, Bindings, SameGoods, SealedStill
  <2>6. StandsEarly'
    BY <2>2 DEF StandsEarly, Opening, Staging
  <2>7. StandsLate'
    BY <1>2, <2>1, <2>2, <2>3 DEF StandsLate, Sealing, Showing, Completing, Remembers, Bound
  <2> QED
    BY <2>2, <2>4, <2>5, <2>6, <2>7 DEF IndInv
<1> QED
  BY <1>4, <1>5, <1>6, <1>7, <1>8 DEF complete_selected_lab_state, final_closure

(* The public state.                                                       *)
LEMMA FinalizationKeeps ==
    ASSUME IndInv, finalize_protected_visible_install \/ finalize_reviewed_public_state
    PROVE  IndInv'
<1>1. w.pc \in {"finalize", "readback"} /\ d \in Volume
  BY DEF finalize_protected_visible_install, finalize_reviewed_public_state, IndInv, TypeOK
<1>2. d.completion.rec = "ok" /\ Bound /\ w.kind \notin {"observe", "verify"}
  BY <1>1, Engaged DEF IndInv, StandsLate, Completing
<1>3. CASE End("failed")
  BY <1>3, Fails
<1>4. ASSUME NEW l \in {"readback", "grant", "finish"}, Goto(l),
             l = "finish" => Finalized /\ route # "child"
      PROVE  IndInv'
  <2>1. /\ w'.pc = l /\ Remembers /\ w'.wrote = w.wrote /\ UNCHANGED <<d, route, edits>>
        /\ TypeOK' /\ Evidence' /\ Bindings' /\ Requested'
    BY <1>1, <1>2, <1>4, GoesOn DEF Control
  <2>2. StandsEarly'
    BY <1>4, <2>1 DEF StandsEarly, Opening, Staging
  <2>3. StandsLate'
    BY <1>2, <1>4, <2>1
       DEF StandsLate, Sealing, Showing, Completing, Remembers, Bound, Finalized
  <2> QED
    BY <2>1, <2>2, <2>3 DEF IndInv
<1>5. ASSUME NEW v \in Volume, Write("finalize", v), SameSite(v, d), SamePapers(v, d),
             v.tree = d.tree, v.granted = d.granted, ~Finalized
      PROVE  IndInv'
  <2>1. /\ d' = v /\ w'.pc = "finalize" /\ Remembers /\ UNCHANGED <<route, edits>>
        /\ TypeOK' /\ Requested'
    BY <1>1, <1>2, <1>5, PutsOn, SMTT(40) DEF Control
  <2>2. Evidence'
    BY <1>2, <1>5, <2>1 DEF IndInv, Evidence, SameSite, SamePapers, Readable
  <2>3. Bindings'
    BY <1>5, <2>1 DEF IndInv, Bindings, SamePapers, SealedStill, lab_selected_installed_record
  <2>4. StandsEarly'
    BY <2>1 DEF StandsEarly, Opening, Staging
  <2>5. StandsLate'
    BY <1>2, <1>5, <2>1 DEF StandsLate, Sealing, Showing, Completing, Remembers, Bound, SamePapers
  <2> QED
    BY <2>1, <2>2, <2>3, <2>4, <2>5, SMTT(40) DEF IndInv
<1>6. d.public \in Public
  BY <1>1, Parts
<1>7. Finalized => d.public.chain = 3 /\ d.public.ownership = TRUE /\ d.public.installed = TRUE
  BY DEF Finalized
<1>8. CASE d.public.chain < 2 /\ Write("finalize", [d EXCEPT !.public.chain = @ + 1])
  <2>1. d.public.chain + 1 \in 0 .. 3 /\ ~Finalized
    BY <1>6, <1>7, <1>8 DEF Public
  <2> QED
    BY <1>1, <1>5, <1>8, <2>1, SetChain
<1>9. CASE ~d.public.ownership /\ Write("finalize", [d EXCEPT !.public.ownership = TRUE])
  BY <1>1, <1>5, <1>7, <1>9, SetOwnership, Zenon
<1>10. CASE ~d.public.installed /\ Write("finalize", [d EXCEPT !.public.installed = TRUE])
  BY <1>1, <1>5, <1>7, <1>10, SetInstalled, Zenon
<1>11. CASE d.public.chain = 2 /\ Write("finalize", [d EXCEPT !.public.chain = 3])
  <2>1. 3 \in 0 .. 3 /\ ~Finalized
    BY <1>7, <1>11
  <2> QED
    BY <1>1, <1>5, <1>11, <2>1, SetChain
<1>12. CASE finalize_protected_visible_install
  BY <1>3, <1>4, <1>8, <1>9, <1>10, <1>11, <1>12 DEF finalize_protected_visible_install
<1>13. CASE finalize_reviewed_public_state
  BY <1>3, <1>4, <1>13 DEF finalize_reviewed_public_state
<1> QED
  BY <1>12, <1>13

(* Consumer access, and the end of the operation.                          *)
LEMMA GrantKeeps ==
    ASSUME IndInv,
           \/ \E o \in Object : grant_publisher_consumer_read(o)
           \/ granted_all \/ finish_operation
    PROVE  IndInv'
<1>1. w.pc \in {"grant", "finish"} /\ d \in Volume
  BY Zenon DEF grant_publisher_consumer_read, granted_all, finish_operation, IndInv, TypeOK
<1>2. d.completion.rec = "ok" /\ Bound /\ w.kind \notin {"observe", "verify"}
  BY <1>1, Engaged DEF IndInv, StandsLate, Completing
<1>3. CASE End("failed")
  BY <1>3, Fails
<1>4. ASSUME NEW o \in Object, grant_publisher_consumer_read(o) PROVE IndInv'
  <2> DEFINE x == d.granted \cup {o}
             v == [d EXCEPT !.granted = x]
  <2>1. Finalized /\ Write("grant", v)
    BY <1>4 DEF grant_publisher_consumer_read, require_completed_consumer_install
  <2>2. x \in SUBSET Object
    BY <1>1, Parts
  <2> HIDE DEF x
  <2>3. /\ v \in Volume /\ SameSite(v, d) /\ SamePapers(v, d)
        /\ v.tree = d.tree /\ v.public = d.public
    BY <1>1, <2>2, SetGranted
  <2> HIDE DEF v
  <2>4. /\ d' = v /\ w'.pc = "grant" /\ Remembers /\ UNCHANGED <<route, edits>>
        /\ TypeOK' /\ Requested'
    BY <1>1, <1>2, <2>1, <2>3, PutsOn DEF Control
  <2>5. Evidence'
    BY <1>2, <2>1, <2>3, <2>4 DEF IndInv, Evidence, SameSite, SamePapers, Readable, Finalized
  <2>6. Bindings'
    BY <2>3, <2>4 DEF IndInv, Bindings, SamePapers, SealedStill, lab_selected_installed_record
  <2>7. StandsEarly'
    BY <2>4 DEF StandsEarly, Opening, Staging
  <2>8. StandsLate'
    BY <1>2, <2>3, <2>4 DEF StandsLate, Sealing, Showing, Completing, Remembers, Bound, SamePapers
  <2> QED
    BY <2>4, <2>5, <2>6, <2>7, <2>8 DEF IndInv
<1>5. CASE Finalized /\ d.granted = Object /\ Goto("finish")
  <2>1. /\ w'.pc = "finish" /\ Remembers /\ w'.wrote = w.wrote /\ UNCHANGED <<d, route, edits>>
        /\ TypeOK' /\ Evidence' /\ Bindings' /\ Requested'
    BY <1>1, <1>2, <1>5, GoesOn DEF Control
  <2>2. StandsEarly'
    BY <2>1 DEF StandsEarly, Opening, Staging
  <2>3. StandsLate'
    BY <1>2, <1>5, <2>1
       DEF StandsLate, Sealing, Showing, Completing, Remembers, Bound, Finalized
  <2> QED
    BY <2>1, <2>2, <2>3 DEF IndInv
<1>6. CASE finish_operation
  <2>1. /\ Done("pass") /\ d' = [d EXCEPT !.lease = "none"]
        /\ UNCHANGED <<route, source, markers, faults, edits>>
    BY <1>6 DEF finish_operation, env
  <2>2. /\ d' \in Volume /\ SamePapers(d', d) /\ SameGoods(d', d)
        /\ d'.anchors = d.anchors /\ d'.setup = d.setup /\ d'.lease = "none"
    BY <1>1, <2>1, SetLease
  <2>3. Evidence' /\ Bindings'
    BY <2>1, <2>2, Housekeeping DEF IndInv
  <2>4. w' \in Employed /\ Requested' /\ StandsEarly' /\ StandsLate'
    BY <2>1, Ending DEF IndInv, Reply
  <2>5. TypeOK'
    BY <2>1, <2>2, <2>4 DEF IndInv, TypeOK
  <2> QED
    BY <2>3, <2>4, <2>5 DEF IndInv
<1> QED
  BY <1>3, <1>4, <1>5, <1>6 DEF granted_all, require_completed_consumer_install

(* What a later worker finds.                                              *)
LEMMA RecoveryKeeps ==
    ASSUME IndInv,
           recover_forward \/ recover_recorded \/ recover_observe \/ recover_refused
    PROVE  IndInv'
<1>1. w.pc = "recover" /\ d \in Volume /\ w \in Employed
  BY DEF recover_forward, recover_recorded, recover_observe, recover_refused, IndInv, TypeOK
<1>2. /\ w.claim = "none" /\ w.kind # "verify" /\ w.renamed = FALSE
      /\ w.wrote \/ w.kind # "apply" => Bound
  BY <1>1 DEF IndInv, StandsLate, Requested, Showing, Completing, Employed
<1>3. w.plan \in Plan \cup {"none"}
  BY <1>1 DEF Employed
<1>4. recovery_request => Bound
  <2>1. CASE w.kind = "apply"
    BY <1>3, <2>1 DEF recovery_request, require_candidate_snapshot_apply_binding, Bound
  <2> QED
    BY <1>2, <2>1
<1>5. Bound => recovery_request
  BY PublicationAssumption
     DEF recovery_request, require_candidate_snapshot_apply_binding, Bound
<1>6. ASSUME Recoverable, w.kind # "observe", NEW l \in {"commit", "completion"}, Goto(l),
             l = "commit" => d.tree.at = "staging",
             l = "completion" => d.visible.rec = "ok"
      PROVE  IndInv'
  <2>1. /\ w'.pc = l /\ Remembers /\ w'.wrote = w.wrote /\ UNCHANGED <<d, route, edits>>
        /\ TypeOK' /\ Evidence' /\ Bindings' /\ Requested'
    BY <1>1, <1>2, <1>6, GoesOn DEF Control
  <2>2. StandsEarly'
    BY <1>6, <2>1 DEF StandsEarly, Opening, Staging
  <2>3. Bound /\ d.prepared.rec = "ok"
    BY <1>4, <1>6 DEF Recoverable, recovery_records
  <2>4. StandsLate'
    BY <1>2, <1>6, <2>1, <2>3 DEF StandsLate, Sealing, Showing, Completing, Remembers, Bound
  <2> QED
    BY <2>1, <2>2, <2>4 DEF IndInv
<1>7. CASE /\ Recoverable /\ w.kind # "observe" /\ d.visible.rec = "none"
           /\ d.tree.at = "destination"
           /\ w' = [w EXCEPT !.pc = "visible", !.claim = "observed"] /\ UNCHANGED <<d, env>>
  <2>1. UNCHANGED <<d, route, source, markers, faults, edits>>
    BY <1>7 DEF env
  <2>2. /\ w' \in Employed /\ w'.pc = "visible" /\ w'.claim = "observed"
        /\ w'.kind = w.kind /\ w'.plan = w.plan /\ w'.mode = w.mode
        /\ w'.renamed = w.renamed /\ w'.wrote = w.wrote /\ w'.reply = w.reply
    BY <1>1, <1>7, Zenon DEF Employed, Control
  <2>3. TypeOK'
    BY <2>1, <2>2 DEF IndInv, TypeOK
  <2>4. Evidence' /\ Bindings'
    BY <2>1, Stays DEF IndInv
  <2>5. Requested'
    BY <1>1, <1>2, <1>7, <2>1, <2>2 DEF IndInv, Requested
  <2>6. StandsEarly'
    BY <2>2 DEF StandsEarly, Opening, Staging
  <2>7. Bound
    BY <1>4, <1>7 DEF Recoverable
  <2>8. StandsLate'
    BY <1>7, <2>1, <2>2, <2>7 DEF StandsLate, Sealing, Showing, Completing, Bound
  <2> QED
    BY <2>3, <2>4, <2>5, <2>6, <2>8 DEF IndInv
<1>8. CASE recover_forward
  BY <1>6, <1>7, <1>8 DEF recover_forward
<1>9. CASE recover_recorded
  BY <1>6, <1>9 DEF recover_recorded
<1>10. CASE recover_observe
  <2>1. End("recovery_required") /\ ~w.wrote
    BY <1>10 DEF recover_observe, IndInv, Requested
  <2> QED
    BY <2>1, Ends DEF Reply
<1>11. CASE recover_refused
  <2>1. End("failed") \/ (End("stale") /\ ~recovery_request)
    BY <1>11 DEF recover_refused
  <2>2. ~recovery_request => ~w.wrote
    BY <1>2, <1>5
  <2> QED
    BY <2>1, <2>2, Ends DEF Reply
<1> QED
  BY <1>8, <1>9, <1>10, <1>11

(* Interruptions, and what others do.                                      *)
LEMMA SurroundingsKeep ==
    ASSUME IndInv, Interrupt \/ ChangeSource \/ Edit
    PROVE  IndInv'
<1>1. CASE Interrupt
  <2>1. /\ Done("none") /\ faults' = faults + 1 /\ faults < MaxFaults
        /\ UNCHANGED <<d, route, source, markers, edits>>
    BY <1>1 DEF Interrupt
  <2>2. w' \in Employed /\ Requested' /\ StandsEarly' /\ StandsLate'
    BY <2>1, Ending DEF IndInv, Reply
  <2>3. Evidence' /\ Bindings'
    BY <2>1, Stays DEF IndInv
  <2>4. faults' \in 0 .. MaxFaults
    BY <2>1, PublicationAssumption DEF IndInv, TypeOK
  <2>5. TypeOK'
    BY <2>1, <2>2, <2>4 DEF IndInv, TypeOK
  <2> QED
    BY <2>2, <2>3, <2>5 DEF IndInv
<1>2. CASE ChangeSource
  <2>1. UNCHANGED <<d, w, route, markers, faults, edits>>
    BY <1>2 DEF ChangeSource
  <2>2. source' \in BOOLEAN
    BY <1>2, Zenon DEF ChangeSource
  <2>3. Evidence' /\ Bindings'
    BY <2>1, Stays DEF IndInv
  <2>4. TypeOK'
    BY <2>1, <2>2 DEF IndInv, TypeOK
  <2>5. Requested' /\ StandsEarly' /\ StandsLate'
    BY <2>1, StandsStill DEF IndInv
  <2> QED
    BY <2>3, <2>4, <2>5 DEF IndInv
<1>3. CASE Edit
  <2>1. /\ d.tree.at # "none" /\ edits' = edits + 1 /\ edits < MaxEdits
        /\ UNCHANGED <<w, route, source, markers, faults>>
    BY <1>3 DEF Edit
  <2>2. d \in Volume /\ edits \in Nat
    BY DEF IndInv, TypeOK
  <2>3. /\ d' \in Volume /\ d'.tree.at = d.tree.at /\ SameSite(d', d) /\ SamePapers(d', d)
        /\ d'.public = d.public /\ d'.granted = d.granted
    <3>1. CASE d' = [d EXCEPT !.tree.id = 1]
      BY <2>2, <3>1, SetIdentity, Zenon
    <3>2. ASSUME NEW f \in File, NEW x \in Content, d' = [d EXCEPT !.tree.files[f] = x]
          PROVE  /\ d' \in Volume /\ d'.tree.at = d.tree.at
                 /\ SameSite(d', d) /\ SamePapers(d', d)
                 /\ d'.public = d.public /\ d'.granted = d.granted
      <4> DEFINE g == [d.tree.files EXCEPT ![f] = x]
      <4>1. g \in [File -> Content]
        BY <2>2, <3>2, Parts DEF Tree
      <4>2. d' = [d EXCEPT !.tree.files = g]
        BY <3>2
      <4> HIDE DEF g
      <4> QED
        BY <2>2, <4>1, <4>2, SetFiles, Zenon
    <3>3. "edited" \in Content
      BY DEF Content
    <3> QED
      BY <1>3, <3>1, <3>2, <3>3 DEF Edit
  <2>4. edits' \in 0 .. MaxEdits /\ edits' # 0
    BY <2>1, <2>2, PublicationAssumption
  <2>5. TypeOK'
    BY <2>1, <2>3, <2>4 DEF IndInv, TypeOK
  <2>6. Evidence'
    BY <2>1, <2>3, SMTT(40) DEF IndInv, Evidence, SameSite, SamePapers, Readable, Finalized
  <2>7. Bindings'
    BY <2>3, <2>4 DEF IndInv, Bindings, SamePapers, lab_selected_installed_record
  <2>8. Requested'
    BY <2>1 DEF IndInv, Requested
  <2>9. StandsEarly'
    BY <2>1, <2>3, SMTT(40) DEF IndInv, StandsEarly, SameSite, SamePapers
  <2>10. StandsLate'
    BY <2>1, <2>3, <2>4 DEF IndInv, StandsLate, SamePapers, Bound, Readable, Finalized
  <2> QED
    BY <2>5, <2>6, <2>7, <2>8, <2>9, <2>10 DEF IndInv
<1> QED
  BY <1>1, <1>2, <1>3

(* Every step keeps the invariant.                                         *)
LEMMA StepKeeps == IndInv /\ [Next]_vars => IndInv'
<1> SUFFICES ASSUME IndInv, [Next]_vars PROVE IndInv'
  OBVIOUS
<1>1. CASE UNCHANGED vars
  <2>1. UNCHANGED <<d, w, route, source, markers, faults, edits>>
    BY <1>1 DEF vars, env
  <2>2. Evidence' /\ Bindings'
    BY <2>1, Stays DEF IndInv
  <2>3. TypeOK'
    BY <2>1 DEF IndInv, TypeOK
  <2>4. Requested' /\ StandsEarly' /\ StandsLate'
    BY <2>1, StandsStill DEF IndInv
  <2> QED
    BY <2>2, <2>3, <2>4 DEF IndInv
<1>2. CASE Publish
  BY <1>2, SnapshotKeeps, StagingKeeps, SealingKeeps, PreparedKeeps, RenameKeeps,
     VisibleKeeps, CompletionKeeps DEF Publish
<1>3. CASE Worker
  BY <1>2, <1>3, AdmissionKeeps, LeaseKeeps, ReservationKeeps, DispatchKeeps, EntryKeeps,
     InspectionKeeps, FinalizationKeeps, GrantKeeps, RecoveryKeeps DEF Worker
<1> QED
  BY <1>1, <1>3, RequestKeeps, RenameKeeps, SurroundingsKeep DEF Next

(* The invariant holds in every reachable state.                           *)
THEOREM Invariance == Spec => []IndInv
BY Initially, StepKeeps, PTL DEF Spec

----------------------------------------------------------------------------
(* What readers see.                                                       *)

(* What can be seen and read is an installation, in every reachable state: *)
(* the destination holds the sealed tree and consumers reach it only when  *)
(* it is complete (probe_publisher_bound_rename_no_replace,                *)
(* grant_publisher_consumer_read).                                         *)
THEOREM Readers == Spec => []ReadersSeeInstallations
<1>1. IndInv => ReadersSeeInstallations
  <2> SUFFICES ASSUME IndInv PROVE ReadersSeeInstallations
    OBVIOUS
  <2>1. VisibleIsPrepared
    BY DEF IndInv, Evidence, Bindings, VisibleIsPrepared
  <2>2. ASSUME d.granted # {}
        PROVE  /\ d.tree.at = "destination" /\ d.completion.rec = "ok" /\ Finalized
               /\ d.completion.visible = d.visible /\ d.visible.of = d.prepared
    <3>1. /\ d.completion.rec = "ok" /\ Finalized /\ d.visible.rec = "ok"
          /\ d.tree.at = "destination"
      BY <2>2 DEF IndInv, Evidence
    <3>2. d.completion = lab_selected_installed_record /\ d.visible.of = d.prepared
      BY <3>1 DEF IndInv, Bindings
    <3> QED
      BY <3>1, <3>2 DEF lab_selected_installed_record
  <2> QED
    BY <2>1, <2>2 DEF IndInv, ReadersSeeInstallations, GrantsFollowCompletion
<1> QED
  BY <1>1, Invariance, PTL

----------------------------------------------------------------------------
(* Phases and reports, step by step.                                       *)

PhaseStep == Phases!Next \/ UNCHANGED <<Phase, Owner>>

(* What one step shows of the publication and says of its own work.        *)
Told == PhaseStep /\ ClaimIsTruthful /\ PassIsComplete

(* A step that no reader of the records notices, and that passes nothing.  *)
SameTrack ==
    /\ d'.reviewed = d.reviewed /\ d'.prepared.rec = d.prepared.rec
    /\ d'.visible.rec = d.visible.rec /\ d'.completion.rec = d.completion.rec
    /\ d'.tree.at = d.tree.at /\ d'.public.installed = d.public.installed
    /\ Readable \/ d'.lease = d.lease
Silent == w'.reply = w.reply \/ w'.reply # "pass"

Phased ==
    /\ d.public.installed => Phase = 7
    /\ ~d.public.installed /\ d.completion.rec = "ok" => Phase = 6
    /\ d.completion.rec # "ok" /\ d.visible.rec = "ok" => Phase = 5
    /\ d.visible.rec # "ok" /\ d.tree.at = "destination" => Phase = 4
    /\ d.tree.at # "destination" /\ d.prepared.rec = "ok" => Phase = 3
    /\ d.prepared.rec # "ok" /\ d.tree.at = "staging" => Phase = 2
    /\ d.tree.at = "none" /\ Readable => Phase = 1
    /\ ~Readable => Phase = 0

(* The phase is the latest evidence, whatever else is there.               *)
LEMMA PhaseIs == ASSUME IndInv PROVE Phased
BY DEF Phased, Phase, IndInv, Evidence

(* The same after a step.                                                  *)
LEMMA PhaseBecomes == ASSUME IndInv' PROVE Phased'
BY DEF Phased, Phase, IndInv, Evidence

(* Whatever is published has its snapshot.                                 *)
LEMMA OfReadable ==
    ASSUME IndInv,
           \/ d.tree.at # "none" \/ d.prepared.rec # "none"
           \/ d.visible.rec # "none" \/ d.completion.rec # "none"
    PROVE  Readable
BY DEF IndInv, Evidence

(* A step that leaves the track alone.                                     *)
LEMMA Seen ==
    ASSUME IndInv, IndInv', SameTrack
    PROVE  PhaseStep /\ ClaimIsTruthful
<1>1. Readable' <=> Readable
  BY SMTT(40) DEF SameTrack, Readable
<1>2. Phase' = Phase
  BY <1>1 DEF SameTrack, Phase
<1>3. Owner' = Owner
  BY <1>1 DEF SameTrack, Owner
<1>4. ClaimIsTruthful
  BY DEF SameTrack, ClaimIsTruthful
<1> QED
  BY <1>2, <1>3, <1>4 DEF PhaseStep

(* The same, of a step that passes nothing.                                *)
LEMMA Unnoticed ==
    ASSUME IndInv, IndInv', SameTrack, Silent
    PROVE  Told
BY Seen DEF Silent, PassIsComplete, Told

(* A step to the next phase of the same plan.                              *)
LEMMA Advancing ==
    ASSUME NEW n \in 1 .. 6, Phase = n, Phase' = n + 1, Owner' = Owner
    PROVE  PhaseStep
BY DEF PhaseStep, Phases!Next, Phases!Advance

(* Moving on shows nothing.                                                *)
LEMMA QuietMove == ASSUME IndInv, NEW l, Goto(l) PROVE SameTrack /\ Silent
BY DEF Goto, SameTrack, Silent, IndInv, TypeOK, Employed

(* Ending without a pass shows nothing.                                    *)
LEMMA QuietEnd ==
    ASSUME NEW r \in {"failed", "stale", "recovery_required"}, End(r)
    PROVE  SameTrack /\ Silent
BY DEF End, Done, NoWorker, SameTrack, Silent

(* A write says nothing by itself.                                         *)
LEMMA QuietWrite ==
    ASSUME IndInv, NEW l, NEW v, Write(l, v)
    PROVE  d' = v /\ w'.reply = w.reply /\ UNCHANGED <<route, edits>>
BY DEF Write, env, IndInv, TypeOK, Employed

(* A write of something else shows nothing.                                *)
LEMMA QuietUpdate ==
    ASSUME IndInv, NEW l, NEW v, Write(l, v), SamePapers(v, d),
           v.tree.at = d.tree.at, v.public.installed = d.public.installed,
           v.lease = d.lease
    PROVE  SameTrack /\ Silent
BY QuietWrite DEF SamePapers, SameTrack, Silent

(* A gate shows nothing.                                                   *)
LEMMA QuietGate ==
    ASSUME IndInv, NEW g, NEW l, wait_for_gate(g, l)
    PROVE  SameTrack /\ Silent
BY Zenon DEF wait_for_gate, Done, NoWorker, SameTrack, Silent, IndInv, TypeOK, Employed

(* Requests, admission and dispatch show nothing.                          *)
LEMMA EntranceIsQuiet ==
    ASSUME IndInv,
           \/ operation_context_apply \/ operation_context_recover \/ admit_unregistered
           \/ prepare_intent \/ preserve_publication \/ record_absence
           \/ reserve_publication \/ dispatch_present \/ dispatch_absent
           \/ apply_in_candidate_publisher_context \/ dispatch_recover_prepared \/ Request
    PROVE  SameTrack /\ Silent
<1>1. d \in Volume /\ w \in Employed /\ w.plan \in Plan \cup {"none"}
  BY DEF IndInv, TypeOK, Employed
<1>2. ASSUME NEW l, NEW x \in {"moving", "closed"}, w.plan \in Plan,
             Write(l, [d EXCEPT !.last[w.plan] = x])
      PROVE  SameTrack /\ Silent
  BY <1>1, <1>2, SetLast, QuietUpdate DEF SameGoods, SameSite
<1>3. CASE operation_context_apply \/ operation_context_recover \/ admit_unregistered
  BY <1>3, QuietMove, QuietEnd
     DEF operation_context_apply, operation_context_recover, admit_unregistered
<1>4. CASE prepare_intent
  <2>1. w.plan \in Plan
    BY <1>4, OpeningIs DEF prepare_intent, Opening
  <2>2. d.intent \cup {w.plan} \in SUBSET Plan
    BY <1>1, <2>1, Parts
  <2>3. CASE Write("lease", [d EXCEPT !.intent = @ \cup {w.plan}])
    BY <1>1, <2>2, <2>3, SetIntent, QuietUpdate DEF SameGoods, SameSite
  <2> QED
    BY <1>4, <2>3, QuietEnd DEF prepare_intent
<1>5. CASE preserve_publication \/ record_absence \/ reserve_publication
  <2>1. w.plan \in Plan
    BY <1>5, OpeningIs DEF preserve_publication, record_absence, reserve_publication, Opening
  <2>2. ASSUME NEW l, d.attempts[w.plan] < MaxAttempts,
               Write(l, [d EXCEPT !.attempts[w.plan] = @ + 1, !.last[w.plan] = "open"])
        PROVE  SameTrack /\ Silent
    BY <1>1, <2>1, <2>2, SetReserved, QuietUpdate DEF SameGoods, SameSite
  <2>3. CASE reserve_publication
    BY <2>2, <2>3, QuietEnd DEF reserve_publication
  <2> QED
    BY <1>2, <1>5, <2>1, <2>3, QuietEnd DEF preserve_publication, record_absence
<1>6. CASE dispatch_present
  <2>1. CASE /\ Readable
             /\ d' = IF route = "child" THEN [d EXCEPT !.lease = d.reviewed] ELSE d
             /\ w'.reply = w.reply
    <3>1. CASE route = "child"
      <4>1. d.reviewed \in Plan \cup {"none"}
        BY <2>1 DEF Readable
      <4>2. SamePapers(d', d) /\ SameGoods(d', d)
        BY <1>1, <2>1, <3>1, <4>1, SetLease
      <4> QED
        BY <2>1, <4>2 DEF SamePapers, SameGoods, SameTrack, Silent
    <3> QED
      BY <2>1, <3>1 DEF SameTrack, Silent
  <2>2. ASSUME NEW l, NEW m, NEW b, w' = [w EXCEPT !.pc = l, !.mode = m, !.wrote = b]
        PROVE  w'.reply = w.reply
    BY <1>1, <2>2 DEF Employed
  <2>3. CASE /\ Readable
             /\ d' = IF route = "child" THEN [d EXCEPT !.lease = d.reviewed] ELSE d
             /\ w' = [w EXCEPT !.pc = IF recovery_journal_has_snapshot_only
                                      THEN "reenter" ELSE "recover",
                               !.mode = IF recovery_journal_has_snapshot_only
                                        THEN "reentry" ELSE "recover",
                               !.wrote = @ \/ route = "child"]
    BY <2>1, <2>2, <2>3
  <2> QED
    BY <1>6, <2>3, QuietEnd DEF dispatch_present
<1>7. CASE dispatch_absent \/ dispatch_recover_prepared
  <2>1. CASE \E m : w' = [w EXCEPT !.mode = m, !.pc = "enter"] /\ UNCHANGED d
    BY <1>1, <2>1 DEF SameTrack, Silent, Employed
  <2>2. CASE \E m : w' = [w EXCEPT !.pc = "recover", !.mode = m] /\ UNCHANGED d
    BY <1>1, <2>2 DEF SameTrack, Silent, Employed
  <2> QED
    BY <1>7, <2>1, <2>2, QuietEnd, Zenon DEF dispatch_absent, dispatch_recover_prepared
<1>8. CASE apply_in_candidate_publisher_context
  BY <1>8, QuietMove, QuietEnd DEF apply_in_candidate_publisher_context
<1>9. CASE Request
  BY <1>9, Zenon DEF Request, ScopedExecution, NoWorker, SameTrack, Silent
<1> QED
  BY <1>3, <1>4, <1>5, <1>6, <1>7, <1>8, <1>9

(* The lease makes the plan the owner, if there is none.                   *)
LEMMA LeaseIsTold ==
    ASSUME IndInv, IndInv', start_installation_lease
    PROVE  Told
<1>1. d \in Volume /\ w \in Employed /\ w.plan \in Plan /\ d.tree.at = "none"
  BY OpeningIs DEF IndInv, TypeOK, start_installation_lease, Opening
<1>2. CASE d' = [d EXCEPT !.setup = TRUE] /\ Done("failed")
  <2>1. SamePapers(d', d) /\ SameGoods(d', d) /\ d'.lease = d.lease
    BY <1>1, <1>2, SetSetup, Zenon
  <2> QED
    BY <1>2, <2>1, Unnoticed DEF SamePapers, SameGoods, SameTrack, Silent, Done, NoWorker
<1>3. CASE /\ d.lease \in {"none", w.plan}
           /\ Write("reserve", [d EXCEPT !.setup = TRUE, !.lease = w.plan])
  <2>1. d' = [d EXCEPT !.setup = TRUE, !.lease = w.plan] /\ w'.reply = w.reply
    BY <1>3, QuietWrite
  <2>2. SamePapers(d', d) /\ SameGoods(d', d) /\ d'.lease = w.plan
    BY <1>1, <2>1, SetSetupLease, Zenon
  <2>3. CASE Readable \/ d.lease = w.plan
    BY <2>1, <2>2, <2>3, Unnoticed DEF SamePapers, SameGoods, SameTrack, Silent
  <2>4. CASE ~Readable /\ d.lease = "none"
    <3>1. ~Readable'
      BY <2>2, <2>4 DEF Readable, SamePapers
    <3>2. Phase = 0 /\ Phase' = 0
      BY <2>4, <3>1, PhaseIs, PhaseBecomes DEF Phased
    <3>3. Owner = "none" /\ Owner' = w.plan
      BY <2>2, <2>4, <3>1 DEF Owner
    <3>4. PhaseStep
      BY <1>1, <3>2, <3>3 DEF PhaseStep, Phases!Next, Phases!Reserve
    <3> QED
      BY <2>1, <2>2, <3>4 DEF Told, ClaimIsTruthful, PassIsComplete, SamePapers
  <2> QED
    BY <1>3, <2>3, <2>4
<1> QED
  BY <1>2, <1>3 DEF start_installation_lease

(* A publication is put aside only before its candidate, by its owner.     *)
LEMMA RestartIsTold ==
    ASSUME IndInv, IndInv', move_publication
    PROVE  Told
<1>1. /\ d \in Volume /\ w.plan \in Plan /\ d.tree.at = "none" /\ d.lease = w.plan
      /\ d.visible.rec = "none"
  BY OpeningIs DEF IndInv, StandsEarly, move_publication, Opening
<1>2. CASE /\ partial_tree
           /\ Write("reserve", [d EXCEPT !.anchors = 0, !.reviewed = "none", !.tree = NoTree,
                                         !.prepared = NoPrepared, !.visible = NoVisible,
                                         !.completion = NoCompletion,
                                         !.last[w.plan] = "closed"])
  <2> DEFINE v == Aside(d, w.plan)
  <2>1. /\ v \in Volume /\ v.anchors = 0 /\ v.reviewed = "none" /\ v.tree = NoTree
        /\ v.prepared = NoPrepared /\ v.visible = NoVisible
        /\ v.completion = NoCompletion /\ v.public = d.public
        /\ v.granted = d.granted /\ v.setup = d.setup /\ v.lease = d.lease
    BY <1>1, SetAside
  <2> HIDE DEF v
  <2>2. d' = v /\ w'.reply = w.reply
    BY <1>2, QuietWrite DEF v, Aside
  <2>3. ~Readable'
    BY <2>1, <2>2, PublicationAssumption DEF Readable
  <2>4. Phase' = 0 /\ Owner' = w.plan
    BY <1>1, <2>1, <2>2, <2>3, PhaseBecomes DEF Phased, Owner
  <2>5. Phase \in {0, 1} /\ Owner = w.plan
    <3>1. CASE Readable
      BY <1>1, <1>2, <3>1, PhaseIs, PublicationAssumption
         DEF Phased, Owner, Readable, partial_tree
    <3>2. CASE ~Readable
      BY <1>1, <3>2, PhaseIs DEF Phased, Owner
    <3> QED
      BY <3>1, <3>2
  <2>6. PhaseStep
    BY <2>4, <2>5 DEF PhaseStep, Phases!Next, Phases!Restart
  <2>7. d'.visible.rec = "none"
    BY <2>1, <2>2, Nothing
  <2> QED
    BY <2>2, <2>6, <2>7 DEF Told, ClaimIsTruthful, PassIsComplete
<1> QED
  BY <1>2, QuietEnd, Unnoticed DEF move_publication

(* Recovery, readback and the surroundings show nothing.                   *)
LEMMA RestIsQuiet ==
    ASSUME IndInv,
           \/ finalize_reviewed_public_state
           \/ (\E o \in Object : grant_publisher_consumer_read(o)) \/ granted_all
           \/ recover_forward \/ recover_recorded \/ recover_observe \/ recover_refused
           \/ Interrupt \/ ChangeSource \/ Edit
    PROVE  SameTrack /\ Silent
<1>1. d \in Volume /\ w \in Employed
  BY DEF IndInv, TypeOK
<1>2. CASE finalize_reviewed_public_state \/ granted_all
  BY <1>2, QuietMove, QuietEnd DEF finalize_reviewed_public_state, granted_all
<1>3. ASSUME NEW o \in Object, grant_publisher_consumer_read(o)
      PROVE  SameTrack /\ Silent
  <2>1. Write("grant", [d EXCEPT !.granted = d.granted \cup {o}])
    BY <1>3 DEF grant_publisher_consumer_read
  <2>2. d.granted \cup {o} \in SUBSET Object
    BY <1>1, Parts
  <2> QED
    BY <1>1, <2>1, <2>2, SetGranted, QuietUpdate DEF SameSite
<1>4. CASE recover_forward \/ recover_recorded
  <2>1. CASE w' = [w EXCEPT !.pc = "visible", !.claim = "observed"] /\ UNCHANGED d
    BY <1>1, <2>1 DEF SameTrack, Silent, Employed
  <2> QED
    BY <1>4, <2>1, QuietMove DEF recover_forward, recover_recorded
<1>5. CASE recover_observe \/ recover_refused
  BY <1>5, QuietEnd DEF recover_observe, recover_refused
<1>6. CASE Interrupt \/ ChangeSource
  BY <1>6, Zenon DEF Interrupt, ChangeSource, Done, NoWorker, SameTrack, Silent
<1>7. CASE Edit
  <2>1. CASE d' = [d EXCEPT !.tree.id = 1]
    BY <1>1, <1>7, <2>1, SetIdentity, Zenon DEF Edit, SameSite, SamePapers, SameTrack, Silent
  <2>2. ASSUME NEW f \in File, NEW x \in Content, d' = [d EXCEPT !.tree.files[f] = x]
        PROVE  SameTrack /\ Silent
    <3> DEFINE g == [d.tree.files EXCEPT ![f] = x]
    <3>1. g \in [File -> Content]
      BY <1>1, <2>2, Parts DEF Tree
    <3>2. d' = [d EXCEPT !.tree.files = g]
      BY <2>2
    <3> HIDE DEF g
    <3>3. /\ d'.tree.at = d.tree.at /\ SamePapers(d', d) /\ d'.public = d.public
          /\ d'.lease = d.lease
      BY <1>1, <3>1, <3>2, SetFiles, Zenon DEF SameSite
    <3> QED
      BY <1>7, <3>3 DEF Edit, SamePapers, SameTrack, Silent
  <2>3. "edited" \in Content
    BY DEF Content
  <2> QED
    BY <1>7, <2>1, <2>2, <2>3 DEF Edit
<1> QED
  BY <1>2, <1>3, <1>4, <1>5, <1>6, <1>7

(* Up to the prepared record: the snapshot makes the plan the owner.       *)
LEMMA PreparationIsTold ==
    ASSUME IndInv, IndInv',
           \/ create_anchor \/ create_snapshot \/ flush_snapshot \/ create_candidate
           \/ (\E f \in File : stage_selected_archive_file(f)) \/ staged_all
           \/ reopen_anchors \/ seal_candidate \/ initialize_setup_root
           \/ create_prepared \/ flush_prepared
    PROVE  Told
<1>1. d \in Volume /\ w \in Employed
  BY DEF IndInv, TypeOK
<1>2. ASSUME SameTrack, Silent PROVE Told
  BY <1>2, Unnoticed
<1>3. CASE create_anchor
  <2> DEFINE l == IF d.anchors + 1 = Anchors THEN "snapshot" ELSE "anchors"
  <2>1. Write(l, [d EXCEPT !.anchors = d.anchors + 1])
    BY <1>3 DEF create_anchor
  <2>2. d.anchors + 1 \in 0 .. Anchors
    BY <1>1, <1>3, Parts DEF create_anchor, IndInv, StandsEarly, Anchors
  <2> HIDE DEF l
  <2> QED
    BY <1>1, <1>2, <2>1, <2>2, SetAnchors, QuietUpdate DEF SameGoods
<1>4. CASE create_snapshot
  <2>1. /\ d' = [d EXCEPT !.reviewed = "torn"] /\ w'.reply = w.reply
    BY <1>4, QuietWrite DEF create_snapshot
  <2>2. /\ d'.reviewed = "torn" /\ SameGoods(d', d) /\ d'.visible = d.visible
        /\ d'.lease = d.lease
    BY <1>1, <2>1, SetReviewed DEF SameSite
  <2>3. d.reviewed = "none"
    BY <1>4 DEF create_snapshot, IndInv, StandsEarly
  <2>4. ~Readable /\ ~Readable'
    BY <2>2, <2>3, PublicationAssumption DEF Readable
  <2>5. PhaseStep
    BY <2>2, <2>4, PhaseIs, PhaseBecomes DEF Phased, PhaseStep, Owner
  <2> QED
    BY <2>1, <2>2, <2>5 DEF Told, ClaimIsTruthful, PassIsComplete
<1>5. CASE flush_snapshot
  <2>1. /\ d' = [d EXCEPT !.reviewed = w.plan] /\ w'.reply = w.reply
    BY <1>5, QuietWrite DEF flush_snapshot
  <2>2. w.plan \in Plan /\ d.reviewed = "torn"
    BY <1>5 DEF flush_snapshot, IndInv, StandsEarly, Requested, Opening, Staging
  <2>3. /\ d'.reviewed = w.plan /\ SameGoods(d', d)
        /\ d'.visible = d.visible /\ d'.prepared = d.prepared
    BY <1>1, <2>1, <2>2, SetReviewed
  <2>4. ~Readable /\ Readable'
    BY <2>2, <2>3, PublicationAssumption DEF Readable
  <2>5. d.tree.at = "none" /\ d.prepared.rec = "none"
    BY <2>4 DEF IndInv, Evidence
  <2>6. Phase = 0 /\ Phase' = 1
    BY <2>3, <2>4, <2>5, PhaseIs, PhaseBecomes DEF Phased, SameGoods
  <2>7. Owner' = w.plan /\ Owner \in {"none", w.plan}
    <3>1. d.lease \in {"none", w.plan}
      <4>1. w.pc = "snapshot_flush" /\ route \in {"lab", "child"}
        BY <1>5, PublicationAssumption DEF flush_snapshot, IndInv, TypeOK
      <4>2. (route = "child" => d.lease = w.plan) /\ (route = "lab" => d.lease = "none")
        BY <4>1 DEF IndInv, StandsEarly, Evidence
      <4> QED
        BY <4>1, <4>2
    <3> QED
      BY <2>3, <2>4, <3>1 DEF Owner
  <2>8. PhaseStep
    BY <2>2, <2>6, <2>7 DEF PhaseStep, Phases!Next, Phases!Review
  <2> QED
    BY <2>1, <2>3, <2>8 DEF Told, ClaimIsTruthful, PassIsComplete
<1>6. CASE create_candidate
  <2>1. CASE Write("stage", [d EXCEPT !.tree.at = "staging"])
    <3>1. d' = [d EXCEPT !.tree.at = "staging"] /\ w'.reply = w.reply
      BY <2>1, QuietWrite
    <3>2. /\ d'.tree.at = "staging" /\ SamePapers(d', d) /\ d'.public = d.public
      BY <1>1, <3>1, SetPlace
    <3>3. d.tree.at = "none" /\ d.reviewed = w.plan /\ w.plan \in Plan
      BY <1>6 DEF create_candidate, IndInv, StandsEarly, Requested, Opening, Staging
    <3>4. d.prepared.rec = "none"
      BY <3>3 DEF IndInv, Evidence
    <3>5. Readable /\ Readable' /\ d'.reviewed = d.reviewed
      BY <3>2, <3>3 DEF Readable, SamePapers
    <3>6. Phase = 1 /\ Phase' = 2
      BY <3>2, <3>3, <3>4, <3>5, PhaseIs, PhaseBecomes DEF Phased, SamePapers
    <3>8. Owner' = Owner
      BY <3>5 DEF Owner
    <3>7. PhaseStep
      BY <3>6, <3>8, Advancing
    <3> QED
      BY <3>1, <3>2, <3>7 DEF Told, ClaimIsTruthful, PassIsComplete, SamePapers
  <2> QED
    BY <1>2, <1>6, <2>1, QuietEnd DEF create_candidate
<1>7. ASSUME NEW f \in File, stage_selected_archive_file(f) PROVE Told
  <2>1. w.plan \in Plan
    BY <1>7 DEF stage_selected_archive_file, IndInv, StandsEarly, Requested, Opening, Staging
  <2>2. "torn" \in Content /\ w.plan \in Content
    BY <2>1 DEF Content
  <2>3. ASSUME NEW x \in Content, Write("stage", [d EXCEPT !.tree.files[f] = x])
        PROVE  SameTrack /\ Silent
    BY <1>1, <1>7, <2>3, SetFile, QuietUpdate DEF SameSite
  <2> QED
    BY <1>2, <1>7, <2>2, <2>3, QuietEnd DEF stage_selected_archive_file
<1>8. CASE staged_all \/ reopen_anchors
  BY <1>2, <1>8, QuietMove, QuietEnd DEF staged_all, reopen_anchors
<1>9. CASE seal_candidate
  <2>1. CASE wait_for_poststage_gate
    BY <1>2, <2>1 DEF wait_for_poststage_gate, Done, NoWorker, SameTrack, Silent
  <2> QED
    BY <1>2, <1>9, <2>1, QuietMove, QuietEnd DEF seal_candidate
<1>10. CASE initialize_setup_root
  BY <1>1, <1>2, <1>10, SetSetup, QuietUpdate, Zenon DEF initialize_setup_root, SameGoods
<1>11. CASE create_prepared
  <2>1. /\ d' = [d EXCEPT !.prepared.rec = "torn"] /\ w'.reply = w.reply
    BY <1>11, QuietWrite DEF create_prepared
  <2>2. /\ d'.prepared.rec = "torn" /\ SameGoods(d', d)
        /\ d'.reviewed = d.reviewed /\ d'.visible = d.visible
    BY <1>1, <2>1, TearPrepared, Zenon
  <2>3. d.tree.at = "staging" /\ d.prepared.rec = "none" /\ Readable
    BY <1>11 DEF create_prepared, IndInv, StandsLate, Sealing
  <2>4. Readable'
    BY <2>2, <2>3 DEF Readable
  <2>5. Phase = 2 /\ Phase' = 2
    BY <2>2, <2>3, <2>4, PhaseIs, PhaseBecomes DEF Phased, SameGoods
  <2>6. PhaseStep
    BY <2>2, <2>3, <2>4, <2>5 DEF PhaseStep, Owner
  <2> QED
    BY <2>1, <2>2, <2>6 DEF Told, ClaimIsTruthful, PassIsComplete
<1>12. CASE flush_prepared
  <2>1. d' = [d EXCEPT !.prepared = PreparedRecord] /\ w'.reply = w.reply
    BY <1>12, QuietWrite DEF flush_prepared
  <2>2. /\ d.tree.at = "staging" /\ d.prepared.rec = "torn" /\ Readable /\ w'.pc = "commit"
    BY <1>1, <1>12 DEF flush_prepared, IndInv, StandsLate, Sealing, Write, Employed
  <2>3. d'.tree.at = d.tree.at /\ d'.reviewed = d.reviewed /\ d'.visible = d.visible
    BY <1>1, <2>1 DEF Volume
  <2>4. d'.prepared.rec = "ok" /\ Readable'
    BY <2>2, <2>3 DEF IndInv, StandsLate, Readable
  <2>5. Phase = 2 /\ Phase' = 3
    BY <2>2, <2>3, <2>4, PhaseIs, PhaseBecomes DEF Phased
  <2>6. Owner' = Owner
    BY <2>2, <2>3, <2>4 DEF Owner
  <2>7. PhaseStep
    BY <2>5, <2>6, Advancing
  <2> QED
    BY <2>1, <2>3, <2>7 DEF Told, ClaimIsTruthful, PassIsComplete
<1> QED
  BY <1>3, <1>4, <1>5, <1>6, <1>7, <1>8, <1>9, <1>10, <1>11, <1>12

(* From the rename to the completion record: one phase at a time, and the  *)
(* visible record claims what its worker did.                              *)
LEMMA PublicationIsTold ==
    ASSUME IndInv, IndInv',
           \/ probe_publisher_bound_rename_no_replace \/ rename_uncertain
           \/ create_visible \/ flush_visible \/ complete_selected_lab_state
           \/ flush_completion \/ final_closure
    PROVE  Told
<1>1. d \in Volume /\ w \in Employed
  BY DEF IndInv, TypeOK
<1>2. ASSUME SameTrack, Silent PROVE Told
  BY <1>2, Unnoticed
<1>3. ASSUME w.pc = "commit", d' = [d EXCEPT !.tree.at = "destination"], Silent PROVE Told
  <2>1. d'.tree.at = "destination" /\ SamePapers(d', d)
    BY <1>1, <1>3, SetPlace
  <2>2. d.tree.at = "staging" /\ d.prepared.rec = "ok"
    BY <1>3 DEF IndInv, StandsLate
  <2>3. d.visible.rec = "none" /\ Readable
    BY <2>2 DEF IndInv, Evidence
  <2>4. Readable' /\ d'.reviewed = d.reviewed /\ d'.visible.rec = "none"
    BY <2>1, <2>3 DEF Readable, SamePapers
  <2>5. Phase = 3 /\ Phase' = 4
    BY <2>1, <2>2, <2>4, PhaseIs, PhaseBecomes DEF Phased
  <2>6. Owner' = Owner
    BY <2>3, <2>4 DEF Owner
  <2>7. PhaseStep
    BY <2>5, <2>6, Advancing
  <2> QED
    BY <1>3, <2>4, <2>7 DEF Told, ClaimIsTruthful, PassIsComplete, Silent
<1>4. CASE probe_publisher_bound_rename_no_replace
  <2>1. CASE w' = [w EXCEPT !.pc = "visible", !.claim = "renamed", !.renamed = TRUE,
                           !.wrote = TRUE]
             /\ d' = [d EXCEPT !.tree.at = "destination"]
    <3>1. w'.reply = w.reply
      BY <1>1, <2>1 DEF Employed
    <3> QED
      BY <1>3, <1>4, <2>1, <3>1 DEF Silent, probe_publisher_bound_rename_no_replace
  <2> QED
    BY <1>2, <1>4, <2>1, QuietGate, QuietEnd
       DEF probe_publisher_bound_rename_no_replace, wait_for_prepublish_gate
<1>5. CASE rename_uncertain
  BY <1>3, <1>5 DEF rename_uncertain, NoWorker, Silent
<1>6. CASE create_visible
  <2>1. CASE Write("visible_flush", [d EXCEPT !.visible.rec = "torn"])
    <3>1. d' = [d EXCEPT !.visible.rec = "torn"] /\ w'.reply = w.reply
      BY <2>1, QuietWrite
    <3>2. d'.visible.rec = "torn" /\ SameGoods(d', d) /\ d'.reviewed = d.reviewed
      BY <1>1, <3>1, TearVisible, Zenon
    <3>3. d.tree.at = "destination" /\ d.visible.rec = "none"
      BY <1>6 DEF create_visible, IndInv, StandsLate
    <3>6. Readable
      BY <3>3, OfReadable
    <3>4. Phase = 4 /\ Phase' = 4
      BY <3>2, <3>3, PhaseIs, PhaseBecomes DEF Phased, SameGoods
    <3>5. PhaseStep
      BY <3>2, <3>4, <3>6 DEF PhaseStep, Owner, Readable
    <3> QED
      BY <3>1, <3>2, <3>5 DEF Told, ClaimIsTruthful, PassIsComplete
  <2> QED
    BY <1>2, <1>6, <2>1, QuietGate, QuietEnd DEF create_visible, wait_for_postrename_gate
<1>7. CASE flush_visible
  <2>1. d' = [d EXCEPT !.visible = lab_visible_record] /\ w'.reply = w.reply
    BY <1>7, QuietWrite DEF flush_visible
  <2>2. d.visible.rec = "torn" /\ (w.claim = "renamed" <=> w.renamed)
    BY <1>7 DEF flush_visible, IndInv, StandsLate, Requested
  <2>3. d.tree.at = "destination" /\ d.completion.rec = "none"
    BY <2>2 DEF IndInv, Evidence
  <2>4. /\ d'.visible = lab_visible_record /\ d'.completion = d.completion
        /\ d'.reviewed = d.reviewed
    BY <1>1, <2>1 DEF Volume
  <2>5. d'.visible.rec = "ok" /\ d'.visible.claim = w.claim
    BY <2>4 DEF lab_visible_record
  <2>6. Phase = 4 /\ Phase' = 5
    BY <2>2, <2>3, <2>4, <2>5, PhaseIs, PhaseBecomes DEF Phased
  <2>10. Readable
    BY <2>3, OfReadable
  <2>7. Owner' = Owner
    BY <2>4, <2>10 DEF Owner, Readable
  <2>8. PhaseStep
    BY <2>6, <2>7, Advancing
  <2>9. (d'.visible.claim = "renamed") = w.renamed
    BY <1>1, <2>2, <2>5 DEF Employed
  <2> QED
    BY <2>1, <2>8, <2>9 DEF Told, ClaimIsTruthful, PassIsComplete
<1>8. CASE complete_selected_lab_state
  <2>1. CASE d.completion.rec = "none"
             /\ Write("completion_flush", [d EXCEPT !.completion.rec = "torn"])
    <3>1. d' = [d EXCEPT !.completion.rec = "torn"] /\ w'.reply = w.reply
      BY <2>1, QuietWrite
    <3>2. /\ d'.completion.rec = "torn" /\ d'.reviewed = d.reviewed
          /\ d'.visible = d.visible
      BY <1>1, <3>1, TearCompletion, Zenon
    <3>3. d.visible.rec = "ok"
      BY <1>8 DEF complete_selected_lab_state, IndInv, StandsLate
    <3>6. Readable
      BY <3>3, OfReadable
    <3>4. Phase = 5 /\ Phase' = 5
      BY <2>1, <3>2, <3>3, PhaseIs, PhaseBecomes DEF Phased
    <3>5. PhaseStep
      BY <3>2, <3>4, <3>6 DEF PhaseStep, Owner, Readable
    <3> QED
      BY <3>1, <3>2, <3>5 DEF Told, ClaimIsTruthful, PassIsComplete
  <2> QED
    BY <1>2, <1>8, <2>1, QuietGate, QuietMove, QuietEnd
       DEF complete_selected_lab_state, wait_for_postjournal_gate
<1>9. CASE flush_completion
  <2>1. d' = [d EXCEPT !.completion = lab_selected_installed_record] /\ w'.reply = w.reply
    BY <1>9, QuietWrite DEF flush_completion
  <2>2. d.completion.rec = "torn"
    BY <1>9 DEF flush_completion, IndInv, StandsLate
  <2>3. d.visible.rec = "ok" /\ ~d.public.installed
    BY <2>2 DEF IndInv, Evidence
  <2>4. /\ d'.completion = lab_selected_installed_record /\ d'.visible = d.visible
        /\ d'.reviewed = d.reviewed /\ d'.public = d.public
    BY <1>1, <2>1 DEF Volume
  <2>5. d'.completion.rec = "ok"
    BY <2>4 DEF lab_selected_installed_record
  <2>6. Phase = 5 /\ Phase' = 6
    BY <2>2, <2>3, <2>4, <2>5, PhaseIs, PhaseBecomes DEF Phased
  <2>10. Readable
    BY <2>3, OfReadable
  <2>7. Owner' = Owner
    BY <2>4, <2>10 DEF Owner, Readable
  <2>8. PhaseStep
    BY <2>6, <2>7, Advancing
  <2> QED
    BY <2>1, <2>4, <2>8 DEF Told, ClaimIsTruthful, PassIsComplete
<1>10. CASE final_closure
  BY <1>2, <1>10, QuietMove, QuietEnd DEF final_closure
<1> QED
  BY <1>4, <1>5, <1>6, <1>7, <1>8, <1>9, <1>10

(* The public state: its installation is the last phase.                   *)
LEMMA FinalizationIsTold ==
    ASSUME IndInv, IndInv', finalize_protected_visible_install
    PROVE  Told
<1>1. d \in Volume /\ w.pc = "finalize"
  BY DEF IndInv, TypeOK, finalize_protected_visible_install
<1>2. d.public \in Public /\ d.completion.rec = "ok"
  BY <1>1, Parts DEF IndInv, StandsLate
<1>3. ASSUME SameTrack, Silent PROVE Told
  BY <1>3, Unnoticed
<1>4. ASSUME NEW x \in 0 .. 3, Write("finalize", [d EXCEPT !.public.chain = x]) PROVE Told
  BY <1>1, <1>3, <1>4, SetChain, QuietUpdate DEF SameSite
<1>5. CASE Write("finalize", [d EXCEPT !.public.ownership = TRUE])
  BY <1>1, <1>3, <1>5, SetOwnership, QuietUpdate, Zenon DEF SameSite
<1>6. CASE ~d.public.installed /\ Write("finalize", [d EXCEPT !.public.installed = TRUE])
  <2>1. d' = [d EXCEPT !.public.installed = TRUE] /\ w'.reply = w.reply
    BY <1>6, QuietWrite
  <2>2. d'.public.installed = TRUE /\ SamePapers(d', d)
    BY <1>1, <2>1, SetInstalled, Zenon
  <2>3. Phase = 6 /\ Phase' = 7
    BY <1>2, <1>6, <2>2, PhaseIs, PhaseBecomes DEF Phased
  <2>6. Readable
    BY <1>2, OfReadable
  <2>4. Owner' = Owner
    BY <2>2, <2>6 DEF Owner, Readable, SamePapers
  <2>5. PhaseStep
    BY <2>3, <2>4, Advancing
  <2> QED
    BY <2>1, <2>2, <2>5 DEF Told, ClaimIsTruthful, PassIsComplete, SamePapers
<1>7. CASE d.public.chain < 2 /\ Write("finalize", [d EXCEPT !.public.chain = @ + 1])
  <2>1. d.public.chain + 1 \in 0 .. 3
    BY <1>2, <1>7 DEF Public
  <2> QED
    BY <1>4, <1>7, <2>1
<1>8. 3 \in 0 .. 3
  OBVIOUS
<1> QED
  BY <1>3, <1>4, <1>5, <1>6, <1>7, <1>8, QuietMove, QuietEnd
     DEF finalize_protected_visible_install

(* A pass of an operation or of a verification is a whole installation.    *)
LEMMA PassIsTold ==
    ASSUME IndInv, IndInv', finish_operation \/ verify_completed_install_in_service
    PROVE  Told
<1>1. d \in Volume /\ w \in Employed
  BY DEF IndInv, TypeOK
<1>2. ASSUME d.completion.rec = "ok", edits = 0
      PROVE  d.tree.files = Payload(d.reviewed)
  <2>1. d.prepared.rec = "ok"
    BY <1>2 DEF IndInv, Evidence
  <2>2. d.prepared.seal.files = Payload(d.reviewed) /\ Seal(d.tree) = d.prepared.seal
    BY <1>2, <2>1 DEF IndInv, Bindings, SealedStill
  <2>3. Seal(d.tree).files = d.tree.files
    BY DEF Seal
  <2> QED
    BY <2>2, <2>3
<1>3. CASE finish_operation
  <2>1. d' = [d EXCEPT !.lease = "none"] /\ w.pc = "finish"
    BY <1>3 DEF finish_operation
  <2>2. d'.lease = "none" /\ SamePapers(d', d) /\ SameGoods(d', d)
    BY <1>1, <2>1, SetLease
  <2>3. /\ d.completion.rec = "ok" /\ Finalized /\ w.plan \in {"none", d.reviewed}
        /\ route = "child" => d.granted = Object
    BY <2>1 DEF IndInv, StandsLate, Completing, Bound
  <2>4. d.completion = lab_selected_installed_record
    BY <2>3 DEF IndInv, Bindings
  <2>5. PassIsComplete
    BY <1>2, <2>2, <2>3, <2>4 DEF PassIsComplete, SameGoods
  <2>7. Readable
    BY <2>3, OfReadable
  <2>6. SameTrack
    BY <2>2, <2>7 DEF SameTrack, SamePapers, SameGoods
  <2> QED
    BY <2>5, <2>6, Seen DEF Told
<1>4. CASE verify_completed_install_in_service
  <2>1. d' = d /\ w.kind = "verify"
    BY <1>4 DEF verify_completed_install_in_service, End
  <2>2. w.plan = "none" /\ SameTrack
    BY <2>1 DEF IndInv, Requested, SameTrack
  <2>3. CASE End("failed")
    BY <2>3, QuietEnd, Unnoticed
  <2>4. CASE observe_completed_verification_boundary
    <3>1. /\ d.completion.rec = "ok" /\ Finalized
          /\ d.completion = lab_selected_installed_record
          /\ route = "child" => d.granted = Object
      BY <2>4 DEF observe_completed_verification_boundary, recovery_tree
    <3>2. PassIsComplete
      BY <1>2, <2>1, <2>2, <3>1 DEF PassIsComplete
    <3> QED
      BY <2>2, <3>2, Seen DEF Told
  <2> QED
    BY <1>4, <2>3, <2>4 DEF verify_completed_install_in_service
<1> QED
  BY <1>3, <1>4

(* Every step is told.                                                     *)
LEMMA StepIsTold == IndInv /\ IndInv' /\ [Next]_vars => [Told]_vars
<1> SUFFICES ASSUME IndInv, IndInv', Next PROVE Told
  OBVIOUS
<1>1. CASE Publish
  BY <1>1, PreparationIsTold, PublicationIsTold DEF Publish
<1>2. CASE Worker
  BY <1>1, <1>2, EntranceIsQuiet, LeaseIsTold, RestartIsTold, RestIsQuiet, Unnoticed,
     FinalizationIsTold, PassIsTold DEF Worker
<1> QED
  BY <1>2, EntranceIsQuiet, RestIsQuiet, Unnoticed, PublicationIsTold DEF Next

(* The detailed publication implements the abstract one: it belongs to the *)
(* plan that took its lease or stored its snapshot first, its evidence     *)
(* goes through the phases one at a time, and it starts again only before  *)
(* a candidate is staged, whatever is interrupted, retried or refused      *)
(* (observe_protected_anchors, observe_prepared_recovery,                  *)
(* prepare_publication).                                                   *)
THEOREM Refinement == Spec => PhasesInOrder
<1>1. Init => Phases!Init
  <2> SUFFICES ASSUME Init PROVE Phases!Init
    OBVIOUS
  <2>1. IndInv /\ d.reviewed = "none" /\ d.lease = "none"
    BY Initially DEF Init
  <2>2. ~Readable
    BY <2>1, PublicationAssumption DEF Readable
  <2> QED
    BY <2>1, <2>2, PhaseIs, SMTT(40) DEF Phased, Owner, Phases!Init
<1>2. IndInv /\ IndInv' /\ [Next]_vars => [Phases!Next]_<<Phase, Owner>>
  <2> SUFFICES ASSUME IndInv, IndInv', [Next]_vars PROVE PhaseStep
    BY DEF PhaseStep
  <2>1. CASE UNCHANGED vars
    BY <2>1 DEF vars, PhaseStep, Phase, Owner, Readable
  <2> QED
    BY <2>1, StepIsTold DEF Told
<1> QED
  BY <1>1, <1>2, Invariance, PTL DEF Spec, PhasesInOrder, Phases!Spec

(* What a worker records or answers about its own work is true: its claim  *)
(* of the rename, its refusal, its observation and its pass                *)
(* (lab_visible_record, StaleReviewedInstallRequest, execute).             *)
THEOREM Reports == Spec => ReportsAreTruthful
<1>1. IndInv /\ IndInv' /\ [Next]_vars =>
        [ClaimIsTruthful /\ RefusalWroteNothing /\ PassIsComplete]_vars
  <2>1. IndInv' => RefusalWroteNothing
    BY DEF IndInv, Requested, RefusalWroteNothing
  <2> QED
    BY <2>1, StepIsTold DEF Told
<1> QED
  BY <1>1, Invariance, PTL DEF Spec, ReportsAreTruthful
=============================================================================
