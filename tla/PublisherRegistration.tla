----------------------- MODULE PublisherRegistration -----------------------
(***************************************************************************)
(* The service control commands of usk_publisher_registration.cpp: one     *)
(* generated service name, its protected records and executable, its SCM   *)
(* entry, and the dedicated volume it publishes to.                        *)
(*                                                                         *)
(*   register, provision, enroll, configure, start, apply, run, submit,    *)
(*   unregister, retire_binary, retire_owned                               *)
(*                                                                         *)
(* A controller process runs one command at a time under the zero-sharing  *)
(* control lock file, which the system drops when the process dies.  The   *)
(* commands interleave with the started service process, with admitted     *)
(* clients that start the service without the lock, and with other tools   *)
(* of the machine.  Every durable effect is a step of its own, so a        *)
(* command may die or fail between any two of them.                        *)
(***************************************************************************)
EXTENDS Naturals, FiniteSets

CONSTANTS
    Controller,  \* controller processes: strings
    Allowed,     \* the commands each controller may be asked to run
    Request,     \* registrations that may be asked for: strings
    Lab,         \* the requests of the laboratory modes; others admit clients
    Envelope,    \* reviewed envelopes of one apply request: strings
    MaxFaults,   \* bound on crashes and failed native calls
    MaxEdits,    \* bound on acts of other tools
    MaxStarts    \* bound on starts of the service

Op == {"register", "provision", "enroll", "configure", "start", "apply", "run",
       "submit", "unregister", "retire_binary", "retire_owned"}

ASSUME RegistrationAssumption ==
    /\ IsFiniteSet(Controller) /\ Controller # {}
    /\ Controller \cap {"none", "worker"} = {}
    /\ Allowed \in [Controller -> SUBSET Op]
    /\ Lab \subseteq Request /\ "none" \notin Request \cup Envelope
    /\ MaxFaults \in Nat /\ MaxEdits \in Nat /\ MaxStarts \in Nat

VARIABLES
    guard,    \* ServiceControlGuard: who holds the control lock file
    docs,     \* protected records of the name
    image,    \* the protected executable, and whether a .pending copy exists
    scm,      \* the entry of the name in the service control manager
    vol,      \* the volume: root and metadata security, device ACL, content
    worker,   \* the service process
    ctl,      \* the controllers
    origin,   \* ghost: root security and device ACL the volume came with
    faults, edits, starts

outside == <<origin, faults, edits, starts>>
vars == <<guard, docs, image, scm, vol, worker, ctl, outside>>

Kind == {"reviewed", "recover", "verify"}
Device == {"safe", "default", "intended", "other"}

NoIntent == [req |-> "none", device |-> "none"]
NoTarget == [meta |-> "none", root |-> "none", device |-> "none"]
NoService == [entry |-> "absent", own |-> FALSE, kind |-> "reviewed",
              restricted |-> FALSE, client |-> FALSE, running |-> FALSE]
Idle == [pc |-> "idle", op |-> "none", arg |-> "none", resuming |-> FALSE, opened |-> FALSE,
         orig |-> "none", made |-> {}]

Control == {"idle", "lock", "open", "intent", "check", "adopt", "install",
            "promote", "create", "sid", "client", "read", "bind", "exclusive", "target", "meta",
            "root", "device", "x_lock", "x_unlock", "x_strict", "admit", "blob",
            "approve", "change", "observe", "start", "close", "delete", "dispose",
            "validate", "wait"}

(* Every variable keeps its type.                                          *)
TypeOK ==
    /\ guard \in Controller \cup {"none", "worker"}
    /\ docs.intent \in [req : Request \cup {"none"}, device : {"none", "safe"}]
    /\ docs.binding \in Request \cup {"none"}
    /\ docs.target \in [meta : {"none", "original"}, root : {"none", "original", "publisher"},
                        device : Device \cup {"none"}]
    /\ docs.admitted \in BOOLEAN
    /\ docs.blob \in Envelope \cup {"none"} /\ docs.approval \in Envelope \cup {"none"}
    /\ image \in [state : {"absent", "private", "granted"}, pending : BOOLEAN]
    /\ scm \in [entry : {"absent", "present", "deleting"}, own : BOOLEAN, kind : Kind,
                restricted : BOOLEAN, client : BOOLEAN, running : BOOLEAN]
    /\ vol \in [root : {"original", "publisher"}, meta : {"original", "protected"},
                device : Device, content : {"empty", "published", "retired"}]
    /\ worker \in {"none", "starting", "serving", "served"}
    /\ ctl \in [Controller -> [pc : Control, op : Op \cup {"none"},
                  arg : Request \cup Envelope \cup Kind \cup {"none"}, resuming : BOOLEAN,
                  opened : BOOLEAN, orig : Device \cup {"none"}, 
                  made : SUBSET {"temporary", "intent", "effect"}]]
    /\ faults \in 0 .. MaxFaults /\ edits \in 0 .. MaxEdits /\ starts \in 0 .. MaxStarts

Init ==
    /\ guard = "none" /\ worker = "none"
    /\ docs = [intent |-> NoIntent, binding |-> "none", target |-> NoTarget,
               admitted |-> FALSE, blob |-> "none", approval |-> "none"]
    /\ image = [state |-> "absent", pending |-> FALSE]
    /\ scm = NoService
    /\ \E r \in {"original", "publisher"}, d \in {"safe", "default"} :
          /\ vol = [root |-> r, meta |-> "original", device |-> d,
                    content |-> "empty"]
          /\ origin = [root |-> r, device |-> d]
    /\ ctl = [c \in Controller |-> Idle]
    /\ faults = 0 /\ edits = 0 /\ starts = 0

----------------------------------------------------------------------------
(* Control of one command.                                                 *)

At(c, op, l) == ctl[c].op = op /\ ctl[c].pc = l

Goto(c, l) == ctl' = [ctl EXCEPT ![c].pc = l]

(* An effect of the command, after which it goes on at l.                  *)
Effect(c, l) == ctl' = [ctl EXCEPT ![c].pc = l, ![c].made = @ \cup {"effect"}]

LabService == docs.intent.req \in Lab
TargetDocs == docs.target # NoTarget \/ docs.admitted

(* The commands that tell a refusal from an unknown outcome.               *)
Distinguishes(op) ==
    op \notin {"configure", "run", "submit"} /\ (op \in {"start", "apply"} => ~LabService)

(* The process ends and its lock file handle with it.  What a refused      *)
(* command had made is kept for RefusedLeftNothing.                        *)
ExitAfter(c, out, made) ==
    /\ ctl' = [ctl EXCEPT ![c] = [Idle EXCEPT !.made =
                  IF out = "refused" /\ Distinguishes(ctl[c].op) THEN made ELSE {}]]
    /\ guard' = IF guard = c THEN "none" ELSE guard

Exit(c, out) == ExitAfter(c, out, ctl[c].made)

Stay == UNCHANGED <<docs, image, scm, vol, worker, outside>>
End(c, out) == Exit(c, out) /\ Stay

(* A complete flushed record is promoted under its final name.             *)
write_protected_bytes(record, v) == docs' = [docs EXCEPT ![record] = v]

(* What a failed call leaves.  A record write that fails and cannot remove *)
(* its own file leaves an unpublished .pending-<nonce> file; as no command *)
(* ever looks at such a name it is kept with the command that left it.     *)
Leftover(c) ==
    IF ctl[c].pc \in {"intent", "bind", "target", "admit", "blob", "approve"}
    THEN {{}, {"temporary"}} ELSE {{}}

read_registration_binding == docs.binding # "none"

(* The volume holds OS metadata and nothing else.                          *)
target_empty_namespace(protected) ==
    vol.content = "empty" /\ (protected => vol.meta = "protected")

(* The device ACLs a service grant is composed with.                       *)
intended_device_security == vol.device # "other"

(* require_profile and require_existing_command on a present entry.        *)
Registered == scm.entry = "present" /\ scm.own /\ scm.restricted
Stopped == ~scm.running

(* Mutant: a registration reports unknown only once the entry exists.      *)
failure_by_entry(c) ==
    IF ctl[c].op = "register" /\ scm.entry = "absent" THEN "refused" ELSE "unknown"

(* How the command reports an exception thrown where it stands: exit 3, a  *)
(* refusal, or exit 5, outcome unknown.                                    *)
Failure(c) ==
    LET l == ctl[c].pc
        unknown ==
            CASE ctl[c].op = "register"     -> l \notin {"open", "intent", "check"}
              [] ctl[c].op = "provision"    -> l # "open" /\ docs.target # NoTarget
              [] ctl[c].op = "enroll"       -> \/ ctl[c].made # {}
                                               \/ l = "blob" /\ docs.blob = "none"
              [] ctl[c].op = "start"        -> l \in {"start", "close"} /\ ~LabService
              [] ctl[c].op \in {"apply", "run"} -> l \in {"start", "close"}
              [] ctl[c].op = "retire_owned" -> TRUE
              [] OTHER                      -> FALSE
    IN  IF unknown THEN "unknown" ELSE "refused"

Refuse(c) == End(c, Failure(c))

----------------------------------------------------------------------------
(* The control lock and the start of a command.                            *)

(* Commands that look at the installed executable before they take the     *)
(* lock; a submission also reads its registration and target admission.    *)
LooksFirst == {"start", "apply", "run", "configure", "unregister", "submit"}

require_protected_binary(op) ==
    /\ image.state = "granted" /\ scm.entry # "absent"   \* the SID of the name resolves
    /\ op \in {"apply", "run", "submit"} => LabService

(* What submit_registered_request admits before the lock.                  *)
submit_admission(a) ==
    Registered /\ read_registration_binding /\ docs.admitted /\ scm.kind \in {"reviewed", a}

Argument(op) == CASE op = "register" -> Request
                  [] op = "enroll" -> Envelope
                  [] op \in {"configure", "run"} -> {"recover", "verify"}
                  [] op = "submit" -> Kind
                  [] OTHER -> {"none"}

(* publisher_service_control_main dispatches one command.                  *)
Command(c, op, a) ==
    /\ ctl[c].pc = "idle"
    /\ op \in Allowed[c] /\ a \in Argument(op)
    /\ op \in {"start", "apply", "run", "submit"} => starts < MaxStarts
    /\ LET begun(l) == [ctl EXCEPT ![c] = [Idle EXCEPT !.op = op, !.arg = a, !.pc = l]]
       IN  IF /\ op \in LooksFirst /\ require_protected_binary(op)
              /\ op = "submit" => submit_admission(a)
           THEN ctl' = begun("lock") /\ UNCHANGED guard
           ELSE IF op \notin LooksFirst /\ guard = "none"
           THEN ctl' = begun("open") /\ guard' = c
           ELSE Exit(c, "refused")
    /\ Stay

ServiceControlGuard(c) ==
    /\ ctl[c].pc = "lock"
    /\ IF guard = "none"
       THEN guard' = c /\ Goto(c, "open") /\ Stay
       ELSE Refuse(c)

----------------------------------------------------------------------------
(* register_service.                                                       *)

Register(c, l) == At(c, "register", l)

(* Mutant: a resumed registration must still find nothing of its name.     *)
open_always_clean(c) ==
    /\ Register(c, "open")
    /\ IF /\ scm.entry = "absent" /\ docs.binding = "none"
          /\ image = [state |-> "absent", pending |-> FALSE]
          /\ docs.intent.req \in {"none", ctl[c].arg}
       THEN /\ ctl' = [ctl EXCEPT ![c].pc = IF docs.intent = NoIntent THEN "intent" ELSE "check",
                                  ![c].resuming = docs.intent # NoIntent]
            /\ UNCHANGED guard /\ Stay
       ELSE Refuse(c)

(* The retained intent decides between a resumed and a new registration.   *)
register_open(c) ==
    /\ Register(c, "open")
    /\ LET r == ctl[c].arg
           resuming == docs.intent # NoIntent
           clean == /\ scm.entry = "absent" /\ docs.binding = "none"
                    /\ image = [state |-> "absent", pending |-> FALSE]
       IN  IF IF resuming THEN docs.intent.req = r ELSE clean
           THEN /\ ctl' = [ctl EXCEPT ![c].pc = IF resuming THEN "check" ELSE "intent",
                                      ![c].resuming = resuming,
                                      ![c].opened = scm.entry # "absent"]
                /\ UNCHANGED guard /\ Stay
           ELSE Refuse(c)

legacy_safe_device_transition == IF vol.device = "safe" THEN "safe" ELSE "none"

(* The creation identity is durable before the executable or the entry.    *)
(* A laboratory mode also retains a safe original device ACL.              *)
register_intent(c) ==
    /\ Register(c, "intent")
    /\ write_protected_bytes("intent",
          [req |-> ctl[c].arg,
           device |-> IF ctl[c].arg \in Lab THEN legacy_safe_device_transition ELSE "none"])
    /\ ctl' = [ctl EXCEPT ![c].pc = "check", ![c].made = {"intent"}]
    /\ UNCHANGED <<guard, image, scm, vol, worker, outside>>

(* The new or retained intent is checked again.  Every intent the code     *)
(* wrote passes, but the calls made here may fail, outside the try that    *)
(* turns a failure into an unknown outcome: the intent is durable and the  *)
(* report is a plain refusal.                                              *)
register_check(c) ==
    /\ Register(c, "check")
    /\ docs.intent.req = ctl[c].arg /\ docs.intent.device \in {"none", "safe"}
    /\ Goto(c, "adopt") /\ UNCHANGED guard /\ Stay

(* Mutant: an entry is adopted by its name alone.                          *)
adopt_by_name(c) ==
    /\ Register(c, "adopt")
    /\ IF scm.entry = "present"
       THEN Goto(c, "sid") /\ UNCHANGED guard /\ Stay
       ELSE Goto(c, "install") /\ UNCHANGED guard /\ Stay

(* Only an entry that carries the retained creation identity is adopted,   *)
(* and only the one that was open when the command began.                  *)
register_adopt(c) ==
    /\ Register(c, "adopt")
    /\ IF IF ctl[c].opened
          THEN scm.entry = "present" /\ scm.own /\ scm.kind = "reviewed" /\ Stopped
          ELSE ~read_registration_binding
       THEN Goto(c, "install") /\ UNCHANGED guard /\ Stay
       ELSE Refuse(c)

(* install_protected_binary: an orphan copy goes, an installed executable  *)
(* of the same digest stays, otherwise a new copy is written.              *)
install_protected_binary(c) ==
    /\ Register(c, "install")
    /\ IF image.state = "absent"
       THEN image' = [image EXCEPT !.pending = TRUE] /\ Effect(c, "promote") /\ UNCHANGED guard
       ELSE /\ image' = [image EXCEPT !.pending = FALSE]
            /\ IF image.state = "private" \/ (ctl[c].resuming /\ scm.entry # "absent")
               THEN Goto(c, "create") /\ UNCHANGED guard
               ELSE Exit(c, "unknown")
    /\ UNCHANGED <<docs, scm, vol, worker, outside>>

promote_binary(c) ==
    /\ Register(c, "promote")
    /\ image' = [state |-> "private", pending |-> FALSE]
    /\ Effect(c, "create")
    /\ UNCHANGED <<guard, docs, scm, vol, worker, outside>>

(* CreateService fails when the name has been taken meanwhile.             *)
create_service(c) ==
    /\ Register(c, "create")
    /\ IF ctl[c].opened
       THEN Goto(c, "sid") /\ UNCHANGED guard /\ Stay
       ELSE IF scm.entry = "absent"
       THEN /\ scm' = [NoService EXCEPT !.entry = "present", !.own = TRUE]
            /\ Effect(c, "sid") /\ UNCHANGED <<guard, docs, image, vol, worker, outside>>
       ELSE Refuse(c)

restrict_sid(c) ==
    /\ Register(c, "sid")
    /\ scm' = [scm EXCEPT !.restricted = TRUE]
    /\ Effect(c, "client")
    /\ UNCHANGED <<guard, docs, image, vol, worker, outside>>

grant_publisher_service_client_start(c) ==
    /\ Register(c, "client")
    /\ scm' = [scm EXCEPT !.client = ~LabService]
    /\ Effect(c, "read")
    /\ UNCHANGED <<guard, docs, image, vol, worker, outside>>

grant_service_binary_read(c) ==
    /\ Register(c, "read")
    /\ image' = [image EXCEPT !.state = "granted"]
    /\ Effect(c, "bind")
    /\ UNCHANGED <<guard, docs, scm, vol, worker, outside>>

(* The binding completes the registration of a still stopped service.      *)
register_binding(c) ==
    /\ Register(c, "bind")
    /\ IF Registered /\ Stopped
       THEN /\ write_protected_bytes("binding", ctl[c].arg)
            /\ Exit(c, "ok")
            /\ UNCHANGED <<image, scm, vol, worker, outside>>
       ELSE Refuse(c)

----------------------------------------------------------------------------
(* provision_registered_target.                                            *)

Provision(c, l) == At(c, "provision", l)

provision_open(c) ==
    /\ Provision(c, "open")
    /\ IF Registered /\ Stopped /\ scm.kind = "reviewed" /\ image.state = "granted"
          /\ read_registration_binding
       THEN Goto(c, "exclusive") /\ UNCHANGED guard /\ Stay
       ELSE Refuse(c)

(* FSCTL_LOCK_VOLUME succeeds only while the service has no file of the    *)
(* volume open; another tool's open file is a native_failure.              *)
Lockable == worker \in {"none", "starting"}

(* Unlocking remounts: the device ACL stays or is again the mount's own.   *)
Remounted == {vol.device, origin.device}

prove_initial_exclusive_access(c) ==
    /\ Provision(c, "exclusive")
    /\ IF Lockable
       THEN /\ \E d \in Remounted : vol' = [vol EXCEPT !.device = d]
            /\ Goto(c, "target")
            /\ UNCHANGED <<guard, docs, image, scm, worker, outside>>
       ELSE Refuse(c)

capture_mounted_device_transition ==
    [meta |-> vol.meta, root |-> vol.root, device |-> vol.device]

(* Mutant: every provisioning captures the originals anew.                 *)
intent_recaptured(c) ==
    /\ Provision(c, "target")
    /\ IF vol.content # "empty" \/ vol.device = "other" THEN Refuse(c)
       ELSE /\ docs' = [docs EXCEPT !.target = [meta |-> "original", root |-> vol.root,
                                               device |-> vol.device]]
            /\ Effect(c, "meta")
            /\ UNCHANGED <<guard, image, scm, vol, worker, outside>>

(* The originals are captured and made durable once, or read back.         *)
target_intent(c) ==
    /\ Provision(c, "target")
    /\ IF ~target_empty_namespace(FALSE) THEN Refuse(c)
       ELSE IF docs.target # NoTarget
       THEN Goto(c, "meta") /\ UNCHANGED guard /\ Stay
       ELSE IF ~intended_device_security THEN Refuse(c)
       ELSE /\ write_protected_bytes("target", capture_mounted_device_transition)
            /\ Effect(c, "meta")
            /\ UNCHANGED <<guard, image, scm, vol, worker, outside>>

protect_target_metadata(c) ==
    /\ Provision(c, "meta")
    /\ IF vol.root \in {"publisher", docs.target.root}
       THEN /\ vol' = [vol EXCEPT !.meta = "protected"]
            /\ Effect(c, "root")
            /\ UNCHANGED <<guard, docs, image, scm, worker, outside>>
       ELSE Refuse(c)

set_publisher_boundary_security(c) ==
    /\ Provision(c, "root")
    /\ vol' = [vol EXCEPT !.root = "publisher"]
    /\ Effect(c, "device")
    /\ UNCHANGED <<guard, docs, image, scm, worker, outside>>

(* Only the exact retained original of a target not yet admitted becomes   *)
(* the intended policy.                                                    *)
apply_mounted_device_transition(c) ==
    /\ Provision(c, "device")
    /\ IF vol.device = "intended" \/ (~docs.admitted /\ vol.device = docs.target.device)
       THEN /\ vol' = [vol EXCEPT !.device = "intended"]
            /\ Effect(c, "x_lock")
            /\ UNCHANGED <<guard, docs, image, scm, worker, outside>>
       ELSE Refuse(c)

target_admitted(c) ==
    /\ Provision(c, "admit")
    /\ IF target_empty_namespace(TRUE)
       THEN /\ write_protected_bytes("admitted", TRUE)
            /\ Exit(c, "ok")
            /\ UNCHANGED <<image, scm, vol, worker, outside>>
       ELSE Refuse(c)

----------------------------------------------------------------------------
(* require_exclusive_volume_admission, of provisioning and of starts.      *)

(* The retained original a remount may be repaired from: the target's      *)
(* while it is not admitted, the registration's, or the locked ACL itself. *)
RetainedOriginal(c) ==
    IF ctl[c].op = "provision"
    THEN IF docs.admitted THEN "none" ELSE docs.target.device
    ELSE IF docs.intent.device # "none" THEN docs.intent.device
    ELSE IF vol.device \in {"safe", "intended"} THEN vol.device ELSE "none"

(* A registration that retained an original never falls back from it.      *)
observe_registered_device_transition(c) ==
    ctl[c].op # "provision" /\ docs.intent.device # "none" =>
        read_registration_binding /\ vol.device \in {docs.intent.device, "intended"}

(* Under the lock a known ACL is reduced and granted; an unknown one is    *)
(* refused.                                                                *)
require_volume_device_service_access == [vol EXCEPT !.device = "intended"]

exclusive_lock(c) ==
    /\ ctl[c].pc = "x_lock"
    /\ IF /\ vol.root = "publisher" /\ Lockable
          /\ observe_registered_device_transition(c)
          /\ intended_device_security
       THEN /\ vol' = require_volume_device_service_access
            /\ ctl' = [ctl EXCEPT ![c].pc = "x_unlock", ![c].orig = RetainedOriginal(c),
                                  ![c].made = IF vol.device = "intended" THEN @
                                              ELSE @ \cup {"effect"}]
            /\ UNCHANGED <<guard, docs, image, scm, worker, outside>>
       ELSE Refuse(c)

exclusive_unlock(c) ==
    /\ ctl[c].pc = "x_unlock"
    /\ \E d \in Remounted : vol' = [vol EXCEPT !.device = d]
    /\ Goto(c, "x_strict")
    /\ UNCHANGED <<guard, docs, image, scm, worker, outside>>

(* Mutant: what the volume showed under the lock is trusted afterwards.    *)
strict_trusts_lock(c) ==
    /\ ctl[c].pc = "x_strict"
    /\ ctl' = [ctl EXCEPT ![c].pc = IF ctl[c].op = "provision" THEN "admit" ELSE "start",
                          ![c].orig = "none"]
    /\ UNCHANGED <<guard, docs, image, scm, vol, worker, outside>>

(* The remounted device must show the intended policy; only an exact safe  *)
(* original is completed to it once more.                                  *)
exclusive_strict(c) ==
    /\ ctl[c].pc = "x_strict"
    /\ IF \/ vol.device = "intended"
          \/ /\ ctl[c].orig = "safe" /\ vol.device = "safe"
             /\ ctl[c].op = "provision" => target_empty_namespace(TRUE)
       THEN /\ vol' = [vol EXCEPT !.device = "intended"]
            /\ ctl' = [ctl EXCEPT ![c].pc = IF ctl[c].op = "provision" THEN "admit" ELSE "start",
                                  ![c].orig = "none",
                                  ![c].made = IF vol.device = "intended" THEN @
                                              ELSE @ \cup {"effect"}]
            /\ UNCHANGED <<guard, docs, image, scm, worker, outside>>
       ELSE Refuse(c)

----------------------------------------------------------------------------
(* enroll_reviewed_operation: the envelope first, then its approval.       *)

enroll_open(c) ==
    /\ At(c, "enroll", "open")
    /\ IF Registered /\ Stopped /\ ~LabService /\ scm.kind = "reviewed"
          /\ image.state = "granted" /\ read_registration_binding /\ docs.admitted
       THEN Goto(c, "blob") /\ UNCHANGED guard /\ Stay
       ELSE Refuse(c)

enroll_blob(c) ==
    /\ At(c, "enroll", "blob")
    /\ IF docs.blob = "none"
       THEN /\ write_protected_bytes("blob", ctl[c].arg)
            /\ Effect(c, "approve")
            /\ UNCHANGED <<guard, image, scm, vol, worker, outside>>
       ELSE IF docs.blob = ctl[c].arg
       THEN Goto(c, "approve") /\ UNCHANGED guard /\ Stay
       ELSE Refuse(c)

enroll_approve(c) ==
    /\ At(c, "enroll", "approve")
    /\ IF Stopped /\ docs.approval \in {"none", ctl[c].arg}
       THEN /\ write_protected_bytes("approval", ctl[c].arg)
            /\ Exit(c, "ok")
            /\ UNCHANGED <<image, scm, vol, worker, outside>>
       ELSE Refuse(c)

----------------------------------------------------------------------------
(* configure_recovery, configure_verify and run_registered_operation.      *)

configure_open(c) ==
    /\ ctl[c].op \in {"configure", "run"} /\ ctl[c].pc = "open"
    /\ IF ~TargetDocs /\ Registered /\ Stopped
       THEN Goto(c, "change") /\ UNCHANGED guard /\ Stay
       ELSE Refuse(c)

change_service_config(c) ==
    /\ ctl[c].pc = "change"
    /\ scm' = [scm EXCEPT !.kind = ctl[c].arg]
    /\ Effect(c, IF ctl[c].op = "configure" THEN "close"
                 ELSE IF ctl[c].arg = "recover" THEN "x_lock" ELSE "start")
    /\ UNCHANGED <<guard, docs, image, vol, worker, outside>>

----------------------------------------------------------------------------
(* request_start and submit_registered_request.                            *)

(* A zero-sharing handle on the executable keeps SCM from starting it.     *)
ImageHeld == \E c \in Controller : \/ ctl[c].pc \in {"validate", "wait"}
                                   \/ ctl[c].pc = "dispose" /\ ctl[c].op # "unregister"

start_open(c) ==
    /\ ctl[c].op \in {"start", "apply"} /\ ctl[c].pc = "open"
    /\ IF Registered /\ Stopped /\ (ctl[c].op = "apply" => scm.kind = "reviewed")
       THEN Goto(c, "observe") /\ UNCHANGED guard /\ Stay
       ELSE Refuse(c)

(* A submission uses the service that already runs.                        *)
submit_open(c) ==
    /\ At(c, "submit", "open")
    /\ IF Registered
       THEN Goto(c, IF Stopped THEN "observe" ELSE "close") /\ UNCHANGED guard /\ Stay
       ELSE Refuse(c)

(* A target whose original device was safe is only observed; any other     *)
(* one goes through exclusive admission.                                   *)
ObservedTarget == docs.target # NoTarget /\ docs.target.device # "default"
BoundaryHolds == docs.admitted /\ vol.root = "publisher" /\ vol.device = "intended"

observe_registered_target_for_start(c) ==
    /\ ctl[c].pc = "observe"
    /\ LET verifying == IF ctl[c].op = "submit" THEN ctl[c].arg = "verify"
                        ELSE scm.kind = "verify"
       IN  IF ~verifying /\ ObservedTarget /\ BoundaryHolds
           THEN /\ ctl' = [ctl EXCEPT ![c].pc = "start", ![c].orig = "intended"]
                /\ UNCHANGED guard /\ Stay
           ELSE IF \/ ~verifying /\ docs.target # NoTarget /\ (ObservedTarget \/ ~docs.admitted)
                   \/ ctl[c].op = "start" /\ ~LabService
           THEN Refuse(c)
           ELSE Goto(c, IF verifying THEN "start" ELSE "x_lock") /\ UNCHANGED guard /\ Stay

(* StartService may fail; at the bound on starts it does.                  *)
start_service(c) ==
    /\ ctl[c].pc = "start"
    /\ IF scm.entry = "present" /\ Stopped /\ ~ImageHeld /\ starts < MaxStarts
       THEN /\ scm' = [scm EXCEPT !.running = TRUE]
            /\ worker' = "starting"
            /\ starts' = starts + 1
            /\ Effect(c, "close")
            /\ UNCHANGED <<guard, docs, image, vol, origin, faults, edits>>
       ELSE Refuse(c)

(* The closing observation, or the end of the transport of a submission.   *)
start_close(c) ==
    /\ ctl[c].pc = "close"
    /\ IF ctl[c].orig = "none" \/ BoundaryHolds
       THEN End(c, "ok")
       ELSE Refuse(c)

----------------------------------------------------------------------------
(* request_unregister and retire_protected_binary.                         *)

(* A laboratory registration has no target records; otherwise the target   *)
(* must be admitted and still empty.                                       *)
require_unpublished_public_retirement ==
    \/ ~TargetDocs
    \/ /\ docs.target # NoTarget /\ docs.admitted
       /\ vol.root = "publisher" /\ target_empty_namespace(TRUE)

unregister_open(c) ==
    /\ At(c, "unregister", "open")
    /\ IF Registered /\ Stopped /\ require_unpublished_public_retirement
       THEN Goto(c, "delete") /\ UNCHANGED guard /\ Stay
       ELSE Refuse(c)

unregister_stopped(c) ==
    /\ At(c, "unregister", "delete")
    /\ IF Stopped THEN Goto(c, "dispose") /\ UNCHANGED guard /\ Stay ELSE Refuse(c)

(* DeleteService marks the entry; it goes once nothing uses it.            *)
unregister_delete(c) ==
    /\ At(c, "unregister", "dispose")
    /\ scm' = [scm EXCEPT !.entry = "deleting"]
    /\ Exit(c, "ok")
    /\ UNCHANGED <<docs, image, vol, worker, outside>>

retire_binary_open(c) ==
    /\ At(c, "retire_binary", "open")
    /\ IF scm.entry = "absent" /\ image.state = "granted"
          /\ require_unpublished_public_retirement
       THEN Goto(c, "dispose") /\ UNCHANGED guard /\ Stay
       ELSE Refuse(c)

retire_binary_dispose(c) ==
    /\ At(c, "retire_binary", "dispose")
    /\ image' = [image EXCEPT !.state = "absent"]
    /\ Exit(c, "ok")
    /\ UNCHANGED <<docs, scm, vol, worker, outside>>

----------------------------------------------------------------------------
(* retire_owned_publisher: the custody of everything that is left.         *)

(* check_scm: the original stopped service, or its confirmed absence.      *)
check_scm == scm.entry = "absent" \/ (Registered /\ Stopped)

(* Root, device and OS metadata are as admitted, the SCM state is known.   *)
check_native_binding ==
    /\ vol.root = "publisher" /\ vol.device = "intended" /\ vol.meta = "protected"
    /\ check_scm

(* validate_owned_publisher_retirement_history: every installation of the  *)
(* volume ended retired and every historical holder is gone.               *)
validate_history == vol.content = "retired" /\ worker = "none"

custody_initialize(c) ==
    /\ At(c, "retire_owned", "open")
    /\ IF /\ read_registration_binding /\ docs.target # NoTarget /\ docs.admitted /\ ~LabService
          /\ check_native_binding
          /\ image.state = "granted" \/ (image.state = "absent" /\ scm.entry = "absent")
       THEN Goto(c, "validate") /\ UNCHANGED guard /\ Stay
       ELSE Refuse(c)

retire_after_owned_validation(c) ==
    /\ At(c, "retire_owned", "validate")
    /\ IF validate_history /\ check_native_binding
       THEN IF scm.entry = "present"
            THEN /\ scm' = [scm EXCEPT !.entry = "deleting"]
                 /\ Effect(c, "wait")
                 /\ UNCHANGED <<guard, docs, image, vol, worker, outside>>
            ELSE Goto(c, "wait") /\ UNCHANGED guard /\ Stay
       ELSE Refuse(c)

(* A bounded wait for absence; a pending deletion is not absence.          *)
wait_for_absence(c) ==
    /\ At(c, "retire_owned", "wait")
    /\ IF scm.entry = "absent"
       THEN Goto(c, "dispose") /\ UNCHANGED guard /\ Stay
       ELSE Refuse(c)

custody_dispose(c) ==
    /\ At(c, "retire_owned", "dispose")
    /\ IF scm.entry = "absent" /\ check_native_binding
       THEN /\ image' = [image EXCEPT !.state = "absent"]
            /\ Exit(c, "ok")
            /\ UNCHANGED <<docs, scm, vol, worker, outside>>
       ELSE Refuse(c)

----------------------------------------------------------------------------
(* The service process, its clients and SCM.                               *)

(* The SCM configuration and image a worker rechecks.  An entry marked for *)
(* deletion can still be read.                                             *)
observe_native == scm.own /\ image.state = "granted" /\ (LabService \/ scm.restricted)

select_reviewed_operation == docs.approval # "none" /\ docs.blob = docs.approval

(* RegisteredPublisherAdmission: a worker that admits clients takes the    *)
(* control lock and checks the records before it serves.                   *)
worker_admit ==
    /\ worker = "starting"
    /\ observe_native
    /\ IF LabService
       THEN vol.root = "publisher" /\ guard' = guard
       ELSE /\ guard = "none" /\ read_registration_binding /\ docs.admitted
            /\ guard' = "worker"
    /\ worker' = "serving"
    /\ UNCHANGED <<docs, image, scm, vol, ctl, outside>>

(* The worker installs, or uninstalls, what was reviewed: one request.     *)
worker_publish ==
    /\ worker = "serving" /\ observe_native
    /\ IF LabService THEN scm.kind = "reviewed" /\ vol.content = "empty"
       ELSE select_reviewed_operation /\ vol.content # "retired"
    /\ vol' = [vol EXCEPT !.content = IF @ = "empty" THEN "published" ELSE "retired"]
    /\ worker' = "served"
    /\ UNCHANGED <<guard, docs, image, scm, ctl, outside>>

(* The process ends: request done, refused at admission, or failed.        *)
worker_stop ==
    /\ worker # "none"
    /\ worker' = "none"
    /\ scm' = [scm EXCEPT !.running = FALSE]
    /\ guard' = IF guard = "worker" THEN "none" ELSE guard
    /\ UNCHANGED <<docs, image, vol, ctl, outside>>

(* admit_service_client starts a stopped service without the control lock. *)
admit_service_client ==
    /\ starts < MaxStarts
    /\ Registered /\ scm.client /\ Stopped /\ ~ImageHeld
    /\ scm' = [scm EXCEPT !.running = TRUE]
    /\ worker' = "starting"
    /\ starts' = starts + 1
    /\ UNCHANGED <<guard, docs, image, vol, ctl, origin, faults, edits>>

(* SCM drops a marked entry when the process and the open handles are gone.*)
scm_settle ==
    /\ scm.entry = "deleting" /\ ~scm.running
    /\ scm' = NoService
    /\ UNCHANGED <<guard, docs, image, vol, worker, ctl, outside>>

----------------------------------------------------------------------------
(* Other tools of the machine, crashes and failed native calls.            *)

Edit == edits < MaxEdits /\ edits' = edits + 1 /\ UNCHANGED <<origin, faults, starts>>

other_service ==
    /\ Edit /\ scm.entry = "absent"
    /\ scm' = [NoService EXCEPT !.entry = "present"]
    /\ UNCHANGED <<guard, docs, image, vol, worker, ctl>>

other_device ==
    /\ Edit
    /\ vol' = [vol EXCEPT !.device = "other"]
    /\ UNCHANGED <<guard, docs, image, scm, worker, ctl>>

Fault == faults < MaxFaults /\ faults' = faults + 1 /\ UNCHANGED <<origin, edits, starts>>

(* The controller process dies: handles and lock go, records stay.         *)
crash(c) ==
    /\ Fault /\ ctl[c].pc # "idle"
    /\ Exit(c, "none")
    /\ UNCHANGED <<docs, image, scm, vol, worker>>

(* A native call fails where the command stands.  A failed copy removes    *)
(* its own pending file unless that fails too.  An enrolment notes that it *)
(* may have effects before either of its writes.                           *)
native_failure(c) ==
    /\ Fault /\ ctl[c].pc # "idle"
    /\ \E left \in Leftover(c) :
          ExitAfter(c, IF ctl[c].op = "enroll" /\ left # {} THEN "unknown" ELSE Failure(c),
                    ctl[c].made \cup left)
    /\ IF Register(c, "promote")
       THEN \E left \in BOOLEAN : image' = [image EXCEPT !.pending = left]
       ELSE image' = image
    /\ UNCHANGED <<docs, scm, vol, worker>>

----------------------------------------------------------------------------
Step(c) ==
    \/ ServiceControlGuard(c)
    \/ register_open(c) \/ register_intent(c) \/ register_check(c)
    \/ register_adopt(c) \/ install_protected_binary(c) \/ promote_binary(c) \/ create_service(c)
    \/ restrict_sid(c) \/ grant_publisher_service_client_start(c)
    \/ grant_service_binary_read(c) \/ register_binding(c)
    \/ provision_open(c) \/ prove_initial_exclusive_access(c) \/ target_intent(c)
    \/ protect_target_metadata(c) \/ set_publisher_boundary_security(c)
    \/ apply_mounted_device_transition(c) \/ target_admitted(c)
    \/ exclusive_lock(c) \/ exclusive_unlock(c) \/ exclusive_strict(c)
    \/ enroll_open(c) \/ enroll_blob(c) \/ enroll_approve(c)
    \/ configure_open(c) \/ change_service_config(c)
    \/ start_open(c) \/ submit_open(c) \/ observe_registered_target_for_start(c)
    \/ start_service(c) \/ start_close(c)
    \/ unregister_open(c) \/ unregister_stopped(c) \/ unregister_delete(c)
    \/ retire_binary_open(c) \/ retire_binary_dispose(c)
    \/ custody_initialize(c) \/ retire_after_owned_validation(c)
    \/ wait_for_absence(c) \/ custody_dispose(c)

Next ==
    \/ \E c \in Controller : Step(c) \/ crash(c) \/ native_failure(c)
    \/ \E c \in Controller, op \in Op : \E a \in Argument(op) : Command(c, op, a)
    \/ worker_admit \/ worker_publish \/ worker_stop
    \/ admit_service_client \/ scm_settle
    \/ other_service \/ other_device

Spec == Init /\ [][Next]_vars

(* A started command goes on unless it dies; the service process ends; SCM *)
(* settles; and the operator repeats an interrupted registration or        *)
(* provisioning, as the "exact same-identity retry" the code asks for.     *)
Retry(op, a) == \E c \in Controller : Command(c, op, a)

Fairness ==
    /\ \A c \in Controller : WF_vars(Step(c))
    /\ SF_vars(Retry("register", docs.intent.req))
    /\ SF_vars(Retry("provision", "none"))
    /\ WF_vars(worker_stop) /\ WF_vars(scm_settle)

FairSpec == Spec /\ Fairness

----------------------------------------------------------------------------
(* Properties.                                                             *)

(* The originals of a hardened volume are never lost: whenever the root or *)
(* the metadata has been changed, the durable target intent still says     *)
(* what it was, through every crash and every later provisioning.          *)
OriginalsAreRetained ==
    /\ vol.meta # "original" => docs.target.meta = "original"
    /\ vol.root # origin.root => docs.target.root = origin.root

(* A target is recorded as admitted only while it is empty, its root and   *)
(* metadata are hardened and the remounted device shows the intended       *)
(* policy, unless another tool changed that policy after the last look.    *)
AdmittedIsHardened ==
    [][ ~docs.admitted /\ docs'.admitted =>
          /\ vol.root = "publisher" /\ vol.meta = "protected" /\ vol.content = "empty"
          /\ vol.device \in {"intended", "other"} ]_vars

(* The executable outlives every use of it: while SCM still has the owned  *)
(* entry, also one marked for deletion, and while an admitted target still *)
(* holds a publication, the service that can recover it has its image.     *)
ImageOutlivesUse ==
    /\ scm.entry # "absent" /\ scm.own => image.state # "absent"
    /\ docs.admitted /\ vol.content = "published" => image.state = "granted"

(* What recovery needs is kept as long as it may be needed: the originals  *)
(* behind a hardened volume and the executable behind a service or a       *)
(* publication, through every crash, retry and retirement.                 *)
RecoveryMeansAreKept == TypeOK /\ OriginalsAreRetained /\ ImageOutlivesUse

(* A service of that name that this registration did not create is never   *)
(* adopted, changed, started or deleted by any command.                    *)
ForeignServiceIsKept ==
    [][scm.entry = "present" /\ ~scm.own => scm' = scm]_vars

(* A registration, a provisioning, an enrolment or an admitted start that  *)
(* reports a plain refusal has put nothing in force: no executable, entry, *)
(* binding, target record, security change, enrolled operation or start.   *)
(* All it may have left is an unpublished temporary and, of a registration *)
(* that failed right after it, the intent, which is then still there for   *)
(* the same request to resume.  Once there may be more, the report is      *)
(* outcome unknown.                                                        *)
RefusedLeftNothing ==
    \A c \in Controller : ctl[c].pc = "idle" =>
        /\ "effect" \notin ctl[c].made
        /\ "intent" \in ctl[c].made => docs.intent # NoIntent

(* An interrupted registration is completed by asking again, unless the    *)
(* entry is another's or was reconfigured, or the unfinished entry was     *)
(* unregistered again after its executable had been granted; so is an      *)
(* interrupted provisioning of a volume whose retained original device ACL *)
(* was safe, unless another tool interfered.  (Both records stay once they *)
(* are written, so infinitely often says the same as leads to.)            *)
InterruptedGetsCompleted ==
    /\ []<>(docs.intent # NoIntent =>
              \/ docs.binding # "none"
              \/ scm.entry = "present" /\ (~scm.own \/ scm.kind # "reviewed")
              \/ scm.entry = "absent" /\ image.state = "granted")
    /\ []<>(docs.target.device = "safe" => docs.admitted \/ edits > 0)
=============================================================================
