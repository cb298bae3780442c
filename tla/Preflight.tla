----------------------------- MODULE Preflight -----------------------------
(***************************************************************************)
(* PreflightService::preflight of sb-tools over the registry, from the     *)
(* moment a caller picks a tool to the operations the sandbox runs for it. *)
(*                                                                         *)
(* A call is cut where it awaits the registry, the authorizer or the       *)
(* configuration: it works on the copy of the spec that Look read, while   *)
(* administrators go on.  An LLM picks its tool from the visible part of   *)
(* the registry's list.  What becomes of a plan is the caller's affair:    *)
(* Run hands its operations to the sandbox at any later time.              *)
(***************************************************************************)
EXTENDS ToolRegistry

CONSTANTS
    Calls,
    CallOf,         \* tool, origin, key, consent and arguments of each call
    ConfigOf,       \* fingerprint of the service each call goes through, or None
    Names, Normal, Extends, DefaultTimeout, Private,
    Executors,      \* kinds of capability the sandbox has an executor for
    Files,          \* size of the files there are at first, or None
    Horizon         \* bound: the last instant

Box == INSTANCE SandboxExec

\* What administrators have made of a tool; the fingerprint is not theirs.
Views == [manifest : Manifests, policy : Policies \cup {"policy:default"},
          enabled : BOOLEAN, visible : BOOLEAN]

ASSUME PreflightAssumption ==
    /\ \A c \in Calls :
          /\ CallOf[c].tool \in Tools
          /\ CallOf[c].consent # None => CallOf[c].consent.expires \in Nat \cup {None}
          /\ CallOf[c].args.path \in Names \cup {None}
          /\ {CallOf[c].args.body, CallOf[c].args.offset} \subseteq Nat
          /\ {CallOf[c].args.content, CallOf[c].args.size, CallOf[c].args.len}
                \subseteq Nat \cup {None}
    /\ \A m \in Manifests :
          m.limits \in [bytesIn : Nat, bytesOut : Nat, files : Nat, depth : Nat, timeout : Nat]
    /\ ConfigOf \in [Calls -> Fingerprints \cup {None}]
    /\ Normal \in [Names -> Names]
    /\ Extends \subseteq Names \X Names
    /\ Files \in [Names -> Nat \cup {None}]
    /\ None \notin Nat \cup {"write", "POST"}
    /\ None \notin Views
    /\ DefaultTimeout \in Nat \cup {None}
    /\ Horizon \in Nat

VARIABLES
    now,
    pc,         \* where each call is
    spec,       \* the copy of the tool's spec it works on
    plan,       \* its plan, or None
    ran,        \* operations executed: call, operation, instant and usage
    disk,       \* size of every file, or None
    seen,       \* history: specs the registry has held since the call was made
    since       \* history: when it was made

call == <<pc, spec, plan>>
history == <<seen, since>>
outside == <<ran, disk>>
vars == <<registry, now, call, outside, history>>

Decided == {"denied", "failed", "planned", "refused", "done"}

TypeOK ==
    /\ RegistryTypeOK
    /\ now \in 0..Horizon
    /\ pc \in [Calls -> {"new", "asked", "looked", "allowed", "armed"} \cup Decided]
    /\ since \in [Calls -> 0..Horizon]
    /\ disk \in [Names -> Nat \cup {None}]

Init ==
    /\ RegistryInit
    /\ now = 0
    /\ pc = [c \in Calls |-> "new"]
    /\ spec = [c \in Calls |-> None]
    /\ plan = [c \in Calls |-> None]
    /\ ran = {}
    /\ disk = Files
    /\ seen = [c \in Calls |-> {}]
    /\ since = [c \in Calls |-> 0]

-----------------------------------------------------------------------------

Tool(c) == CallOf[c].tool

Goes(c, p) == pc' = [pc EXCEPT ![c] = p]

View(r) ==
    IF r = None THEN None
    ELSE [manifest |-> r.manifest, policy |-> r.policy, enabled |-> r.state = "enabled",
          visible  |-> r.visible /\ r.state = "enabled" /\ ~ r.manifest.deprecated]

InProgress(c) == pc[c] \in {"asked", "looked", "allowed", "armed"}

\* Calls in progress notice what the step makes of their tool.
Noticed == seen' = [c \in Calls |-> IF InProgress(c) THEN seen[c] \cup {View(records'[Tool(c)])}
                                    ELSE seen[c]]

\* The caller picks a tool; an LLM picks one it was shown.
Ask(c) ==
    /\ pc[c] = "new"
    /\ CallOf[c].origin = "llm" => Tool(c) \in List(None, {}, TRUE)
    /\ seen' = [seen EXCEPT ![c] = {View(records[Tool(c)])}]
    /\ since' = [since EXCEPT ![c] = now]
    /\ Goes(c, "asked")
    /\ UNCHANGED <<registry, now, spec, plan, outside>>

\* The checks on the spec as it was read, before anyone else is asked.
Acceptable(c, s) ==
    /\ s.enabled
    /\ s.manifest.keyed => CallOf[c].keyed
    /\ CallOf[c].origin = "llm" => s.visible

\* registry.get and the early returns that follow it.
Look(c) ==
    /\ pc[c] = "asked"
    /\ LET r == records[Tool(c)]
       IN  IF \/ r = None
              \/ ~ Acceptable(c, Convert(r))
           THEN Goes(c, "denied") /\ UNCHANGED spec
           ELSE IF ~ CallOf[c].valid
           THEN Goes(c, "failed") /\ UNCHANGED spec
           ELSE IF ~ ConsentSuffices(r.manifest, CallOf[c].consent, now)
           THEN Goes(c, "denied") /\ UNCHANGED spec
           ELSE /\ Goes(c, "looked")
                /\ spec' = [spec EXCEPT ![c] = Convert(r)]
    /\ UNCHANGED <<registry, now, plan, outside, history>>

\* Slip: an error of the authorizer makes preflight start over.
AuthorizeAgain(c) ==
    /\ pc[c] = "looked"
    /\ \E p \in {"allowed", "denied", "asked"} : Goes(c, p)
    /\ UNCHANGED <<registry, now, spec, plan, outside, history>>

\* auth.authorize: allowed, denied, or an error that ends the preflight.
Authorize(c) ==
    /\ pc[c] = "looked"
    /\ \E p \in {"allowed", "denied", "failed"} : Goes(c, p)
    /\ UNCHANGED <<registry, now, spec, plan, outside, history>>

\* plan_exec_ops must find its arguments, and something to do.
Executable(c) ==
    /\ Plannable(spec[c].manifest, CallOf[c].args)
    /\ Operative(spec[c].manifest) # {}

\* The operations are planned; a configured service marks the registry's
\* record and its own copy with the fingerprint of its configuration.
Arm(c) ==
    /\ pc[c] = "allowed"
    /\ IF ~ Executable(c)
       THEN Goes(c, "failed") /\ UNCHANGED <<records, spec, seen>>
       ELSE /\ Goes(c, "armed")
            /\ IF ConfigOf[c] = None
               THEN UNCHANGED <<records, spec, seen>>
               ELSE /\ Fingerprint(Tool(c), spec[c], ConfigOf[c])
                    /\ spec' = [spec EXCEPT ![c] = [@ EXCEPT !.config = ConfigOf[c]]]
                    /\ Noticed
    /\ UNCHANGED <<admin, now, plan, outside, since>>

-----------------------------------------------------------------------------
(* Profile, guard and plan.                                                *)

Whitelists(m) ==
    [domains |-> {d.resource : d \in {e \in m.decls : e.domain = "net.http"}},
     paths   |-> {d.resource : d \in {e \in m.decls : e.domain = "fs"}},
     tools   |-> {d.resource : d \in {e \in m.decls : e.domain = "proc"}},
     methods |-> {d.action : d \in {e \in m.decls : e.domain = "net.http"}}]

\* build_grant
Grant(c, m) ==
    [capabilities |-> Capabilities(m), budget |-> m.limits, consent |-> CallOf[c].consent]

\* to_sandbox_manifest
SandboxManifest(m) ==
    [capabilities |-> Capabilities(m), safety |-> m.safety, effects |-> {m.effect},
     limits |-> m.limits, whitelists |-> Whitelists(m), root |-> None,
     timeout |-> m.limits.timeout]

\* build_policy_config
PolicyConfig(c, s) ==
    [capabilities |-> Capabilities(s.manifest), safety |-> s.manifest.safety,
     effects |-> {s.manifest.effect}, limits |-> s.manifest.limits,
     whitelists |-> Whitelists(s.manifest), root |-> None,
     timeout |-> s.manifest.limits.timeout, hash |-> s.policy, config |-> ConfigOf[c]]

Profile(c) ==
    Box!BuildProfile(Grant(c, spec[c].manifest), SandboxManifest(spec[c].manifest),
                     PolicyConfig(c, spec[c]))

\* Slip: the operations are planned from the registry's present manifest.
BuildAfresh(c) ==
    /\ pc[c] = "armed"
    /\ \E p \in {Profile(c)} :
          IF /\ p.capabilities # {}
              /\ \A cap \in p.capabilities : Box!Guarded(p, cap)
           THEN /\ Goes(c, "planned")
                /\ plan' = [plan EXCEPT ![c] = [spec |-> Convert(records[Tool(c)]), profile |-> p,
                                                ops |-> ExecOps(records[Tool(c)].manifest, CallOf[c].args)]]
           ELSE Goes(c, "failed") /\ UNCHANGED plan
    /\ UNCHANGED <<registry, now, spec, outside, history>>

\* The profile must have capabilities, and the guard pass all of the manifest's.
Build(c) ==
    /\ pc[c] = "armed"
    /\ \E p \in {Profile(c)} :
          IF /\ p.capabilities # {}
              /\ \A cap \in Capabilities(spec[c].manifest) : Box!Guarded(p, cap)
           THEN /\ Goes(c, "planned")
                /\ plan' = [plan EXCEPT ![c] = [spec |-> spec[c], profile |-> p,
                                                ops |-> ExecOps(spec[c].manifest, CallOf[c].args)]]
           ELSE Goes(c, "failed") /\ UNCHANGED plan
    /\ UNCHANGED <<registry, now, spec, outside, history>>

-----------------------------------------------------------------------------
(* The plan is invoked.                                                    *)

Ran(c) == {x.op : x \in {y \in ran : y.call = c}}

\* The sandbox runs an operation of the plan, or refuses it.  An operation that
\* fails, or is over the limits once it is done, ends the plan.
Run(c) ==
    /\ pc[c] = "planned"
    /\ \E o \in plan[c].ops \ Ran(c) :
          IF /\ Box!Admits(plan[c].profile, o, CallOf[c].consent, now)
             /\ Box!Kind(o) \in Executors
          THEN \E x \in Box!Execute(plan[c].profile, o, disk) :
                  /\ ran' = ran \cup {[call |-> c, op |-> o, at |-> now, usage |-> x.usage]}
                  /\ disk' = x.disk
                  /\ Goes(c, IF ~ x.ok \/ ~ Box!WithinLimits(plan[c].profile, x.usage)
                             THEN "refused"
                             ELSE IF Ran(c) \cup {o} = plan[c].ops THEN "done" ELSE "planned")
          ELSE Goes(c, "refused") /\ UNCHANGED outside
    /\ UNCHANGED <<registry, now, spec, plan, history>>

Administrate ==
    /\ \E t \in Tools : Administer(t)
    /\ Noticed
    /\ UNCHANGED <<now, call, outside, since>>

Tick ==
    /\ now < Horizon
    /\ now' = now + 1
    /\ UNCHANGED <<registry, call, outside, history>>

\* Bounds reached, calls answered: nothing left to do.
Over ==
    /\ \A c \in Calls : pc[c] \in Decided \ {"planned"} \/ pc[c] = "new"
    /\ UNCHANGED vars

Proceed(c) == Look(c) \/ Authorize(c) \/ Arm(c) \/ Build(c)

Next ==
    \/ \E c \in Calls : Ask(c) \/ Proceed(c) \/ Run(c)
    \/ Administrate
    \/ Tick
    \/ Over

Spec == Init /\ [][Next]_vars

\* Preflights that were begun are polled and providers answer.  A preflight
\* has finitely many steps, so that fairness to all together is fair to each.
FairSpec == Spec /\ WF_vars(\E c \in Calls : Proceed(c))

-----------------------------------------------------------------------------
(* Properties.                                                             *)

\* No tool that requires consent, and none of safety class High, gets a plan
\* without a consent that covers its scopes and had not ended when the call was
\* made: whatever register and update let into the registry, and however often
\* the manifest changed before the plan was built (preflight.rs:278).
PlansAreConsented ==
    \A c \in Calls :
        plan[c] # None /\ (\/ plan[c].spec.manifest.safety = "high"
                           \/ plan[c].spec.manifest.consents) =>
            LET consent == CallOf[c].consent
            IN  /\ consent # None
                /\ plan[c].spec.manifest.scopes \subseteq consent.scopes
                /\ consent.expires # None => consent.expires >= since[c]

\* The registry holds valid manifests only, and a plan is made with the consent its
\* manifest asks for (registry.rs:98, preflight.rs:278).
PreflightInv == TypeOK /\ PlansAreConsented

\* A plan describes its tool as the registry had it, enabled and open to the
\* caller, at one moment since the call was made, and all of it describes the
\* same moment: its profile covers each planned operation.  Administrators may
\* change the tool at every await of preflight.
PlanIsOneView ==
    \A c \in Calls : plan[c] # None =>
        LET s == plan[c].spec
        IN  /\ \E v \in seen[c] :
                  /\ v # None
                  /\ v.enabled /\ (CallOf[c].origin = "llm" => v.visible)
                  /\ v.manifest = s.manifest /\ v.policy = s.policy
            /\ ConfigOf[c] # None => plan[c].profile.config = ConfigOf[c]
            /\ plan[c].profile.policy = s.policy
            /\ \A o \in plan[c].ops :
                  \E cap \in plan[c].profile.capabilities :
                      cap.domain = o.domain /\ cap.action = o.action

\* What a file write or a request that is no GET did was declared, with the
\* write scope for files, consented to at that instant, and within a resource
\* the manifest names, although registration, preflight and sandbox each check
\* only a part (manifest.rs:202, manager.rs:361).
EffectsAreDeclared ==
    \A x \in ran :
        LET m == plan[x.call].spec.manifest
            consent == CallOf[x.call].consent
            o == x.op
        IN  o.action \in {"write", "POST"} =>
                /\ consent # None
                /\ consent.expires # None => consent.expires > x.at
                /\ o.domain = "fs" => "write" \in m.scopes
                /\ \E d \in m.decls :
                      /\ d.domain = o.domain
                      /\ d.action = o.action
                      /\ d.domain = "fs" => <<Normal[d.resource], Normal[o.target]>> \in Extends
                      /\ d.domain = "net.http" => <<d.resource, o.target>> \in Extends

\* The sandbox never finds out after an operation that it was over the limits of
\* its manifest, which would leave its reservation open and its evidence without
\* an end: every executor keeps to them by its own checks (manager.rs:161).
UsageFits ==
    \A x \in ran : Box!WithinLimits(plan[x.call].profile, x.usage)

\* What is executed was declared and consented to, and stays within its limits.
EffectsAreCovered == EffectsAreDeclared /\ UsageFits

\* Preflight never undoes an administrator: the fingerprint is the only thing
\* in the registry that a step of a call changes (registry.rs:173).
AdminStands ==
    [][admin' = admin =>
          \A t \in Tools : View(records'[t]) = View(records[t])]_vars

\* Every call that picked a tool gets a plan or a refusal.
AllDecided == \A c \in Calls : pc[c] = "asked" ~> pc[c] \in Decided
============================================================================
