---------------------------- MODULE ToolRegistry ----------------------------
(***************************************************************************)
(* The tool registry of sb-tools: InMemoryRegistry, one record per tool    *)
(* behind a lock, so that every operation is one step.  Administrators     *)
(* register, update, pause and hide tools at any time; preflight writes    *)
(* the fingerprint of its configuration.  Tenants are ignored, as in the   *)
(* code.  This module has no Next of its own, see Preflight.               *)
(***************************************************************************)
EXTENDS ToolManifest

CONSTANTS
    Tools,
    Manifests,      \* what administrators submit, valid or not
    Policies,       \* policy hashes they set
    Assigned,       \* states they set
    Fingerprints,   \* of configurations
    MaxAdmin        \* bound: administrative operations that succeed

States == {"registered", "enabled", "paused", "deprecated"}

Record == [manifest : Manifests, state : States,
           policy : Policies \cup {"policy:default"},
           visible : BOOLEAN, config : Fingerprints \cup {None}]

ASSUME RegistryAssumption ==
    /\ None \notin Tools \cup Policies \cup Fingerprints
    /\ None \notin Record
    /\ \A m \in Manifests :
          /\ m.id \in Tools
          /\ m.safety \in {"low", "medium", "high"}
          /\ {m.consents, m.wellFormed, m.keyed, m.deprecated} \subseteq BOOLEAN
    /\ Assigned \subseteq {"registered", "enabled", "paused", "deprecated"}
    /\ MaxAdmin \in Nat

VARIABLES
    records,    \* the record of each tool, or None
    admin       \* administrative operations so far

registry == <<records, admin>>

RegistryTypeOK ==
    /\ records \in [Tools -> Record \cup {None}]
    /\ \A t \in Tools : records[t] # None =>
          /\ records[t].manifest.id = t
          /\ Valid(records[t].manifest)
    /\ admin \in 0..MaxAdmin

RegistryInit ==
    /\ records = [t \in Tools |-> None]
    /\ admin = 0

-----------------------------------------------------------------------------
(* Administration.                                                         *)

Writes(t, r) ==
    /\ admin < MaxAdmin
    /\ admin' = admin + 1
    /\ records' = [records EXCEPT ![t] = r]

\* register: a valid manifest of a new tool, enabled and visible.
Register(m) ==
    /\ Valid(m)
    /\ records[m.id] = None
    /\ Writes(m.id, [manifest |-> m, state |-> "enabled", policy |-> "policy:default",
                     visible |-> TRUE, config |-> None])

\* update: the manifest is replaced, the rest of the record stays.
Update(m) ==
    /\ Valid(m)
    /\ records[m.id] # None
    /\ Writes(m.id, [records[m.id] EXCEPT !.manifest = m])

\* set_state
SetState(t, s) ==
    /\ records[t] # None
    /\ Writes(t, [records[t] EXCEPT !.state = s])

\* update_policy: what is not given stays.
UpdatePolicy(t, policy, visible) ==
    /\ records[t] # None
    /\ Writes(t, [records[t] EXCEPT !.policy = IF policy = None THEN @ ELSE policy,
                                    !.visible = IF visible = None THEN @ ELSE visible])

Administer(t) ==
    \/ \E m \in Manifests : m.id = t /\ (Register(m) \/ Update(m))
    \/ \E s \in Assigned : SetState(t, s)
    \/ \E p \in Policies : UpdatePolicy(t, p, None)
    \/ \E v \in BOOLEAN : UpdatePolicy(t, None, v)

-----------------------------------------------------------------------------
(* Reading.                                                                *)

\* convert: what readers get of a record.
Convert(r) ==
    [manifest |-> r.manifest,
     policy   |-> r.policy,
     enabled  |-> r.state = "enabled",
     visible  |-> r.visible /\ r.state = "enabled" /\ ~ r.manifest.deprecated,
     config   |-> r.config]

\* list, with the filters on safety class, side effects and visibility; those
\* on names and tags are text.
List(safety, effects, visibleOnly) ==
    {t \in Tools :
        /\ records[t] # None
        /\ LET spec == Convert(records[t])
           IN  /\ spec.enabled
               /\ visibleOnly => spec.visible
               /\ safety # None =>
                     spec.manifest.safety \in {SafetyClasses[i] : i \in
                         1..(CHOOSE j \in 1..3 : SafetyClasses[j] = safety)}
               /\ effects # {} => spec.manifest.effect \in effects}

\* Slip: the whole record goes back as it was read.
FingerprintRecord(t, spec, f) ==
    records' = [records EXCEPT ![t] = [manifest |-> spec.manifest,
                                       state |-> IF spec.enabled THEN "enabled" ELSE "paused",
                                       policy |-> spec.policy,
                                       visible |-> spec.visible,
                                       config |-> f]]

\* update_config_fingerprint, called by preflight with the spec it read.
Fingerprint(t, spec, f) ==
    records' = [records EXCEPT ![t] = [@ EXCEPT !.config = f]]
============================================================================
