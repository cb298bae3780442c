--------------------------- MODULE SandboxProfile ---------------------------
(***************************************************************************)
(* The execution profile of sb-sandbox, DefaultProfileBuilder::build, the  *)
(* DefaultPolicyGuard, and the capability and consent checks of            *)
(* Sandbox::execute.  Pure definitions.                                    *)
(*                                                                         *)
(* Names are file paths and hosts.  Normal is what normalize_path makes of *)
(* a path; Extends holds the pairs <<a, b>> where b starts with the path a *)
(* or ends with the host a.  Three sources are narrowed into a profile:    *)
(* grant, manifest and policy.                                             *)
(***************************************************************************)
EXTENDS Naturals, FiniteSets

CONSTANTS
    Names,
    Normal,
    Extends,
    None,
    DefaultTimeout      \* of PolicyDefaults, or None

-----------------------------------------------------------------------------
(* profile.rs                                                              *)

\* An empty policy allows what the manifest does.
IntersectCapabilities(grant, manifest, policy) ==
    {c \in grant : c \in manifest /\ c \in (IF policy = {} THEN manifest ELSE policy)}

\* The smaller of two limits, either of which may be absent.
MinOption(a, b) ==
    IF a = None THEN b ELSE IF b = None THEN a ELSE IF a < b THEN a ELSE b

\* A budget of zero does not limit.
Capped(a, budget) == IF budget > 0 THEN MinOption(a, budget) ELSE a

MergeLimits(manifest, policy, budget) ==
    [bytesIn  |-> Capped(MinOption(manifest.bytesIn, policy.bytesIn), budget.bytesIn),
     bytesOut |-> Capped(MinOption(manifest.bytesOut, policy.bytesOut), budget.bytesOut),
     files    |-> Capped(MinOption(manifest.files, policy.files), budget.files),
     depth    |-> MinOption(manifest.depth, policy.depth)]

\* An empty list does not restrict the other one.
IntersectList(a, b) == IF a = {} THEN b ELSE IF b = {} THEN a ELSE a \cap b

MergeWhitelists(manifest, policy) ==
    [domains |-> IntersectList(manifest.domains, policy.domains),
     paths   |-> IntersectList(manifest.paths, policy.paths),
     tools   |-> IntersectList(manifest.tools, policy.tools),
     methods |-> IntersectList(manifest.methods, policy.methods)]

\* The policy's root directory goes before the manifest's.
MergeRoot(manifest, policy) == IF policy # None THEN policy ELSE manifest

MinTimeout(manifest, policy) ==
    LET least == MinOption(MinOption(manifest, policy), DefaultTimeout)
    IN  IF least = None THEN 30000 ELSE least

Rank(safety) == CASE safety = "low" -> 0 [] safety = "medium" -> 1 [] safety = "high" -> 2

MaxSafety(a, b) == IF Rank(a) > Rank(b) THEN a ELSE b

BuildProfile(grant, manifest, policy) ==
    [capabilities |-> IntersectCapabilities(grant.capabilities, manifest.capabilities,
                                            policy.capabilities),
     safety       |-> MaxSafety(manifest.safety, policy.safety),
     effects      |-> manifest.effects \cup policy.effects,
     limits       |-> MergeLimits(manifest.limits, policy.limits, grant.budget),
     whitelists   |-> MergeWhitelists(manifest.whitelists, policy.whitelists),
     root         |-> MergeRoot(manifest.root, policy.root),
     timeout      |-> MinTimeout(manifest.timeout, policy.timeout),
     policy       |-> policy.hash,
     config       |-> IF policy.config = None THEN policy.hash ELSE policy.config]

-----------------------------------------------------------------------------
(* guard.rs                                                                *)

PathAllowed(profile, path) ==
    /\ profile.root # None => <<Normal[profile.root], Normal[path]>> \in Extends
    /\ profile.whitelists.paths # {} =>
          \E a \in profile.whitelists.paths : <<a, Normal[path]>> \in Extends

DomainAllowed(profile, host) ==
    \E a \in profile.whitelists.domains : <<a, host>> \in Extends

ToolAllowed(profile, tool) == tool \in profile.whitelists.tools

\* DefaultPolicyGuard::validate.
Guarded(profile, cap) ==
    /\ cap \in profile.capabilities
    /\ cap.domain = "fs" => PathAllowed(profile, cap.resource)
    /\ cap.domain = "net.http" => DomainAllowed(profile, cap.resource)
    /\ cap.domain = "proc" => ToolAllowed(profile, cap.resource)

-----------------------------------------------------------------------------
(* manager.rs                                                              *)

\* Slip: the action of the capability is not compared.
SelectAnyAction(profile, oper) ==
    {c \in profile.capabilities :
        /\ c.domain = oper.domain
        /\ c.domain = "fs" => <<Normal[c.resource], Normal[oper.target]>> \in Extends
        /\ c.domain = "net.http" => <<c.resource, oper.target>> \in Extends}

\* select_capability: the capabilities that cover an operation.
Select(profile, oper) ==
    {c \in profile.capabilities :
        /\ c.domain = oper.domain
        /\ c.action = oper.action
        /\ c.domain = "fs" => <<Normal[c.resource], Normal[oper.target]>> \in Extends
        /\ c.domain = "net.http" => <<c.resource, oper.target>> \in Extends}

RequiresConsent(cap, profile) ==
    \/ cap.domain = "fs" /\ cap.action = "write"
    \/ cap.domain = "net.http" /\ cap.action \notin {"GET", "HEAD"}
    \/ cap.domain = "proc"
    \/ cap.domain = "browser" /\ profile.safety = "high"

\* ensure_consent of the sandbox: here the last instant does not count.
ConsentStands(cap, consent, profile, now) ==
    RequiresConsent(cap, profile) =>
        /\ consent # None
        /\ consent.expires # None => consent.expires > now

\* What Sandbox::execute checks before it calls the executor.
Admits(profile, oper, consent, now) ==
    \E c \in Select(profile, oper) :
        ConsentStands(c, consent, profile, now) /\ Guarded(profile, c)
============================================================================
