---------------------------- MODULE ToolManifest ----------------------------
(***************************************************************************)
(* Tool manifests and what sb-tools derives from one: ToolManifest         *)
(* ::validate, the capabilities and operations of mapping.rs and the       *)
(* consent check of preflight.  Pure definitions.                          *)
(*                                                                         *)
(* A manifest is a record: id, wellFormed (its id and schemas are valid),  *)
(* safety, effect, consents (consent is required), maxTTL (or None),       *)
(* scopes, decls (its capability declarations), keyed, deprecated and      *)
(* limits.  A declaration has a domain, an action and a resource; the      *)
(* lists of the code are sets, their order decides nothing here.           *)
(***************************************************************************)
EXTENDS Naturals, FiniteSets

CONSTANT None

Domains == {"fs", "net.http", "tmp", "browser", "proc"}
SafetyClasses == <<"low", "medium", "high">>

\* Who declares that it writes files must ask for the write scope.
Aligned(m) ==
    (\E d \in m.decls : d.domain = "fs" /\ d.action = "write") => "write" \in m.scopes

\* ToolManifest::validate
Valid(m) ==
    /\ m.wellFormed
    /\ ~ (m.safety = "low" /\ m.effect \in {"write", "process"})
    /\ m.safety = "high" => m.consents
    /\ m.decls # {}
    /\ Aligned(m)

-----------------------------------------------------------------------------
(* mapping.rs                                                              *)

\* The declarations that stand for a capability of the sandbox.
Meaningful(d) ==
    /\ d.domain \in Domains
    /\ d.domain = "fs" => d.action \in {"read", "write", "list"}

Capability(d) ==
    [domain   |-> d.domain,
     action   |-> IF d.domain \in {"fs", "net.http"} THEN d.action ELSE None,
     resource |-> IF d.domain = "tmp" THEN None ELSE d.resource]

Capabilities(m) == {Capability(d) : d \in {e \in m.decls : Meaningful(e)}}

\* The declarations that become an operation of every call.
Operative(m) ==
    {d \in m.decls : \/ d.domain \in {"net.http", "tmp"}
                     \/ d.domain = "fs" /\ d.action \in {"read", "write"}}

\* The field of the arguments an operation cannot do without.
Lacks(d, args) ==
    \/ d.domain = "net.http" /\ args.url = None
    \/ d.domain = "fs" /\ args.path = None
    \/ d.domain = "fs" /\ d.action = "write" /\ args.content = None

Operation(d, args) ==
    [domain    |-> d.domain,
     action    |-> IF d.domain = "tmp" THEN None ELSE d.action,
     target    |-> CASE d.domain = "net.http" -> args.url
                     [] d.domain = "fs"       -> args.path
                     [] d.domain = "tmp"      -> None,
     size      |-> CASE d.domain = "net.http" -> args.body
                     [] d.domain = "fs"       -> IF d.action = "write" THEN args.content ELSE 0
                     [] d.domain = "tmp"      -> IF args.size = None THEN 1024 ELSE args.size,
     offset    |-> args.offset,
     len       |-> args.len,
     overwrite |-> args.overwrite]

Plannable(m, args) == \A d \in Operative(m) : ~ Lacks(d, args)

ExecOps(m, args) == {Operation(d, args) : d \in Operative(m)}

-----------------------------------------------------------------------------
(* preflight.rs, ensure_consent                                            *)

\* Slip: any consent will do.
ConsentPresent(m, consent, now) == m.consents => consent # None

\* A required consent is there, has not ended, does not last longer than the
\* manifest allows (one without an end passes), and covers the scopes.
ConsentSuffices(m, consent, now) ==
    m.consents =>
        /\ consent # None
        /\ consent.expires # None =>
              /\ consent.expires >= now
              /\ m.maxTTL # None => consent.expires - now <= m.maxTTL
        /\ m.scopes \subseteq consent.scopes
============================================================================
