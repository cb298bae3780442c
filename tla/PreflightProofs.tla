-------------------------- MODULE PreflightProofs --------------------------
(***************************************************************************)
(* Safety of preflight and of the sandbox behind it, for all tools, calls, *)
(* manifests and arguments, any number of administrative operations and    *)
(* any way names normalize and extend each other.                          *)
(***************************************************************************)
EXTENDS Preflight, TLAPS

USE RegistryAssumption, PreflightAssumption

-----------------------------------------------------------------------------
(* Mapping, profile and executors.                                         *)

\* The three sources of preflight's profile are one manifest.
LEMMA ProfileCapabilities ==
  ASSUME NEW c, NEW s
  PROVE  Box!BuildProfile(Grant(c, s.manifest), SandboxManifest(s.manifest),
                          PolicyConfig(c, s)).capabilities = Capabilities(s.manifest)
  BY DEF Box!BuildProfile, Box!IntersectCapabilities, Grant, SandboxManifest, PolicyConfig

\* Each planned operation comes from a declaration that has a capability.
LEMMA OperationHasCapability ==
  ASSUME NEW m, NEW args, NEW o \in ExecOps(m, args)
  PROVE  /\ o.domain \in {"fs", "net.http", "tmp"}
         /\ o.domain = "fs" => o.action \in {"read", "write"}
         /\ \E cap \in Capabilities(m) : cap.domain = o.domain /\ cap.action = o.action
  <1>1. PICK d \in Operative(m) : o = Operation(d, args)
    BY DEF ExecOps
  <1>2. d \in m.decls /\ d.domain \in {"fs", "net.http", "tmp"}
    BY DEF Operative
  <1>3. d.domain = "fs" => d.action \in {"read", "write"}
    BY DEF Operative
  <1>4. Capability(d) \in Capabilities(m)
    BY <1>2, <1>3 DEF Capabilities, Meaningful, Domains
  <1>5. /\ o.domain = d.domain
        /\ o.action = IF d.domain = "tmp" THEN None ELSE d.action
    BY <1>1 DEF Operation
  <1>6. /\ Capability(d).domain = d.domain
        /\ Capability(d).action = IF d.domain \in {"fs", "net.http"} THEN d.action ELSE None
    BY DEF Capability
  <1> QED
    BY <1>2, <1>3, <1>4, <1>5, <1>6

\* The arguments of planned operations are numbers, and their files have names.
LEMMA OperationArguments ==
  ASSUME NEW c \in Calls, NEW m, Plannable(m, CallOf[c].args),
         NEW o \in ExecOps(m, CallOf[c].args)
  PROVE  /\ o.size \in Nat /\ o.offset \in Nat /\ o.len \in Nat \cup {None}
         /\ o.domain = "fs" => o.target \in Names
  <1> DEFINE args == CallOf[c].args
  <1>1. PICK d \in Operative(m) : o = Operation(d, args)
    BY DEF ExecOps
  <1>2. d.domain \in {"fs", "net.http", "tmp"}
    BY DEF Operative
  <1>3. ~ Lacks(d, args)
    BY DEF Plannable
  <1>4. /\ args.body \in Nat /\ args.offset \in Nat /\ args.path \in Names \cup {None}
        /\ args.content \in Nat \cup {None}
        /\ args.size \in Nat \cup {None} /\ args.len \in Nat \cup {None}
    OBVIOUS
  <1>5. o.offset = args.offset /\ o.len = args.len
    BY <1>1 DEF Operation
  <1> HIDE DEF args
  <1>6. CASE d.domain = "net.http"
    BY <1>1, <1>4, <1>5, <1>6 DEF Operation
  <1>7. CASE d.domain = "tmp"
    BY <1>1, <1>4, <1>5, <1>7 DEF Operation
  <1>8. CASE d.domain = "fs"
    BY <1>1, <1>3, <1>4, <1>5, <1>8 DEF Operation, Lacks
  <1> QED
    BY <1>2, <1>6, <1>7, <1>8

LEMMA MinOptionBounds ==
  ASSUME NEW a \in Nat \cup {None}, NEW b \in Nat
  PROVE  /\ Box!MinOption(a, b) \in Nat /\ Box!MinOption(a, b) <= b
         /\ Box!MinOption(b, a) \in Nat /\ Box!MinOption(b, a) <= b
  BY DEF Box!MinOption

LEMMA MergedLimits ==
  ASSUME NEW c, NEW s, s.manifest \in Manifests
  PROVE  LET limits == Box!BuildProfile(Grant(c, s.manifest), SandboxManifest(s.manifest),
                                        PolicyConfig(c, s)).limits
         IN  limits.bytesIn \in Nat /\ limits.bytesOut \in Nat /\ limits.files \in Nat
  <1> DEFINE m == s.manifest
             p == Box!BuildProfile(Grant(c, m), SandboxManifest(m), PolicyConfig(c, s))
  <1>1. p.limits = Box!MergeLimits(m.limits, m.limits, m.limits)
    BY DEF Box!BuildProfile, Grant, SandboxManifest, PolicyConfig
  <1>2. m.limits.bytesIn \in Nat /\ m.limits.bytesOut \in Nat /\ m.limits.files \in Nat
    OBVIOUS
  <1> HIDE DEF m
  <1>3. \A n \in Nat : Box!Capped(Box!MinOption(n, n), n) \in Nat
    BY DEF Box!Capped, Box!MinOption
  <1> QED
    BY <1>1, <1>2, <1>3 DEF m, Box!MergeLimits

\* No executor reports more than the limits, and files keep sizes.
LEMMA ExecutorsKeepLimits ==
  ASSUME NEW p, p.limits.bytesIn \in Nat, p.limits.bytesOut \in Nat, p.limits.files \in Nat,
         NEW o, o.size \in Nat, o.offset \in Nat, o.len \in Nat \cup {None},
         o.domain \in {"fs", "net.http", "tmp"},
         o.domain = "fs" => o.action \in {"read", "write"} /\ o.target \in Names,
         NEW files \in [Names -> Nat \cup {None}],
         NEW x \in Box!Execute(p, o, files)
  PROVE  /\ Box!WithinLimits(p, x.usage)
         /\ x.disk \in [Names -> Nat \cup {None}]
  <1> DEFINE Fits(y) == /\ y.usage.bytesIn \in Nat /\ y.usage.bytesIn <= p.limits.bytesIn
                        /\ y.usage.bytesOut \in Nat /\ y.usage.bytesOut <= p.limits.bytesOut
                        /\ y.usage.files \in Nat /\ y.usage.files <= p.limits.files
                        /\ y.disk \in [Names -> Nat \cup {None}]
  <1>0. SUFFICES Fits(x)
    BY DEF Box!WithinLimits, Box!Exceeds
  <1>1. ASSUME NEW d \in [Names -> Nat \cup {None}]
        PROVE  Fits(Box!Failure(d))
    BY <1>1 DEF Box!Failure, Box!Usage
  <1>2. ASSUME NEW d \in [Names -> Nat \cup {None}],
               NEW a \in Nat, NEW b \in Nat, NEW n \in Nat,
               a <= p.limits.bytesIn, b <= p.limits.bytesOut, n <= p.limits.files
        PROVE  Fits(Box!Success(Box!Usage(a, b, n), d))
    BY <1>2 DEF Box!Success, Box!Usage
  <1> HIDE DEF Fits
  <1>h. ASSUME NEW n \in Nat
        PROVE  [files EXCEPT ![o.target] = n] \in [Names -> Nat \cup {None}]
    OBVIOUS
  <1>3. CASE o.domain = "fs" /\ o.action = "read"
    <2>1. x \in Box!ReadFile(p, o, files)
      BY <1>3 DEF Box!Execute, Box!Kind
    <2> DEFINE size == files[o.target]
               rest == IF size > o.offset THEN size - o.offset ELSE 0
               most == Box!MinOption(rest, Box!MinOption(o.len, p.limits.bytesIn))
    <2>2. CASE x = Box!Failure(files)
      BY <1>1, <2>2
    <2>3. CASE size # None /\ x = Box!Success(Box!Usage(most, 0, 0), files)
      <3>1. size \in Nat
        BY <1>3, <2>3
      <3>2. rest \in Nat
        BY <3>1
      <3>3. /\ Box!MinOption(o.len, p.limits.bytesIn) \in Nat
            /\ Box!MinOption(o.len, p.limits.bytesIn) <= p.limits.bytesIn
        BY MinOptionBounds
      <3> HIDE DEF rest
      <3>4. PICK l \in Nat : l = Box!MinOption(o.len, p.limits.bytesIn)
        BY <3>3
      <3>5. Box!MinOption(rest, l) \in Nat /\ Box!MinOption(rest, l) <= l
        BY <3>2, MinOptionBounds
      <3>6. most \in Nat /\ most <= p.limits.bytesIn
        BY <3>3, <3>4, <3>5
      <3> HIDE DEF most
      <3> QED
        BY <1>2, <2>3, <3>6
    <2> QED
      BY <2>1, <2>2, <2>3 DEF Box!ReadFile
  <1>4. CASE o.domain = "fs" /\ o.action = "write"
    <2>1. x \in Box!WriteFile(p, o, files)
      BY <1>4 DEF Box!Execute, Box!Kind
    <2>2. CASE x = Box!Failure(files)
      BY <1>1, <2>2
    <2>3. CASE \E n \in 0..(o.size - 1) : x = Box!Failure([files EXCEPT ![o.target] = n])
      <3>1. PICK n \in 0..(o.size - 1) : x = Box!Failure([files EXCEPT ![o.target] = n])
        BY <2>3
      <3>2. n \in Nat
        OBVIOUS
      <3> QED
        BY <1>1, <1>h, <3>1, <3>2
    <2>4. CASE /\ x = Box!Success(Box!Usage(0, o.size, 1), [files EXCEPT ![o.target] = o.size])
               /\ ~ Box!Exceeds(o.size, p.limits.bytesOut)
               /\ p.limits.files # 0
      <3>1. o.size <= p.limits.bytesOut /\ 1 <= p.limits.files
        BY <2>4 DEF Box!Exceeds
      <3>2. [files EXCEPT ![o.target] = o.size] \in [Names -> Nat \cup {None}]
        BY <1>h
      <3>3. 0 \in Nat /\ 1 \in Nat /\ 0 <= p.limits.bytesIn
        OBVIOUS
      <3>4. \A d \in [Names -> Nat \cup {None}] :
               Fits(Box!Success(Box!Usage(0, o.size, 1), d))
        BY <1>2, <3>1, <3>3
      <3> QED
        BY <2>4, <3>2, <3>4
    <2>5. \/ x = Box!Failure(files)
          \/ x \in {Box!Failure([files EXCEPT ![o.target] = n]) : n \in 0..(o.size - 1)}
          \/ /\ x = Box!Success(Box!Usage(0, o.size, 1), [files EXCEPT ![o.target] = o.size])
             /\ ~ Box!Exceeds(o.size, p.limits.bytesOut)
             /\ p.limits.files # 0
      BY <2>1 DEF Box!WriteFile
    <2> QED
      BY <2>2, <2>3, <2>4, <2>5
  <1>5. CASE o.domain = "net.http"
    <2>1. x \in Box!Request(p, o, files)
      BY <1>5 DEF Box!Execute, Box!Kind
    <2>2. CASE x = Box!Failure(files)
      BY <1>1, <2>2
    <2>3. CASE /\ x = Box!Success(Box!Usage(0, o.size, 0), files)
               /\ ~ Box!Exceeds(o.size, p.limits.bytesOut)
      BY <1>2, <2>3 DEF Box!Exceeds
    <2> QED
      BY <2>1, <2>2, <2>3 DEF Box!Request
  <1>6. CASE o.domain = "tmp"
    <2>1. x \in Box!AllocateTmp(p, o, files)
      BY <1>6 DEF Box!Execute, Box!Kind
    <2>2. CASE x = Box!Failure(files)
      BY <1>1, <2>2
    <2>3. CASE /\ x = Box!Success(Box!Usage(0, o.size, 0), files)
               /\ ~ Box!Exceeds(o.size, p.limits.bytesOut)
      BY <1>2, <2>3 DEF Box!Exceeds
    <2> QED
      BY <2>1, <2>2, <2>3 DEF Box!AllocateTmp
  <1> QED
    BY <1>3, <1>4, <1>5, <1>6

-----------------------------------------------------------------------------
(* The invariant.                                                          *)

Specs == [manifest : Manifests, policy : Policies \cup {"policy:default"},
          enabled : BOOLEAN, visible : BOOLEAN, config : Fingerprints \cup {None}]

\* The call's consent is what the manifest asks for.
Consented(c, m) ==
    m.consents =>
        LET consent == CallOf[c].consent
        IN  /\ consent # None
            /\ m.scopes \subseteq consent.scopes
            /\ consent.expires # None => consent.expires >= since[c]

\* The registry had it so, enabled and open to the caller, since the call was made.
WasSeen(c, s) ==
    \E v \in seen[c] :
        /\ v # None
        /\ v.enabled /\ (CallOf[c].origin = "llm" => v.visible)
        /\ v.manifest = s.manifest /\ v.policy = s.policy

Sound(c, s) == s \in Specs /\ Valid(s.manifest) /\ Consented(c, s.manifest) /\ WasSeen(c, s)

ProfileOf(c, s) ==
    Box!BuildProfile(Grant(c, s.manifest), SandboxManifest(s.manifest), PolicyConfig(c, s))

\* The profile carries the policy's hash and configuration.
LEMMA ProfileSettings ==
  ASSUME NEW c, NEW s
  PROVE  /\ ProfileOf(c, s).policy = s.policy
         /\ ConfigOf[c] # None => ProfileOf(c, s).config = ConfigOf[c]
  <1> DEFINE p == PolicyConfig(c, s)
  <1>1. p.hash = s.policy /\ p.config = ConfigOf[c]
    BY DEF PolicyConfig
  <1> HIDE DEF p
  <1>2. /\ ProfileOf(c, s).policy = p.hash
        /\ p.config # None => ProfileOf(c, s).config = p.config
    BY DEF ProfileOf, Box!BuildProfile, p
  <1> QED
    BY <1>1, <1>2

\* What a plan is made of: one spec.
Planned(c) ==
    /\ Sound(c, plan[c].spec)
    /\ Plannable(plan[c].spec.manifest, CallOf[c].args)
    /\ plan[c].ops = ExecOps(plan[c].spec.manifest, CallOf[c].args)
    /\ plan[c].profile = ProfileOf(c, plan[c].spec)

HasPlan(c) == pc[c] \in {"planned", "refused", "done"}

CallInv(c) ==
    /\ since[c] <= now
    /\ InProgress(c) => View(records[Tool(c)]) \in seen[c]
    /\ pc[c] \in {"looked", "allowed", "armed"} =>
          Sound(c, spec[c]) /\ records[Tool(c)] # None
    /\ pc[c] = "armed" => Plannable(spec[c].manifest, CallOf[c].args)
    /\ HasPlan(c) => Planned(c)
    /\ ~ HasPlan(c) => plan[c] = None

\* The functions are functions of the calls; their values are CallInv's.
Shape ==
    /\ spec = [c \in Calls |-> spec[c]]
    /\ plan = [c \in Calls |-> plan[c]]
    /\ seen = [c \in Calls |-> seen[c]]

RanInv ==
    /\ \A x \in ran : x.call \in Calls /\ HasPlan(x.call)
    /\ EffectsAreCovered

Inv == TypeOK /\ Shape /\ (\A c \in Calls : CallInv(c)) /\ RanInv

-----------------------------------------------------------------------------
(* The registry.                                                           *)

LEMMA ViewTyped ==
  ASSUME NEW r \in Record
  PROVE  View(r) \in Views /\ View(r) # None /\ r # None
  <1>1. r # None
    OBVIOUS
  <1>2. /\ r.manifest \in Manifests /\ r.policy \in Policies \cup {"policy:default"}
        /\ r.visible \in BOOLEAN
    BY DEF Record
  <1>3. View(r) = [manifest |-> r.manifest, policy |-> r.policy,
                   enabled |-> r.state = "enabled",
                   visible |-> r.visible /\ r.state = "enabled" /\ ~ r.manifest.deprecated]
    BY <1>1 DEF View
  <1>4. View(r) \in Views
    BY <1>2, <1>3 DEF Views
  <1> QED
    BY <1>1, <1>4

\* What becomes of a record when one part of it is written.
LEMMA RecordUpdates ==
  ASSUME NEW r \in Record
  PROVE  /\ \A m \in Manifests : /\ [r EXCEPT !.manifest = m] \in Record
                                 /\ [r EXCEPT !.manifest = m].manifest = m
         /\ \A st \in States : /\ [r EXCEPT !.state = st] \in Record
                               /\ [r EXCEPT !.state = st].manifest = r.manifest
         /\ \A p \in Policies \cup {"policy:default"} :
               /\ [r EXCEPT !.policy = p] \in Record
               /\ [r EXCEPT !.policy = p].manifest = r.manifest
         /\ \A v \in BOOLEAN : /\ [r EXCEPT !.visible = v] \in Record
                               /\ [r EXCEPT !.visible = v].manifest = r.manifest
         /\ \A f \in Fingerprints \cup {None} :
               /\ [r EXCEPT !.config = f] \in Record
               /\ [r EXCEPT !.config = f].manifest = r.manifest
               /\ View([r EXCEPT !.config = f]) = View(r)
  <1>1. /\ r.manifest \in Manifests /\ r.state \in States
        /\ r.policy \in Policies \cup {"policy:default"}
        /\ r.visible \in BOOLEAN /\ r.config \in Fingerprints \cup {None}
        /\ r = [manifest |-> r.manifest, state |-> r.state, policy |-> r.policy,
                visible |-> r.visible, config |-> r.config]
    BY DEF Record
  <1>2. ASSUME NEW m \in Manifests
        PROVE  /\ [r EXCEPT !.manifest = m] \in Record
               /\ [r EXCEPT !.manifest = m].manifest = m
    BY <1>1 DEF Record
  <1>3. ASSUME NEW st \in States
        PROVE  /\ [r EXCEPT !.state = st] \in Record
               /\ [r EXCEPT !.state = st].manifest = r.manifest
    BY <1>1 DEF Record
  <1>4. ASSUME NEW p \in Policies \cup {"policy:default"}
        PROVE  /\ [r EXCEPT !.policy = p] \in Record
               /\ [r EXCEPT !.policy = p].manifest = r.manifest
    BY <1>1 DEF Record
  <1>5. ASSUME NEW v \in BOOLEAN
        PROVE  /\ [r EXCEPT !.visible = v] \in Record
               /\ [r EXCEPT !.visible = v].manifest = r.manifest
    BY <1>1 DEF Record
  <1>6. ASSUME NEW f \in Fingerprints \cup {None}
        PROVE  /\ [r EXCEPT !.config = f] \in Record
               /\ [r EXCEPT !.config = f].manifest = r.manifest
               /\ View([r EXCEPT !.config = f]) = View(r)
    <2> DEFINE q == [manifest |-> r.manifest, state |-> r.state, policy |-> r.policy,
                     visible |-> r.visible, config |-> f]
    <2>1. [r EXCEPT !.config = f] = q
      BY <1>1
    <2>2. q \in Record
      BY <1>1 DEF Record
    <2>3. q # None /\ r # None
      BY <2>2
    <2>4. /\ q.manifest = r.manifest /\ q.state = r.state
          /\ q.policy = r.policy /\ q.visible = r.visible
      OBVIOUS
    <2> HIDE DEF q
    <2>5. View(q) = View(r)
      BY <2>3, <2>4 DEF View
    <2> QED
      BY <2>1, <2>2, <2>4, <2>5
  <1> QED
    BY <1>2, <1>3, <1>4, <1>5, <1>6

\* Administration keeps the registry's types, and no record disappears.
LEMMA AdministerTyped ==
  ASSUME RegistryTypeOK, NEW t \in Tools, Administer(t)
  PROVE  /\ RegistryTypeOK'
         /\ \A u \in Tools : records[u] # None => records'[u] # None
         /\ admin' # admin
  <1> DEFINE Good(u, r) == /\ u \in Tools /\ r \in Record /\ Writes(u, r)
                           /\ r.manifest.id = u /\ Valid(r.manifest)
  <1>1. \E u, r : Good(u, r)
    <2>1. ASSUME NEW m \in Manifests, Register(m)
          PROVE  \E u, r : Good(u, r)
      <3> DEFINE r == [manifest |-> m, state |-> "enabled", policy |-> "policy:default",
                       visible |-> TRUE, config |-> None]
      <3>1. r \in Record /\ m.id \in Tools
        BY DEF Record, States
      <3>2. Writes(m.id, r) /\ Valid(r.manifest) /\ r.manifest = m
        BY <2>1 DEF Register
      <3> QED
        BY <3>1, <3>2
    <2>2. ASSUME NEW u \in Tools, records[u] # None
          PROVE  /\ records[u] \in Record /\ records[u].manifest.id = u
                 /\ Valid(records[u].manifest)
      BY <2>2 DEF RegistryTypeOK
    <2>3. ASSUME NEW m \in Manifests, m.id = t, Update(m)
          PROVE  \E u, r : Good(u, r)
      <3>1. records[t] # None /\ Valid(m) /\ Writes(t, [records[t] EXCEPT !.manifest = m])
        BY <2>3 DEF Update
      <3>2. PICK r \in Record : r = records[t]
        BY <2>2, <3>1
      <3>3. [r EXCEPT !.manifest = m] \in Record /\ [r EXCEPT !.manifest = m].manifest = m
        BY RecordUpdates
      <3>4. Good(t, [r EXCEPT !.manifest = m])
        BY <2>3, <3>1, <3>2, <3>3
      <3> QED
        BY <3>4
    <2>4. ASSUME NEW s \in Assigned, SetState(t, s)
          PROVE  \E u, r : Good(u, r)
      <3>1. records[t] # None /\ Writes(t, [records[t] EXCEPT !.state = s]) /\ s \in States
        BY <2>4 DEF SetState, States
      <3>2. PICK r \in Record : r = records[t]
        BY <2>2, <3>1
      <3>3. /\ [r EXCEPT !.state = s] \in Record
            /\ [r EXCEPT !.state = s].manifest = r.manifest
        BY <3>1, RecordUpdates
      <3>4. Good(t, [r EXCEPT !.state = s])
        BY <2>2, <3>1, <3>2, <3>3
      <3> QED
        BY <3>4
    <2>5. ASSUME NEW p \in Policies \cup {None}, NEW v \in BOOLEAN \cup {None},
                 UpdatePolicy(t, p, v)
          PROVE  \E u, r : Good(u, r)
      <3>1. records[t] # None
        BY <2>5 DEF UpdatePolicy
      <3>2. PICK r \in Record : r = records[t]
        BY <2>2, <3>1
      <3>3. PICK q \in Policies \cup {"policy:default"} :
                q = IF p = None THEN r.policy ELSE p
        BY DEF Record
      <3>4. PICK w \in BOOLEAN : w = IF v = None THEN r.visible ELSE v
        BY DEF Record
      <3>p. [r EXCEPT !.policy = q] \in Record /\ [r EXCEPT !.policy = q].manifest = r.manifest
        BY RecordUpdates
      <3>5. PICK r1 \in Record : r1 = [r EXCEPT !.policy = q] /\ r1.manifest = r.manifest
        BY <3>p
      <3>6. /\ [r1 EXCEPT !.visible = w] \in Record
            /\ [r1 EXCEPT !.visible = w].manifest = r.manifest
        <4>1. /\ [r1 EXCEPT !.visible = w] \in Record
              /\ [r1 EXCEPT !.visible = w].manifest = r1.manifest
          BY RecordUpdates, Zenon
        <4> QED
          BY <3>5, <4>1
      <3>7. [r EXCEPT !.policy = q, !.visible = w] = [r1 EXCEPT !.visible = w]
        BY <3>5 DEF Record
      <3>8. Writes(t, [r EXCEPT !.policy = q, !.visible = w])
        <4>1. Writes(t, [r EXCEPT !.policy = IF p = None THEN @ ELSE p,
                                  !.visible = IF v = None THEN @ ELSE v])
          BY <2>5, <3>2 DEF UpdatePolicy
        <4>2. [r EXCEPT !.policy = IF p = None THEN @ ELSE p,
                        !.visible = IF v = None THEN @ ELSE v]
                 = [r EXCEPT !.policy = q, !.visible = w]
          BY <3>3, <3>4 DEF Record
        <4> QED
          BY <4>1, <4>2
      <3>9. Good(t, [r1 EXCEPT !.visible = w])
        BY <2>2, <3>1, <3>2, <3>6, <3>7, <3>8
      <3> QED
        BY <3>9
    <2> QED
      BY <2>1, <2>3, <2>4, <2>5 DEF Administer
  <1>2. PICK u, r : Good(u, r)
    BY <1>1
  <1>3. /\ admin < MaxAdmin /\ admin' = admin + 1
        /\ records' = [records EXCEPT ![u] = r]
    BY <1>2 DEF Writes
  <1> QED
    BY <1>2, <1>3 DEF RegistryTypeOK

\* The fingerprint changes no view.
LEMMA FingerprintTyped ==
  ASSUME RegistryTypeOK, NEW t \in Tools, records[t] # None, NEW s,
         NEW f \in Fingerprints \cup {None}, Fingerprint(t, s, f), admin' = admin
  PROVE  /\ RegistryTypeOK'
         /\ \A u \in Tools : /\ View(records'[u]) = View(records[u])
                             /\ records[u] # None => records'[u] # None
  <1>1. PICK r \in Record : r = records[t]
    BY DEF RegistryTypeOK
  <1>2. PICK q \in Record : /\ q = [r EXCEPT !.config = f]
                            /\ q.manifest = r.manifest /\ View(q) = View(r)
    <2>1. /\ [r EXCEPT !.config = f] \in Record
          /\ [r EXCEPT !.config = f].manifest = r.manifest
          /\ View([r EXCEPT !.config = f]) = View(r)
      BY RecordUpdates
    <2> QED
      BY <2>1
  <1>3. records' = [records EXCEPT ![t] = q]
    BY <1>1, <1>2 DEF Fingerprint
  <1>4. q # None
    OBVIOUS
  <1> QED
    BY <1>1, <1>2, <1>3, <1>4 DEF RegistryTypeOK

-----------------------------------------------------------------------------
(* What others do to a call.                                               *)

\* A call is as it was, but for what it has seen and the time.
LEMMA CallKeeps ==
  ASSUME TypeOK, TypeOK', NEW c \in Calls, CallInv(c),
         pc'[c] = pc[c], spec'[c] = spec[c], plan'[c] = plan[c], since'[c] = since[c],
         seen[c] \subseteq seen'[c], now <= now',
         records[Tool(c)] # None => records'[Tool(c)] # None,
         InProgress(c) => View(records'[Tool(c)]) \in seen'[c]
  PROVE  CallInv(c)'
  <1>1. ASSUME NEW s, Sound(c, s)
        PROVE  Sound(c, s)'
    BY <1>1 DEF Sound, Consented, WasSeen, Specs
  <1>2. /\ InProgress(c)' <=> InProgress(c)
        /\ HasPlan(c)' <=> HasPlan(c)
    BY DEF InProgress, HasPlan
  <1>3. since'[c] <= now'
    BY DEF CallInv, TypeOK
  <1>4. pc[c] \in {"looked", "allowed", "armed"} => Sound(c, spec[c])' /\ records'[Tool(c)] # None
    BY <1>1 DEF CallInv
  <1>5. HasPlan(c) => Planned(c)'
    BY <1>1 DEF CallInv, Planned, ProfileOf, PolicyConfig, Grant
  <1> QED
    BY <1>2, <1>3, <1>4, <1>5 DEF CallInv, InProgress

\* What has run is as it was, and so are the plans it belongs to.
LEMMA RanKeeps ==
  ASSUME RanInv, ran' = ran,
         \A c \in Calls : HasPlan(c) => HasPlan(c)' /\ plan'[c] = plan[c]
  PROVE  RanInv'
  BY DEF RanInv, EffectsAreCovered, EffectsAreDeclared, UsageFits

\* A step of one call that leaves registry, world and history alone.
LEMMA OthersKeep ==
  ASSUME Inv, TypeOK', NEW c \in Calls, UNCHANGED <<registry, now, history>>,
         \A d \in Calls \ {c} : pc'[d] = pc[d] /\ spec'[d] = spec[d] /\ plan'[d] = plan[d]
  PROVE  \A d \in Calls \ {c} : CallInv(d)'
  <1> TAKE d \in Calls \ {c}
  <1>1. /\ records' = records /\ now' = now /\ seen' = seen /\ since' = since
    BY DEF registry, history
  <1>2. now <= now' /\ CallInv(d) /\ TypeOK
    BY <1>1 DEF Inv, TypeOK
  <1>3. InProgress(d) => View(records'[Tool(d)]) \in seen'[d]
    <2>1. View(records'[Tool(d)]) = View(records[Tool(d)])
      BY <1>1
    <2> QED
      BY <1>1, <1>2, <2>1 DEF CallInv
  <1> QED
    BY <1>1, <1>2, <1>3, CallKeeps

-----------------------------------------------------------------------------
(* The steps of preflight.                                                 *)

LEMMA InitInv == Init => Inv
  <1> SUFFICES ASSUME Init PROVE Inv
    OBVIOUS
  <1>1. TypeOK
    BY DEF Init, TypeOK, RegistryInit, RegistryTypeOK
  <1>2. Shape
    BY DEF Init, Shape
  <1>3. ASSUME NEW c \in Calls PROVE CallInv(c)
    BY DEF Init, CallInv, InProgress, HasPlan
  <1>4. RanInv
    BY DEF Init, RanInv, EffectsAreCovered, EffectsAreDeclared, UsageFits
  <1> QED
    BY <1>1, <1>2, <1>3, <1>4 DEF Inv

LEMMA AskInv ==
  ASSUME Inv, NEW c \in Calls, Ask(c)
  PROVE  Inv'
  <1> USE DEF Inv
  <1>1. /\ pc[c] = "new" /\ pc' = [pc EXCEPT ![c] = "asked"]
        /\ seen' = [seen EXCEPT ![c] = {View(records[Tool(c)])}]
        /\ since' = [since EXCEPT ![c] = now]
        /\ UNCHANGED <<records, admin, now, spec, plan, ran, disk>>
    BY DEF Ask, Goes, registry, outside
  <1>2. TypeOK' /\ now <= now'
    BY <1>1 DEF TypeOK, RegistryTypeOK
  <1>3. Shape'
    BY <1>1 DEF Shape
  <1>4. CallInv(c)'
    <2>1. /\ pc'[c] = "asked" /\ since'[c] = now /\ now' = now
          /\ seen'[c] = {View(records[Tool(c)])} /\ plan'[c] = plan[c]
      BY <1>1 DEF TypeOK, Shape
    <2>2. View(records[Tool(c)])' = View(records[Tool(c)])
      BY <1>1 DEF View
    <2>3. plan[c] = None
      BY <1>1 DEF CallInv, HasPlan
    <2> QED
      BY <2>1, <2>2, <2>3 DEF CallInv, InProgress, HasPlan, TypeOK
  <1>5. ASSUME NEW d \in Calls \ {c} PROVE CallInv(d)'
    <2>1. /\ pc'[d] = pc[d] /\ spec'[d] = spec[d] /\ plan'[d] = plan[d]
          /\ since'[d] = since[d] /\ seen'[d] = seen[d]
      BY <1>1 DEF TypeOK, Shape
    <2>2. View(records'[Tool(d)]) = View(records[Tool(d)])
      BY <1>1
    <2>3. InProgress(d) => View(records'[Tool(d)]) \in seen'[d]
      BY <2>1, <2>2 DEF CallInv
    <2> QED
      BY <1>1, <1>2, <2>1, <2>3, CallKeeps
  <1>6. RanInv'
    <2>1. \A d \in Calls : HasPlan(d) => HasPlan(d)' /\ plan'[d] = plan[d]
      BY <1>1 DEF HasPlan, TypeOK
    <2> QED
      BY <1>1, <2>1, RanKeeps
  <1> QED
    BY <1>2, <1>3, <1>4, <1>5, <1>6

\* What Look keeps is sound.
LEMMA LookSound ==
  ASSUME TypeOK, NEW c \in Calls, CallInv(c), InProgress(c),
         records[Tool(c)] # None, Acceptable(c, Convert(records[Tool(c)])),
         ConsentSuffices(records[Tool(c)].manifest, CallOf[c].consent, now)
  PROVE  Sound(c, Convert(records[Tool(c)]))
  <1> DEFINE r == records[Tool(c)]
  <1>1. Tool(c) \in Tools
    BY DEF Tool
  <1>2. r \in Record /\ Valid(r.manifest)
    BY <1>1 DEF TypeOK, RegistryTypeOK
  <1>3. View(r) \in seen[c] /\ since[c] <= now /\ since[c] \in Nat /\ now \in Nat
    BY DEF CallInv, TypeOK
  <1>4. ConsentSuffices(r.manifest, CallOf[c].consent, now) /\ Acceptable(c, Convert(r))
    OBVIOUS
  <1> HIDE DEF r
  <1>5. r.manifest \in Manifests /\ r.policy \in Policies \cup {"policy:default"}
        /\ r.visible \in BOOLEAN /\ r.config \in Fingerprints \cup {None}
    BY <1>2 DEF Record
  <1>6. r # None /\ View(r) # None
    BY <1>2, ViewTyped
  <1>7. Consented(c, r.manifest)
    BY <1>3, <1>4 DEF ConsentSuffices, Consented
  <1>8. Convert(r) \in Specs
    BY <1>5 DEF Convert, Specs
  <1>9. Convert(r).manifest = r.manifest /\ Convert(r).policy = r.policy
    BY DEF Convert
  <1>10. WasSeen(c, Convert(r))
    <2>1. /\ View(r).enabled = Convert(r).enabled /\ View(r).visible = Convert(r).visible
          /\ View(r).manifest = r.manifest /\ View(r).policy = r.policy
      BY <1>6 DEF View, Convert
    <2> QED
      BY <1>3, <1>4, <1>6, <1>9, <2>1 DEF WasSeen, Acceptable
  <1>11. Sound(c, Convert(r))
    BY <1>2, <1>7, <1>8, <1>9, <1>10 DEF Sound
  <1> QED
    BY <1>11 DEF r

LEMMA LookInv ==
  ASSUME Inv, NEW c \in Calls, Look(c)
  PROVE  Inv'
  <1> USE DEF Inv
  <1>1. /\ pc[c] = "asked" /\ InProgress(c) /\ ~ HasPlan(c)
        /\ UNCHANGED <<registry, now, plan, outside, history>>
        /\ UNCHANGED <<records, admin, seen, since, ran, disk>>
    BY DEF Look, InProgress, HasPlan, registry, outside, history
  <1>2. \/ /\ spec' = spec
           /\ \E p \in {"denied", "failed"} : pc' = [pc EXCEPT ![c] = p]
        \/ /\ pc' = [pc EXCEPT ![c] = "looked"]
           /\ spec' = [spec EXCEPT ![c] = Convert(records[Tool(c)])]
           /\ records[Tool(c)] # None
           /\ Sound(c, Convert(records[Tool(c)]))
    <2>1. \/ Goes(c, "denied") /\ spec' = spec
          \/ Goes(c, "failed") /\ spec' = spec
          \/ /\ records[Tool(c)] # None
             /\ Acceptable(c, Convert(records[Tool(c)]))
             /\ ConsentSuffices(records[Tool(c)].manifest, CallOf[c].consent, now)
             /\ Goes(c, "looked") /\ spec' = [spec EXCEPT ![c] = Convert(records[Tool(c)])]
      BY DEF Look
    <2> QED
      BY <1>1, <2>1, LookSound DEF Goes
  <1>3. TypeOK'
    BY <1>1, <1>2 DEF TypeOK, RegistryTypeOK, Decided
  <1>4. Shape'
    BY <1>1, <1>2 DEF Shape
  <1>5. \A d \in Calls \ {c} : pc'[d] = pc[d] /\ spec'[d] = spec[d] /\ plan'[d] = plan[d]
    BY <1>1, <1>2 DEF Shape, TypeOK
  <1>6. \A d \in Calls \ {c} : CallInv(d)'
    BY <1>1, <1>3, <1>5, OthersKeep
  <1>7. CallInv(c)'
    <2>1. CASE \E p \in {"denied", "failed"} : pc' = [pc EXCEPT ![c] = p]
      BY <1>1, <2>1 DEF CallInv, InProgress, HasPlan, TypeOK
    <2>2. CASE /\ pc' = [pc EXCEPT ![c] = "looked"]
               /\ spec' = [spec EXCEPT ![c] = Convert(records[Tool(c)])]
               /\ records[Tool(c)] # None
               /\ Sound(c, Convert(records[Tool(c)]))
      <3>1. spec'[c] = Convert(records[Tool(c)]) /\ pc'[c] = "looked"
        BY <2>2 DEF Shape, TypeOK
      <3>2. Sound(c, spec[c])'
        BY <1>1, <2>2, <3>1 DEF Sound, Consented, WasSeen, Specs
      <3>3. View(records[Tool(c)])' \in seen'[c]
        BY <1>1 DEF CallInv, View
      <3> QED
        BY <1>1, <2>2, <3>1, <3>2, <3>3 DEF CallInv, InProgress, HasPlan
    <2> QED
      BY <1>2, <2>1, <2>2
  <1>8. RanInv'
    <2>1. \A d \in Calls : HasPlan(d) => HasPlan(d)' /\ plan'[d] = plan[d]
      BY <1>1, <1>5 DEF HasPlan
    <2> QED
      BY <1>1, <2>1, RanKeeps
  <1> QED
    BY <1>3, <1>4, <1>6, <1>7, <1>8

\* A step of one call that has no plan yet, and gets none.
LEMMA WithoutPlan ==
  ASSUME Inv, TypeOK', NEW c \in Calls, ~ HasPlan(c), plan' = plan, ran' = ran,
         \A d \in Calls \ {c} : pc'[d] = pc[d]
  PROVE  RanInv'
  <1>1. \A d \in Calls : HasPlan(d) => HasPlan(d)' /\ plan'[d] = plan[d]
    BY DEF HasPlan
  <1> QED
    BY <1>1, RanKeeps DEF Inv

LEMMA AuthorizeInv ==
  ASSUME Inv, NEW c \in Calls, Authorize(c)
  PROVE  Inv'
  <1> USE DEF Inv
  <1>1. /\ pc[c] = "looked" /\ InProgress(c) /\ ~ HasPlan(c)
        /\ UNCHANGED <<registry, now, spec, plan, outside, history>>
        /\ UNCHANGED <<records, admin, seen, since, ran, disk>>
    BY DEF Authorize, InProgress, HasPlan, registry, outside, history
  <1>2. PICK p \in {"allowed", "denied", "failed"} : pc' = [pc EXCEPT ![c] = p]
    BY DEF Authorize, Goes
  <1>3. TypeOK'
    BY <1>1, <1>2 DEF TypeOK, RegistryTypeOK, Decided
  <1>4. Shape'
    BY <1>1 DEF Shape
  <1>5. \A d \in Calls \ {c} : pc'[d] = pc[d] /\ spec'[d] = spec[d] /\ plan'[d] = plan[d]
    BY <1>1, <1>2 DEF TypeOK
  <1>6. \A d \in Calls \ {c} : CallInv(d)'
    BY <1>1, <1>3, <1>5, OthersKeep
  <1>7. CallInv(c)'
    <2>1. Sound(c, spec[c])'
      BY <1>1 DEF CallInv, Sound, Consented, WasSeen, Specs
    <2>2. View(records[Tool(c)])' \in seen'[c]
      BY <1>1 DEF CallInv, View
    <2>3. pc'[c] = p
      BY <1>2 DEF TypeOK
    <2> QED
      BY <1>1, <2>1, <2>2, <2>3 DEF CallInv, InProgress, HasPlan
  <1>8. RanInv'
    BY <1>1, <1>3, <1>5, WithoutPlan
  <1> QED
    BY <1>3, <1>4, <1>6, <1>7, <1>8

\* What Arm makes of the registry and of the call's copy.
LEMMA ArmWrites ==
  ASSUME Inv, NEW c \in Calls, Arm(c), pc' = [pc EXCEPT ![c] = "armed"]
  PROVE  /\ RegistryTypeOK' /\ admin' = admin
         /\ \A t \in Tools : /\ View(records'[t]) = View(records[t])
                             /\ records[t] # None => records'[t] # None
         /\ \A d \in Calls : /\ seen[d] \subseteq seen'[d]
                             /\ InProgress(d) => View(records'[Tool(d)]) \in seen'[d]
         /\ seen' = [d \in Calls |-> seen'[d]]
         /\ spec' = [d \in Calls |-> spec'[d]]
         /\ \A d \in Calls \ {c} : spec'[d] = spec[d]
         /\ spec'[c] \in Specs
         /\ spec'[c].manifest = spec[c].manifest /\ spec'[c].policy = spec[c].policy
  <1> USE DEF Inv
  <1>1. pc[c] = "allowed" /\ admin' = admin
    BY DEF Arm
  <1>2. /\ Sound(c, spec[c]) /\ records[Tool(c)] # None
        /\ \A d \in Calls : InProgress(d) => View(records[Tool(d)]) \in seen[d]
    BY <1>1 DEF CallInv
  <1>3. Tool(c) \in Tools /\ spec[c] \in Specs /\ RegistryTypeOK
        /\ \A d \in Calls : Tool(d) \in Tools
    BY <1>2 DEF Tool, Sound, TypeOK
  <1>4. \/ records' = records /\ spec' = spec /\ seen' = seen
        \/ /\ ConfigOf[c] \in Fingerprints \cup {None}
           /\ Fingerprint(Tool(c), spec[c], ConfigOf[c])
           /\ spec' = [spec EXCEPT ![c] = [@ EXCEPT !.config = ConfigOf[c]]]
           /\ Noticed
    <2>1. pc'[c] = "armed"
      BY DEF TypeOK
    <2>2. ~ Goes(c, "failed")
      BY <2>1 DEF Goes, TypeOK
    <2> QED
      BY <2>2 DEF Arm
  <1>5. CASE records' = records /\ spec' = spec /\ seen' = seen
    <2>1. \A t \in Tools : View(records'[t]) = View(records[t])
      BY <1>5
    <2> QED
      BY <1>1, <1>2, <1>3, <1>5, <2>1 DEF Shape, RegistryTypeOK
  <1>6. CASE /\ ConfigOf[c] \in Fingerprints \cup {None}
             /\ Fingerprint(Tool(c), spec[c], ConfigOf[c])
             /\ spec' = [spec EXCEPT ![c] = [@ EXCEPT !.config = ConfigOf[c]]]
             /\ Noticed
    <2>1. /\ RegistryTypeOK'
          /\ \A t \in Tools : /\ View(records'[t]) = View(records[t])
                              /\ records[t] # None => records'[t] # None
      BY <1>1, <1>2, <1>3, <1>6, FingerprintTyped
    <2>2. seen' = [d \in Calls |-> IF InProgress(d) THEN seen[d] \cup {View(records'[Tool(d)])}
                                   ELSE seen[d]]
      BY <1>6 DEF Noticed
    <2>3. /\ \A d \in Calls : /\ seen[d] \subseteq seen'[d]
                              /\ InProgress(d) => View(records'[Tool(d)]) \in seen'[d]
          /\ seen' = [d \in Calls |-> seen'[d]]
      BY <2>2
    <2> DEFINE q == [spec[c] EXCEPT !.config = ConfigOf[c]]
    <2>4. q \in Specs /\ q.manifest = spec[c].manifest /\ q.policy = spec[c].policy
      BY <1>3, <1>6 DEF Specs
    <2>5. spec' = [spec EXCEPT ![c] = q]
      BY <1>6
    <2> HIDE DEF q
    <2>6. /\ spec' = [d \in Calls |-> spec'[d]]
          /\ spec'[c] = q
          /\ \A d \in Calls \ {c} : spec'[d] = spec[d]
      BY <2>5 DEF Shape
    <2> QED
      BY <1>1, <2>1, <2>3, <2>4, <2>6
  <1> QED
    BY <1>4, <1>5, <1>6

LEMMA ArmInv ==
  ASSUME Inv, NEW c \in Calls, Arm(c)
  PROVE  Inv'
  <1> USE DEF Inv
  <1>1. /\ pc[c] = "allowed" /\ InProgress(c) /\ ~ HasPlan(c)
        /\ UNCHANGED <<admin, now, plan, since, ran, disk>>
    BY DEF Arm, InProgress, HasPlan, outside
  <1>2. \/ pc' = [pc EXCEPT ![c] = "failed"] /\ UNCHANGED <<records, spec, seen>>
        \/ pc' = [pc EXCEPT ![c] = "armed"] /\ Executable(c)
    BY DEF Arm, Goes
  <1>3. CASE pc' = [pc EXCEPT ![c] = "failed"] /\ UNCHANGED <<records, spec, seen>>
    <2>1. TypeOK' /\ Shape'
      BY <1>1, <1>3 DEF TypeOK, RegistryTypeOK, Decided, Shape
    <2>2. \A d \in Calls \ {c} : pc'[d] = pc[d] /\ spec'[d] = spec[d] /\ plan'[d] = plan[d]
      BY <1>1, <1>3 DEF TypeOK
    <2>3. \A d \in Calls \ {c} : CallInv(d)'
      BY <1>1, <1>3, <2>1, <2>2, OthersKeep DEF registry, history
    <2>4. CallInv(c)'
      BY <1>1, <1>3 DEF CallInv, InProgress, HasPlan, TypeOK
    <2>5. RanInv'
      BY <1>1, <2>1, <2>2, WithoutPlan
    <2> QED
      BY <2>1, <2>3, <2>4, <2>5
  <1>4. CASE pc' = [pc EXCEPT ![c] = "armed"] /\ Executable(c)
    <2>1. /\ RegistryTypeOK' /\ admin' = admin
          /\ \A t \in Tools : /\ View(records'[t]) = View(records[t])
                              /\ records[t] # None => records'[t] # None
          /\ \A d \in Calls : /\ seen[d] \subseteq seen'[d]
                              /\ InProgress(d) => View(records'[Tool(d)]) \in seen'[d]
          /\ seen' = [d \in Calls |-> seen'[d]]
          /\ spec' = [d \in Calls |-> spec'[d]]
          /\ \A d \in Calls \ {c} : spec'[d] = spec[d]
          /\ spec'[c] \in Specs
          /\ spec'[c].manifest = spec[c].manifest /\ spec'[c].policy = spec[c].policy
      BY <1>4, ArmWrites
    <2>2. TypeOK'
      BY <1>1, <1>4, <2>1 DEF TypeOK
    <2>3. Shape'
      BY <1>1, <2>1 DEF Shape
    <2>4. \A d \in Calls : Tool(d) \in Tools
      BY DEF Tool
    <2>5. pc'[c] = "armed" /\ \A d \in Calls \ {c} : pc'[d] = pc[d]
      BY <1>4 DEF TypeOK
    <2>6. ASSUME NEW d \in Calls \ {c} PROVE CallInv(d)'
      <3>1. now <= now'
        BY <1>1 DEF TypeOK
      <3> QED
        BY <1>1, <2>1, <2>2, <2>4, <2>5, <3>1, CallKeeps
    <2>7. CallInv(c)'
      <3>1. Sound(c, spec[c]) /\ records[Tool(c)] # None /\ since[c] <= now /\ plan[c] = None
        BY <1>1 DEF CallInv
      <3>2. Sound(c, spec[c])'
        BY <1>1, <2>1, <3>1 DEF Sound, Consented, WasSeen, Specs
      <3>3. Plannable(spec'[c].manifest, CallOf[c].args)
        BY <1>4, <2>1 DEF Executable
      <3>4. records'[Tool(c)] # None /\ View(records'[Tool(c)]) \in seen'[c]
        BY <1>1, <2>1, <2>4, <3>1
      <3> QED
        BY <1>1, <2>5, <3>1, <3>2, <3>3, <3>4 DEF CallInv, InProgress, HasPlan
    <2>8. RanInv'
      BY <1>1, <2>2, <2>5, WithoutPlan
    <2> QED
      BY <2>2, <2>3, <2>6, <2>7, <2>8
  <1> QED
    BY <1>2, <1>3, <1>4

LEMMA BuildInv ==
  ASSUME Inv, NEW c \in Calls, Build(c)
  PROVE  Inv'
  <1> USE DEF Inv
  <1>1. /\ pc[c] = "armed" /\ InProgress(c) /\ ~ HasPlan(c)
        /\ UNCHANGED <<registry, now, spec, outside, history>>
        /\ UNCHANGED <<records, admin, seen, since, ran, disk>>
    BY DEF Build, InProgress, HasPlan, registry, outside, history
  <1> DEFINE it == [spec |-> spec[c], profile |-> Profile(c),
                    ops |-> ExecOps(spec[c].manifest, CallOf[c].args)]
  <1>2. \/ pc' = [pc EXCEPT ![c] = "failed"] /\ plan' = plan
        \/ pc' = [pc EXCEPT ![c] = "planned"] /\ plan' = [plan EXCEPT ![c] = it]
    BY DEF Build, Goes
  <1>3. TypeOK'
    BY <1>1, <1>2 DEF TypeOK, RegistryTypeOK, Decided
  <1>4. Shape'
    BY <1>1, <1>2 DEF Shape
  <1>5. \A d \in Calls \ {c} : pc'[d] = pc[d] /\ spec'[d] = spec[d] /\ plan'[d] = plan[d]
    BY <1>1, <1>2 DEF Shape, TypeOK
  <1>6. \A d \in Calls \ {c} : CallInv(d)'
    BY <1>1, <1>3, <1>5, OthersKeep
  <1>7. CallInv(c)'
    <2>1. CASE pc' = [pc EXCEPT ![c] = "failed"] /\ plan' = plan
      BY <1>1, <2>1 DEF CallInv, InProgress, HasPlan, TypeOK
    <2>2. CASE pc' = [pc EXCEPT ![c] = "planned"] /\ plan' = [plan EXCEPT ![c] = it]
      <3>1. plan'[c] = it /\ pc'[c] = "planned"
        BY <2>2 DEF Shape, TypeOK
      <3>2. /\ plan'[c].spec = spec[c] /\ plan'[c].profile = ProfileOf(c, spec[c])
            /\ plan'[c].ops = ExecOps(spec[c].manifest, CallOf[c].args)
        BY <3>1 DEF Profile, ProfileOf
      <3>3. Sound(c, spec[c])' /\ spec' = spec /\ since[c] <= now
        BY <1>1 DEF CallInv, Sound, Consented, WasSeen, Specs
      <3>4. Sound(c, plan[c].spec)'
        BY <1>1, <3>2, <3>3 DEF Sound, Consented, WasSeen, Specs
      <3>5. Plannable(spec[c].manifest, CallOf[c].args)
        BY <1>1 DEF CallInv
      <3>6. Planned(c)'
        BY <3>2, <3>4, <3>5 DEF Planned, ProfileOf, PolicyConfig, Grant
      <3> QED
        BY <1>1, <3>1, <3>3, <3>6 DEF CallInv, InProgress, HasPlan
    <2> QED
      BY <1>2, <2>1, <2>2
  <1>8. RanInv'
    <2>1. \A d \in Calls : HasPlan(d) => HasPlan(d)' /\ plan'[d] = plan[d]
      BY <1>1, <1>5 DEF HasPlan
    <2> QED
      BY <1>1, <2>1, RanKeeps
  <1> QED
    BY <1>3, <1>4, <1>6, <1>7, <1>8

-----------------------------------------------------------------------------
(* The steps of the world.                                                 *)

\* EffectsAreDeclared of one operation.
Declared(c, s, o, t) ==
    LET m == s.manifest
        consent == CallOf[c].consent
    IN  o.action \in {"write", "POST"} =>
            /\ consent # None
            /\ consent.expires # None => consent.expires > t
            /\ o.domain = "fs" => "write" \in m.scopes
            /\ \E d \in m.decls :
                  /\ d.domain = o.domain
                  /\ d.action = o.action
                  /\ d.domain = "fs" => <<Normal[d.resource], Normal[o.target]>> \in Extends
                  /\ d.domain = "net.http" => <<d.resource, o.target>> \in Extends

\* What the sandbox admits of a plan was declared and is consented to.
LEMMA AdmittedIsDeclared ==
  ASSUME NEW c \in Calls, NEW s, Sound(c, s),
         NEW o \in ExecOps(s.manifest, CallOf[c].args),
         NEW t, Box!Admits(ProfileOf(c, s), o, CallOf[c].consent, t)
  PROVE  Declared(c, s, o, t)
  <1>0. SUFFICES ASSUME o.action \in {"write", "POST"} PROVE Declared(c, s, o, t)
    BY DEF Declared
  <1> DEFINE m == s.manifest
             p == ProfileOf(c, s)
             consent == CallOf[c].consent
  <1>1. PICK cap \in Box!Select(p, o) : Box!ConsentStands(cap, consent, p, t)
    BY DEF Box!Admits
  <1>2. cap \in Capabilities(m)
    BY <1>1, ProfileCapabilities DEF ProfileOf, Box!Select
  <1>3. /\ cap.domain = o.domain /\ cap.action = o.action
        /\ cap.domain = "fs" => <<Normal[cap.resource], Normal[o.target]>> \in Extends
        /\ cap.domain = "net.http" => <<cap.resource, o.target>> \in Extends
    BY <1>1 DEF Box!Select
  <1>4. PICK d \in m.decls : Meaningful(d) /\ cap = Capability(d)
    BY <1>2 DEF Capabilities
  <1>5. /\ cap.domain = d.domain
        /\ cap.action = IF d.domain \in {"fs", "net.http"} THEN d.action ELSE None
        /\ cap.resource = IF d.domain = "tmp" THEN None ELSE d.resource
    BY <1>4 DEF Capability
  <1>6. d.domain \in {"fs", "net.http"} /\ d.action = o.action
    BY <1>0, <1>3, <1>5
  <1>7. /\ o.domain = "fs" => o.action \in {"read", "write"}
    BY OperationHasCapability
  <1>8. Box!RequiresConsent(cap, p)
    BY <1>0, <1>3, <1>5, <1>6, <1>7 DEF Box!RequiresConsent
  <1>9. consent # None /\ (consent.expires # None => consent.expires > t)
    BY <1>1, <1>8 DEF Box!ConsentStands
  <1>10. o.domain = "fs" => "write" \in m.scopes
    <2>1. Aligned(m)
      BY DEF Sound, Valid
    <2> QED
      BY <1>0, <1>3, <1>5, <1>6, <1>7, <2>1 DEF Aligned
  <1> HIDE DEF m, p, consent
  <1>11. /\ d.domain = o.domain /\ d.action = o.action
         /\ d.domain = "fs" => <<Normal[d.resource], Normal[o.target]>> \in Extends
         /\ d.domain = "net.http" => <<d.resource, o.target>> \in Extends
    BY <1>3, <1>5, <1>6
  <1> QED
    BY <1>4, <1>9, <1>10, <1>11 DEF Declared, m, consent

LEMMA RunInv ==
  ASSUME Inv, NEW c \in Calls, Run(c)
  PROVE  Inv'
  <1> USE DEF Inv
  <1>1. /\ pc[c] = "planned" /\ HasPlan(c) /\ ~ InProgress(c)
        /\ UNCHANGED <<registry, now, spec, plan, history>>
        /\ UNCHANGED <<records, admin, seen, since>>
    BY DEF Run, InProgress, HasPlan, registry, history
  <1>2. Planned(c)
    BY <1>1 DEF CallInv
  <1>3. \/ pc' = [pc EXCEPT ![c] = "refused"] /\ ran' = ran /\ disk' = disk
        \/ \E o \in plan[c].ops : \E x \in Box!Execute(plan[c].profile, o, disk) :
              /\ Box!Admits(plan[c].profile, o, CallOf[c].consent, now)
              /\ ran' = ran \cup {[call |-> c, op |-> o, at |-> now, usage |-> x.usage]}
              /\ disk' = x.disk
              /\ \E p \in {"refused", "done", "planned"} : pc' = [pc EXCEPT ![c] = p]
    BY DEF Run, Goes, outside
  <1>4. \E p \in {"refused", "done", "planned"} : pc' = [pc EXCEPT ![c] = p]
    BY <1>3
  <1>5. /\ pc'[c] \in {"refused", "done", "planned"}
        /\ \A d \in Calls \ {c} : pc'[d] = pc[d]
        /\ \A d \in Calls : HasPlan(d) => HasPlan(d)' /\ plan'[d] = plan[d]
    BY <1>1, <1>4 DEF TypeOK, HasPlan
  <1>6. ASSUME NEW o \in plan[c].ops, NEW x \in Box!Execute(plan[c].profile, o, disk)
        PROVE  /\ Box!WithinLimits(plan[c].profile, x.usage)
               /\ x.disk \in [Names -> Nat \cup {None}]
    <2> DEFINE s == plan[c].spec
    <2>1. o \in ExecOps(s.manifest, CallOf[c].args) /\ Plannable(s.manifest, CallOf[c].args)
          /\ plan[c].profile = ProfileOf(c, s) /\ s.manifest \in Manifests
      BY <1>2, <1>6 DEF Planned, Sound, Specs
    <2> HIDE DEF s
    <2>2. /\ o.size \in Nat /\ o.offset \in Nat /\ o.len \in Nat \cup {None}
          /\ o.domain = "fs" => o.target \in Names
      BY <2>1, OperationArguments
    <2>3. /\ o.domain \in {"fs", "net.http", "tmp"}
          /\ o.domain = "fs" => o.action \in {"read", "write"}
      BY <2>1, OperationHasCapability
    <2>4. /\ plan[c].profile.limits.bytesIn \in Nat
          /\ plan[c].profile.limits.bytesOut \in Nat
          /\ plan[c].profile.limits.files \in Nat
      BY <2>1, MergedLimits DEF ProfileOf
    <2>5. disk \in [Names -> Nat \cup {None}]
      BY DEF TypeOK
    <2> QED
      BY <1>6, <2>2, <2>3, <2>4, <2>5, ExecutorsKeepLimits
  <1>7. TypeOK'
    <2>1. disk' \in [Names -> Nat \cup {None}]
      BY <1>3, <1>6 DEF TypeOK
    <2> QED
      BY <1>1, <1>4, <2>1 DEF TypeOK, RegistryTypeOK, Decided
  <1>8. Shape'
    BY <1>1 DEF Shape
  <1>9. \A d \in Calls \ {c} : CallInv(d)'
    BY <1>1, <1>5, <1>7, OthersKeep
  <1>10. CallInv(c)'
    <2>1. Planned(c)'
      BY <1>1, <1>2 DEF Planned, Sound, Consented, WasSeen, Specs, ProfileOf, PolicyConfig, Grant
    <2> QED
      BY <1>1, <1>5, <2>1 DEF CallInv, InProgress, HasPlan
  <1>11. RanInv'
    <2>1. CASE ran' = ran
      BY <1>5, <2>1, RanKeeps
    <2>2. CASE \E o \in plan[c].ops : \E x \in Box!Execute(plan[c].profile, o, disk) :
                  /\ Box!Admits(plan[c].profile, o, CallOf[c].consent, now)
                  /\ ran' = ran \cup {[call |-> c, op |-> o, at |-> now, usage |-> x.usage]}
      <3>o. PICK o \in plan[c].ops : \E x \in Box!Execute(plan[c].profile, o, disk) :
                  /\ Box!Admits(plan[c].profile, o, CallOf[c].consent, now)
                  /\ ran' = ran \cup {[call |-> c, op |-> o, at |-> now, usage |-> x.usage]}
        BY <2>2
      <3>1. PICK x \in Box!Execute(plan[c].profile, o, disk) :
                  /\ Box!Admits(plan[c].profile, o, CallOf[c].consent, now)
                  /\ ran' = ran \cup {[call |-> c, op |-> o, at |-> now, usage |-> x.usage]}
        BY <3>o
      <3> DEFINE it == [call |-> c, op |-> o, at |-> now, usage |-> x.usage]
      <3>2. /\ it.call = c /\ it.op = o /\ it.at = now /\ it.usage = x.usage
            /\ ran' = ran \cup {it}
        BY <3>1
      <3>3. Declared(c, plan[c].spec, o, now)
        BY <1>2, <3>1, AdmittedIsDeclared DEF Planned
      <3> HIDE DEF it
      <3>4. EffectsAreDeclared'
        <4>1. \A y \in ran : Declared(y.call, plan[y.call].spec, y.op, y.at)
          BY DEF RanInv, EffectsAreCovered, EffectsAreDeclared, Declared
        <4>2. \A y \in ran' : Declared(y.call, plan'[y.call].spec, y.op, y.at)
          BY <1>1, <3>2, <3>3, <4>1
        <4> QED
          BY <4>2 DEF EffectsAreDeclared, Declared
      <3>5. UsageFits'
        BY <1>1, <1>6, <3>2 DEF RanInv, EffectsAreCovered, UsageFits
      <3>6. \A y \in ran' : y.call \in Calls /\ HasPlan(y.call)'
        BY <1>1, <1>5, <3>2 DEF RanInv
      <3> QED
        BY <3>4, <3>5, <3>6 DEF RanInv, EffectsAreCovered
    <2> QED
      BY <1>3, <2>1, <2>2
  <1> QED
    BY <1>7, <1>8, <1>9, <1>10, <1>11

LEMMA AdministrateInv ==
  ASSUME Inv, Administrate
  PROVE  Inv'
  <1> USE DEF Inv
  <1>1. PICK t \in Tools : Administer(t)
    BY DEF Administrate
  <1>2. /\ UNCHANGED <<now, pc, spec, plan, ran, disk, since>>
        /\ seen' = [c \in Calls |-> IF InProgress(c) THEN seen[c] \cup {View(records'[Tool(c)])}
                                    ELSE seen[c]]
    BY DEF Administrate, Noticed, call, outside
  <1>3. /\ RegistryTypeOK'
        /\ \A u \in Tools : records[u] # None => records'[u] # None
    BY <1>1, AdministerTyped DEF TypeOK
  <1>4. TypeOK'
    BY <1>2, <1>3 DEF TypeOK
  <1>5. Shape'
    BY <1>2 DEF Shape
  <1>6. ASSUME NEW c \in Calls PROVE CallInv(c)'
    <2>1. /\ seen[c] \subseteq seen'[c]
          /\ InProgress(c) => View(records'[Tool(c)]) \in seen'[c]
      BY <1>2
    <2>2. Tool(c) \in Tools /\ now <= now'
      BY <1>2 DEF Tool, TypeOK
    <2> QED
      BY <1>2, <1>3, <1>4, <2>1, <2>2, CallKeeps
  <1>7. RanInv'
    BY <1>2, RanKeeps DEF HasPlan
  <1> QED
    BY <1>4, <1>5, <1>6, <1>7

LEMMA TickInv ==
  ASSUME Inv, Tick
  PROVE  Inv'
  <1> USE DEF Inv
  <1>1. /\ now' = now + 1 /\ now < Horizon
        /\ UNCHANGED <<records, admin, pc, spec, plan, ran, disk, seen, since>>
    BY DEF Tick, registry, call, outside, history
  <1>2. TypeOK' /\ now <= now'
    BY <1>1 DEF TypeOK, RegistryTypeOK
  <1>3. Shape'
    BY <1>1 DEF Shape
  <1>4. ASSUME NEW c \in Calls PROVE CallInv(c)'
    <2>1. View(records'[Tool(c)]) = View(records[Tool(c)])
      BY <1>1
    <2>2. InProgress(c) => View(records'[Tool(c)]) \in seen'[c]
      BY <1>1, <2>1 DEF CallInv
    <2> QED
      BY <1>1, <1>2, <2>2, CallKeeps
  <1>5. RanInv'
    BY <1>1, RanKeeps DEF HasPlan
  <1> QED
    BY <1>2, <1>3, <1>4, <1>5

LEMMA StutterInv ==
  ASSUME Inv, UNCHANGED vars
  PROVE  Inv'
  <1> USE DEF Inv
  <1>1. UNCHANGED <<records, admin, now, pc, spec, plan, ran, disk, seen, since>>
    BY DEF vars, registry, call, outside, history
  <1>2. TypeOK' /\ now <= now'
    BY <1>1 DEF TypeOK, RegistryTypeOK
  <1>3. Shape'
    BY <1>1 DEF Shape
  <1>4. ASSUME NEW c \in Calls PROVE CallInv(c)'
    <2>1. View(records'[Tool(c)]) = View(records[Tool(c)])
      BY <1>1
    <2>2. InProgress(c) => View(records'[Tool(c)]) \in seen'[c]
      BY <1>1, <2>1 DEF CallInv
    <2> QED
      BY <1>1, <1>2, <2>2, CallKeeps
  <1>5. RanInv'
    BY <1>1, RanKeeps DEF HasPlan
  <1> QED
    BY <1>2, <1>3, <1>4, <1>5

LEMMA NextInv == Inv /\ [Next]_vars => Inv'
  <1> SUFFICES ASSUME Inv, [Next]_vars PROVE Inv'
    OBVIOUS
  <1>1. CASE UNCHANGED vars
    BY <1>1, StutterInv
  <1>2. ASSUME NEW c \in Calls, Ask(c) \/ Proceed(c) \/ Run(c)
        PROVE  Inv'
    BY <1>2, AskInv, LookInv, AuthorizeInv, ArmInv, BuildInv, RunInv DEF Proceed
  <1>3. CASE Administrate
    BY <1>3, AdministrateInv
  <1>4. CASE Tick
    BY <1>4, TickInv
  <1>5. CASE Over
    BY <1>5, StutterInv DEF Over
  <1> QED
    BY <1>1, <1>2, <1>3, <1>4, <1>5 DEF Next

\* The invariant holds for every set of calls, consents, manifests and policies.
THEOREM Invariance == Spec => []Inv
  BY InitInv, NextInv, PTL DEF Spec

-----------------------------------------------------------------------------
(* What preflight promises.                                                *)

\* Every type of the specification, and that no plan of a tool that asks for
\* consent, or is of safety class High, lacks a consent that covers its scopes and
\* had not ended when the call was made (preflight.rs:278).
THEOREM PlansConsented == Spec => []PreflightInv
  <1>1. Inv => PreflightInv
    <2> SUFFICES ASSUME Inv, NEW c \in Calls, plan[c] # None,
                        \/ plan[c].spec.manifest.safety = "high"
                        \/ plan[c].spec.manifest.consents
                 PROVE  LET consent == CallOf[c].consent
                        IN  /\ consent # None
                            /\ plan[c].spec.manifest.scopes \subseteq consent.scopes
                            /\ consent.expires # None => consent.expires >= since[c]
      BY DEF Inv, PreflightInv, PlansAreConsented
    <2>1. Sound(c, plan[c].spec)
      BY DEF Inv, CallInv, Planned
    <2>2. plan[c].spec.manifest.consents
      BY <2>1 DEF Sound, Valid
    <2> QED
      BY <2>1, <2>2 DEF Sound, Consented
  <1> QED
    BY <1>1, Invariance, PTL

\* A plan is one view of its tool, which the registry held since the call was
\* made, and covers its operations, whatever administrators do at the awaits of
\* preflight (preflight.rs:294).
THEOREM OneView == Spec => []PlanIsOneView
  <1>1. Inv => PlanIsOneView
    <2> SUFFICES ASSUME Inv, NEW c \in Calls, plan[c] # None
                 PROVE  /\ WasSeen(c, plan[c].spec)
                        /\ ConfigOf[c] # None => plan[c].profile.config = ConfigOf[c]
                        /\ plan[c].profile.policy = plan[c].spec.policy
                        /\ \A o \in plan[c].ops :
                              \E cap \in plan[c].profile.capabilities :
                                  cap.domain = o.domain /\ cap.action = o.action
      BY DEF PlanIsOneView, WasSeen
    <2>1. Planned(c)
      BY DEF Inv, CallInv
    <2>2. WasSeen(c, plan[c].spec)
      BY <2>1 DEF Planned, Sound
    <2>3. /\ ConfigOf[c] # None => plan[c].profile.config = ConfigOf[c]
          /\ plan[c].profile.policy = plan[c].spec.policy
      <3>1. plan[c].profile = ProfileOf(c, plan[c].spec)
        BY <2>1 DEF Planned
      <3> QED
        BY <3>1, ProfileSettings
    <2>4. plan[c].profile.capabilities = Capabilities(plan[c].spec.manifest)
      BY <2>1, ProfileCapabilities DEF Planned, ProfileOf
    <2>5. ASSUME NEW o \in plan[c].ops
          PROVE  \E cap \in plan[c].profile.capabilities :
                    cap.domain = o.domain /\ cap.action = o.action
      <3>1. o \in ExecOps(plan[c].spec.manifest, CallOf[c].args)
        BY <2>1 DEF Planned
      <3> QED
        BY <2>4, <3>1, OperationHasCapability
    <2> QED
      BY <2>2, <2>3, <2>5
  <1> QED
    BY <1>1, Invariance, PTL

\* Whatever is written or posted was declared and is consented to at that
\* instant, and no executor exceeds the limits it is only checked against
\* afterwards (manager.rs:361, manager.rs:161).
THEOREM EffectsCovered == Spec => []EffectsAreCovered
  <1>1. Inv => EffectsAreCovered
    BY DEF Inv, RanInv
  <1> QED
    BY <1>1, Invariance, PTL

\* No step of a call changes what administrators have made of a tool
\* (registry.rs:173).
THEOREM AdministratorsStand == Spec => AdminStands
  <1>1. ASSUME Inv, [Next]_vars, admin' = admin, NEW t \in Tools
        PROVE  View(records'[t]) = View(records[t])
    <2>1. CASE records' = records
      BY <2>1
    <2>2. ASSUME NEW c \in Calls, Arm(c)
          PROVE  View(records'[t]) = View(records[t])
      <3>1. \/ records' = records
            \/ pc' = [pc EXCEPT ![c] = "armed"]
        BY <2>2 DEF Arm, Goes
      <3> QED
        BY <1>1, <2>1, <2>2, <3>1, ArmWrites
    <2>3. ASSUME NEW c \in Calls, Ask(c) \/ Look(c) \/ Authorize(c) \/ Build(c) \/ Run(c)
          PROVE  records' = records
      BY <2>3 DEF Ask, Look, Authorize, Build, Run, registry
    <2>4. CASE Administrate
      <3>1. PICK u \in Tools : Administer(u)
        BY <2>4 DEF Administrate
      <3>2. admin' # admin
        BY <1>1, <3>1, AdministerTyped DEF Inv, TypeOK
      <3> QED
        BY <1>1, <3>2
    <2>5. CASE Tick \/ Over \/ UNCHANGED vars
      BY <2>1, <2>5 DEF Tick, Over, vars, registry
    <2> QED
      BY <1>1, <2>1, <2>2, <2>3, <2>4, <2>5 DEF Next, Proceed
  <1>2. Inv /\ [Next]_vars =>
          [admin' = admin => \A t \in Tools : View(records'[t]) = View(records[t])]_vars
    BY <1>1
  <1> QED
    BY <1>2, Invariance, PTL DEF Spec, AdminStands

=============================================================================
