----------------------------- MODULE ConfigLoad -----------------------------
(***************************************************************************)
(* The loader of sb-config, Loader::load_with_prev over its file,          *)
(* environment and command line sources in their documented order, and the *)
(* SnapshotSwitch that holds the snapshot readers get.                     *)
(*                                                                         *)
(* Files are read one after the other while they are rewritten; variables  *)
(* and defaults are visited in the order of a hash map, any order here.    *)
(* The process that boots, reloads and rolls back is the user of the       *)
(* crate: it reloads one at a time and keeps the snapshot it has when a    *)
(* load fails.  Secrets are not resolved and values not validated by       *)
(* anything in the crate; an implementation of the traits may refuse.      *)
(***************************************************************************)
EXTENDS ConfigMap, Sequences

CONSTANTS
    Files,          \* bound: how many files the file source has
    Contents,       \* the maps files may hold
    Absent, Broken, Unreadable,
    Environments,   \* what the process may be started with: values for some paths
    CommandLines,   \* and sequences of paths with values
    MaxEdits,       \* bound: rewritten files
    MaxLoads        \* bound: loads

ASSUME LoadAssumption ==
    /\ Files \in Nat \ {0}
    /\ \A m \in Contents : IsMap(m)
    /\ \A e \in Environments : DOMAIN e \subseteq Paths /\ e \in [DOMAIN e -> Values]
    /\ CommandLines \subseteq Seq(Paths \X Values)
    /\ {Absent, Broken, Unreadable, None} \cap Contents = {}
    /\ \A S \in SUBSET Paths : None \notin [S -> Values]
    /\ MaxEdits \in Nat
    /\ MaxLoads \in Nat

VARIABLES
    files,      \* what each file holds
    variables,  \* the environment
    arguments,  \* the command line
    edits,
    loads,
    pc,         \* where the load is
    next,       \* the file, variables, argument or defaults that are left
    part,       \* the map of the source being read
    parts,      \* history: the maps of the sources read
    merged,     \* the map of the load
    previous,   \* the snapshot the load is compared with, or None
    changed,    \* changed keys of the update event
    current,    \* the snapshot of the switch, or None before it exists
    lkg         \* the one it rolls back to

load == <<pc, next, part, parts, merged, previous, changed>>
switch == <<current, lkg>>
world == <<files, variables, arguments>>
vars == <<world, edits, loads, load, switch>>

Stages == {"idle", "file", "env", "cli", "defaults", "check", "loaded"}

TypeOK ==
    /\ files \in [1..Files -> Contents \cup {Absent, Broken, Unreadable}]
    /\ variables \in Environments
    /\ arguments \in CommandLines
    /\ edits \in 0..MaxEdits
    /\ loads \in 0..MaxLoads
    /\ pc \in Stages
    /\ \A m \in {part, merged} : IsMap(m)
    /\ changed \subseteq Paths
    /\ current # None => IsMap(current)
    /\ (current = None) = (lkg = None)

Init ==
    /\ files \in [1..Files -> Contents \cup {Absent, Broken}]
    /\ variables \in Environments
    /\ arguments \in CommandLines
    /\ edits = 0
    /\ loads = 0
    /\ pc = "idle"
    /\ next = {}
    /\ part = Empty
    /\ parts = <<>>
    /\ merged = Empty
    /\ previous = None
    /\ changed = {}
    /\ current = None
    /\ lkg = None

-----------------------------------------------------------------------------
(* Loader::load_with_prev                                                  *)

\* A load starts, at boot without a snapshot to compare with.
Begin ==
    /\ pc = "idle"
    /\ loads < MaxLoads
    /\ loads' = loads + 1
    /\ pc' = "file"
    /\ next' = 1..Files
    /\ part' = Empty
    /\ parts' = <<>>
    /\ merged' = Empty
    /\ previous' = current
    /\ changed' = {}
    /\ UNCHANGED <<world, edits, switch>>

\* The load ends with an error; nothing of it remains.
Fails ==
    /\ pc' = "idle"
    /\ UNCHANGED <<next, part, parts, merged, previous, changed>>

\* The source is read: its map goes over those of the sources before it.
SourceRead(p, then, left) ==
    /\ merged' = Merge(merged, p)
    /\ parts' = Append(parts, p)
    /\ part' = Empty
    /\ pc' = then
    /\ next' = left
    /\ UNCHANGED <<previous, changed>>

\* FileSource::load reads the next file: a missing one and one that does not
\* hold an object are passed over, one that cannot be read ends the load.
ReadFile ==
    /\ pc = "file"
    /\ \E k \in next :
          LET p == IF files[k] \in {Absent, Broken} THEN part ELSE Merge(part, files[k])
          IN  /\ \A j \in next : k <= j
              /\ IF files[k] = Unreadable
                 THEN Fails
                 ELSE IF next = {k}
                 THEN SourceRead(p, "env", DOMAIN variables)
                 ELSE /\ part' = p
                      /\ next' = next \ {k}
                      /\ UNCHANGED <<pc, parts, merged, previous, changed>>
    /\ UNCHANGED <<world, edits, loads, switch>>

\* EnvSource::load visits the next variable.
ReadVariable ==
    /\ pc = "env"
    /\ \E v \in next :
          /\ part' = Insert(part, v, variables[v])
          /\ next' = next \ {v}
    /\ UNCHANGED <<world, edits, loads, pc, parts, merged, previous, changed, switch>>

ReadEnv ==
    /\ pc = "env"
    /\ next = {}
    /\ SourceRead(part, "cli", 1..Len(arguments))
    /\ UNCHANGED <<world, edits, loads, switch>>

\* CliArgsSource::load takes the arguments in their order.
ReadCli ==
    /\ pc = "cli"
    /\ IF next = {}
       THEN SourceRead(part, "defaults", DOMAIN Defaults)
       ELSE \E k \in next :
               /\ \A j \in next : k <= j
               /\ part' = Insert(part, arguments[k][1], arguments[k][2])
               /\ next' = next \ {k}
               /\ UNCHANGED <<pc, parts, merged, previous, changed>>
    /\ UNCHANGED <<world, edits, loads, switch>>

\* apply_defaults visits the next field.
ApplyDefault ==
    /\ pc = "defaults"
    /\ \E f \in next :
          /\ merged' = WithDefault(merged, f)
          /\ next' = next \ {f}
    /\ UNCHANGED <<world, edits, loads, pc, part, parts, previous, changed, switch>>

\* Slip: only the leaves are looked up in the schema.
EnforceLeaves ==
    /\ pc = "defaults"
    /\ next = {}
    /\ IF DOMAIN merged \subseteq Fields \cup Namespaces
       THEN /\ pc' = "check"
            /\ UNCHANGED <<next, part, parts, merged, previous, changed>>
       ELSE Fails
    /\ UNCHANGED <<world, edits, loads, switch>>

\* enforce_schema
Enforce ==
    /\ pc = "defaults"
    /\ next = {}
    /\ IF Registered(merged)
       THEN /\ pc' = "check"
            /\ UNCHANGED <<next, part, parts, merged, previous, changed>>
       ELSE Fails
    /\ UNCHANGED <<world, edits, loads, switch>>

\* Slip: keys that disappear are not reported.
CheckPresent ==
    /\ pc = "check"
    /\ \/ Fails
       \/ /\ pc' = "loaded"
          /\ changed' = DOMAIN merged \cap
                            ChangedKeys(IF previous = None THEN Empty ELSE previous, merged)
          /\ UNCHANGED <<next, part, parts, merged, previous>>
    /\ UNCHANGED <<world, edits, loads, switch>>

\* Resolvers and validator, then the snapshot and its update event.
Check ==
    /\ pc = "check"
    /\ \/ Fails
       \/ /\ pc' = "loaded"
          /\ changed' = ChangedKeys(IF previous = None THEN Empty ELSE previous, merged)
          /\ UNCHANGED <<next, part, parts, merged, previous>>
    /\ UNCHANGED <<world, edits, loads, switch>>

-----------------------------------------------------------------------------
(* SnapshotSwitch and its user.                                            *)

\* SnapshotSwitch::new with the first snapshot, swap with a later one.
Publish ==
    /\ pc = "loaded"
    /\ pc' = "idle"
    /\ current' = merged
    /\ lkg' = IF lkg = None THEN merged ELSE lkg
    /\ UNCHANGED <<world, edits, loads, next, part, parts, merged, previous, changed>>

\* rollback, at any moment.
Rollback ==
    /\ current # None
    /\ current' = lkg
    /\ UNCHANGED <<world, edits, loads, load, lkg>>

\* A deployment writes, breaks or removes a file.
Edit ==
    /\ edits < MaxEdits
    /\ edits' = edits + 1
    /\ \E k \in 1..Files, c \in Contents \cup {Absent, Broken, Unreadable} :
          files' = [files EXCEPT ![k] = c]
    /\ UNCHANGED <<variables, arguments, loads, load, switch>>

Load == Begin \/ ReadFile \/ ReadVariable \/ ReadEnv \/ ReadCli \/ ApplyDefault
          \/ Enforce \/ Check

Next == Load \/ Publish \/ Rollback \/ Edit

Spec == Init /\ [][Next]_vars

-----------------------------------------------------------------------------
(* Properties.                                                             *)

\* The leaf p of the i-th source is not overridden by a later one.
Prevails(i, p) ==
    \A j \in (i + 1)..Len(parts) : \A q \in DOMAIN parts[j] : ~ Related(p, q)

Given(p) == {i \in 1..Len(parts) : p \in DOMAIN parts[i] /\ Prevails(i, p)}

\* What the sources say at p, when they say something that prevails.
GivenValue(p) == parts[CHOOSE i \in Given(p) : TRUE][p]

\* The defaults whose place no source claims, by saying something at, above or
\* below it: the lowest layer of all gives way to each.
Undisputed == {f \in DOMAIN Defaults : \A p \in Paths : Given(p) # {} => ~ Related(p, f)}

\* The map the documents promise, Defaults < File < Env < CliArgs: what the
\* sources say, and the undisputed defaults, the innermost of nested ones.
Documented ==
    LET innermost(f) == \A g \in Undisputed : <<g, f>> \in Within => g = f IN
    [p \in {q \in Paths : Given(q) # {}} \cup {f \in Undisputed : innermost(f)} |->
        IF Given(p) # {} THEN GivenValue(p) ELSE Defaults[p]]

\* Where a source gives a value and the schema has a default below it.
Overruled ==
    {p \in Paths : Given(p) # {} /\ \E f \in DOMAIN Defaults : f # p /\ <<f, p>> \in Within}

\* Merging layer by layer and then applying the defaults in whatever order comes
\* to the documented map (loader.rs:40), at every path that has nothing to do with
\* an overruled one.  There it does not: see SourcesPrevail.
MergeIsDocumented ==
    pc \in {"check", "loaded"} =>
        \A p \in Paths : (\A q \in Overruled : ~ Related(p, q)) =>
            /\ p \in DOMAIN merged <=> p \in DOMAIN Documented
            /\ p \in DOMAIN merged => merged[p] = Documented[p]

\* Every map of a load is one, and outside the overruled paths what it ends with is
\* the map the documented order of layers describes (loader.rs:40).
ConfigInv == TypeOK /\ MergeIsDocumented

\* What a source gives, and no later source takes back, is in the map of the load.
\* The documents say so, with the defaults the lowest layer (03-soulbase-config,
\* 01:42), but apply_defaults runs last, and puts a nested default in the place of a
\* value given above it (loader.rs:88).
SourcesPrevail ==
    pc \in {"check", "loaded"} =>
        \A p \in Paths : Given(p) # {} => p \in DOMAIN merged /\ merged[p] = GivenValue(p)

\* In every snapshot readers get, every key is one the schema has and every
\* field with a default has a value, whatever the sources said, broke or lost
\* (loader.rs:88): a reader never misses a field that has a default.
SnapshotIsComplete ==
    current # None =>
        /\ Registered(current)
        /\ \A f \in DOMAIN Defaults : PathExists(current, f)

\* The update event names exactly what changed for a reader of any path, between
\* the snapshot the load began with and the one it publishes: at, above or below
\* every path that reads differently there is a changed key, and every changed
\* key reads differently (loader.rs:230).
EventTellsAll ==
    pc = "loaded" =>
        LET old == IF previous = None THEN Empty ELSE previous
        IN  /\ \A p \in Paths :
                  At(old, p) # At(merged, p) => \E k \in changed : Related(k, p)
            /\ \A k \in changed : At(old, k) # At(merged, k)
============================================================================
