---------------------------- MODULE ConfigProofs ----------------------------
(***************************************************************************)
(* What readers of the configuration may rely on, for every tree of paths, *)
(* schema, sources and order in which maps are visited.                    *)
(***************************************************************************)
EXTENDS ConfigLoad, TLAPS

USE PathsAssumption, SchemaAssumption, LoadAssumption

-----------------------------------------------------------------------------
(* Maps.                                                                   *)

LEMMA EmptyIsMap == IsMap(Empty)
  BY DEF IsMap, Empty

\* merge_maps makes a map of two.
LEMMA MergeIsMap ==
  ASSUME NEW a, NEW b, IsMap(a), IsMap(b)
  PROVE  /\ IsMap(Merge(a, b))
         /\ DOMAIN Merge(a, b) = {p \in DOMAIN a : \A q \in DOMAIN b : ~ Related(p, q)}
                                     \cup DOMAIN b
  <1> DEFINE kept == {p \in DOMAIN a : \A q \in DOMAIN b : ~ Related(p, q)}
             m == Merge(a, b)
  <1>1. m = [p \in kept \cup DOMAIN b |-> IF p \in DOMAIN b THEN b[p] ELSE a[p]]
    BY DEF Merge
  <1>2. DOMAIN m = kept \cup DOMAIN b
    BY <1>1
  <1>3. DOMAIN m \subseteq Paths
    BY <1>2 DEF IsMap
  <1>4. ASSUME NEW p \in kept \cup DOMAIN b
        PROVE  m[p] \in Values
    BY <1>1 DEF IsMap
  <1>5. m \in [DOMAIN m -> Values]
    BY <1>1, <1>2, <1>4
  <1>6. \A p, q \in DOMAIN m : Related(p, q) => p = q
    BY <1>2 DEF IsMap, Related
  <1> QED
    BY <1>2, <1>3, <1>5, <1>6 DEF IsMap

LEMMA InsertIsMap ==
  ASSUME NEW m, IsMap(m), NEW p \in Paths, NEW v \in Values
  PROVE  /\ IsMap(Insert(m, p, v))
         /\ DOMAIN Insert(m, p, v) = {q \in DOMAIN m : ~ Related(q, p)} \cup {p}
  <1> DEFINE one == [q \in {p} |-> v]
  <1>1. IsMap(one) /\ DOMAIN one = {p}
    BY DEF IsMap
  <1> HIDE DEF one
  <1>2. Insert(m, p, v) = Merge(m, one)
    BY DEF Insert, one
  <1>3. /\ IsMap(Merge(m, one))
        /\ DOMAIN Merge(m, one) = {q \in DOMAIN m : \A r \in DOMAIN one : ~ Related(q, r)}
                                       \cup DOMAIN one
    BY <1>1, MergeIsMap
  <1> QED
    BY <1>1, <1>2, <1>3

\* apply_defaults gives one field its value and takes none from another: what it
\* replaces lies above the field, where a leaf stood for every field below.
LEMMA WithDefaultKeeps ==
  ASSUME NEW m, IsMap(m), NEW f \in DOMAIN Defaults
  PROVE  /\ IsMap(WithDefault(m, f))
         /\ PathExists(WithDefault(m, f), f)
         /\ \A g \in Paths : PathExists(m, g) => PathExists(WithDefault(m, f), g)
  <1>1. CASE PathExists(m, f)
    BY <1>1 DEF WithDefault
  <1>2. CASE ~ PathExists(m, f)
    <2>1. f \in Paths /\ Defaults[f] \in Values
      OBVIOUS
    <2>2. WithDefault(m, f) = Insert(m, f, Defaults[f])
      BY <1>2 DEF WithDefault
    <2>3. /\ IsMap(WithDefault(m, f))
          /\ DOMAIN WithDefault(m, f) = {q \in DOMAIN m : ~ Related(q, f)} \cup {f}
      <3>1. /\ IsMap(Insert(m, f, Defaults[f]))
            /\ DOMAIN Insert(m, f, Defaults[f]) =
                   {q \in DOMAIN m : ~ Related(q, f)} \cup {f}
        BY <2>1, InsertIsMap
      <3> QED
        BY <2>2, <3>1
    <2>4. PathExists(WithDefault(m, f), f)
      BY <2>1, <2>3 DEF PathExists
    <2>5. ASSUME NEW g \in Paths, PathExists(m, g)
          PROVE  PathExists(WithDefault(m, f), g)
      <3>1. PICK q \in DOMAIN m : <<q, g>> \in Within
        BY <2>5 DEF PathExists
      <3>2. CASE ~ Related(q, f)
        BY <2>3, <3>1, <3>2 DEF PathExists
      <3>3. CASE Related(q, f)
        <4>1. <<f, q>> \in Within
          BY <1>2, <3>3 DEF Related, PathExists
        <4>2. q \in Paths
          BY DEF IsMap
        <4>3. <<f, g>> \in Within
          BY <2>1, <3>1, <4>1, <4>2
        <4> QED
          BY <2>3, <4>3 DEF PathExists
      <3> QED
        BY <3>2, <3>3
    <2> QED
      BY <2>3, <2>4, <2>5
  <1> QED
    BY <1>1, <1>2

\* The changed keys are the leaves in which two maps differ, so that a reader of
\* a path reads the same unless one of them is related to it.
LEMMA ChangedKeysTell ==
  ASSUME NEW old, NEW new, IsMap(old), IsMap(new)
  PROVE  /\ \A p \in Paths : At(old, p) # At(new, p) =>
                \E k \in ChangedKeys(old, new) : Related(k, p)
         /\ \A k \in ChangedKeys(old, new) : At(old, k) # At(new, k)
         /\ ChangedKeys(old, new) \subseteq Paths
  <1>1. ASSUME NEW p \in Paths, \A k \in ChangedKeys(old, new) : ~ Related(k, p)
        PROVE  At(old, p) = At(new, p)
    <2>1. \A q \in DOMAIN old \cup DOMAIN new : <<q, p>> \in Within =>
              q \in DOMAIN old /\ q \in DOMAIN new /\ old[q] = new[q]
      BY <1>1 DEF ChangedKeys, Related
    <2>2. {q \in DOMAIN old : <<q, p>> \in Within} = {q \in DOMAIN new : <<q, p>> \in Within}
      BY <2>1
    <2> QED
      BY <2>1, <2>2 DEF At
  <1>2. ASSUME NEW k \in ChangedKeys(old, new)
        PROVE  k \in Paths /\ At(old, k) # At(new, k)
    <2>1. k \in DOMAIN old \cup DOMAIN new
      BY DEF ChangedKeys
    <2>2. k \in Paths /\ <<k, k>> \in Within
      BY <2>1 DEF IsMap
    <2>3. /\ k \in DOMAIN At(old, k) <=> k \in DOMAIN old
          /\ k \in DOMAIN At(new, k) <=> k \in DOMAIN new
          /\ k \in DOMAIN old => At(old, k)[k] = old[k]
          /\ k \in DOMAIN new => At(new, k)[k] = new[k]
      BY <2>2 DEF At
    <2>4. SUFFICES ASSUME At(old, k) = At(new, k) PROVE FALSE
      BY <2>2
    <2>5. k \in DOMAIN old /\ k \in DOMAIN new /\ old[k] = new[k]
      BY <2>1, <2>3, <2>4
    <2> QED
      BY <2>5 DEF ChangedKeys
  <1> QED
    BY <1>1, <1>2

-----------------------------------------------------------------------------
(* The invariant.                                                          *)

Complete(m) == Registered(m) /\ \A f \in DOMAIN Defaults : PathExists(m, f)

Old == IF previous = None THEN Empty ELSE previous

\* Every map at hand is one.
Maps ==
    /\ IsMap(part) /\ IsMap(merged)
    /\ previous # None => IsMap(previous)
    /\ current # None => IsMap(current)
    /\ lkg # None => IsMap(lkg)
    /\ files \in [1..Files -> Contents \cup {Absent, Broken, Unreadable}]
    /\ variables \in Environments
    /\ arguments \in CommandLines

\* What is left to read is there.
Left ==
    /\ pc = "file" => next \subseteq 1..Files
    /\ pc = "env" => next \subseteq DOMAIN variables
    /\ pc = "cli" => next \subseteq 1..Len(arguments)
    /\ pc = "defaults" => next \subseteq DOMAIN Defaults

\* A default stands once it was visited, and for good.
Standing == pc = "defaults" => \A f \in DOMAIN Defaults \ next : PathExists(merged, f)

Checked == pc \in {"check", "loaded"} => Complete(merged)

Told == pc = "loaded" => changed = ChangedKeys(Old, merged)

\* What is published, and what it is rolled back to.
Published ==
    /\ current # None => Complete(current)
    /\ lkg # None => Complete(lkg)
    /\ current # None => lkg # None

Inv == Maps /\ Left /\ Standing /\ Checked /\ Told /\ Published

LEMMA InitInv == Init => Inv
  <1> SUFFICES ASSUME Init PROVE Inv
    OBVIOUS
  <1>1. Maps
    BY EmptyIsMap DEF Init, Maps
  <1> QED
    BY <1>1 DEF Init, Inv, Left, Standing, Checked, Told, Published

\* A load that fails leaves readers what they had.
LEMMA FailsInv ==
  ASSUME Inv, Fails, UNCHANGED <<world, switch>>
  PROVE  Inv'
  BY DEF Inv, Fails, world, switch, Maps, Left, Standing, Checked, Told, Published

\* A source is over, and its map goes over the others.
LEMMA SourceReadInv ==
  ASSUME Inv, NEW p, IsMap(p), NEW then \in {"env", "cli", "defaults"}, NEW left,
         then = "env" => left \subseteq DOMAIN variables,
         then = "cli" => left \subseteq 1..Len(arguments),
         then = "defaults" => left = DOMAIN Defaults,
         SourceRead(p, then, left), UNCHANGED <<world, switch>>
  PROVE  Inv'
  <1>1. /\ merged' = Merge(merged, p) /\ part' = Empty /\ pc' = then /\ next' = left
        /\ UNCHANGED <<previous, files, variables, arguments, current, lkg>>
    BY DEF SourceRead, world, switch
  <1>2. IsMap(merged') /\ IsMap(part')
    BY <1>1, MergeIsMap, EmptyIsMap DEF Inv, Maps
  <1>3. Maps'
    BY <1>1, <1>2 DEF Inv, Maps
  <1> QED
    BY <1>1, <1>3 DEF Inv, Left, Standing, Checked, Told, Published

\* The source goes on, with one thing less to read.
LEMMA SourceGoesOnInv ==
  ASSUME Inv, pc \in {"file", "env", "cli"}, IsMap(part'), next' \subseteq next,
         UNCHANGED <<pc, merged, previous, changed, world, switch>>
  PROVE  Inv'
  BY DEF Inv, world, switch, Maps, Left, Standing, Checked, Told, Published

LEMMA BeginInv == ASSUME Inv, Begin PROVE Inv'
  <1>1. /\ pc' = "file" /\ next' = 1..Files /\ part' = Empty /\ merged' = Empty
        /\ previous' = current
        /\ UNCHANGED <<files, variables, arguments, current, lkg>>
    BY DEF Begin, world, switch
  <1>2. Maps'
    BY <1>1, EmptyIsMap DEF Inv, Maps
  <1> QED
    BY <1>1, <1>2 DEF Inv, Left, Standing, Checked, Told, Published

LEMMA ReadFileInv == ASSUME Inv, ReadFile PROVE Inv'
  <1>1. pc = "file" /\ next \subseteq 1..Files /\ UNCHANGED <<world, switch>>
    BY DEF ReadFile, Inv, Left
  <1>2. PICK k \in next :
            LET p == IF files[k] \in {Absent, Broken} THEN part ELSE Merge(part, files[k])
            IN  IF files[k] = Unreadable
                THEN Fails
                ELSE IF next = {k}
                THEN SourceRead(p, "env", DOMAIN variables)
                ELSE /\ part' = p
                     /\ next' = next \ {k}
                     /\ UNCHANGED <<pc, parts, merged, previous, changed>>
    BY DEF ReadFile
  <1> DEFINE p == IF files[k] \in {Absent, Broken} THEN part ELSE Merge(part, files[k])
  <1>3. files[k] \in Contents \cup {Absent, Broken, Unreadable}
    BY <1>1 DEF Inv, Maps
  <1>4. files[k] # Unreadable => IsMap(p)
    BY <1>3, MergeIsMap DEF Inv, Maps
  <1>5. CASE Fails
    BY <1>1, <1>5, FailsInv
  <1>6. CASE files[k] # Unreadable /\ SourceRead(p, "env", DOMAIN variables)
    <2> HIDE DEF p
    <2> QED
      BY <1>1, <1>4, <1>6, SourceReadInv
  <1>7. CASE /\ files[k] # Unreadable /\ part' = p /\ next' = next \ {k}
             /\ UNCHANGED <<pc, parts, merged, previous, changed>>
    <2> HIDE DEF p
    <2> QED
      BY <1>1, <1>4, <1>7, SourceGoesOnInv
  <1> QED
    BY <1>2, <1>5, <1>6, <1>7

LEMMA ReadVariableInv == ASSUME Inv, ReadVariable PROVE Inv'
  <1>1. PICK v \in next : part' = Insert(part, v, variables[v]) /\ next' = next \ {v}
    BY DEF ReadVariable
  <1>2. /\ pc = "env" /\ next \subseteq DOMAIN variables
        /\ UNCHANGED <<pc, merged, previous, changed, world, switch>>
    BY DEF ReadVariable, Inv, Left
  <1>3. v \in Paths /\ variables[v] \in Values
    <2>1. variables \in Environments
      BY DEF Inv, Maps
    <2>2. DOMAIN variables \subseteq Paths /\ variables \in [DOMAIN variables -> Values]
      BY <2>1
    <2> QED
      BY <1>2, <2>2
  <1>4. IsMap(Insert(part, v, variables[v]))
    BY <1>3, InsertIsMap DEF Inv, Maps
  <1> QED
    BY <1>1, <1>2, <1>4, SourceGoesOnInv

LEMMA ReadEnvInv == ASSUME Inv, ReadEnv PROVE Inv'
  <1>1. IsMap(part)
    BY DEF Inv, Maps
  <1> QED
    BY <1>1, SourceReadInv DEF ReadEnv

LEMMA ReadCliInv == ASSUME Inv, ReadCli PROVE Inv'
  <1>1. /\ pc = "cli" /\ next \subseteq 1..Len(arguments) /\ IsMap(part)
        /\ UNCHANGED <<world, switch>>
    BY DEF ReadCli, Inv, Left, Maps
  <1>2. CASE SourceRead(part, "defaults", DOMAIN Defaults)
    BY <1>1, <1>2, SourceReadInv
  <1>3. CASE \E k \in next : /\ part' = Insert(part, arguments[k][1], arguments[k][2])
                            /\ next' = next \ {k}
                            /\ UNCHANGED <<pc, parts, merged, previous, changed>>
    <2>1. PICK k \in next : /\ part' = Insert(part, arguments[k][1], arguments[k][2])
                            /\ next' = next \ {k}
                            /\ UNCHANGED <<pc, parts, merged, previous, changed>>
      BY <1>3
    <2>2. arguments \in Seq(Paths \X Values)
      BY DEF Inv, Maps
    <2>3. k \in 1..Len(arguments)
      BY <1>1
    <2>4. arguments[k] \in Paths \X Values
      BY <2>2, <2>3
    <2>5. IsMap(Insert(part, arguments[k][1], arguments[k][2]))
      BY <1>1, <2>4, InsertIsMap
    <2> QED
      BY <1>1, <2>1, <2>5, SourceGoesOnInv
  <1> QED
    BY <1>2, <1>3 DEF ReadCli

\* A default is applied, and those that were stay.
LEMMA ApplyDefaultInv == ASSUME Inv, ApplyDefault PROVE Inv'
  <1>1. PICK f \in next : merged' = WithDefault(merged, f) /\ next' = next \ {f}
    BY DEF ApplyDefault
  <1>2. /\ pc = "defaults" /\ f \in DOMAIN Defaults
        /\ UNCHANGED <<pc, part, previous, changed, files, variables, arguments, current, lkg>>
    BY DEF ApplyDefault, Inv, Left, world, switch
  <1>3. /\ IsMap(merged') /\ PathExists(merged', f)
        /\ \A g \in Paths : PathExists(merged, g) => PathExists(merged', g)
    BY <1>1, <1>2, WithDefaultKeeps DEF Inv, Maps
  <1>4. Maps'
    BY <1>2, <1>3 DEF Inv, Maps
  <1>5. Standing'
    <2> SUFFICES ASSUME NEW g \in DOMAIN Defaults \ next' PROVE PathExists(merged', g)
      BY DEF Standing
    <2>1. g \in Paths
      OBVIOUS
    <2>2. g = f \/ g \in DOMAIN Defaults \ next
      BY <1>1
    <2> QED
      BY <1>2, <1>3, <2>1, <2>2 DEF Inv, Standing
  <1> QED
    BY <1>1, <1>2, <1>4, <1>5 DEF Inv, Left, Checked, Told, Published

LEMMA EnforceInv == ASSUME Inv, Enforce PROVE Inv'
  <1>1. CASE Registered(merged) /\ pc' = "check"
                /\ UNCHANGED <<next, part, parts, merged, previous, changed>>
    <2>1. /\ pc = "defaults" /\ next = {}
          /\ UNCHANGED <<files, variables, arguments, current, lkg>>
      BY DEF Enforce, world, switch
    <2>2. Complete(merged)
      BY <1>1, <2>1 DEF Inv, Standing, Complete
    <2>3. Complete(merged')
      BY <1>1, <2>2
    <2> QED
      BY <1>1, <2>1, <2>3 DEF Inv, Maps, Left, Standing, Checked, Told, Published
  <1>2. CASE Fails
    BY <1>2, FailsInv DEF Enforce
  <1> QED
    BY <1>1, <1>2 DEF Enforce

LEMMA CheckInv == ASSUME Inv, Check PROVE Inv'
  <1>1. CASE Fails
    BY <1>1, FailsInv DEF Check
  <1>2. CASE /\ pc' = "loaded"
             /\ changed' = ChangedKeys(IF previous = None THEN Empty ELSE previous, merged)
             /\ UNCHANGED <<next, part, parts, merged, previous>>
    <2>1. pc = "check" /\ UNCHANGED <<files, variables, arguments, current, lkg>>
      BY DEF Check, world, switch
    <2>2. changed' = ChangedKeys(Old, merged)' 
      BY <1>2 DEF Old
    <2> QED
      BY <1>2, <2>1, <2>2 DEF Inv, Maps, Left, Standing, Checked, Told, Published
  <1> QED
    BY <1>1, <1>2 DEF Check

LEMMA PublishInv == ASSUME Inv, Publish PROVE Inv'
  <1>1. /\ pc = "loaded" /\ pc' = "idle" /\ current' = merged
        /\ lkg' = IF lkg = None THEN merged ELSE lkg
        /\ UNCHANGED <<files, variables, arguments, next, part, merged, previous, changed>>
    BY DEF Publish, world
  <1>2. Complete(merged) /\ IsMap(merged)
    BY <1>1 DEF Inv, Checked, Maps
  <1>3. IsMap(current') /\ Complete(current')
    BY <1>1, <1>2
  <1>4. lkg' # None => IsMap(lkg') /\ Complete(lkg')
    BY <1>1, <1>2 DEF Inv, Maps, Published
  <1>5. current' # None => lkg' # None
    BY <1>1
  <1> QED
    BY <1>1, <1>3, <1>4, <1>5 DEF Inv, Maps, Left, Standing, Checked, Told, Published

LEMMA RollbackInv == ASSUME Inv, Rollback PROVE Inv'
  <1>1. /\ current' = lkg
        /\ UNCHANGED <<files, variables, arguments, lkg, pc, next, part, merged, previous, changed>>
    BY DEF Rollback, world, load
  <1> QED
    BY <1>1 DEF Inv, Maps, Left, Standing, Checked, Told, Published, Old

LEMMA EditInv == ASSUME Inv, Edit PROVE Inv'
  <1>1. /\ files' \in [1..Files -> Contents \cup {Absent, Broken, Unreadable}]
        /\ UNCHANGED <<variables, arguments, pc, next, part, merged, previous, changed,
                       current, lkg>>
    BY DEF Edit, load, switch, Inv, Maps
  <1> QED
    BY <1>1 DEF Inv, Maps, Left, Standing, Checked, Told, Published, Old

LEMMA NextInv == Inv /\ [Next]_vars => Inv'
  <1> SUFFICES ASSUME Inv, [Next]_vars PROVE Inv'
    OBVIOUS
  <1>1. CASE Load
    BY <1>1, BeginInv, ReadFileInv, ReadVariableInv, ReadEnvInv, ReadCliInv,
       ApplyDefaultInv, EnforceInv, CheckInv DEF Load
  <1>2. CASE Publish
    BY <1>2, PublishInv
  <1>3. CASE Rollback
    BY <1>3, RollbackInv
  <1>4. CASE Edit
    BY <1>4, EditInv
  <1>5. CASE UNCHANGED vars
    BY <1>5 DEF vars, world, load, switch, Inv, Maps, Left, Standing, Checked, Told, Published, Old
  <1> QED
    BY <1>1, <1>2, <1>3, <1>4, <1>5 DEF Next

\* The invariant holds for all schemas, defaults, sources and edits of files.
THEOREM Invariance == Spec => []Inv
  BY InitInv, NextInv, PTL DEF Spec

-----------------------------------------------------------------------------
(* What readers may rely on.                                               *)

\* Whatever sources say, break or lose, a reader finds registered keys only and a
\* value for every field that has a default (loader.rs:88).
THEOREM SnapshotsAreComplete == Spec => []SnapshotIsComplete
  <1>1. Inv => SnapshotIsComplete
    BY DEF Inv, Published, Complete, SnapshotIsComplete
  <1> QED
    BY <1>1, Invariance, PTL

\* The update event names exactly what changed for a reader of any path
\* (loader.rs:230).
THEOREM EventsTellAll == Spec => []EventTellsAll
  <1>1. Inv => EventTellsAll
    <2> SUFFICES ASSUME Inv, pc = "loaded"
                 PROVE  /\ \A p \in Paths : At(Old, p) # At(merged, p) =>
                               \E k \in changed : Related(k, p)
                        /\ \A k \in changed : At(Old, k) # At(merged, k)
      BY DEF EventTellsAll, Old
    <2>1. IsMap(Old) /\ IsMap(merged) /\ changed = ChangedKeys(Old, merged)
      BY EmptyIsMap DEF Inv, Maps, Told, Old
    <2> QED
      BY <2>1, ChangedKeysTell
  <1> QED
    BY <1>1, Invariance, PTL

-----------------------------------------------------------------------------
(* The order of the layers.  A load is the map of its sources, in which the *)
(* last one that speaks about a path decides, and the defaults on top,      *)
(* whatever the order in which they are visited.                            *)

\* The map of the sources read so far.
Source == [p \in {q \in Paths : Given(q) # {}} |-> parts[CHOOSE i \in Given(p) : TRUE][p]]

\* The defaults V over a map: those it does not speak about.
Layer(src, V) ==
    LET unset == {f \in V : ~ PathExists(src, f)}
        above(p) == \E f \in unset : f # p /\ <<f, p>> \in Within
    IN  [p \in {q \in DOMAIN src : ~ above(q)} \cup {f \in unset : ~ above(f)} |->
            IF p \in DOMAIN src THEN src[p] ELSE Defaults[p]]

\* The defaults with nothing given at or below them.
Unset == {f \in DOMAIN Defaults :
            \A p \in Paths : Given(p) # {} => <<p, f>> \notin Within}

\* What the loader comes to, said without its steps: an unset default stands, even in
\* the place of a value given above it, unless another one lies within it.
Layered ==
    LET above(p) == \E f \in Unset : f # p /\ <<f, p>> \in Within
    IN  [p \in {q \in Paths : Given(q) # {} /\ ~ above(q)} \cup {f \in Unset : ~ above(f)} |->
            IF Given(p) # {} THEN GivenValue(p) ELSE Defaults[p]]

LEMMA LayeredIsLayer == Layered = Layer(Source, DOMAIN Defaults)
  <1>1. DOMAIN Source = {q \in Paths : Given(q) # {}}
    BY DEF Source
  <1>2. Unset = {f \in DOMAIN Defaults : ~ PathExists(Source, f)}
    BY <1>1 DEF Unset, PathExists
  <1> DEFINE above(p) == \E f \in Unset : f # p /\ <<f, p>> \in Within
             dom == {q \in DOMAIN Source : ~ above(q)} \cup {f \in Unset : ~ above(f)}
  <1>3. {q \in Paths : Given(q) # {} /\ ~ above(q)} = {q \in DOMAIN Source : ~ above(q)}
    BY <1>1
  <1>4. Layered = [p \in dom |-> IF Given(p) # {}
                                 THEN parts[CHOOSE i \in Given(p) : TRUE][p] ELSE Defaults[p]]
    BY <1>3 DEF Layered, GivenValue
  <1>5. Layer(Source, DOMAIN Defaults) =
            [p \in dom |-> IF p \in DOMAIN Source THEN Source[p] ELSE Defaults[p]]
    BY <1>2 DEF Layer
  <1>6. dom \subseteq Paths
    BY <1>1, <1>2
  <1>7. ASSUME NEW p \in dom
        PROVE  (IF Given(p) # {} THEN parts[CHOOSE i \in Given(p) : TRUE][p] ELSE Defaults[p])
                  = (IF p \in DOMAIN Source THEN Source[p] ELSE Defaults[p])
    BY <1>1, <1>6 DEF Source
  <1> HIDE DEF dom
  <1> QED
    BY <1>4, <1>5, <1>7

\* One more default.
LEMMA LayerStep ==
  ASSUME NEW src, DOMAIN src \subseteq Paths, NEW V \in SUBSET DOMAIN Defaults,
         NEW f \in DOMAIN Defaults,
         \A g \in V : PathExists(Layer(src, V), g)
  PROVE  WithDefault(Layer(src, V), f) = Layer(src, V \cup {f})
  <1> DEFINE m == Layer(src, V)
             n == Layer(src, V \cup {f})
             unset == {g \in V : ~ PathExists(src, g)}
             unset2 == {g \in V \cup {f} : ~ PathExists(src, g)}
             above(p) == \E g \in unset : g # p /\ <<g, p>> \in Within
             above2(p) == \E g \in unset2 : g # p /\ <<g, p>> \in Within
             dom == {q \in DOMAIN src : ~ above(q)} \cup {g \in unset : ~ above(g)}
             dom2 == {q \in DOMAIN src : ~ above2(q)} \cup {g \in unset2 : ~ above2(g)}
             val(p) == IF p \in DOMAIN src THEN src[p] ELSE Defaults[p]
  <1>1. m = [p \in dom |-> val(p)] /\ n = [p \in dom2 |-> val(p)]
    BY DEF Layer
  <1>2. DOMAIN m = dom
    BY <1>1
  <1>3. f \in Paths /\ V \subseteq Paths /\ unset \subseteq Paths /\ dom \subseteq Paths
    OBVIOUS
  <1>4. CASE PathExists(m, f)
    <2>1. PICK q \in dom : <<q, f>> \in Within
      BY <1>2, <1>4 DEF PathExists
    <2>2. CASE PathExists(src, f) \/ f \in V
      <3>1. unset2 = unset
        BY <2>2
      <3>2. dom2 = dom
        BY <3>1
      <3> QED
        BY <1>1, <1>4, <3>2 DEF WithDefault
    <2>3. CASE ~ PathExists(src, f) /\ f \notin V
      <3>1. q \in unset /\ q # f
        BY <2>1, <2>3 DEF PathExists
      <3>2. unset2 = unset \cup {f}
        BY <2>3
      <3>3. ASSUME NEW p \in Paths, f # p, <<f, p>> \in Within
            PROVE  above(p)
        <4>1. <<q, p>> \in Within /\ q # p
          BY <1>3, <2>1, <3>1, <3>3
        <4> QED
          BY <3>1, <4>1
      <3>4. \A p \in Paths : above2(p) <=> above(p)
        BY <3>2, <3>3
      <3>5. above(f)
        BY <2>1, <3>1
      <3>6. dom2 = dom
        BY <1>3, <3>2, <3>4, <3>5
      <3> QED
        BY <1>1, <1>4, <3>6 DEF WithDefault
    <2> QED
      BY <2>2, <2>3
  <1>5. CASE ~ PathExists(m, f)
    <2>1. \A g \in V : <<g, f>> \notin Within
      <3> SUFFICES ASSUME NEW g \in V, <<g, f>> \in Within PROVE FALSE
        OBVIOUS
      <3>1. PICK q \in dom : <<q, g>> \in Within
        BY <1>2 DEF PathExists
      <3>2. <<q, f>> \in Within
        BY <1>3, <3>1
      <3> QED
        BY <1>2, <1>5, <3>2 DEF PathExists
    <2>2. f \notin V
      BY <1>3, <2>1
    <2>9. \A q \in dom : <<q, f>> \notin Within
      BY <1>2, <1>5 DEF PathExists
    <2>3. ~ PathExists(src, f)
      <3> SUFFICES ASSUME NEW p \in DOMAIN src, <<p, f>> \in Within PROVE FALSE
        BY DEF PathExists
      <3>1. above(p)
        BY <2>9
      <3>2. PICK g \in unset : <<g, p>> \in Within
        BY <3>1
      <3>3. <<g, f>> \in Within
        BY <1>3, <3>2
      <3> QED
        BY <2>1, <3>3
    <2>4. f \notin DOMAIN src
      BY <1>3, <2>3 DEF PathExists
    <2>5. unset2 = unset \cup {f}
      BY <2>3
    <2>6. ~ above2(f)
      BY <2>1, <2>5
    <2>7. \A p \in Paths : above2(p) <=> above(p) \/ (f # p /\ <<f, p>> \in Within)
      BY <2>5
    <2>8. f \notin dom
      BY <2>2, <2>4
    <2>10. dom2 = {q \in dom : ~ Related(q, f)} \cup {f}
      <3>1. ASSUME NEW p \in Paths
            PROVE  p \in dom2 <=> p \in {q \in dom : ~ Related(q, f)} \cup {f}
        <4>1. CASE p = f
          BY <2>5, <2>6, <4>1
        <4>2. CASE p # f
          <5>1. p \in dom2 <=> p \in dom /\ <<f, p>> \notin Within
            BY <2>5, <2>7, <4>2
          <5> QED
            BY <2>9, <4>2, <5>1 DEF Related
        <4> QED
          BY <4>1, <4>2
      <3>2. dom2 \subseteq Paths
        BY <1>3, <2>5
      <3>3. {q \in dom : ~ Related(q, f)} \cup {f} \subseteq Paths
        BY <1>3
      <3> HIDE DEF dom, dom2
      <3> QED
        BY <3>1, <3>2, <3>3
    <2> DEFINE one == [r \in {f} |-> Defaults[f]]
    <2>11. WithDefault(m, f) = Merge(m, one)
      BY <1>5 DEF WithDefault, Insert
    <2>12. Merge(m, one) = [p \in {q \in dom : ~ Related(q, f)} \cup {f} |->
                                IF p = f THEN Defaults[f] ELSE val(p)]
      <3>1. DOMAIN one = {f} /\ one[f] = Defaults[f]
        OBVIOUS
      <3>2. {p \in DOMAIN m : \A q \in DOMAIN one : ~ Related(p, q)} =
                {q \in dom : ~ Related(q, f)}
        <4> HIDE DEF one, m, dom
        <4> QED
          BY <1>2, <3>1
      <3>3. \A p \in dom : m[p] = val(p)
        BY <1>1
      <3> HIDE DEF one, m, dom, val
      <3>4. Merge(m, one) = [p \in {q \in dom : ~ Related(q, f)} \cup {f} |->
                                IF p \in {f} THEN one[p] ELSE m[p]]
        BY <3>1, <3>2 DEF Merge
      <3> QED
        BY <3>1, <3>3, <3>4
    <2>13. val(f) = Defaults[f]
      BY <2>4
    <2> HIDE DEF dom, dom2, val, m, n, one
    <2> QED
      BY <1>1, <2>10, <2>11, <2>12, <2>13 DEF m, n
  <1> QED
    BY <1>4, <1>5

\* Of a leaf, at most one source is the last that speaks about it.
LEMMA GivenOnce ==
  ASSUME NEW q \in Paths, NEW i \in Given(q), NEW j \in Given(q), Len(parts) \in Nat
  PROVE  i = j
  <1>1. /\ i \in 1..Len(parts) /\ q \in DOMAIN parts[i] /\ Prevails(i, q)
        /\ j \in 1..Len(parts) /\ q \in DOMAIN parts[j] /\ Prevails(j, q)
    BY DEF Given
  <1>2. Related(q, q)
    BY DEF Related
  <1>3. ~ (i < j)
    BY <1>1, <1>2 DEF Prevails
  <1>4. ~ (j < i)
    BY <1>1, <1>2 DEF Prevails
  <1> QED
    BY <1>1, <1>3, <1>4

SetOfMaps == UNION {[S -> Values] : S \in SUBSET Paths}

LEMMA MapsAreMaps == ASSUME NEW m, IsMap(m) PROVE m \in SetOfMaps
  BY DEF IsMap, SetOfMaps

\* Another source goes over the ones before it.
LEMMA SourceGrows ==
  ASSUME parts \in Seq(SetOfMaps), NEW p, IsMap(p), parts' = Append(parts, p)
  PROVE  Source' = Merge(Source, p)
  <1> DEFINE n == Len(parts)
  <1>1. /\ n \in Nat /\ Len(parts') = n + 1 /\ parts'[n + 1] = p
        /\ \A i \in 1..n : parts'[i] = parts[i]
    BY MapsAreMaps
  <1>2. ASSUME NEW q \in Paths, NEW i \in 1..n
        PROVE  i \in Given(q)' <=> i \in Given(q) /\ \A r \in DOMAIN p : ~ Related(q, r)
    <2>1. Prevails(i, q)' <=> Prevails(i, q) /\ \A r \in DOMAIN p : ~ Related(q, r)
      <3>1. (i + 1)..(n + 1) = ((i + 1)..n) \cup {n + 1}
        BY <1>1
      <3> QED
        BY <1>1, <3>1 DEF Prevails
    <2> QED
      BY <1>1, <2>1 DEF Given
  <1>3. ASSUME NEW q \in Paths
        PROVE  n + 1 \in Given(q)' <=> q \in DOMAIN p
    BY <1>1 DEF Given, Prevails
  <1>4. \A q : Given(q) \subseteq 1..n /\ Given(q)' \subseteq 1..(n + 1)
    BY <1>1 DEF Given
  <1> HIDE DEF n
  <1>5. ASSUME NEW q \in Paths, q \in DOMAIN p
        PROVE  Given(q)' = {n + 1}
    <2>1. Related(q, q)
      BY DEF Related
    <2> QED
      BY <1>1, <1>2, <1>3, <1>4, <1>5, <2>1
  <1>6. ASSUME NEW q \in Paths, q \notin DOMAIN p, \A r \in DOMAIN p : ~ Related(q, r)
        PROVE  Given(q)' = Given(q)
    <2>1. ASSUME NEW i PROVE i \in Given(q)' <=> i \in Given(q)
      <3>1. CASE i \in 1..n
        BY <1>2, <1>6, <3>1
      <3>2. CASE i = n + 1
        BY <1>1, <1>3, <1>4, <1>6, <3>2
      <3>3. CASE i \notin 1..(n + 1)
        BY <1>1, <1>4, <3>3
      <3> QED
        BY <1>1, <3>1, <3>2, <3>3
    <2> QED
      BY <2>1, ZenonT(60)
  <1>7. ASSUME NEW q \in Paths, q \notin DOMAIN p, ~ \A r \in DOMAIN p : ~ Related(q, r)
        PROVE  Given(q)' = {}
    BY <1>1, <1>2, <1>3, <1>4, <1>7
  <1> DEFINE dom == {q \in DOMAIN Source : \A r \in DOMAIN p : ~ Related(q, r)} \cup DOMAIN p
  <1>8. DOMAIN Source = {q \in Paths : Given(q) # {}}
        /\ DOMAIN p \subseteq Paths
    BY DEF Source, IsMap
  <1>9. {q \in Paths : Given(q)' # {}} = dom
    <2>1. ASSUME NEW q \in Paths PROVE Given(q)' # {} <=> q \in dom
      <3>1. CASE q \in DOMAIN p
        BY <1>5, <3>1, SMTT(30)
      <3>2. CASE q \notin DOMAIN p /\ \A r \in DOMAIN p : ~ Related(q, r)
        <4>1. Given(q)' = Given(q)
          BY <1>6, <3>2
        <4>2. q \in dom <=> Given(q) # {}
          BY <1>8, <3>2
        <4> HIDE DEF dom
        <4> QED
          BY <4>1, <4>2
      <3>3. CASE q \notin DOMAIN p /\ ~ \A r \in DOMAIN p : ~ Related(q, r)
        <4>1. Given(q)' = {}
          BY <1>7, <3>3
        <4>2. q \notin dom
          BY <3>3
        <4> HIDE DEF dom
        <4> QED
          BY <4>1, <4>2
      <3> QED
        BY <3>1, <3>2, <3>3
    <2>2. dom \subseteq Paths
      BY <1>8
    <2> HIDE DEF dom
    <2> QED
      BY <2>1, <2>2
  <1>10. ASSUME NEW q \in dom
         PROVE  parts'[CHOOSE i \in Given(q)' : TRUE][q] =
                   (IF q \in DOMAIN p THEN p[q] ELSE Source[q])
    <2>1. CASE q \in DOMAIN p
      <3>1. Given(q)' = {n + 1}
        BY <1>5, <1>8, <2>1
      <3>2. PICK i \in Given(q)' : i = CHOOSE j \in Given(q)' : TRUE
        BY <3>1
      <3>3. parts'[i] = p
        BY <1>1, <3>1, <3>2
      <3> QED
        BY <2>1, <3>2, <3>3
    <2>2. CASE q \notin DOMAIN p
      <3>1. q \in Paths /\ Given(q) # {} /\ Given(q)' = Given(q)
        BY <1>6, <1>8, <2>2
      <3>2. PICK i \in Given(q) : i = CHOOSE j \in Given(q) : TRUE
        BY <3>1
      <3>3. Source[q] = parts[i][q] /\ parts'[i] = parts[i]
        BY <1>1, <1>4, <3>1, <3>2 DEF Source
      <3>4. (CHOOSE j \in Given(q)' : TRUE) = i
        BY <3>1, <3>2
      <3> QED
        BY <2>2, <3>3, <3>4
    <2> QED
      BY <2>1, <2>2
  <1>11. Source' = [q \in dom |-> parts'[CHOOSE i \in Given(q)' : TRUE][q]]
    BY <1>9 DEF Source
  <1>12. Merge(Source, p) = [q \in dom |-> IF q \in DOMAIN p THEN p[q] ELSE Source[q]]
    BY DEF Merge
  <1> HIDE DEF dom
  <1> QED
    BY <1>10, <1>11, <1>12

Layers ==
    /\ parts \in Seq(SetOfMaps)
    /\ pc \in {"file", "env", "cli"} => merged = Source
    /\ pc = "defaults" => merged = Layer(Source, DOMAIN Defaults \ next)
    /\ pc \in {"check", "loaded"} => merged = Layered

\* Without a default, a map is what it was.
LEMMA LayerOfNone == ASSUME NEW src, src = [p \in DOMAIN src |-> src[p]] PROVE Layer(src, {}) = src
  <1> DEFINE unset == {f \in {} : ~ PathExists(src, f)}
             above(p) == \E f \in unset : f # p /\ <<f, p>> \in Within
             dom == {q \in DOMAIN src : ~ above(q)} \cup {f \in unset : ~ above(f)}
             val(p) == IF p \in DOMAIN src THEN src[p] ELSE Defaults[p]
  <1>1. Layer(src, {}) = [p \in dom |-> val(p)]
    BY Zenon DEF Layer
  <1>2. unset = {}
    OBVIOUS
  <1> HIDE DEF unset
  <1>3. dom = DOMAIN src
    BY <1>2
  <1>4. \A p \in DOMAIN src : val(p) = src[p]
    OBVIOUS
  <1> HIDE DEF dom, val
  <1>5. [p \in dom |-> val(p)] = [p \in DOMAIN src |-> src[p]]
    BY <1>3, <1>4
  <1> QED
    BY <1>1, <1>5

LEMMA LayersInit == Init => Layers
  BY DEF Init, Layers

\* The sources stay what they are.
LEMMA SourceStays == ASSUME parts' = parts PROVE Source' = Source /\ Layered' = Layered
  BY DEF Source, Layered, Given, GivenValue, Prevails, Unset

LEMMA LayersSource ==
  ASSUME Inv, Layers, NEW p, IsMap(p), pc \in {"file", "env", "cli"},
         NEW then \in {"env", "cli", "defaults"}, NEW left,
         then = "defaults" => left = DOMAIN Defaults,
         SourceRead(p, then, left)
  PROVE  Layers'
  <1>1. /\ merged' = Merge(merged, p) /\ parts' = Append(parts, p)
        /\ pc' = then /\ next' = left
    BY DEF SourceRead
  <1>2. parts' \in Seq(SetOfMaps)
    BY <1>1, MapsAreMaps DEF Layers
  <1>3. merged' = Source'
    BY <1>1, SourceGrows DEF Layers
  <1>4. Source' = [q \in DOMAIN Source' |-> Source'[q]]
    BY DEF Source
  <1>5. then = "defaults" => DOMAIN Defaults \ next' = {}
    BY <1>1
  <1>6. Layer(Source', {}) = Source'
    BY <1>4, LayerOfNone
  <1> QED
    BY <1>1, <1>2, <1>3, <1>5, <1>6 DEF Layers

LEMMA LayersStay ==
  ASSUME Layers, UNCHANGED <<parts, merged>>,
         \/ pc' = pc /\ (pc = "defaults" => next' = next)
         \/ pc' = "idle"
         \/ pc = "check" /\ pc' = "loaded"
  PROVE  Layers'
  <1>1. Source' = Source /\ Layered' = Layered
    BY SourceStays
  <1> QED
    BY <1>1 DEF Layers

LEMMA LayersNext == ASSUME Inv, Layers, [Next]_vars PROVE Layers'
  <1>1. CASE Begin
    <2>1. parts' = <<>> /\ merged' = Empty /\ pc' = "file"
      BY <1>1 DEF Begin
    <2>2. \A q : Given(q)' = {}
      BY <2>1 DEF Given
    <2>3. Source' = Empty
      BY <2>2 DEF Source, Empty
    <2> QED
      BY <2>1, <2>3 DEF Layers
  <1>2. CASE ReadFile
    <2>1. PICK k \in next :
              LET p == IF files[k] \in {Absent, Broken} THEN part ELSE Merge(part, files[k])
              IN  IF files[k] = Unreadable
                  THEN Fails
                  ELSE IF next = {k}
                  THEN SourceRead(p, "env", DOMAIN variables)
                  ELSE /\ part' = p
                       /\ next' = next \ {k}
                       /\ UNCHANGED <<pc, parts, merged, previous, changed>>
      BY <1>2 DEF ReadFile
    <2> DEFINE p == IF files[k] \in {Absent, Broken} THEN part ELSE Merge(part, files[k])
    <2>2. pc = "file" /\ k \in 1..Files
      BY <1>2 DEF ReadFile, Inv, Left
    <2>3. files[k] # Unreadable => IsMap(p)
      BY <2>2, MergeIsMap DEF Inv, Maps
    <2>4. \/ Fails
          \/ files[k] # Unreadable /\ SourceRead(p, "env", DOMAIN variables)
          \/ UNCHANGED <<pc, parts, merged>>
      BY <2>1
    <2> HIDE DEF p
    <2>5. CASE Fails
      BY <2>5, LayersStay DEF Fails
    <2>6. CASE files[k] # Unreadable /\ SourceRead(p, "env", DOMAIN variables)
      BY <2>2, <2>3, <2>6, LayersSource
    <2>7. CASE UNCHANGED <<pc, parts, merged>>
      BY <2>2, <2>7, LayersStay
    <2> QED
      BY <2>4, <2>5, <2>6, <2>7
  <1>3. CASE ReadVariable
    BY <1>3, LayersStay DEF ReadVariable
  <1>4. CASE ReadEnv
    BY <1>4, LayersSource DEF ReadEnv, Inv, Maps
  <1>5. CASE ReadCli
    <2>1. pc = "cli" /\ IsMap(part)
      BY <1>5 DEF ReadCli, Inv, Maps
    <2>2. \/ SourceRead(part, "defaults", DOMAIN Defaults)
          \/ UNCHANGED <<pc, parts, merged>>
      BY <1>5 DEF ReadCli
    <2>3. CASE SourceRead(part, "defaults", DOMAIN Defaults)
      BY <2>1, <2>3, LayersSource
    <2>4. CASE UNCHANGED <<pc, parts, merged>>
      BY <2>1, <2>4, LayersStay
    <2> QED
      BY <2>2, <2>3, <2>4
  <1>6. CASE ApplyDefault
    <2>1. PICK f \in next : merged' = WithDefault(merged, f) /\ next' = next \ {f}
      BY <1>6 DEF ApplyDefault
    <2>2. pc = "defaults" /\ UNCHANGED <<pc, parts>> /\ f \in DOMAIN Defaults
      BY <1>6 DEF ApplyDefault, Inv, Left
    <2> DEFINE V == DOMAIN Defaults \ next
    <2>3. merged = Layer(Source, V) /\ \A g \in V : PathExists(merged, g)
      BY <2>2 DEF Layers, Inv, Standing
    <2>4. V \subseteq DOMAIN Defaults /\ DOMAIN Source \subseteq Paths
      BY DEF Source
    <2>5. V \cup {f} = DOMAIN Defaults \ next'
      BY <2>1, <2>2
    <2> HIDE DEF V
    <2>6. merged' = Layer(Source, V \cup {f})
      BY <2>1, <2>2, <2>3, <2>4, LayerStep
    <2>7. Source' = Source
      BY <2>2, SourceStays
    <2> QED
      BY <2>2, <2>5, <2>6, <2>7 DEF Layers
  <1>7. CASE Enforce
    <2>1. CASE Fails
      BY <2>1, LayersStay DEF Fails
    <2>2. CASE pc' = "check" /\ UNCHANGED <<next, part, parts, merged, previous, changed>>
      <3>1. pc = "defaults" /\ DOMAIN Defaults \ next = DOMAIN Defaults
        BY <1>7 DEF Enforce
      <3>2. merged = Layered
        BY <3>1, LayeredIsLayer DEF Layers
      <3>3. Layered' = Layered
        BY <2>2, SourceStays
      <3> QED
        BY <2>2, <3>2, <3>3 DEF Layers
    <2> QED
      BY <1>7, <2>1, <2>2 DEF Enforce
  <1>8. CASE Check
    BY <1>8, LayersStay DEF Check, Fails
  <1>9. CASE Publish
    BY <1>9, LayersStay DEF Publish
  <1>10. CASE Rollback \/ Edit
    BY <1>10, LayersStay DEF Rollback, Edit, load
  <1>11. CASE UNCHANGED vars
    BY <1>11, LayersStay DEF vars, load
  <1> QED
    BY <1>1, <1>2, <1>3, <1>4, <1>5, <1>6, <1>7, <1>8, <1>9, <1>10, <1>11 DEF Next, Load

LEMMA TypeNext == ASSUME Inv, Inv', TypeOK, [Next]_vars PROVE TypeOK'
  <1>1. /\ files' \in [1..Files -> Contents \cup {Absent, Broken, Unreadable}]
        /\ variables' \in Environments /\ arguments' \in CommandLines
        /\ IsMap(part') /\ IsMap(merged')
        /\ current' # None => IsMap(current')
    BY DEF Inv, Maps
  <1>2. edits' \in 0..MaxEdits /\ loads' \in 0..MaxLoads
    BY DEF TypeOK, Next, Load, Begin, ReadFile, ReadVariable, ReadEnv, ReadCli, ApplyDefault,
           Enforce, Check, Publish, Rollback, Edit, vars
  <1>3. pc' \in Stages
    BY DEF TypeOK, Stages, Next, Load, Begin, ReadFile, ReadVariable, ReadEnv, ReadCli,
           ApplyDefault, Enforce, Check, Publish, Rollback, Edit, SourceRead, Fails, load, vars
  <1>4. changed' \subseteq Paths
    <2>1. changed' = changed \/ changed' = {} \/ pc' = "loaded"
      BY DEF Next, Load, Begin, ReadFile, ReadVariable, ReadEnv, ReadCli,
             ApplyDefault, Enforce, Check, Publish, Rollback, Edit, SourceRead, Fails, load, vars
    <2>2. CASE pc' = "loaded"
      <3>1. changed' = ChangedKeys(Old', merged')
        BY <2>2 DEF Inv, Told
      <3>2. IsMap(Old')
        BY EmptyIsMap DEF Inv, Maps, Old
      <3> QED
        BY <1>1, <3>1, <3>2, ChangedKeysTell
    <2> QED
      BY <2>1, <2>2 DEF TypeOK
  <1>5. (current' = None) = (lkg' = None)
    <2>1. CASE UNCHANGED switch
      BY <2>1 DEF TypeOK, switch
    <2>2. CASE Publish
      <3>1. current' = merged /\ merged = merged' /\ IsMap(merged)
        BY <2>2 DEF Publish, Inv, Maps
      <3>2. lkg' = IF lkg = None THEN merged ELSE lkg
        BY <2>2 DEF Publish
      <3>3. current' # None \/ lkg' = None
        BY <3>1, MapsAreMaps DEF IsMap
      <3> QED
        BY <3>1, <3>2, <3>3 DEF TypeOK
    <2>3. CASE Rollback
      BY <2>3 DEF Rollback, TypeOK
    <2> QED
      BY <2>1, <2>2, <2>3 DEF Next, Load, Begin, ReadFile, ReadVariable, ReadEnv, ReadCli,
             ApplyDefault, Enforce, Check, Edit, switch, vars
  <1> QED
    BY <1>1, <1>2, <1>3, <1>4, <1>5 DEF TypeOK

\* Outside the overruled paths what the loader comes to is what is documented.
LEMMA LayeredIsDocumented ==
  ASSUME NEW p \in Paths, \A q \in Overruled : ~ Related(p, q)
  PROVE  /\ p \in DOMAIN Layered <=> p \in DOMAIN Documented
         /\ p \in DOMAIN Layered => Layered[p] = Documented[p]
  <1> DEFINE above(q) == \E f \in Unset : f # q /\ <<f, q>> \in Within
             innermost(f) == \A g \in Undisputed : <<g, f>> \in Within => g = f
             layered == {q \in Paths : Given(q) # {} /\ ~ above(q)}
                            \cup {f \in Unset : ~ above(f)}
             documented == {q \in Paths : Given(q) # {}}
                               \cup {f \in Undisputed : innermost(f)}
             val(q) == IF Given(q) # {} THEN GivenValue(q) ELSE Defaults[q]
  <1>1. Layered = [q \in layered |-> val(q)] /\ Documented = [q \in documented |-> val(q)]
    BY DEF Layered, Documented
  <1>2. /\ \A f \in Unset : f \in DOMAIN Defaults /\ f \in Paths
        /\ \A f \in Undisputed : f \in Unset
        /\ \A q \in Paths : <<q, q>> \in Within
    BY DEF Unset, Undisputed, Related
  <1>3. CASE Given(p) # {}
    <2>1. ~ above(p)
      BY <1>2, <1>3 DEF Overruled, Related
    <2> QED
      BY <1>1, <1>3, <2>1
  <1>4. CASE Given(p) = {}
    <2>1. \A q \in Paths : Given(q) # {} => <<p, q>> \notin Within \/ p \notin DOMAIN Defaults
      BY <1>4 DEF Overruled, Related
    <2>2. p \in Unset <=> p \in Undisputed
      BY <1>2, <2>1 DEF Unset, Undisputed, Related
    <2>3. ASSUME p \in Undisputed, NEW f \in Unset, <<f, p>> \in Within
          PROVE  f \in Undisputed
      <3> SUFFICES ASSUME NEW q \in Paths, Given(q) # {}, <<f, q>> \in Within PROVE FALSE
        BY <1>2 DEF Unset, Undisputed, Related
      <3>1. Related(p, q)
        BY <1>2, <2>3, TreeAssumption
      <3> QED
        BY <2>3, <3>1 DEF Undisputed, Related
    <2>4. p \in Undisputed => (above(p) <=> ~ innermost(p))
      BY <1>2, <2>3
    <2>5. p \in layered <=> p \in documented
      BY <1>4, <2>2, <2>4
    <2> QED
      BY <1>1, <2>5
  <1> QED
    BY <1>3, <1>4

\* Types, and that loading layer by layer comes to the documented map, whatever the
\* order in which variables and defaults are visited (loader.rs:40), at every path but
\* those at, above or below a value with a default nested in it: there the default
\* wins over its sources.
THEOREM LoadIsDocumented == Spec => []ConfigInv
  <1>1. Init => TypeOK
    BY EmptyIsMap DEF Init, TypeOK, Stages
  <1>2. Layers => MergeIsDocumented
    BY LayeredIsDocumented DEF Layers, MergeIsDocumented
  <1> QED
    BY <1>1, <1>2, InitInv, NextInv, LayersInit, LayersNext, TypeNext, PTL DEF Spec, ConfigInv
=============================================================================
