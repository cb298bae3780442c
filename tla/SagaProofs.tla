----------------------------- MODULE SagaProofs -----------------------------
(***************************************************************************)
(* The safety of Saga for every number of steps, whichever of them can be  *)
(* undone, and any number of crashes and replays.  What is more than types *)
(* is proved for one caller of tick; with two the properties are false,    *)
(* since nothing keeps a tick from saving over another.                    *)
(***************************************************************************)
EXTENDS Saga, TLAPS

USE SagaAssumption

\* Nobody ticks the saga at the same time.
OneDriver == \A d, e \in Drivers : d = e

-----------------------------------------------------------------------------
(* The inductive invariant.  Its parts are about an instance c while the   *)
(* steps in E are in force, after n replays.                               *)

\* Nothing that can be undone is in force above the cursor, but the action of a
\* step that is being taken, whose outcome the instance does not have yet.
Covers(c, E) ==
    \A i \in E \cap Compensable :
        i <= c.cursor \/ (c.state = "Running" /\ i = c.cursor + 1)

\* Going forward, the steps behind it succeeded.
Forward(c, E) ==
    c.state \in {"Running", "Completed"} =>
        \A i \in 1..c.cursor : i \in E /\ c.step[i] = "Succeeded"

\* The steps behind the cursor were tried and not undone since; those ahead have
\* not succeeded, or not since they were undone.
Marked(c) ==
    \A i \in Steps :
        /\ i > c.cursor => c.step[i] # "Succeeded"
        /\ i <= c.cursor => c.step[i] \notin {"Compensated", "Skipped"}

\* An instance is Completed behind its last step and Cancelled before its first.
Ended(c) ==
    /\ c.state = "Completed" => c.cursor = N
    /\ c.state = "Cancelled" => c.cursor = 0

\* What holds of the stored instance and of every copy a tick is at work on; only
\* the first run goes forward from the start.
Sound(c, E, n) ==
    /\ Covers(c, E)
    /\ Marked(c)
    /\ Ended(c)
    /\ n = 0 => Forward(c, E)

\* In E the steps that can be undone are the first ones.
Stacked(E) == \A i, j \in Compensable : i < j /\ j \in E => i \in E

\* A tick's copy and the instance it was loaded from.  A Failed saga may have been
\* replayed since; the tick then saves over the replay.
CopyInv ==
    \A d \in Drivers :
        /\ pc[d] # "idle" => Sound(copy[d], effect, replays)
        /\ pc[d] = "running" => stored = copy[d] /\ stored.state = "Running"
        /\ pc[d] = "undoing" =>
              /\ copy[d].state = "Compensating"
              /\ stored.state = "Compensating"
        /\ pc[d] = "saving" /\ stored.state \in Terminal => copy[d] = stored

\* A letter is of the saga as it stands, until its replay has begun.
LetterInv == letter # NoLetter /\ ~replaying => stored = letter /\ letter.state = "Failed"

\* Letters are filed while replays are left.
ReplayInv ==
    IF replaying THEN letter # NoLetter /\ replays > 0
    ELSE letter # NoLetter => replays < MaxReplays

Inv ==
    /\ TypeOK
    /\ ReplayInv
    /\ Sound(stored, effect, replays)
    /\ CopyInv
    /\ LetterInv
    /\ UndoneInReverse

-----------------------------------------------------------------------------
(* Types, for any number of drivers.                                       *)

\* What a tick makes of an instance is one.
LEMMA BecomesTypes ==
  ASSUME TypeOK, NEW d \in Drivers, NEW c \in Instance,
         NEW p \in {"idle", "running", "undoing", "saving"}, Becomes(d, c, p)
  PROVE  /\ copy' \in [Drivers -> Instance]
         /\ pc' \in [Drivers -> {"idle", "running", "undoing", "saving"}]
  BY DEF TypeOK, Becomes

LEMMA StepsArePositive == \A i \in Steps : i \in Nat /\ i > 0 /\ ~(i <= 0)
  BY DEF Steps

LEMMA UndoablePositive == \A i \in Compensable : i \in Nat /\ i > 0
  BY StepsArePositive

LEMMA StartedType == Started \in Instance
  BY DEF Started, Instance

LEMMA MarkType ==
  ASSUME NEW c \in Instance, NEW i \in Steps, NEW cursor \in 0..N,
         NEW s \in {"Ready", "Succeeded", "Failed", "Compensated", "Skipped"},
         NEW state \in {"Running", "Compensating"} \cup Terminal
  PROVE  Mark(c, i, s, cursor, state) \in Instance
  BY DEF Mark, Instance

LEMMA StateType ==
  ASSUME NEW c \in Instance, NEW state \in {"Running", "Compensating"} \cup Terminal
  PROVE  [c EXCEPT !.state = state] \in Instance
  BY DEF Instance

LEMMA PastType ==
  ASSUME NEW c \in Instance, c.cursor < N
  PROVE  Past(c) \in Instance
  <1>1. c.cursor + 1 \in Steps /\ c.cursor + 1 \in 0..N
    BY DEF Instance, Steps
  <1>2. (IF c.cursor + 1 >= N THEN "Completed" ELSE c.state)
        \in {"Running", "Compensating"} \cup Terminal
    BY DEF Instance, Terminal
  <1> QED
    BY <1>1, <1>2, MarkType DEF Past

TypeInv == TypeOK /\ ReplayInv

LEMMA NextTypes == TypeInv /\ [Next]_vars => TypeInv'
  <1> SUFFICES ASSUME TypeInv, [Next]_vars PROVE TypeInv'
    OBVIOUS
  <1> USE DEF TypeInv
  <1>0. TypeOK /\ ReplayInv
    OBVIOUS
  <1>1. ASSUME NEW d \in Drivers, Load(d) PROVE TypeInv'
    <2>1. /\ copy' = [copy EXCEPT ![d] = stored]
          /\ pc' = [pc EXCEPT ![d] = pc'[d]]
          /\ pc'[d] \in {"running", "undoing", "saving"}
      BY <1>0, <1>1 DEF Load, TypeOK
    <2> QED
      BY <1>0, <1>1, <2>1 DEF Load, TypeOK, ReplayInv, deadStore
  <1>2. ASSUME NEW d \in Drivers, PassOver(d) PROVE TypeInv'
    <2>1. copy[d] \in Instance
      BY <1>0 DEF TypeOK
    <2>2. \E c \in Instance : Becomes(d, c, "saving")
      BY <1>2, <2>1, PastType, StateType DEF PassOver, Terminal
    <2> QED
      BY <1>0, <1>2, <2>2, BecomesTypes DEF PassOver, TypeOK, ReplayInv, deadStore
  <1>3. ASSUME NEW d \in Drivers, ExecuteOk(d) \/ ExecuteFail(d) PROVE TypeInv'
    <2>1. copy[d] \in Instance /\ copy[d].cursor < N
      BY <1>0, <1>3 DEF TypeOK, ExecuteOk, ExecuteFail, Calls
    <2>2. copy[d].cursor + 1 \in Steps /\ copy[d].cursor + 1 \in 0..N
      BY <2>1 DEF Instance, Steps
    <2>3. \E c \in Instance : Becomes(d, c, "saving")
      BY <1>3, <2>1, <2>2, PastType, MarkType DEF ExecuteOk, ExecuteFail
    <2>4. effect' \subseteq Steps
      BY <1>0, <1>3, <2>2 DEF ExecuteOk, ExecuteFail, TypeOK
    <2> QED
      BY <1>0, <1>3, <2>3, <2>4, BecomesTypes
      DEF ExecuteOk, ExecuteFail, TypeOK, ReplayInv, deadStore
  <1>4. ASSUME NEW d \in Drivers, Undone(d) \/ UndoFail(d) PROVE TypeInv'
    <2>1. copy[d] \in Instance
      BY <1>0 DEF TypeOK
    <2>2. \E c \in Instance : Becomes(d, c, "saving")
      BY <1>4, <2>1, StateType DEF Undone, UndoFail, Terminal
    <2>3. effect' \subseteq Steps
      BY <1>0, <1>4 DEF Undone, UndoFail, TypeOK
    <2> QED
      BY <1>0, <1>4, <2>2, <2>3, BecomesTypes DEF Undone, UndoFail, TypeOK, ReplayInv, deadStore
  <1>5. ASSUME NEW d \in Drivers, SkipStep(d) \/ UndoOk(d) PROVE TypeInv'
    <2>1. /\ copy[d] \in Instance
          /\ copy[d].cursor \in Steps
          /\ copy[d].cursor - 1 \in 0..N
          /\ copy[d].state \in {"Running", "Compensating"} \cup Terminal
      BY <1>0, <1>5 DEF SkipStep, UndoOk, CallsUndo, TypeOK, Instance, Steps
    <2>2. [copy[d] EXCEPT !.cursor = copy[d].cursor - 1] \in Instance
      BY <2>1 DEF Instance
    <2>3. \E c \in Instance : Becomes(d, c, "undoing")
      BY <1>5, <2>1, <2>2, MarkType DEF SkipStep, UndoOk
    <2>4. effect' \subseteq Steps
      BY <1>0, <1>5 DEF SkipStep, UndoOk, TypeOK
    <2> QED
      BY <1>0, <1>5, <2>3, <2>4, BecomesTypes DEF SkipStep, UndoOk, TypeOK, ReplayInv, deadStore
  <1>6. ASSUME NEW d \in Drivers, Save(d) PROVE TypeInv'
    BY <1>0, <1>6, StartedType, BecomesTypes DEF Save, TypeOK, ReplayInv, deadStore
  <1>7. ASSUME NEW d \in Drivers, Crash(d) PROVE TypeInv'
    <2>1. effect' \subseteq Steps
      BY <1>0, <1>7 DEF Crash, Calls, TypeOK, Instance, Steps
    <2> QED
      BY <1>0, <1>7, <2>1, StartedType, BecomesTypes DEF Crash, TypeOK, ReplayInv, deadStore
  <1>8. CASE FileLetter
    BY <1>0, <1>8 DEF FileLetter, TypeOK, ReplayInv, driver
  <1>9. CASE ReplaySave
    <2>1. stored' \in Instance
      BY <1>0, <1>9, StateType DEF ReplaySave, TypeOK
    <2> QED
      BY <1>0, <1>9, <2>1 DEF ReplaySave, TypeOK, ReplayInv, driver
  <1>10. CASE ReplayRemove
    BY <1>0, <1>10 DEF ReplayRemove, TypeOK, ReplayInv, driver
  <1>11. CASE UNCHANGED vars
    BY <1>0, <1>11 DEF vars, TypeOK, ReplayInv, driver, deadStore
  <1> QED
    BY <1>1, <1>2, <1>3, <1>4, <1>5, <1>6, <1>7, <1>8, <1>9, <1>10, <1>11
    DEF Next, TickStep

-----------------------------------------------------------------------------
(* Instances and what is in force, one change at a time.                   *)

\* The action of the next step may come into force before its outcome is known.
LEMMA TakingSound ==
  ASSUME NEW c \in Instance, NEW E \in SUBSET Steps, NEW n \in Nat, Sound(c, E, n),
         c.state = "Running", n = 0 => Stacked(E)
  PROVE  /\ Sound(c, E \cup {c.cursor + 1}, n)
         /\ n = 0 => Stacked(E \cup {c.cursor + 1})
  <1>1. c.cursor \in 0..N
    BY DEF Instance
  <1>2. Sound(c, E \cup {c.cursor + 1}, n)
    BY <1>1 DEF Sound, Covers, Forward
  <1>3. ASSUME n = 0, NEW i \in Compensable, i < c.cursor + 1 PROVE i \in E
    <2>1. i \in 1..c.cursor
      BY <1>1, <1>3 DEF Steps
    <2> QED
      BY <1>3, <2>1 DEF Sound, Forward
  <1> QED
    BY <1>2, <1>3 DEF Stacked

\* The step succeeded: the cursor goes past it.
LEMMA PastSound ==
  ASSUME NEW c \in Instance, NEW E \in SUBSET Steps, NEW n \in Nat, Sound(c, E, n),
         c.state = "Running", c.cursor < N, c.cursor + 1 \in E
  PROVE  Sound(Past(c), E, n)
  <1>1. /\ c.cursor \in 0..N
        /\ c.step \in [Steps -> {"Ready", "Succeeded", "Failed", "Compensated", "Skipped"}]
    BY DEF Instance
  <1>2. /\ Past(c).cursor = c.cursor + 1
        /\ Past(c).step = [c.step EXCEPT ![c.cursor + 1] = "Succeeded"]
        /\ Past(c).state = IF c.cursor + 1 >= N THEN "Completed" ELSE "Running"
    BY DEF Past, Mark
  <1>3. \A i \in E \cap Compensable : i <= c.cursor + 1
    BY <1>1 DEF Sound, Covers, Steps
  <1>4. Marked(Past(c)) /\ Ended(Past(c))
    BY <1>1, <1>2 DEF Sound, Marked, Ended, Steps
  <1>5. n = 0 => Forward(Past(c), E)
    BY <1>1, <1>2 DEF Sound, Forward, Steps
  <1> QED
    BY <1>2, <1>3, <1>4, <1>5 DEF Sound, Covers

\* It failed: its action is covered all the same, and will be undone.
LEMMA FailedSound ==
  ASSUME NEW c \in Instance, NEW E \in SUBSET Steps, NEW n \in Nat, Sound(c, E, n),
         c.state = "Running", c.cursor < N
  PROVE  Sound(Mark(c, c.cursor + 1, "Failed", c.cursor + 1, "Compensating"), E, n)
  <1> DEFINE b == Mark(c, c.cursor + 1, "Failed", c.cursor + 1, "Compensating")
  <1>1. /\ c.cursor \in 0..N
        /\ c.step \in [Steps -> {"Ready", "Succeeded", "Failed", "Compensated", "Skipped"}]
    BY DEF Instance
  <1>2. /\ b.cursor = c.cursor + 1
        /\ b.step = [c.step EXCEPT ![c.cursor + 1] = "Failed"]
        /\ b.state = "Compensating"
    BY DEF Mark
  <1> HIDE DEF b
  <1>3. \A i \in E \cap Compensable : i <= c.cursor + 1
    BY <1>1 DEF Sound, Covers, Steps
  <1>4. Marked(b)
    BY <1>1, <1>2 DEF Sound, Marked, Steps
  <1>5. Covers(b, E) /\ Ended(b) /\ Forward(b, E)
    BY <1>2, <1>3 DEF Covers, Ended, Forward
  <1>6. Sound(b, E, n)
    BY <1>4, <1>5 DEF Sound
  <1> QED
    BY <1>6 DEF b

\* Back past a step that is not in force, or cannot be undone, whatever it is marked.
LEMMA BackSound ==
  ASSUME NEW c \in Instance, NEW E \in SUBSET Steps, NEW n \in Nat, Sound(c, E, n),
         c.state = "Compensating", c.cursor > 0, c.cursor \notin E \cap Compensable,
         NEW b, b.cursor = c.cursor - 1, b.state = "Compensating",
         NEW s, s # "Succeeded",
         b.step \in {[c.step EXCEPT ![c.cursor] = s]}
  PROVE  Sound(b, E, n)
  <1>1. /\ c.cursor \in 1..N
        /\ c.step \in [Steps -> {"Ready", "Succeeded", "Failed", "Compensated", "Skipped"}]
    BY DEF Instance
  <1>2. \A i \in E \cap Compensable : i <= c.cursor - 1
    BY <1>1 DEF Sound, Covers, Steps
  <1>3. Marked(b)
    BY <1>1, SMTT(30) DEF Sound, Marked, Steps
  <1>4. Covers(b, E) /\ Ended(b) /\ Forward(b, E)
    BY <1>2 DEF Covers, Ended, Forward
  <1> QED
    BY <1>3, <1>4 DEF Sound

\* What is undone is on top of what is in force, in the tick's copy and for all.
LEMMA UndoingSound ==
  ASSUME NEW c \in Instance, NEW E \in SUBSET Steps, NEW n \in Nat,
         c.state = "Compensating", c.cursor > 0, Sound(c, E, n), n = 0 => Stacked(E),
         NEW b \in Instance, b.state = "Compensating", Sound(b, E, n)
  PROVE  /\ Sound(b, E \ {c.cursor}, n)
         /\ n = 0 => Stacked(E \ {c.cursor})
  <1>1. c.cursor \in 1..N
    BY DEF Instance
  <1>2. Sound(b, E \ {c.cursor}, n)
    BY DEF Sound, Covers, Forward
  <1>3. \A i \in E \cap Compensable : i <= c.cursor
    BY <1>1 DEF Sound, Covers, Steps
  <1>4. ASSUME Stacked(E) PROVE Stacked(E \ {c.cursor})
    <2> SUFFICES ASSUME NEW i \in Compensable, NEW j \in Compensable, i < j,
                        j \in E, j # c.cursor
                 PROVE  i \in E /\ i # c.cursor
      BY DEF Stacked
    <2>1. i \in Nat /\ j \in Nat /\ j <= c.cursor
      BY <1>3 DEF Steps
    <2> QED
      BY <1>1, <1>4, <2>1 DEF Stacked
  <1> QED
    BY <1>2, <1>4

-----------------------------------------------------------------------------
(* A tick, step by step.                                                   *)

\* What every proof about a step of d starts from.
LEMMA AtWork ==
  ASSUME OneDriver, Inv, NEW d \in Drivers
  PROVE  /\ Drivers = {d}
         /\ stored \in Instance /\ copy[d] \in Instance
         /\ effect \in SUBSET Steps /\ replays \in Nat
         /\ Sound(stored, effect, replays)
         /\ pc[d] # "idle" => Sound(copy[d], effect, replays)
         /\ replays = 0 => Stacked(effect)
         /\ pc[d] = "running" => stored = copy[d] /\ stored.state = "Running"
         /\ pc[d] = "undoing" =>
               copy[d].state = "Compensating" /\ stored.state = "Compensating"
         /\ pc[d] = "saving" /\ stored.state \in Terminal => copy[d] = stored
  BY DEF OneDriver, Inv, TypeOK, CopyInv, UndoneInReverse, Stacked

\* A tick that goes on with copy b, or is ready to save it.
LEMMA WorkKeeps ==
  ASSUME OneDriver, Inv, NEW d \in Drivers, pc[d] \in {"running", "undoing"},
         NEW b, NEW p \in {"undoing", "saving"}, Becomes(d, b, p),
         p = "undoing" => pc[d] = "undoing" /\ b.state = "Compensating",
         UNCHANGED <<stored, deadStore>>, TypeInv',
         Sound(stored, effect', replays), Sound(b, effect', replays),
         replays = 0 => Stacked(effect')
  PROVE  Inv'
  <1>0. /\ stored' = stored /\ letter' = letter
        /\ replaying' = replaying /\ replays' = replays
        /\ copy'[d] = b /\ pc'[d] = p
    BY DEF Becomes, deadStore, Inv, TypeOK
  <1>1. CopyInv'
    BY <1>0, AtWork DEF CopyInv, Terminal
  <1>2. LetterInv' /\ UndoneInReverse'
    BY <1>0 DEF Inv, LetterInv, UndoneInReverse, Stacked
  <1> QED
    BY <1>0, <1>1, <1>2 DEF Inv, TypeInv

LEMMA LoadKeeps ==
  ASSUME OneDriver, Inv, NEW d \in Drivers, Load(d), TypeInv'
  PROVE  Inv'
  <1>0. /\ stored' = stored /\ effect' = effect /\ letter' = letter
        /\ replaying' = replaying /\ replays' = replays
        /\ copy'[d] = stored
        /\ pc'[d] = CASE stored.state = "Running" -> "running"
                       [] stored.state = "Compensating" -> "undoing"
                       [] OTHER -> "saving"
    BY DEF Load, deadStore, Inv, TypeOK
  <1>1. CopyInv'
    BY <1>0, AtWork DEF CopyInv
  <1>2. LetterInv' /\ UndoneInReverse'
    BY <1>0 DEF Inv, LetterInv, UndoneInReverse
  <1> QED
    BY <1>0, <1>1, <1>2 DEF Inv, TypeInv

\* A step passed over would have succeeded before, so there is none left.
LEMMA PassOverKeeps ==
  ASSUME OneDriver, Inv, NEW d \in Drivers, PassOver(d), TypeInv'
  PROVE  Inv'
  <1> DEFINE c == copy[d]
  <1> DEFINE b == [c EXCEPT !.state = "Completed"]
  <1>1. /\ pc[d] = "running" /\ c \in Instance /\ c.state = "Running"
        /\ stored' = stored /\ effect' = effect /\ UNCHANGED deadStore
        /\ Sound(stored, effect, replays) /\ Sound(c, effect, replays)
        /\ replays = 0 => Stacked(effect)
    BY AtWork DEF PassOver
  <1>2. CASE c.cursor >= N /\ Becomes(d, b, "saving")
    <2>1. Sound(b, effect, replays)
      <3>1. c.cursor = N /\ b.cursor = N /\ b.step = c.step /\ b.state = "Completed"
        BY <1>1, <1>2 DEF Instance
      <3>2. Covers(b, effect)
        BY SagaAssumption, <3>1 DEF Covers, Steps
      <3> QED
        BY <1>1, <3>1, <3>2 DEF Sound, Marked, Ended, Forward
    <2> HIDE DEF b
    <2> QED
      BY <1>1, <1>2, <2>1, WorkKeeps
  <1>3. CASE c.cursor < N /\ c.step[c.cursor + 1] = "Succeeded"
    <2>1. c.cursor + 1 \in Steps /\ c.cursor + 1 > c.cursor
      BY <1>1, <1>3 DEF Instance, Steps
    <2> QED
      BY <1>1, <1>3, <2>1 DEF Sound, Marked
  <1> QED
    BY <1>2, <1>3 DEF PassOver

LEMMA ExecuteOkKeeps ==
  ASSUME OneDriver, Inv, NEW d \in Drivers, ExecuteOk(d), TypeInv'
  PROVE  Inv'
  <1> DEFINE c == copy[d]
  <1>1. /\ pc[d] = "running" /\ c \in Instance /\ c.state = "Running" /\ c.cursor < N
        /\ stored = c /\ stored' = stored /\ UNCHANGED deadStore
        /\ effect' = effect \cup {c.cursor + 1} /\ Becomes(d, Past(c), "saving")
        /\ effect \in SUBSET Steps /\ replays \in Nat
        /\ Sound(c, effect, replays) /\ (replays = 0 => Stacked(effect))
    BY AtWork DEF ExecuteOk, Calls
  <1>2. Sound(c, effect', replays) /\ (replays = 0 => Stacked(effect'))
    BY <1>1, TakingSound
  <1>3. effect' \in SUBSET Steps /\ c.cursor + 1 \in effect'
    BY <1>1 DEF TypeInv, TypeOK
  <1>4. Sound(Past(c), effect', replays)
    BY <1>1, <1>2, <1>3, PastSound
  <1> HIDE DEF c
  <1> QED
    BY <1>1, <1>2, <1>4, WorkKeeps

LEMMA ExecuteFailKeeps ==
  ASSUME OneDriver, Inv, NEW d \in Drivers, ExecuteFail(d), TypeInv'
  PROVE  Inv'
  <1> DEFINE c == copy[d]
  <1> DEFINE b == Mark(c, c.cursor + 1, "Failed", c.cursor + 1, "Compensating")
  <1>1. /\ pc[d] = "running" /\ c \in Instance /\ c.state = "Running" /\ c.cursor < N
        /\ stored = c /\ stored' = stored /\ UNCHANGED deadStore
        /\ effect' \in {effect, effect \cup {c.cursor + 1}} /\ Becomes(d, b, "saving")
        /\ effect \in SUBSET Steps /\ replays \in Nat
        /\ Sound(c, effect, replays) /\ (replays = 0 => Stacked(effect))
    BY AtWork DEF ExecuteFail, Calls
  <1>2. Sound(c, effect', replays) /\ (replays = 0 => Stacked(effect'))
    BY <1>1, TakingSound
  <1>3. effect' \in SUBSET Steps
    BY DEF TypeInv, TypeOK
  <1>4. Sound(b, effect', replays)
    BY <1>1, <1>2, <1>3, FailedSound
  <1> HIDE DEF b, c
  <1> QED
    BY <1>1, <1>2, <1>4, WorkKeeps

LEMMA UndoneKeeps ==
  ASSUME OneDriver, Inv, NEW d \in Drivers, Undone(d), TypeInv'
  PROVE  Inv'
  <1> DEFINE c == copy[d]
  <1> DEFINE b == [c EXCEPT !.state = "Cancelled"]
  <1>1. /\ pc[d] = "undoing" /\ c \in Instance /\ c.state = "Compensating" /\ c.cursor = 0
        /\ stored' = stored /\ effect' = effect /\ UNCHANGED deadStore
        /\ Becomes(d, b, "saving")
        /\ Sound(stored, effect, replays) /\ Sound(c, effect, replays)
        /\ (replays = 0 => Stacked(effect))
    BY AtWork DEF Undone
  <1>2. Sound(b, effect, replays)
    <2>1. b.cursor = 0 /\ b.step = c.step /\ b.state = "Cancelled"
      BY <1>1 DEF Instance
    <2> QED
      BY <1>1, <2>1 DEF Sound, Covers, Marked, Ended, Forward
  <1> HIDE DEF b
  <1> QED
    BY <1>1, <1>2, WorkKeeps

LEMMA SkipStepKeeps ==
  ASSUME OneDriver, Inv, NEW d \in Drivers, SkipStep(d), TypeInv'
  PROVE  Inv'
  <1> DEFINE c == copy[d]
  <1>1. /\ pc[d] = "undoing" /\ c \in Instance /\ c.state = "Compensating" /\ c.cursor > 0
        /\ stored' = stored /\ effect' = effect /\ UNCHANGED deadStore
        /\ effect \in SUBSET Steps /\ replays \in Nat
        /\ Sound(stored, effect, replays) /\ Sound(c, effect, replays)
        /\ (replays = 0 => Stacked(effect))
    BY AtWork DEF SkipStep
  <1>2. c.step[c.cursor] \notin {"Compensated", "Skipped"}
    BY <1>1 DEF Sound, Marked, Instance, Steps
  <1> DEFINE b == Mark(c, c.cursor, "Skipped", c.cursor - 1, c.state)
  <1>3. c.cursor \notin Compensable /\ Becomes(d, b, "undoing")
    BY <1>2 DEF SkipStep
  <1>4. b.cursor = c.cursor - 1 /\ b.state = "Compensating"
        /\ b.step = [c.step EXCEPT ![c.cursor] = "Skipped"]
    BY <1>1 DEF Mark
  <1> HIDE DEF b, c
  <1>5. Sound(b, effect, replays)
    BY <1>1, <1>3, <1>4, BackSound
  <1> QED
    BY <1>1, <1>3, <1>4, <1>5, WorkKeeps

\* What is undone was the topmost step in force.
LEMMA UndoOkKeeps ==
  ASSUME OneDriver, Inv, NEW d \in Drivers, UndoOk(d), TypeInv'
  PROVE  Inv'
  <1> DEFINE c == copy[d]
  <1> DEFINE b == Mark(c, c.cursor, "Compensated", c.cursor - 1, c.state)
  <1>1. /\ pc[d] = "undoing" /\ c \in Instance /\ c.state = "Compensating"
        /\ c.cursor \in Compensable
        /\ stored \in Instance /\ stored.state = "Compensating"
        /\ stored' = stored /\ effect' = effect \ {c.cursor} /\ UNCHANGED deadStore
        /\ Becomes(d, b, "undoing")
        /\ effect \in SUBSET Steps /\ effect' \in SUBSET Steps /\ replays \in Nat
        /\ Sound(stored, effect, replays) /\ Sound(c, effect, replays)
        /\ (replays = 0 => Stacked(effect))
    BY AtWork DEF UndoOk, CallsUndo
  <1>2. c.cursor > 0
    BY <1>1, UndoablePositive
  <1>3. Sound(stored, effect', replays) /\ Sound(c, effect', replays)
        /\ (replays = 0 => Stacked(effect'))
    BY <1>1, <1>2, UndoingSound
  <1>4. b.cursor = c.cursor - 1 /\ b.state = "Compensating"
        /\ b.step = [c.step EXCEPT ![c.cursor] = "Compensated"]
    BY <1>1 DEF Mark
  <1> HIDE DEF b, c
  <1>5. Sound(b, effect', replays)
    BY <1>1, <1>2, <1>3, <1>4, BackSound
  <1> QED
    BY <1>1, <1>3, <1>4, <1>5, WorkKeeps

\* Giving up where it stands leaves an undoing copy sound.
LEMMA GivenUpSound ==
  ASSUME NEW c, NEW E, NEW n, Sound(c, E, n), c.state = "Compensating",
         NEW b, b.cursor = c.cursor, b.step = c.step, b.state = "Failed"
  PROVE  Sound(b, E, n)
  <1>1. Covers(b, E)
    BY DEF Sound, Covers
  <1>2. Marked(b)
    BY DEF Sound, Marked
  <1>3. Ended(b) /\ Forward(b, E)
    BY DEF Ended, Forward
  <1> QED
    BY <1>1, <1>2, <1>3 DEF Sound

LEMMA UndoFailKeeps ==
  ASSUME OneDriver, Inv, NEW d \in Drivers, UndoFail(d), TypeInv'
  PROVE  Inv'
  <1> DEFINE c == copy[d]
  <1> DEFINE b == [c EXCEPT !.state = "Failed"]
  <1>1. /\ pc[d] = "undoing" /\ c \in Instance /\ c.state = "Compensating"
        /\ c.cursor \in Compensable
        /\ stored \in Instance /\ stored.state = "Compensating"
        /\ stored' = stored /\ effect' \in {effect, effect \ {c.cursor}}
        /\ UNCHANGED deadStore
        /\ Becomes(d, b, "saving")
        /\ effect \in SUBSET Steps /\ replays \in Nat
        /\ Sound(stored, effect, replays) /\ Sound(c, effect, replays)
        /\ (replays = 0 => Stacked(effect))
    BY AtWork DEF UndoFail, CallsUndo
  <1>2. c.cursor > 0
    BY <1>1, UndoablePositive
  <1>3. Sound(stored, effect', replays) /\ Sound(c, effect', replays)
        /\ (replays = 0 => Stacked(effect'))
    <2> HIDE DEF b, c
    <2>1. CASE effect' = effect
      BY <1>1, <2>1
    <2>2. CASE effect' = effect \ {c.cursor}
      BY <1>1, <1>2, <2>2, UndoingSound
    <2> QED
      BY <1>1, <2>1, <2>2
  <1>4. Sound(b, effect', replays)
    <2>1. b.cursor = c.cursor /\ b.step = c.step /\ b.state = "Failed"
      BY <1>1 DEF Instance
    <2> HIDE DEF b, c
    <2> QED
      BY <1>1, <1>3, <2>1, GivenUpSound
  <1> HIDE DEF b, c
  <1> QED
    BY <1>1, <1>3, <1>4, WorkKeeps

LEMMA SaveKeeps ==
  ASSUME OneDriver, Inv, NEW d \in Drivers, Save(d), TypeInv'
  PROVE  Inv'
  <1>1. /\ pc[d] = "saving" /\ stored' = copy[d] /\ pc'[d] = "idle"
        /\ effect' = effect /\ letter' = letter /\ replaying' = replaying
        /\ replays' = replays
    BY DEF Save, Becomes, deadStore, Inv, TypeOK
  <1>2. Sound(copy[d], effect, replays)
    BY <1>1, AtWork
  <1>3. CopyInv'
    BY <1>1, AtWork DEF CopyInv
  <1>4. LetterInv'
    BY <1>1, AtWork DEF Inv, LetterInv, Terminal
  <1>5. UndoneInReverse'
    BY <1>1 DEF Inv, UndoneInReverse
  <1> QED
    BY <1>1, <1>2, <1>3, <1>4, <1>5 DEF Inv, TypeInv

\* A crash loses the copy, and a call under way may have had its effect.
LEMMA CrashKeeps ==
  ASSUME OneDriver, Inv, NEW d \in Drivers, Crash(d), TypeInv'
  PROVE  Inv'
  <1> DEFINE c == copy[d]
  <1>1. /\ pc[d] # "idle" /\ c \in Instance /\ pc'[d] = "idle"
        /\ stored \in Instance /\ stored' = stored /\ letter' = letter
        /\ replaying' = replaying /\ replays' = replays
        /\ effect \in SUBSET Steps /\ replays \in Nat
        /\ Sound(stored, effect, replays) /\ Sound(c, effect, replays)
        /\ (replays = 0 => Stacked(effect))
    BY AtWork DEF Crash, Becomes, deadStore, Inv, TypeOK
  <1>2. Sound(stored, effect', replays) /\ (replays = 0 => Stacked(effect'))
    <2>1. CASE effect' = effect
      BY <1>1, <2>1
    <2>2. CASE Calls(d) /\ effect' = effect \cup {c.cursor + 1}
      <3>1. stored = c /\ c.state = "Running"
        BY <2>2, AtWork DEF Calls
      <3> QED
        BY <1>1, <2>2, <3>1, TakingSound
    <2>3. CASE CallsUndo(d) /\ effect' = effect \ {c.cursor}
      <3>1. stored.state = "Compensating" /\ c.state = "Compensating" /\ c.cursor > 0
        BY <2>3, AtWork, UndoablePositive DEF CallsUndo
      <3> QED
        BY <1>1, <2>3, <3>1, UndoingSound
    <2> QED
      BY <2>1, <2>2, <2>3 DEF Crash
  <1>3. CopyInv'
    BY <1>1, AtWork DEF CopyInv
  <1>4. LetterInv'
    BY <1>1 DEF Inv, LetterInv
  <1>5. UndoneInReverse'
    BY <1>1, <1>2 DEF UndoneInReverse, Stacked
  <1> QED
    BY <1>1, <1>2, <1>3, <1>4, <1>5 DEF Inv, TypeInv

\* A replay sends a Failed saga forward again from where its undoing stopped.
LEMMA ReplaySaveKeeps ==
  ASSUME OneDriver, Inv, ReplaySave, TypeInv'
  PROVE  Inv'
  <1>1. /\ stored = letter /\ stored.state = "Failed" /\ stored \in Instance
        /\ Sound(stored, effect, replays) /\ replays \in Nat
        /\ stored' = [stored EXCEPT !.state = "Running"] /\ replaying'
        /\ replays' = replays + 1 /\ effect' = effect /\ pc' = pc /\ copy' = copy
    BY DEF ReplaySave, Inv, LetterInv, TypeOK, driver
  <1>2. Sound(stored', effect, replays')
    BY <1>1 DEF Sound, Covers, Marked, Ended, Instance
  <1>3. ASSUME NEW d \in Drivers, pc[d] # "idle"
        PROVE  pc[d] = "saving" /\ Sound(copy[d], effect, replays')
    <2>1. pc[d] = "saving"
      BY <1>1, <1>3 DEF Inv, CopyInv, TypeOK
    <2> QED
      BY <1>1, <1>3, <2>1 DEF Inv, CopyInv, Sound
  <1>4. CopyInv'
    BY <1>1, <1>3 DEF CopyInv, Terminal, Instance
  <1>5. LetterInv' /\ UndoneInReverse'
    BY <1>1 DEF LetterInv, UndoneInReverse
  <1> QED
    BY <1>1, <1>2, <1>4, <1>5 DEF Inv, TypeInv

LEMMA InitInv == Init => Inv
  <1> SUFFICES ASSUME Init PROVE Inv
    OBVIOUS
  <1>1. TypeOK /\ ReplayInv
    <2>1. 0 \in 0..MaxCrashes /\ 0 \in 0..MaxReplays
      BY SagaAssumption
    <2> QED
      BY <2>1, StartedType DEF Init, TypeOK, ReplayInv
  <1>2. Sound(stored, effect, replays)
    <2>1. /\ effect = {} /\ stored.state = "Running" /\ stored.cursor = 0
          /\ \A i \in Steps : stored.step[i] = "Ready"
      BY DEF Init, Started
    <2> QED
      BY <2>1, StepsArePositive DEF Sound, Covers, Marked, Ended, Forward
  <1>3. CopyInv
    BY DEF Init, CopyInv
  <1>4. LetterInv /\ UndoneInReverse
    BY DEF Init, LetterInv, UndoneInReverse
  <1> QED
    BY <1>1, <1>2, <1>3, <1>4 DEF Inv

LEMMA NextInv == ASSUME OneDriver PROVE Inv /\ [Next]_vars => Inv'
  <1> SUFFICES ASSUME Inv, [Next]_vars PROVE Inv'
    OBVIOUS
  <1>0. TypeInv'
    BY NextTypes DEF Inv, TypeInv
  <1>1. ASSUME NEW d \in Drivers, TickStep(d) PROVE Inv'
    BY <1>0, <1>1, LoadKeeps, PassOverKeeps, ExecuteOkKeeps, ExecuteFailKeeps, UndoneKeeps,
       SkipStepKeeps, UndoOkKeeps, UndoFailKeeps, SaveKeeps DEF TickStep
  <1>2. ASSUME NEW d \in Drivers, Crash(d) PROVE Inv'
    BY <1>0, <1>2, CrashKeeps
  <1>3. CASE FileLetter
    BY <1>0, <1>3 DEF FileLetter, driver, Inv, TypeInv, CopyInv, LetterInv, UndoneInReverse
  <1>4. CASE ReplaySave
    BY <1>0, <1>4, ReplaySaveKeeps
  <1>5. CASE ReplayRemove
    BY <1>0, <1>5 DEF ReplayRemove, driver, Inv, TypeInv, CopyInv, LetterInv, UndoneInReverse
  <1>6. CASE UNCHANGED vars
    BY <1>0, <1>6 DEF vars, driver, deadStore, Inv, TypeInv, CopyInv, LetterInv,
                      UndoneInReverse
  <1> QED
    BY <1>1, <1>2, <1>3, <1>4, <1>5, <1>6 DEF Next

LEMMA AlwaysInv == ASSUME OneDriver PROVE Spec => []Inv
  BY InitInv, NextInv, PTL DEF Spec

-----------------------------------------------------------------------------
(* The theorems.                                                           *)

\* Any number of callers keep the stored instance, the letter and their copies
\* instances with a cursor within the steps.
THEOREM InstancesAreWellFormed == Spec => []TypeOK
  <1>1. Init => TypeInv
    BY InitInv DEF Inv, TypeInv
  <1>2. TypeInv => TypeOK
    BY DEF TypeInv
  <1> QED
    BY <1>1, <1>2, NextTypes, PTL DEF Spec

\* All or nothing for one caller of tick: a first run is Completed with every step in
\* force, and a saga is Cancelled, replayed or not, with nothing left that can be
\* undone; through crashes and calls of unknown outcome (saga.rs:80, :126).
THEOREM AllOrNothing == ASSUME OneDriver PROVE Spec => []SagaInv
  <1>1. Inv => FirstRunCompletes
    <2> SUFFICES ASSUME Inv, stored.state = "Completed", replays = 0
                 PROVE  effect = Steps /\ \A i \in Steps : stored.step[i] = "Succeeded"
      BY DEF FirstRunCompletes
    <2>1. /\ effect \subseteq Steps
          /\ \A i \in Steps : i \in effect /\ stored.step[i] = "Succeeded"
      BY DEF Inv, TypeOK, Sound, Forward, Ended, Steps
    <2> QED
      BY <2>1
  <1>2. Inv => CancelledMeansUndone
    <2> SUFFICES ASSUME Inv, stored.state = "Cancelled", NEW i \in effect \cap Compensable
                 PROVE  FALSE
      BY DEF CancelledMeansUndone
    <2>1. i \in 1..N /\ i <= 0
      BY DEF Inv, Sound, Covers, Ended, Steps
    <2> QED
      BY <2>1
  <1>3. Inv => SagaInv
    BY <1>1, <1>2 DEF Inv, SagaInv
  <1> QED
    BY <1>3, AlwaysInv, PTL

\* For one caller of tick the steps that can be undone are undone from the last to
\* the first (saga.rs:126).
THEOREM ReverseOrder == ASSUME OneDriver PROVE Spec => []UndoneInReverse
  <1>1. Inv => UndoneInReverse
    BY DEF Inv
  <1> QED
    BY <1>1, AlwaysInv, PTL

\* For one caller of tick a saga that is over stays as it is until it is replayed,
\* although every further tick saves it again (saga.rs:60).
THEOREM OneOutcome == ASSUME OneDriver PROVE Spec => OutcomeIsFinal
  <1>1. Inv /\ [Next]_vars =>
          [stored.state \in Terminal =>
              stored'.state = stored.state \/ replays' # replays]_vars
    <2> SUFFICES ASSUME Inv, Next, stored.state \in Terminal
                 PROVE  stored'.state = stored.state \/ replays' # replays
      OBVIOUS
    <2>1. ASSUME NEW d \in Drivers, Save(d) PROVE stored' = stored
      BY <2>1 DEF Save, Inv, CopyInv
    <2>2. CASE ReplaySave
      BY <2>2 DEF ReplaySave, Inv, TypeOK
    <2> QED
      BY <2>1, <2>2 DEF Next, TickStep, Load, PassOver, ExecuteOk, ExecuteFail, Undone,
                        SkipStep, UndoOk, UndoFail, Crash, FileLetter, ReplayRemove
  <1> QED
    BY <1>1, AlwaysInv, PTL DEF Spec, OutcomeIsFinal
=============================================================================
