-------------------------------- MODULE Saga --------------------------------
(***************************************************************************)
(* One saga of sb-tx: the stored instance, the calls of                    *)
(* SagaOrchestrator::tick that load it, call its participants and save it, *)
(* and the replay of a dead saga.  Nothing keeps two callers from ticking  *)
(* the same saga; how many do is the parameter Drivers.                    *)
(*                                                                         *)
(* Step i of the model is steps[i - 1] of the code, so the cursor, a count *)
(* of steps, is the same number in both.  The participants are external:   *)
(* what they did is "effect", the steps that are in force out there.       *)
(*                                                                         *)
(* Definitions commented as slips are not part of the specification, see   *)
(* Outbox.                                                                 *)
(***************************************************************************)
EXTENDS Naturals

CONSTANTS
    N,              \* number of steps
    Compensable,    \* steps that have a compensate_uri
    Drivers,        \* callers of tick
    NoLetter,
    MaxCrashes,     \* bound: ticks that end between load and save
    MaxReplays      \* bound: replays of the saga's dead letter

Steps == 1..N

ASSUME SagaAssumption ==
    /\ {N, MaxCrashes, MaxReplays} \subseteq Nat
    /\ Compensable \subseteq Steps

VARIABLES
    stored,     \* the instance in the saga store
    pc,         \* where each driver's tick is
    copy,       \* the instance each tick has loaded
    effect,     \* steps whose action is in force at the participants
    letter,     \* the saga's entry in the dead-letter store
    replaying,  \* a replay has saved and not yet removed the letter
    crashes,
    replays

driver == <<pc, copy>>
deadStore == <<letter, replaying, replays>>
vars == <<stored, driver, effect, deadStore, crashes>>

Terminal == {"Completed", "Failed", "Cancelled"}

Instance ==
    [state : {"Running", "Compensating"} \cup Terminal,
     cursor : 0..N,
     step : [Steps -> {"Ready", "Succeeded", "Failed", "Compensated", "Skipped"}]]

TypeOK ==
    /\ stored \in Instance
    /\ pc \in [Drivers -> {"idle", "running", "undoing", "saving"}]
    /\ copy \in [Drivers -> Instance]
    /\ effect \subseteq Steps
    /\ letter \in Instance \cup {NoLetter}
    /\ replaying \in BOOLEAN
    /\ crashes \in 0..MaxCrashes
    /\ replays \in 0..MaxReplays

\* What SagaOrchestrator::start inserts.
Started == [state |-> "Running", cursor |-> 0, step |-> [i \in Steps |-> "Ready"]]

Init ==
    /\ stored = Started
    /\ pc = [d \in Drivers |-> "idle"]
    /\ copy = [d \in Drivers |-> Started]
    /\ effect = {}
    /\ letter = NoLetter
    /\ replaying = FALSE
    /\ crashes = 0
    /\ replays = 0

-----------------------------------------------------------------------------
(* A tick.                                                                 *)

\* Slip: a failed saga goes on compensating.
LoadFailed(d) ==
    /\ pc[d] = "idle"
    /\ copy' = [copy EXCEPT ![d] = stored]
    /\ pc' = [pc EXCEPT ![d] =
                CASE stored.state = "Running" -> "running"
                  [] stored.state \in {"Compensating", "Failed"} -> "undoing"
                  [] OTHER -> "saving"]
    /\ UNCHANGED <<stored, effect, deadStore, crashes>>

\* tick loads the instance and branches on its state; an instance that is over
\* is saved again as it was loaded.
Load(d) ==
    /\ pc[d] = "idle"
    /\ copy' = [copy EXCEPT ![d] = stored]
    /\ pc' = [pc EXCEPT ![d] =
                CASE stored.state = "Running" -> "running"
                  [] stored.state = "Compensating" -> "undoing"
                  [] OTHER -> "saving"]
    /\ UNCHANGED <<stored, effect, deadStore, crashes>>

\* The tick's copy becomes c, and the tick goes on at p.
Becomes(d, c, p) ==
    /\ copy' = [copy EXCEPT ![d] = c]
    /\ pc' = [pc EXCEPT ![d] = p]

\* Instance c with step i marked s, at a new cursor and state.
Mark(c, i, s, cursor, state) ==
    [state |-> state, cursor |-> cursor, step |-> [c.step EXCEPT ![i] = s]]

\* Slip: the saga completes one step early.
PastEarly(c) ==
    Mark(c, c.cursor + 1, "Succeeded", c.cursor + 1,
         IF c.cursor + 2 >= N THEN "Completed" ELSE c.state)

\* One step further, and over with the last.
Past(c) ==
    Mark(c, c.cursor + 1, "Succeeded", c.cursor + 1,
         IF c.cursor + 1 >= N THEN "Completed" ELSE c.state)

\* tick_running without a call: no step is left, or this one is done already.
PassOver(d) ==
    LET c == copy[d] IN
    /\ pc[d] = "running"
    /\ \/ c.cursor >= N /\ Becomes(d, [c EXCEPT !.state = "Completed"], "saving")
       \/ /\ c.cursor < N
          /\ c.step[c.cursor + 1] = "Succeeded"
          /\ Becomes(d, Past(c), "saving")
    /\ UNCHANGED <<stored, effect, deadStore, crashes>>

\* The tick calls the participant for the step at the cursor.
Calls(d) ==
    /\ pc[d] = "running"
    /\ copy[d].cursor < N
    /\ copy[d].step[copy[d].cursor + 1] # "Succeeded"

ExecuteOk(d) ==
    /\ Calls(d)
    /\ effect' = effect \cup {copy[d].cursor + 1}
    /\ Becomes(d, Past(copy[d]), "saving")
    /\ UNCHANGED <<stored, deadStore, crashes>>

\* Ok(false) or an error, after which the action may be in force or not.
ExecuteFail(d) ==
    LET c == copy[d] IN
    /\ Calls(d)
    /\ effect' \in {effect, effect \cup {c.cursor + 1}}
    /\ Becomes(d, Mark(c, c.cursor + 1, "Failed", c.cursor + 1, "Compensating"),
               "saving")
    /\ UNCHANGED <<stored, deadStore, crashes>>

\* tick_compensating at cursor 0.
Undone(d) ==
    /\ pc[d] = "undoing"
    /\ copy[d].cursor = 0
    /\ Becomes(d, [copy[d] EXCEPT !.state = "Cancelled"], "saving")
    /\ UNCHANGED <<stored, effect, deadStore, crashes>>

\* One turn of its loop without a call: a step compensated or skipped before,
\* or one that has no compensate_uri.  (The Failed the code assigns at cursor 0
\* is overwritten by the next turn.)
SkipStep(d) ==
    LET c == copy[d] IN
    /\ pc[d] = "undoing"
    /\ c.cursor > 0
    /\ \/ /\ c.step[c.cursor] \in {"Compensated", "Skipped"}
          /\ Becomes(d, [c EXCEPT !.cursor = c.cursor - 1], "undoing")
       \/ /\ c.step[c.cursor] \notin {"Compensated", "Skipped"}
          /\ c.cursor \notin Compensable
          /\ Becomes(d, Mark(c, c.cursor, "Skipped", c.cursor - 1, c.state), "undoing")
    /\ UNCHANGED <<stored, effect, deadStore, crashes>>

CallsUndo(d) ==
    /\ pc[d] = "undoing"
    /\ copy[d].cursor \in Compensable
    /\ copy[d].step[copy[d].cursor] \notin {"Compensated", "Skipped"}

\* Slip: the loop goes on from the first step.
UndoOkForward(d) ==
    LET c == copy[d] IN
    /\ CallsUndo(d)
    /\ effect' = effect \ {1}
    /\ Becomes(d, Mark(c, 1, "Compensated", c.cursor - 1, c.state), "undoing")
    /\ UNCHANGED <<stored, deadStore, crashes>>

UndoOk(d) ==
    LET c == copy[d] IN
    /\ CallsUndo(d)
    /\ effect' = effect \ {c.cursor}
    /\ Becomes(d, Mark(c, c.cursor, "Compensated", c.cursor - 1, c.state), "undoing")
    /\ UNCHANGED <<stored, deadStore, crashes>>

\* Slip: a failed compensation is left for the next tick.
UndoFailRetried(d) ==
    /\ CallsUndo(d)
    /\ effect' \in {effect, effect \ {copy[d].cursor}}
    /\ Becomes(d, copy[d], "saving")
    /\ UNCHANGED <<stored, deadStore, crashes>>

UndoFail(d) ==
    LET c == copy[d] IN
    /\ CallsUndo(d)
    /\ effect' \in {effect, effect \ {c.cursor}}
    /\ Becomes(d, [c EXCEPT !.state = "Failed"], "saving")
    /\ UNCHANGED <<stored, deadStore, crashes>>

\* save replaces the stored instance, whatever it has become since the load.
Save(d) ==
    /\ pc[d] = "saving"
    /\ stored' = copy[d]
    /\ Becomes(d, Started, "idle")
    /\ UNCHANGED <<effect, deadStore, crashes>>

\* The process ends inside a tick; a call under way may have had its effect.
Crash(d) ==
    /\ pc[d] # "idle"
    /\ crashes < MaxCrashes
    /\ crashes' = crashes + 1
    /\ effect' \in {effect}
          \cup (IF Calls(d) THEN {effect \cup {copy[d].cursor + 1}} ELSE {})
          \cup (IF CallsUndo(d) THEN {effect \ {copy[d].cursor}} ELSE {})
    /\ Becomes(d, Started, "idle")
    /\ UNCHANGED <<stored, deadStore>>

-----------------------------------------------------------------------------
(* Dead letters: no code of the crate files a saga, an operator may.       *)

FileLetter ==
    /\ stored.state = "Failed"
    /\ letter = NoLetter
    /\ replays < MaxReplays
    /\ letter' = stored
    /\ UNCHANGED <<stored, driver, effect, replaying, replays, crashes>>

\* replay saves the letter's instance with only its state changed ...
ReplaySave ==
    /\ letter # NoLetter
    /\ ~replaying
    /\ stored' = [letter EXCEPT !.state = "Running"]
    /\ replaying' = TRUE
    /\ replays' = replays + 1
    /\ UNCHANGED <<driver, effect, letter, crashes>>

\* ... and removes the letter.
ReplayRemove ==
    /\ replaying
    /\ letter' = NoLetter
    /\ replaying' = FALSE
    /\ UNCHANGED <<stored, driver, effect, replays, crashes>>

TickStep(d) ==
    \/ Load(d)
    \/ PassOver(d)
    \/ ExecuteOk(d)
    \/ ExecuteFail(d)
    \/ Undone(d)
    \/ SkipStep(d)
    \/ UndoOk(d)
    \/ UndoFail(d)
    \/ Save(d)

Next ==
    \/ \E d \in Drivers : TickStep(d) \/ Crash(d)
    \/ FileLetter
    \/ ReplaySave
    \/ ReplayRemove

Spec == Init /\ [][Next]_vars

\* Somebody keeps ticking the saga, and a tick's calls come back.
FairSpec == Spec /\ \A d \in Drivers : WF_vars(TickStep(d))

-----------------------------------------------------------------------------
(* Correctness.                                                            *)

\* A saga is Completed only with every step in force.
CompletedMeansAll == stored.state = "Completed" => effect = Steps

\* Unless it was replayed, it is Completed only so, and every step succeeded.
FirstRunCompletes ==
    stored.state = "Completed" /\ replays = 0 =>
        effect = Steps /\ \A i \in Steps : stored.step[i] = "Succeeded"

\* A saga is Cancelled only when nothing that can be undone is in force any
\* more, actions that failed or whose tick crashed included.
CancelledMeansUndone ==
    stored.state = "Cancelled" => effect \cap Compensable = {}

\* All or nothing, through crashes inside a tick and calls whose outcome nobody
\* knows (saga.rs:80, :126).
SagaInv == TypeOK /\ FirstRunCompletes /\ CancelledMeansUndone

\* Actions take force in order and are undone in reverse: among the steps that
\* can be undone, those in force are always the first ones (until a replay).
UndoneInReverse ==
    replays = 0 =>
        \A i, j \in Compensable : i < j /\ j \in effect => i \in effect

\* The outcome of a saga does not change but by a replay.
OutcomeIsFinal ==
    [][stored.state \in Terminal =>
          stored'.state = stored.state \/ replays' # replays]_vars

\* Every saga comes to an end.
Ends == <>[](stored.state \in Terminal)

=============================================================================
