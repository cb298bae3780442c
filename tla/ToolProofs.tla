----------------------------- MODULE ToolProofs -----------------------------
(***************************************************************************)
(* The safety of ToolInvoker for every set of calls, their keys, any       *)
(* number of operations, and callers that repeat requests as they like.    *)
(***************************************************************************)
EXTENDS ToolInvoker, FiniteSetTheorems, TLAPS

USE SandboxAssumption, ToolInvokerAssumption

\* The invocation has looked its key up in vain and has not returned.
Active(c) == phase[c] \in {"missed", "working", "storing"}

\* The calls ConcurrencyGuard counts.
Inside == {c \in Calls : phase[c] \in {"working", "storing"}}

\* An End event of the invocation.
Reported(c) == \E s \in {"ok", "error"} : <<c, s>> \in told

Evidenced(c, i) == \E s \in {"ok", "error"} : <<c, i, s>> \in ended

\* The call succeeded, by its own End event and by the evidence of all it did.
Backed(c) ==
    /\ <<c, "ok">> \in told
    /\ \A i \in Ops : <<c, i, "ok">> \in ended

-----------------------------------------------------------------------------
(* The inductive invariant.                                                *)

\* The sandbox works for invocations that work, and who has an answer is over.
PhaseInv ==
    \A c \in Calls :
        /\ phase[c] = "working" <=> at[c] # "idle"
        /\ answer[c] # None => phase[c] = "over"

CountInv == inside = Cardinality(Inside)

\* What begins without a grant was admitted with it.
StrayInv ==
    \A c \in Calls :
        /\ strayed[c] \in {0, 1}
        /\ c \notin withdrawn => strayed[c] = 0
        /\ strayed[c] = 1 => at[c] \notin {"admitted", "cleared", "reserved"}

\* Begin evidence waits for its End only while its operation is executed, and an
\* invocation that is counted has a Begin event and no End event but its last.
EvidenceOf(c) ==
    /\ \A i \in Ops : <<c, i>> \in began \ overran =>
          \/ Evidenced(c, i)
          \/ i = op[c] /\ at[c] \in {"running", "settling", "ending"}
    /\ phase[c] \in {"planned", "missed"} => c \notin invoked /\ ~Reported(c)
    /\ phase[c] = "working" => c \in invoked /\ ~Reported(c)
    /\ phase[c] = "storing" => c \in invoked /\ Reported(c)
    /\ phase[c] = "over" => (c \in invoked <=> Reported(c))

\* Who was dropped has no more to say.
EvidenceInv == \A c \in Calls \ Dropped : EvidenceOf(c)

\* Success is evidenced operation by operation, before it is told, stored or
\* answered.
BackedInv ==
    /\ \A c \in Calls :
          /\ phase[c] = "working" => \A i \in Ops : i < op[c] => <<c, i, "ok">> \in ended
          /\ at[c] = "returned" /\ outcome[c] = "ok" => <<c, op[c], "ok">> \in ended
          /\ phase[c] = "storing" => Backed(c)
          /\ answer[c] \in Calls => Backed(answer[c])
    /\ \A k \in Keys : store[k] \in Calls => Backed(store[k])

\* A call that succeeded left its result under its key unless it was dropped.
ResultOf(c) ==
    <<c, "ok">> \in told =>
        /\ phase[c] \in {"storing", "over"}
        /\ c \notin Dropped /\ phase[c] = "over" /\ Key[c] # None => store[Key[c]] # None

ResultInv == \A c \in Calls : ResultOf(c)

\* While a repetition is under way its key has no result and it has no rival.
AloneAt(c) ==
    Active(c) /\ Key[c] # None =>
        /\ store[Key[c]] = None
        /\ \A d \in Rivals(c) : ~Active(d)

\* Patient callers see to that.
PatientInv == patient => \A c \in Calls : AloneAt(c)

Inv ==
    /\ TypeOK
    /\ PhaseInv
    /\ CountInv
    /\ ReservationsSettled
    /\ StrayInv
    /\ EvidenceInv
    /\ BackedInv
    /\ ResultInv
    /\ PatientInv
    /\ SucceedsOnce

-----------------------------------------------------------------------------
(* The count of the calls inside.                                          *)

LEMMA InsideFinite ==
  /\ IsFiniteSet(Inside)
  /\ Cardinality(Inside) \in 0..Cardinality(Calls)
  <1>1. Inside \subseteq Calls
    BY DEF Inside
  <1> QED
    BY <1>1, FS_Subset, FS_CardinalityType

\* One more call inside.
LEMMA OneEnters ==
  ASSUME CountInv, NEW c \in Calls, c \notin Inside,
         Inside' = Inside \cup {c}, inside' = inside + 1
  PROVE  CountInv'
  BY InsideFinite, FS_AddElement DEF CountInv

\* One call less, by the guard's Drop.
LEMMA OneLeaves ==
  ASSUME CountInv, NEW c \in Calls, c \in Inside, Inside' = Inside \ {c}, Leaves
  PROVE  CountInv'
  <1>1. Cardinality(Inside \ {c}) = Cardinality(Inside) - 1
    BY InsideFinite, FS_RemoveElement
  <1>2. Cardinality(Inside \ {c}) \in Nat
    BY InsideFinite, FS_RemoveElement, FS_CardinalityType
  <1> QED
    BY <1>1, <1>2, InsideFinite DEF CountInv, Leaves

LEMMA NextCount == TypeOK /\ PhaseInv /\ CountInv /\ [Next]_vars => CountInv'
  <1> SUFFICES ASSUME TypeOK, PhaseInv, CountInv, [Next]_vars PROVE CountInv'
    OBVIOUS
  <1>1. ASSUME NEW c \in Calls, Lookup(c) PROVE CountInv'
    <2>1. Inside' = Inside /\ inside' = inside
      BY <1>1 DEF Lookup, Goes, Answers, Inside, TypeOK
    <2> QED
      BY <2>1 DEF CountInv
  <1>2. ASSUME NEW c \in Calls, Start(c) PROVE CountInv'
    <2>1. c \notin Inside /\ Inside' = Inside \cup {c} /\ inside' = inside + 1
      BY <1>2 DEF Start, Enters, Goes, Inside, TypeOK
    <2> QED
      BY <2>1, OneEnters
  <1>3. ASSUME NEW c \in Calls, Work(c) \/ NextOp(c) \/ Loses(c) PROVE CountInv'
    <2>1. Inside' = Inside /\ inside' = inside
      BY <1>3 DEF Work, NextOp, Loses, invocation, Inside
    <2> QED
      BY <2>1 DEF CountInv
  <1>4. ASSUME NEW c \in Calls, FinishFailed(c) PROVE CountInv'
    <2>1. c \in Inside /\ Inside' = Inside \ {c} /\ Leaves
      BY <1>4 DEF FinishFailed, Fails, Answers, Goes, Inside, TypeOK
    <2> QED
      BY <2>1, OneLeaves
  <1>5. ASSUME NEW c \in Calls, FinishOk(c) PROVE CountInv'
    <2>1. Inside' = Inside /\ inside' = inside
      BY <1>5 DEF FinishOk, Goes, Inside, TypeOK
    <2> QED
      BY <2>1 DEF CountInv
  <1>6. ASSUME NEW c \in Calls, Put(c) PROVE CountInv'
    <2>1. c \in Inside /\ Inside' = Inside \ {c} /\ Leaves
      BY <1>6 DEF Put, Answers, Goes, Inside, TypeOK
    <2> QED
      BY <2>1, OneLeaves
  <1>7. ASSUME NEW c \in Calls, Abandon(c) PROVE CountInv'
    <2>1. CASE phase[c] = "missed"
      <3>1. Inside' = Inside /\ inside' = inside
        BY <1>7, <2>1 DEF Abandon, Answers, Goes, Inside, TypeOK
      <3> QED
        BY <3>1 DEF CountInv
    <2>2. CASE phase[c] # "missed"
      <3>1. c \in Inside /\ Inside' = Inside \ {c} /\ Leaves
        BY <1>7, <2>2 DEF Abandon, Answers, Goes, Inside, TypeOK
      <3> QED
        BY <3>1, OneLeaves
    <2> QED
      BY <2>1, <2>2
  <1>8. CASE UNCHANGED vars
    <2>1. Inside' = Inside /\ inside' = inside
      BY <1>8 DEF vars, invocation, Inside
    <2> QED
      BY <2>1 DEF CountInv
  <1> QED
    BY <1>1, <1>2, <1>3, <1>4, <1>5, <1>6, <1>7, <1>8 DEF Next, Proceed, Done

-----------------------------------------------------------------------------
(* Types.                                                                  *)

\* All of TypeOK but the bound on the count.
LEMMA ExecuteTypes ==
  ASSUME TypeOK, StrayInv, NEW c \in Calls, Execute(c)
  PROVE  SandboxTypeOK'
  <1>1. Current(c) \in Calls \X Ops
    BY DEF Current, TypeOK, SandboxTypeOK
  <1>2. CASE Admit(c)
    BY <1>2 DEF Admit, GrantActive, Returns, Onward, Moves, Outcomes, TypeOK,
       SandboxTypeOK, books, grants
  <1>3. CASE Clear(c)
    BY <1>3 DEF Clear, Returns, Onward, Moves, Outcomes, TypeOK, SandboxTypeOK,
       books, grants
  <1>4. CASE Reserve(c)
    BY <1>1, <1>4 DEF Reserve, Returns, Onward, Moves, Outcomes, TypeOK,
       SandboxTypeOK, grants
  <1>5. CASE Begin(c)
    <2>1. strayed' \in [Calls -> 0..N]
      BY <1>5 DEF Begin, StrayInv, TypeOK, SandboxTypeOK
    <2> QED
      BY <1>1, <1>5, <2>1 DEF Begin, Onward, Moves, TypeOK, SandboxTypeOK, grants
  <1>6. CASE Run(c)
    BY <1>1, <1>6 DEF Run, Returns, Moves, Outcomes, TypeOK, SandboxTypeOK, grants
  <1>7. CASE Settle(c)
    BY <1>7 DEF Settle, Onward, Moves, TypeOK, SandboxTypeOK, grants
  <1>8. CASE End(c)
    <2>1. ended' \subseteq Calls \X Ops \X {"ok", "error"}
      BY <1>8 DEF End, EndEvidence, TypeOK, SandboxTypeOK
    <2> QED
      BY <1>8, <2>1 DEF End, EndEvidence, Onward, Moves, TypeOK, SandboxTypeOK, grants
  <1> QED
    BY <1>2, <1>3, <1>4, <1>5, <1>6, <1>7, <1>8 DEF Execute

LEMMA NextTypes == Inv /\ [Next]_vars => TypeOK'
  <1> SUFFICES ASSUME Inv, [Next]_vars PROVE TypeOK'
    OBVIOUS
  <1> USE DEF Inv
  <1>1. inside' \in 0..Cardinality(Calls)
    <2>1. inside' = Cardinality(Inside')
      BY NextCount DEF CountInv
    <2>2. Inside' \subseteq Calls
      BY DEF Inside
    <2> QED
      BY <2>1, <2>2, FS_Subset, FS_CardinalityType
  <1>2. ASSUME NEW c \in Calls, Lookup(c) PROVE TypeOK'
    <2>1. Saved(c) \in Calls \cup {None}
      BY DEF Saved, TypeOK
    <2> QED
      BY <1>2, <2>1 DEF Lookup, Goes, Answers, TypeOK, SandboxTypeOK, execution,
         books, grants
  <1>3. ASSUME NEW c \in Calls, Start(c) PROVE TypeOK'
    BY <1>1, <1>3 DEF Start, Enters, Goes, Enter, TypeOK, SandboxTypeOK, books,
       grants, Ops
  <1>4. ASSUME NEW c \in Calls, Work(c) PROVE TypeOK'
    BY <1>4, ExecuteTypes DEF Work, invocation, TypeOK
  <1>5. ASSUME NEW c \in Calls, NextOp(c) PROVE TypeOK'
    <2>1. op[c] + 1 \in Ops
      BY <1>5 DEF NextOp, TypeOK, SandboxTypeOK, Ops
    <2> QED
      BY <1>5, <2>1 DEF NextOp, Enter, TypeOK, SandboxTypeOK, books, grants, invocation
  <1>6. ASSUME NEW c \in Calls, FinishFailed(c) PROVE TypeOK'
    BY <1>1, <1>6 DEF FinishFailed, Fails, Answers, Goes, Onward, Moves, TypeOK,
                      SandboxTypeOK, books, grants
  <1>7. ASSUME NEW c \in Calls, FinishOk(c) PROVE TypeOK'
    BY <1>7 DEF FinishOk, Goes, Onward, Moves, TypeOK, SandboxTypeOK, books, grants
  <1>8. ASSUME NEW c \in Calls, Put(c) PROVE TypeOK'
    BY <1>1, <1>8 DEF Put, Answers, Goes, TypeOK, SandboxTypeOK, execution, books,
       grants
  <1>9. ASSUME NEW c \in Calls, Abandon(c) PROVE TypeOK'
    BY <1>1, <1>9 DEF Abandon, Answers, Goes, Onward, Moves, TypeOK, SandboxTypeOK,
                      books, grants
  <1>10. ASSUME NEW c \in Calls, Loses(c) PROVE TypeOK'
    BY <1>10 DEF Loses, Withdraw, Lapse, invocation, execution, books, TypeOK,
       SandboxTypeOK
  <1>11. CASE UNCHANGED vars
    BY <1>11 DEF vars, invocation, execution, books, grants, TypeOK, SandboxTypeOK
  <1> QED
    BY <1>2, <1>3, <1>4, <1>5, <1>6, <1>7, <1>8, <1>9, <1>10, <1>11 DEF Next,
       Proceed, Done

-----------------------------------------------------------------------------
(* What the steps do to an invocation, whichever part of it is asked about. *)

LEMMA NextPhase == Inv /\ [Next]_vars => PhaseInv'
  <1> SUFFICES ASSUME Inv, [Next]_vars PROVE PhaseInv'
    OBVIOUS
  <1> USE DEF Inv, TypeOK, SandboxTypeOK, PhaseInv
  <1>1. ASSUME NEW c \in Calls, Lookup(c) PROVE PhaseInv'
    BY <1>1 DEF Lookup, Goes, Answers, execution
  <1>2. ASSUME NEW c \in Calls, Start(c) PROVE PhaseInv'
    BY <1>2 DEF Start, Enters, Goes, Enter
  <1>3. ASSUME NEW c \in Calls, Work(c) PROVE PhaseInv'
    BY <1>3 DEF Work, Execute, Admit, GrantActive, Clear, Reserve, Begin, Run,
       Settle, End, EndEvidence, Returns, Onward, Moves, invocation
  <1>4. ASSUME NEW c \in Calls, NextOp(c) PROVE PhaseInv'
    BY <1>4 DEF NextOp, Enter, invocation
  <1>5. ASSUME NEW c \in Calls, FinishFailed(c) PROVE PhaseInv'
    BY <1>5 DEF FinishFailed, Fails, Answers, Goes, Onward, Moves
  <1>6. ASSUME NEW c \in Calls, FinishOk(c) PROVE PhaseInv'
    BY <1>6 DEF FinishOk, Goes, Onward, Moves
  <1>7. ASSUME NEW c \in Calls, Put(c) PROVE PhaseInv'
    BY <1>7 DEF Put, Answers, Goes, execution
  <1>8. ASSUME NEW c \in Calls, Abandon(c) PROVE PhaseInv'
    BY <1>8 DEF Abandon, Answers, Goes, Onward, Moves
  <1>9. ASSUME NEW c \in Calls, Loses(c) PROVE PhaseInv'
    BY <1>9 DEF Loses, Withdraw, Lapse, invocation, execution
  <1>10. CASE UNCHANGED vars
    BY <1>10 DEF vars, invocation, execution
  <1> QED
    BY <1>1, <1>2, <1>3, <1>4, <1>5, <1>6, <1>7, <1>8, <1>9, <1>10 DEF Next, Proceed,
       Done

\* Nothing is admitted without a grant, and what is admitted begins once.
LEMMA NextStray == Inv /\ [Next]_vars => StrayInv'
  <1> SUFFICES ASSUME Inv, [Next]_vars PROVE StrayInv'
    OBVIOUS
  <1> USE DEF Inv, TypeOK, SandboxTypeOK, StrayInv
  <1>1. ASSUME NEW c \in Calls, Lookup(c) \/ Put(c) PROVE StrayInv'
    BY <1>1 DEF Lookup, Put, execution, books, grants
  <1>2. ASSUME NEW c \in Calls, Start(c) \/ NextOp(c) PROVE StrayInv'
    BY <1>2 DEF Start, Enters, NextOp, Enter, books, grants
  <1>3. ASSUME NEW c \in Calls, Work(c) PROVE StrayInv'
    BY <1>3 DEF Work, Execute, Admit, GrantActive, Clear, Reserve, Begin, Run,
       Settle, End, EndEvidence, Returns, Onward, Moves, books, grants
  <1>4. ASSUME NEW c \in Calls, FinishFailed(c) \/ FinishOk(c) \/ Abandon(c)
        PROVE  StrayInv'
    BY <1>4 DEF FinishFailed, FinishOk, Abandon, Onward, Moves, books, grants
  <1>5. ASSUME NEW c \in Calls, Loses(c) PROVE StrayInv'
    BY <1>5 DEF Loses, Withdraw, Lapse, execution, books
  <1>6. CASE UNCHANGED vars
    BY <1>6 DEF vars, execution, books, grants
  <1> QED
    BY <1>1, <1>2, <1>3, <1>4, <1>5, <1>6 DEF Next, Proceed, Done

\* Who has been dropped stays so, and others are dropped by Abandon alone.
LEMMA DroppedGrows ==
  ASSUME TypeOK, PhaseInv, [Next]_vars
  PROVE  /\ Dropped \subseteq Dropped'
         /\ \A c \in Calls : c \in Dropped' => c \in Dropped \/ Abandon(c)
  <1> USE DEF TypeOK, SandboxTypeOK, PhaseInv, Dropped
  <1>1. ASSUME NEW c \in Calls, Lookup(c) PROVE Dropped' = Dropped
    <2>1. Saved(c) \in Calls \cup {None}
      BY DEF Saved
    <2> QED
      BY <1>1, <2>1 DEF Lookup, Goes, Answers
  <1>2. ASSUME NEW c \in Calls, Start(c) \/ Work(c) \/ NextOp(c) \/ FinishOk(c) \/ Loses(c)
        PROVE  Dropped' = Dropped
    BY <1>2 DEF Start, Enters, Work, NextOp, FinishOk, Loses, invocation
  <1>3. ASSUME NEW c \in Calls, FinishFailed(c) PROVE Dropped' = Dropped
    BY <1>3 DEF FinishFailed, Fails, Answers, Goes
  <1>4. ASSUME NEW c \in Calls, Put(c) PROVE Dropped' = Dropped
    BY <1>4 DEF Put, Answers, Goes
  <1>5. ASSUME NEW c \in Calls, Abandon(c) PROVE Dropped' = Dropped \cup {c}
    BY <1>5 DEF Abandon, Answers, Goes
  <1>6. CASE UNCHANGED vars
    BY <1>6 DEF vars, invocation
  <1> QED
    BY <1>1, <1>2, <1>3, <1>4, <1>5, <1>6 DEF Next, Proceed, Done

\* Reservations.
LEMMA NextSettled == Inv /\ [Next]_vars => ReservationsSettled'
  <1> SUFFICES ASSUME Inv, [Next]_vars PROVE ReservationsSettled'
    OBVIOUS
  <1>0. Dropped \subseteq Dropped'
    BY DroppedGrows DEF Inv
  <1> USE DEF Inv, TypeOK, SandboxTypeOK, PhaseInv, ReservationsSettled, Settled,
     Current
  <1>1. ASSUME NEW c \in Calls, Lookup(c) \/ Put(c) PROVE ReservationsSettled'
    BY <1>0, <1>1 DEF Lookup, Put, execution, books
  <1>2. ASSUME NEW c \in Calls, Start(c) \/ NextOp(c) PROVE ReservationsSettled'
    BY <1>0, <1>2 DEF Start, Enters, NextOp, Enter, books
  <1>3. ASSUME NEW c \in Calls, Work(c) PROVE ReservationsSettled'
    <2>1. CASE Admit(c)
      BY <1>0, <2>1 DEF Admit, GrantActive, Returns, Onward, Moves, books
    <2>2. CASE Clear(c)
      BY <1>0, <2>2 DEF Clear, Returns, Onward, Moves, books
    <2>3. CASE Reserve(c)
      BY <1>0, <2>3 DEF Reserve, Returns, Onward, Moves
    <2>4. CASE Begin(c)
      BY <1>0, <2>4 DEF Begin, Onward, Moves
    <2>5. CASE Run(c)
      BY <1>0, <2>5 DEF Run, Returns, Moves
    <2>6. CASE Settle(c)
      BY <1>0, <2>6 DEF Settle, Onward, Moves
    <2>7. CASE End(c)
      BY <1>0, <2>7 DEF End, EndEvidence, Onward, Moves
    <2> QED
      BY <1>3, <2>1, <2>2, <2>3, <2>4, <2>5, <2>6, <2>7 DEF Work, Execute
  <1>4. ASSUME NEW c \in Calls, FinishFailed(c) \/ FinishOk(c) PROVE ReservationsSettled'
    BY <1>0, <1>4 DEF FinishFailed, FinishOk, Onward, Moves, books
  <1>5. ASSUME NEW c \in Calls, Abandon(c) PROVE ReservationsSettled'
    <2>1. c \in Dropped'
      BY <1>5 DEF Abandon, Answers, Dropped
    <2> QED
      BY <1>0, <1>5, <2>1 DEF Abandon, Onward, Moves, books
  <1>6. ASSUME NEW c \in Calls, Loses(c) PROVE ReservationsSettled'
    BY <1>0, <1>6 DEF Loses, Withdraw, Lapse, execution, books
  <1>7. CASE UNCHANGED vars
    BY <1>0, <1>7 DEF vars, execution, books
  <1> QED
    BY <1>1, <1>2, <1>3, <1>4, <1>5, <1>6, <1>7 DEF Next, Proceed, Done

\* Evidence: what one call does is not seen in another's, and it keeps its own.
LEMMA NextEvidence == Inv /\ [Next]_vars => EvidenceInv'
  <1> SUFFICES ASSUME Inv, [Next]_vars, NEW d \in Calls, d \notin Dropped'
               PROVE  EvidenceOf(d)'
    BY DEF EvidenceInv
  <1>0. d \notin Dropped /\ EvidenceOf(d)
    BY DroppedGrows DEF Inv, EvidenceInv
  <1> USE DEF Inv, TypeOK, SandboxTypeOK, PhaseInv, EvidenceOf, Reported, Evidenced
  <1>1. ASSUME NEW c \in Calls, Lookup(c) PROVE EvidenceOf(d)'
    BY <1>0, <1>1 DEF Lookup, Goes, Answers, execution, books
  <1>2. ASSUME NEW c \in Calls, Start(c) PROVE EvidenceOf(d)'
    BY <1>0, <1>2 DEF Start, Enters, Goes, Enter, books
  <1>3. ASSUME NEW c \in Calls, Work(c) PROVE EvidenceOf(d)'
    <2>0. phase' = phase /\ invoked' = invoked /\ told' = told
      BY <1>3 DEF Work, invocation
    <2> USE DEF Current
    <2>1. CASE Admit(c)
      BY <1>0, <2>0, <2>1 DEF Admit, GrantActive, Returns, Onward, Moves, books
    <2>2. CASE Clear(c)
      BY <1>0, <2>0, <2>2 DEF Clear, Returns, Onward, Moves, books
    <2>3. CASE Reserve(c)
      BY <1>0, <2>0, <2>3 DEF Reserve, Returns, Onward, Moves
    <2>4. CASE Begin(c)
      BY <1>0, <2>0, <2>4 DEF Begin, Onward, Moves
    <2>5. CASE Run(c)
      BY <1>0, <2>0, <2>5 DEF Run, Returns, Moves
    <2>6. CASE Settle(c)
      BY <1>0, <2>0, <2>6 DEF Settle, Onward, Moves
    <2>7. CASE End(c)
      BY <1>0, <2>0, <2>7 DEF End, EndEvidence, Onward, Moves
    <2> QED
      BY <1>3, <2>1, <2>2, <2>3, <2>4, <2>5, <2>6, <2>7 DEF Work, Execute
  <1>4. ASSUME NEW c \in Calls, NextOp(c) PROVE EvidenceOf(d)'
    BY <1>0, <1>4 DEF NextOp, Enter, books, invocation
  <1>5. ASSUME NEW c \in Calls, FinishFailed(c) PROVE EvidenceOf(d)'
    BY <1>0, <1>5 DEF FinishFailed, Fails, Answers, Goes, Onward, Moves, books
  <1>6. ASSUME NEW c \in Calls, FinishOk(c) PROVE EvidenceOf(d)'
    BY <1>0, <1>6 DEF FinishOk, Goes, Onward, Moves, books
  <1>7. ASSUME NEW c \in Calls, Put(c) PROVE EvidenceOf(d)'
    BY <1>0, <1>7 DEF Put, Answers, Goes, execution, books
  <1>8. ASSUME NEW c \in Calls, Abandon(c) PROVE EvidenceOf(d)'
    <2>1. c \in Dropped'
      BY <1>8 DEF Abandon, Answers, Dropped
    <2> QED
      BY <1>0, <1>8, <2>1 DEF Abandon, Answers, Goes, Onward, Moves, books
  <1>9. ASSUME NEW c \in Calls, Loses(c) PROVE EvidenceOf(d)'
    BY <1>0, <1>9 DEF Loses, Withdraw, Lapse, execution, books, invocation
  <1>10. CASE UNCHANGED vars
    BY <1>0, <1>10 DEF vars, execution, books, invocation
  <1> QED
    BY <1>1, <1>2, <1>3, <1>4, <1>5, <1>6, <1>7, <1>8, <1>9, <1>10 DEF Next, Proceed,
       Done

\* Evidence and End events are never taken back.
LEMMA EvidenceGrows ==
  ASSUME [Next]_vars
  PROVE  /\ ended \subseteq ended'
         /\ told \subseteq told'
         /\ \A d : Backed(d) => Backed(d)'
  <1>1. ended \subseteq ended' /\ told \subseteq told'
    BY DEF Next, Proceed, Done, Lookup, Start, Enters, Work, Execute, Admit,
       GrantActive, Clear, Reserve, Begin,
           Run, Settle, End, EndEvidence, NextOp, FinishFailed, FinishOk, Put,
              Abandon, Loses, Withdraw, Lapse, books, invocation, vars
  <1> QED
    BY <1>1 DEF Backed

\* Success.
LEMMA NextBacked == Inv /\ [Next]_vars => BackedInv'
  <1> SUFFICES ASSUME Inv, [Next]_vars PROVE BackedInv'
    OBVIOUS
  <1>0. /\ \A d : Backed(d) => Backed(d)'
        /\ \A d \in Calls, i \in Ops : <<d, i, "ok">> \in ended => <<d, i, "ok">> \in ended'
    BY EvidenceGrows
  <1> USE DEF Inv, TypeOK, SandboxTypeOK, PhaseInv, BackedInv
  <1>1. ASSUME NEW c \in Calls, Lookup(c) PROVE BackedInv'
    <2>1. ASSUME NEW d \in Calls, d = Saved(c) PROVE Backed(d)'
      BY <1>0, <2>1 DEF Saved
    <2>2. Saved(c) \in Calls \cup {None}
      BY DEF Saved
    <2> QED
      BY <1>0, <1>1, <2>1, <2>2 DEF Lookup, Goes, Answers, execution
  <1>2. ASSUME NEW c \in Calls, Start(c) PROVE BackedInv'
    BY <1>0, <1>2 DEF Start, Enters, Goes, Enter, Ops
  <1>3. ASSUME NEW c \in Calls, Work(c) PROVE BackedInv'
    <2>0. phase' = phase /\ answer' = answer /\ store' = store
      BY <1>3 DEF Work, invocation
    <2>1. CASE End(c)
      BY <1>0, <2>0, <2>1 DEF End, EndEvidence, Onward, Moves
    <2>2. CASE ~End(c)
      <3>1. /\ op' = op
            /\ \A d \in Calls : at'[d] = "returned" /\ outcome'[d] = "ok" =>
                  at[d] = "returned" /\ outcome[d] = "ok"
        BY <1>3, <2>2 DEF Work, Execute, Admit, GrantActive, Clear, Reserve, Begin,
           Run, Settle, Returns, Onward, Moves, Outcomes
      <3> QED
        BY <1>0, <2>0, <3>1
    <2> QED
      BY <2>1, <2>2
  <1>4. ASSUME NEW c \in Calls, NextOp(c) PROVE BackedInv'
    BY <1>0, <1>4 DEF NextOp, Enter, invocation, Ops
  <1>5. ASSUME NEW c \in Calls, FinishFailed(c) PROVE BackedInv'
    BY <1>0, <1>5 DEF FinishFailed, Fails, Answers, Goes, Onward, Moves
  <1>6. ASSUME NEW c \in Calls, FinishOk(c) PROVE BackedInv'
    <2>1. Backed(c)'
      <3>1. <<c, "ok">> \in told'
        BY <1>6 DEF FinishOk
      <3>2. \A i \in Ops : i < op[c] \/ i = op[c]
        BY <1>6 DEF FinishOk, Ops
      <3>3. \A i \in Ops : <<c, i, "ok">> \in ended
        BY <1>6, <3>2 DEF FinishOk
      <3>4. \A i \in Ops : <<c, i, "ok">> \in ended'
        BY <1>0, <3>3
      <3> QED
        BY <3>1, <3>4 DEF Backed
    <2> QED
      BY <1>0, <1>6, <2>1 DEF FinishOk, Goes, Onward, Moves
  <1>7. ASSUME NEW c \in Calls, Put(c) PROVE BackedInv'
    <2>1. Backed(c)'
      BY <1>0, <1>7 DEF Put
    <2> QED
      BY <1>0, <1>7, <2>1 DEF Put, Answers, Goes, execution
  <1>8. ASSUME NEW c \in Calls, Abandon(c) PROVE BackedInv'
    BY <1>0, <1>8 DEF Abandon, Answers, Goes, Onward, Moves
  <1>9. ASSUME NEW c \in Calls, Loses(c) PROVE BackedInv'
    BY <1>0, <1>9 DEF Loses, Withdraw, Lapse, execution, invocation
  <1>10. CASE UNCHANGED vars
    BY <1>0, <1>10 DEF vars, execution, invocation
  <1> QED
    BY <1>1, <1>2, <1>3, <1>4, <1>5, <1>6, <1>7, <1>8, <1>9, <1>10 DEF Next, Proceed,
       Done

-----------------------------------------------------------------------------
(* One success.                                                            *)

\* A key keeps a result once it has one.
LEMMA ResultsStay ==
  ASSUME TypeOK, [Next]_vars, NEW k \in Keys, store[k] # None
  PROVE  store'[k] # None
  BY DEF TypeOK, Next, Proceed, Done, Lookup, Start, Enters, Work, NextOp,
     FinishFailed, FinishOk, Put, Abandon, Loses, invocation, vars

LEMMA NextResult == Inv /\ [Next]_vars => ResultInv'
  <1> SUFFICES ASSUME Inv, [Next]_vars, NEW d \in Calls
               PROVE  ResultOf(d)'
    BY DEF ResultInv
  <1>0. /\ ResultOf(d)
        /\ d \notin Dropped' => d \notin Dropped
        /\ Key[d] # None => Key[d] \in Keys
        /\ Key[d] # None /\ store[Key[d]] # None => store'[Key[d]] # None
    BY DroppedGrows, ResultsStay DEF Inv, ResultInv
  <1> USE DEF Inv, TypeOK, PhaseInv, ResultOf
  <1>1. ASSUME NEW c \in Calls, Lookup(c) PROVE ResultOf(d)'
    BY <1>0, <1>1 DEF Lookup, Goes, Answers
  <1>2. ASSUME NEW c \in Calls, Start(c) PROVE ResultOf(d)'
    BY <1>0, <1>2 DEF Start, Enters, Goes
  <1>3. ASSUME NEW c \in Calls, Work(c) \/ NextOp(c) \/ Loses(c) PROVE ResultOf(d)'
    BY <1>0, <1>3 DEF Work, NextOp, Loses, invocation
  <1>4. ASSUME NEW c \in Calls, FinishFailed(c) PROVE ResultOf(d)'
    BY <1>0, <1>4 DEF FinishFailed, Fails, Answers, Goes
  <1>5. ASSUME NEW c \in Calls, FinishOk(c) PROVE ResultOf(d)'
    BY <1>0, <1>5 DEF FinishOk, Goes
  <1>6. ASSUME NEW c \in Calls, Put(c) PROVE ResultOf(d)'
    BY <1>0, <1>6 DEF Put, Answers, Goes
  <1>7. ASSUME NEW c \in Calls, Abandon(c) PROVE ResultOf(d)'
    <2>1. c \in Dropped'
      BY <1>7 DEF Abandon, Answers, Dropped
    <2> QED
      BY <1>0, <1>7, <2>1 DEF Abandon, Answers, Goes
  <1>8. CASE UNCHANGED vars
    BY <1>0, <1>8 DEF vars, invocation
  <1> QED
    BY <1>1, <1>2, <1>3, <1>4, <1>5, <1>6, <1>7, <1>8 DEF Next, Proceed, Done

\* A patient caller's repetition looks its key up when no other is under way.
LEMMA NextPatient == Inv /\ [Next]_vars => PatientInv'
  <1> SUFFICES ASSUME Inv, [Next]_vars, patient', NEW d \in Calls,
                      Active(d)', Key[d] # None
               PROVE  AloneAt(d)'
    BY DEF PatientInv, AloneAt
  <1>0. patient
    BY DEF Next, Proceed, Done, Lookup, Start, Enters, Work, NextOp, FinishFailed,
       FinishOk, Put, Abandon, Loses, Fails, Answers, Goes, invocation, vars
  <1>1. Key[d] \in Keys /\ \A c \in Calls : AloneAt(c)
    BY <1>0 DEF Inv, PatientInv
  <1> USE DEF Inv, TypeOK, AloneAt, Active, Rivals
  <1>2. ASSUME NEW c \in Calls, Lookup(c) PROVE AloneAt(d)'
    <2>1. store' = store
      BY <1>2 DEF Lookup
    <2>2. CASE c = d
      BY <1>0, <1>1, <1>2, <2>1, <2>2 DEF Lookup, Goes, Answers, Saved
    <2>3. CASE c # d
      BY <1>0, <1>1, <1>2, <2>1, <2>3 DEF Lookup, Goes, Answers
    <2> QED
      BY <2>2, <2>3
  <1>3. ASSUME NEW c \in Calls, Start(c) PROVE AloneAt(d)'
    BY <1>1, <1>3 DEF Start, Enters, Goes
  <1>4. ASSUME NEW c \in Calls, Work(c) \/ NextOp(c) \/ Loses(c) PROVE AloneAt(d)'
    BY <1>1, <1>4 DEF Work, NextOp, Loses, invocation
  <1>5. ASSUME NEW c \in Calls, FinishFailed(c) PROVE AloneAt(d)'
    BY <1>1, <1>5 DEF FinishFailed, Fails, Answers, Goes
  <1>6. ASSUME NEW c \in Calls, FinishOk(c) PROVE AloneAt(d)'
    BY <1>1, <1>6 DEF FinishOk, Goes
  <1>7. ASSUME NEW c \in Calls, Put(c) PROVE AloneAt(d)'
    BY <1>1, <1>7 DEF Put, Answers, Goes
  <1>8. ASSUME NEW c \in Calls, Abandon(c) PROVE AloneAt(d)'
    BY <1>1, <1>8 DEF Abandon, Answers, Goes
  <1>9. CASE UNCHANGED vars
    BY <1>1, <1>9 DEF vars, invocation
  <1> QED
    BY <1>2, <1>3, <1>4, <1>5, <1>6, <1>7, <1>8, <1>9 DEF Next, Proceed, Done

\* Only FinishOk tells of a success, and it finds none that was kept.
LEMMA NextOnce == Inv /\ [Next]_vars => SucceedsOnce'
  <1> SUFFICES ASSUME Inv, [Next]_vars, patient' PROVE SucceedsOnce'
    BY DEF SucceedsOnce
  <1>0. patient /\ Dropped \subseteq Dropped'
    BY DroppedGrows
    DEF Inv, Next, Proceed, Done, Lookup, Start, Enters, Work, NextOp, FinishFailed,
       FinishOk, Put, Abandon, Loses, Fails, Answers, Goes, invocation, vars
  <1>1. ASSUME NEW c \in Calls, FinishOk(c) PROVE SucceedsOnce'
    <2>1. ASSUME NEW d \in Calls, d # c, Key[d] = Key[c], Key[c] # None,
                 <<d, "ok">> \in told
          PROVE  d \in Dropped
      <3>1. AloneAt(c) /\ Active(c) /\ d \in Rivals(c)
        BY <1>0, <1>1, <2>1 DEF Inv, PatientInv, FinishOk, Active, Rivals
      <3>2. ResultOf(d)
        BY DEF Inv, ResultInv
      <3> QED
        BY <2>1, <3>1, <3>2 DEF AloneAt, Active, ResultOf
    <2>2. told' = told \cup {<<c, "ok">>}
      BY <1>1 DEF FinishOk
    <2> QED
      BY <1>0, <2>1, <2>2 DEF Inv, SucceedsOnce
  <1>2. CASE \A d \in Calls : <<d, "ok">> \in told' => <<d, "ok">> \in told
    BY <1>0, <1>2 DEF Inv, SucceedsOnce
  <1>3. (\E c \in Calls : FinishOk(c))
        \/ \A d \in Calls : <<d, "ok">> \in told' => <<d, "ok">> \in told
    <2>1. ASSUME NEW c \in Calls, FinishFailed(c)
          PROVE  \A d \in Calls : <<d, "ok">> \in told' => <<d, "ok">> \in told
      BY <2>1 DEF FinishFailed
    <2>2. ASSUME NEW c \in Calls, Lookup(c) \/ Start(c) \/ Put(c) \/ Abandon(c)
          PROVE  told' = told
      BY <2>2 DEF Lookup, Start, Enters, Put, Abandon
    <2>3. ASSUME NEW c \in Calls, Work(c) \/ NextOp(c) \/ Loses(c)
          PROVE  told' = told
      BY <2>3 DEF Work, NextOp, Loses, invocation
    <2>4. CASE UNCHANGED vars
      BY <2>4 DEF vars, invocation
    <2> QED
      BY <2>1, <2>2, <2>3, <2>4 DEF Next, Proceed, Done
  <1> QED
    BY <1>1, <1>2, <1>3

-----------------------------------------------------------------------------
(* The theorems.                                                           *)

LEMMA InitInv == Init => Inv
  <1> SUFFICES ASSUME Init PROVE Inv
    OBVIOUS
  <1> USE DEF Init, SandboxInit
  <1>1. TypeOK
    BY FS_CardinalityType DEF TypeOK, SandboxTypeOK, Ops
  <1>2. CountInv
    <2>1. Inside = {}
      BY DEF Inside
    <2> QED
      BY <2>1, FS_EmptySet DEF CountInv
  <1>3. PhaseInv /\ StrayInv /\ ReservationsSettled
    BY DEF PhaseInv, StrayInv, ReservationsSettled, Settled
  <1>4. EvidenceInv
    BY DEF EvidenceInv, EvidenceOf, Reported, Evidenced
  <1>5. BackedInv
    BY DEF BackedInv
  <1>6. ResultInv /\ PatientInv /\ SucceedsOnce
    BY DEF ResultInv, ResultOf, PatientInv, AloneAt, Active, SucceedsOnce
  <1> QED
    BY <1>1, <1>2, <1>3, <1>4, <1>5, <1>6 DEF Inv

LEMMA AlwaysInv == Spec => []Inv
  <1>1. Inv /\ [Next]_vars => Inv'
    <2> SUFFICES ASSUME Inv, [Next]_vars PROVE Inv'
      OBVIOUS
    <2>1. CountInv'
      BY NextCount DEF Inv
    <2> QED
      BY <2>1, NextTypes, NextPhase, NextSettled, NextStray, NextEvidence, NextBacked,
         NextResult, NextPatient, NextOnce DEF Inv
  <1> QED
    BY <1>1, InitInv, PTL DEF Spec

\* The meter and the evidence agree with what was executed: a reservation stays
\* open, and Begin evidence unanswered, only for an operation under way, one that
\* went over the limits, or an invocation that was dropped (manager.rs:161).
THEOREM BooksAgree == Spec => []ToolInv
  <1>1. Inv => EvidencePaired
    <2> SUFFICES ASSUME Inv, NEW c \in Calls, phase[c] = "over", c \notin Dropped
                 PROVE  /\ \A i \in Ops : <<c, i>> \in began \ overran => Evidenced(c, i)
                        /\ c \in invoked <=> Reported(c)
      BY DEF EvidencePaired, Evidenced, Reported
    <2>1. at[c] = "idle" /\ EvidenceOf(c)
      BY DEF Inv, PhaseInv, EvidenceInv, TypeOK, SandboxTypeOK
    <2> QED
      BY <2>1 DEF EvidenceOf
  <1>2. Inv => ToolInv
    BY <1>1 DEF Inv, ToolInv
  <1> QED
    BY <1>2, AlwaysInv, PTL

\* Revocation stops a tool: at most one operation begins after the grant has gone.
THEOREM WithdrawalStops == Spec => []WithdrawnStops
  <1>1. Inv => WithdrawnStops
    BY DEF Inv, StrayInv, WithdrawnStops
  <1> QED
    BY <1>1, AlwaysInv, PTL

\* What the idempotency store keeps, and whatever answer a call gets, comes from a
\* call all of whose operations ended well.
THEOREM ReplaysAreBacked == Spec => []ReplayIsBacked
  <1>1. Inv => ReplayIsBacked
    BY DEF Inv, TypeOK, BackedInv, Backed, ReplayIsBacked, Saved
  <1> QED
    BY <1>1, AlwaysInv, PTL

\* A request of a patient caller takes effect once, but for a call that was dropped
\* between its success and the put.
THEOREM OneSuccess == Spec => []SucceedsOnce
  <1>1. Inv => SucceedsOnce
    BY DEF Inv
  <1> QED
    BY <1>1, AlwaysInv, PTL
=============================================================================
