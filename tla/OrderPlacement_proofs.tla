----------------------- MODULE OrderPlacement_proofs -----------------------
(***************************************************************************)
(* Safety of OrderPlacement, for any number of calls, keys and fee rises.  *)
(***************************************************************************)
EXTENDS OrderPlacement, SumTheorems, TLAPS

(* An order is created exactly when its key gets a command.                *)
CreatedWithCommand ==
    \A k \in Keys : admissions[k] = IF Exists(k) THEN 1 ELSE 0

(* A command still to be executed holds its funds, and a final one has its  *)
(* verdict.                                                                *)
PendingHolds == \A k \in Keys : command[k].state = "pending" => command[k].holding

FinalHasVerdict ==
    \A k \in Keys : command[k].state = "final" => command[k].verdict \in Verdicts

EmptyHoldsNothing == \A k \in Keys : ~Exists(k) => ~command[k].holding

RowsInv == CreatedWithCommand /\ PendingHolds /\ FinalHasVerdict /\ EmptyHoldsNothing

(* What a call knows: past the admission it found or made the command of   *)
(* its key for its own request, and a verdict it was told is the stored    *)
(* one.                                                                    *)
CallInv(c) ==
    LET stored == command[call[c].key]
    IN  /\ (call[c].at = "admitted" \/ call[c].answer = "queued")
              => Exists(call[c].key) /\ stored.body = call[c].body
        /\ call[c].answer \in Verdicts
              => /\ stored.state = "final"
                 /\ stored.verdict = call[c].answer
                 /\ stored.body = call[c].body

IInv ==
    /\ TypeOK
    /\ HoldTakenOnce
    /\ RowsInv
    /\ \A c \in Calls : CallInv(c)

CommandStates ==
    [state : {"none", "pending", "final", "failed_terminal"},
     body : Nat, hold : Nat, holding : BOOLEAN, verdict : Verdicts \cup {"none"}]

CallStates ==
    [at : {"unsent", "validated", "prechecked", "admitted", "answered"},
     key : Keys, body : Nat, hold : Nat,
     answer : Verdicts \cup Errors \cup {"none"}]
----------------------------------------------------------------------------
LEMMA InitHolds == Init => IInv
<1> SUFFICES ASSUME Init PROVE IInv
  OBVIOUS
<1>1. TypeOK
  BY PlacementAssumption DEF Init, TypeOK, NoCommand, NoCall, Verdicts, Errors
<1>2. \A k \in Keys : Holds[k] = 0
  BY DEF Init, NoCommand, Holds
<1>3. HoldTakenOnce
  BY <1>2, SumZero, PlacementAssumption DEF Init, HoldTakenOnce
<1>4. RowsInv /\ \A c \in Calls : CallInv(c)
  BY DEF Init, RowsInv, PendingHolds, FinalHasVerdict, EmptyHoldsNothing, CreatedWithCommand, CallInv, NoCommand, NoCall, Exists, Verdicts
<1> QED BY <1>1, <1>3, <1>4 DEF IInv

(* A step that leaves the rows alone.                                      *)
LEMMA RowsKept ==
    ASSUME IInv, UNCHANGED <<available, command, admissions>>
    PROVE  HoldTakenOnce' /\ RowsInv'
<1>1. Holds' = Holds
  BY DEF Holds
<1> QED BY <1>1 DEF IInv, HoldTakenOnce, RowsInv, CreatedWithCommand, PendingHolds,
                    FinalHasVerdict, EmptyHoldsNothing, Exists

(* A step that writes the command of one key, and moves the balance by     *)
(* what its hold changes.                                                  *)
LEMMA BalanceFollows ==
    ASSUME IInv, TypeOK', NEW k \in Keys,
           \A q \in Keys \ {k} : command'[q] = command[q],
           available' = available + Holds[k] - Holds'[k],
           admissions'[k] <= 1, \A q \in Keys \ {k} : admissions'[q] = admissions[q]
    PROVE  HoldTakenOnce'
<1>1. \A q \in Keys : Holds[q] \in Int /\ Holds'[q] \in Int
  BY DEF IInv, TypeOK, Holds
<1>2. \A q \in Keys \ {k} : Holds'[q] = Holds[q]
  BY DEF Holds
<1>3. SumFunctionOnSet(Holds', Keys)
        = SumFunctionOnSet(Holds, Keys) + Holds'[k] - Holds[k]
  BY <1>1, <1>2, SumChange, PlacementAssumption
<1>4. SumFunctionOnSet(Holds, Keys) \in Int
  BY <1>1, SumInt, PlacementAssumption
<1>5. available \in Int /\ available + SumFunctionOnSet(Holds, Keys) = Balance
  BY DEF IInv, TypeOK, HoldTakenOnce
<1>6. available' + SumFunctionOnSet(Holds', Keys) = Balance
  BY <1>1, <1>3, <1>4, <1>5
<1> QED BY <1>6 DEF IInv, HoldTakenOnce
(* Commands of other requests never take the place of a stored one.        *)
RowProgress ==
    \A q \in Keys : Exists(q) =>
        /\ Exists(q)' /\ command'[q].body = command[q].body
        /\ command[q].state = "final" =>
             command'[q].state = "final" /\ command'[q].verdict = command[q].verdict

LEMMA CallsKept ==
    ASSUME IInv, RowProgress, NEW D \in SUBSET Calls,
           \A c \in D : CallInv(c)', \A c \in Calls \ D : call'[c] = call[c]
    PROVE  \A c \in Calls : CallInv(c)'
<1>1. ASSUME NEW c \in Calls \ D PROVE CallInv(c)'
  <2>1. CallInv(c) /\ call'[c] = call[c] /\ call[c].key \in Keys
    BY DEF IInv, TypeOK
  <2>2. command[call[c].key].state = "final" => Exists(call[c].key)
    BY DEF Exists
  <2> QED BY <2>1, <2>2 DEF RowProgress, CallInv
<1> QED BY <1>1

LEMMA OneCallKept ==
    ASSUME IInv, RowProgress, NEW c \in Calls, CallInv(c)',
           \A d \in Calls \ {c} : call'[d] = call[d]
    PROVE  \A d \in Calls : CallInv(d)'
<1>1. {c} \in SUBSET Calls /\ \A d \in {c} : CallInv(d)'
  OBVIOUS
<1> QED BY <1>1, CallsKept

LEMMA NoCallMoved ==
    ASSUME IInv, RowProgress, call' = call
    PROVE  \A d \in Calls : CallInv(d)'
<1>1. {} \in SUBSET Calls /\ \A d \in Calls \ {} : call'[d] = call[d]
  OBVIOUS
<1> QED BY <1>1, CallsKept

(* A call that moves while the rows stay.                                  *)
LEMMA CallMoves ==
    ASSUME IInv, UNCHANGED <<available, command, admissions>>, fee' = fee,
           NEW c \in Calls, call' \in [Calls -> CallStates],
           \A d \in Calls \ {c} : call'[d] = call[d], CallInv(c)'
    PROVE  IInv'
<1>1. TypeOK'
  BY DEF IInv, TypeOK, CallStates
<1>2. HoldTakenOnce' /\ RowsInv'
  BY RowsKept
<1>3. RowProgress
  BY DEF RowProgress, Exists
<1>4. \A d \in Calls : CallInv(d)'
  BY <1>3, OneCallKept
<1> QED BY <1>1, <1>2, <1>4 DEF IInv

LEMMA AnswerEffect ==
    ASSUME IInv, NEW c \in Calls, NEW a \in Verdicts \cup Errors, Answer(c, a)
    PROVE  /\ call' \in [Calls -> CallStates]
           /\ \A d \in Calls \ {c} : call'[d] = call[d]
           /\ call'[c].at = "answered" /\ call'[c].answer = a
           /\ call'[c].key = call[c].key /\ call'[c].body = call[c].body
BY DEF IInv, TypeOK, CallStates, Answer

LEMMA AdvanceEffect ==
    ASSUME IInv, NEW c \in Calls, NEW a \in {"prechecked", "admitted"}, Advance(c, a)
    PROVE  /\ call' \in [Calls -> CallStates]
           /\ \A d \in Calls \ {c} : call'[d] = call[d]
           /\ call'[c].at = a /\ call'[c].answer = call[c].answer
           /\ call'[c].key = call[c].key /\ call'[c].body = call[c].body
BY DEF IInv, TypeOK, CallStates, Advance

(* An error tells the call nothing of the command.                         *)
LEMMA ErrorTells ==
    ASSUME IInv, NEW c \in Calls, NEW a \in Errors \ {"queued"}, Answer(c, a)
    PROVE  CallInv(c)'
<1>1. call'[c].at = "answered" /\ call'[c].answer = a
  BY AnswerEffect
<1> QED BY <1>1 DEF CallInv, Errors, Verdicts

(* The verdict of the stored command, told to its own request.             *)
LEMMA VerdictTells ==
    ASSUME IInv, NEW c \in Calls, NEW v \in Verdicts, Answer(c, v),
           command'[call[c].key].state = "final",
           command'[call[c].key].verdict = v, command'[call[c].key].body = call[c].body
    PROVE  CallInv(c)'
<1>1. /\ call'[c].at = "answered" /\ call'[c].answer = v
      /\ call'[c].key = call[c].key /\ call'[c].body = call[c].body
  BY AnswerEffect
<1> QED BY <1>1 DEF CallInv, Exists

LEMMA VerdictRepeats ==
    ASSUME IInv, NEW c \in Calls, command' = command,
           Answer(c, command[call[c].key].verdict),
           command[call[c].key].state = "final", command[call[c].key].body = call[c].body
    PROVE  /\ command[call[c].key].verdict \in Verdicts
           /\ CallInv(c)'
<1>1. command[call[c].key].verdict \in Verdicts
  BY DEF IInv, TypeOK, RowsInv, FinalHasVerdict
<1>2. Exists(call[c].key)'
  <2>1. call'[c].key = call[c].key
    BY <1>1, AnswerEffect
  <2> QED BY <2>1 DEF Exists
<1>3. /\ call'[c].at = "answered" /\ call'[c].answer = command[call[c].key].verdict
      /\ call'[c].key = call[c].key /\ call'[c].body = call[c].body
  BY <1>1, AnswerEffect
<1> QED BY <1>1, <1>2, <1>3 DEF CallInv
----------------------------------------------------------------------------
LEMMA SendKeeps ==
    ASSUME IInv, NEW c \in Calls, NEW k \in Keys, NEW b \in Bodies, Send(c, k, b)
    PROVE  IInv'
<1>1. /\ call' \in [Calls -> CallStates] /\ \A d \in Calls \ {c} : call'[d] = call[d]
      /\ call'[c].at = "validated" /\ call'[c].answer = "none"
      /\ UNCHANGED <<available, fee, command, admissions>>
  BY PlacementAssumption DEF IInv, TypeOK, Send, CallStates
<1>2. CallInv(c)'
  BY <1>1 DEF CallInv, Verdicts
<1> QED BY <1>1, <1>2, CallMoves

LEMMA PrecheckKeeps ==
    ASSUME IInv, NEW c \in Calls, Precheck(c)
    PROVE  IInv'
<1>0. UNCHANGED <<available, fee, command, admissions>>
  BY DEF Precheck
<1>1. CASE Answer(c, "insufficient_balance")
  BY <1>0, <1>1, AnswerEffect, ErrorTells, CallMoves DEF Errors
<1>2. CASE Advance(c, "prechecked")
  <2>1. CallInv(c)'
    <3>1. CallInv(c) /\ call'[c].at = "prechecked" /\ call'[c].answer = call[c].answer
          /\ call'[c].key = call[c].key /\ call'[c].body = call[c].body
      BY <1>2, AdvanceEffect DEF IInv
    <3> QED BY <1>0, <3>1 DEF CallInv, Exists
  <2> QED BY <1>0, <1>2, <2>1, AdvanceEffect, CallMoves
<1> QED BY <1>1, <1>2 DEF Precheck

LEMMA AdmitNewKeeps ==
    ASSUME IInv, NEW c \in Calls, AdmitNew(c)
    PROVE  IInv'
<1> DEFINE k == call[c].key
<1>0. k \in Keys /\ ~Exists(k) /\ call[c].hold \in Nat /\ call[c].body \in Nat /\ fee' = fee
  BY DEF IInv, TypeOK, AdmitNew
<1>1. CASE ~Covered(c)
  <2>0. Answer(c, "insufficient_balance") /\ UNCHANGED <<available, command, admissions>>
    BY <1>1 DEF AdmitNew
  <2> QED BY <1>0, <2>0, AnswerEffect, ErrorTells, CallMoves DEF Errors
<1>2. CASE Covered(c)
  <2>0. /\ available' = available - call[c].hold
        /\ command' = [command EXCEPT ![k] =
             [state |-> "pending", body |-> call[c].body, hold |-> call[c].hold,
              verdict |-> "none", holding |-> TRUE]]
        /\ admissions' = [admissions EXCEPT ![k] = @ + 1]
        /\ Advance(c, "admitted")
    BY <1>2 DEF AdmitNew
  <2>1. available' \in Nat
    BY <1>0, <1>2, <2>0 DEF IInv, TypeOK, Covered
  <2>2. call' \in [Calls -> CallStates] /\ \A d \in Calls \ {c} : call'[d] = call[d]
    BY <2>0, AdvanceEffect
  <2>3. TypeOK'
    BY <1>0, <2>0, <2>1, <2>2 DEF IInv, TypeOK, CallStates
  <2>4. /\ command'[k].state = "pending" /\ command'[k].body = call[c].body
        /\ \A q \in Keys \ {k} : command'[q] = command[q]
        /\ admissions'[k] = 1 /\ \A q \in Keys \ {k} : admissions'[q] = admissions[q]
    BY <1>0, <2>0 DEF IInv, TypeOK, RowsInv, CreatedWithCommand
  <2>5. Holds[k] = 0 /\ Holds'[k] = call[c].hold
    BY <1>0, <2>0 DEF IInv, TypeOK, RowsInv, EmptyHoldsNothing, Holds
  <2>6. HoldTakenOnce'
    BY <1>0, <2>0, <2>3, <2>4, <2>5, BalanceFollows DEF IInv, TypeOK
  <2>7. RowsInv'
    BY <1>0, <2>0, <2>4 DEF IInv, TypeOK, RowsInv, CreatedWithCommand, PendingHolds,
                FinalHasVerdict, EmptyHoldsNothing, Exists
  <2>8. RowProgress
    BY <1>0, <2>4 DEF RowProgress, Exists
  <2>9. CallInv(c)'
    <3>1. /\ CallInv(c) /\ call'[c].answer = call[c].answer
          /\ call'[c].key = k /\ call'[c].body = call[c].body
      BY <2>0, AdvanceEffect DEF IInv
    <3> QED BY <1>0, <2>4, <3>1 DEF CallInv, Exists
  <2>10. \A d \in Calls : CallInv(d)'
    BY <2>2, <2>8, <2>9, OneCallKept
  <2> QED BY <2>3, <2>6, <2>7, <2>10 DEF IInv
<1> QED BY <1>1, <1>2

LEMMA AdmitReplayKeeps ==
    ASSUME IInv, NEW c \in Calls, AdmitReplay(c)
    PROVE  IInv'
<1> DEFINE k == call[c].key
<1>0. k \in Keys /\ Exists(k) /\ UNCHANGED <<available, fee, command, admissions>>
  BY DEF IInv, TypeOK, AdmitReplay
<1>1. \/ Answer(c, "idempotency_conflict")
      \/ SameRequest(c) /\ command[k].state = "final" /\ Answer(c, command[k].verdict)
      \/ Answer(c, "order_reconciliation_required")
      \/ SameRequest(c) /\ Advance(c, "admitted")
  BY DEF AdmitReplay
<1>2. CASE Answer(c, "idempotency_conflict") \/ Answer(c, "order_reconciliation_required")
  BY <1>0, <1>2, AnswerEffect, ErrorTells, CallMoves DEF Errors
<1>3. CASE SameRequest(c) /\ command[k].state = "final" /\ Answer(c, command[k].verdict)
  <2>1. command[k].verdict \in Verdicts /\ CallInv(c)'
    BY <1>0, <1>3, VerdictRepeats DEF SameRequest
  <2> QED BY <1>0, <1>3, <2>1, AnswerEffect, CallMoves
<1>4. CASE SameRequest(c) /\ Advance(c, "admitted")
  <2>1. CallInv(c)'
    <3>1. /\ CallInv(c) /\ call'[c].answer = call[c].answer
          /\ call'[c].key = k /\ call'[c].body = call[c].body
      BY <1>4, AdvanceEffect DEF IInv
    <3> QED BY <1>0, <1>4, <3>1 DEF CallInv, Exists, SameRequest
  <2> QED BY <1>0, <1>4, <2>1, AdvanceEffect, CallMoves
<1> QED BY <1>1, <1>2, <1>3, <1>4

LEMMA LoseKeeps ==
    ASSUME IInv, NEW c \in Calls, Lose(c)
    PROVE  IInv'
BY AnswerEffect, ErrorTells, CallMoves DEF Lose, Errors

(* A command ends: what becomes of the rows.                               *)
LEMMA ExecutedEffect ==
    ASSUME IInv, NEW k \in Keys, NEW v \in Verdicts, Executed(k, v),
           call' \in [Calls -> CallStates]
    PROVE  /\ TypeOK' /\ HoldTakenOnce' /\ RowsInv' /\ RowProgress
           /\ Exists(k) /\ Exists(k)'
           /\ command'[k].state = "final" /\ command'[k].verdict = v
           /\ command'[k].body = command[k].body
<1>0. /\ command[k].state = "pending" /\ Exists(k)
      /\ command' = [command EXCEPT ![k].state = "final", ![k].verdict = v,
                                    ![k].holding = (v = "accepted")]
      /\ available' = available + IF v = "rejected" THEN command[k].hold ELSE 0
      /\ UNCHANGED <<fee, admissions>>
  BY DEF Executed, Exists
<1>1. TypeOK'
  <2>1. available' \in Nat
    BY <1>0 DEF IInv, TypeOK
  <2>2. command' \in [Keys -> CommandStates]
    <3>1. CASE v = "accepted"
      <4>1. command' = [command EXCEPT ![k].state = "final", ![k].verdict = v, ![k].holding = TRUE]
        BY <1>0, <3>1
      <4>2. command \in [Keys -> CommandStates]
        BY DEF IInv, TypeOK, CommandStates
      <4>3. [command[k] EXCEPT !.state = "final", !.verdict = v, !.holding = TRUE] \in CommandStates
        BY <4>2 DEF CommandStates
      <4> QED BY <4>1, <4>2, <4>3
    <3>2. CASE v # "accepted"
      <4>1. command' = [command EXCEPT ![k].state = "final", ![k].verdict = v, ![k].holding = FALSE]
        BY <1>0, <3>2
      <4>2. command \in [Keys -> CommandStates]
        BY DEF IInv, TypeOK, CommandStates
      <4>3. [command[k] EXCEPT !.state = "final", !.verdict = v, !.holding = FALSE] \in CommandStates
        BY <4>2 DEF CommandStates
      <4> QED BY <4>1, <4>2, <4>3
    <3> QED BY <3>1, <3>2
  <2> QED BY <1>0, <2>1, <2>2 DEF IInv, TypeOK, CallStates, CommandStates
<1>2. /\ command'[k].state = "final" /\ command'[k].verdict = v
      /\ command'[k].holding = (v = "accepted")
      /\ command'[k].body = command[k].body /\ command'[k].hold = command[k].hold
      /\ \A q \in Keys \ {k} : command'[q] = command[q]
  BY <1>0 DEF IInv, TypeOK
<1>3. Holds[k] = command[k].hold
  BY <1>0 DEF IInv, RowsInv, PendingHolds, Holds
<1>4. Holds'[k] = IF v = "accepted" THEN command[k].hold ELSE 0
  BY <1>2 DEF Holds
<1>5. available' = available + Holds[k] - Holds'[k]
  BY <1>0, <1>3, <1>4 DEF IInv, TypeOK, Verdicts
<1>6. HoldTakenOnce'
  BY <1>0, <1>1, <1>2, <1>5, BalanceFollows DEF IInv, HoldTakenOnce
<1>7. RowsInv' /\ RowProgress /\ Exists(k)'
  <2>1. Exists(k)' /\ \A q \in Keys \ {k} : Exists(q)' <=> Exists(q)
    BY <1>2 DEF Exists
  <2>2. RowProgress
    BY <1>0, <1>2, <2>1 DEF RowProgress
  <2>3. CreatedWithCommand'
    BY <1>0, <2>1 DEF IInv, RowsInv, CreatedWithCommand
  <2>4. PendingHolds'
    BY <1>2 DEF IInv, RowsInv, PendingHolds
  <2>5. FinalHasVerdict'
    BY <1>2 DEF IInv, RowsInv, FinalHasVerdict
  <2>6. EmptyHoldsNothing'
    BY <1>2, <2>1 DEF IInv, RowsInv, EmptyHoldsNothing
  <2> QED BY <2>1, <2>2, <2>3, <2>4, <2>5, <2>6 DEF RowsInv
<1> QED BY <1>0, <1>1, <1>2, <1>6, <1>7

LEMMA ProcessKeeps ==
    ASSUME IInv, NEW c \in Calls, Process(c)
    PROVE  IInv'
<1> DEFINE k == call[c].key
<1>0. k \in Keys /\ Exists(k) /\ command[k].body = call[c].body /\ call[c].at = "admitted"
  BY DEF IInv, TypeOK, Process, CallInv
<1>1. ASSUME NEW v \in Verdicts, Executed(k, v), Answer(c, v) PROVE IInv'
  <2>1. call' \in [Calls -> CallStates] /\ \A d \in Calls \ {c} : call'[d] = call[d]
    BY <1>1, AnswerEffect
  <2>2. TypeOK' /\ HoldTakenOnce' /\ RowsInv' /\ RowProgress
    BY <1>0, <1>1, <2>1, ExecutedEffect
  <2>3. CallInv(c)'
    <3>1. command'[k].state = "final" /\ command'[k].verdict = v
          /\ command'[k].body = call[c].body
      BY <1>0, <1>1, <2>1, ExecutedEffect
    <3> QED BY <1>1, <3>1, VerdictTells
  <2>4. \A d \in Calls : CallInv(d)'
    BY <2>1, <2>2, <2>3, OneCallKept
  <2> QED BY <2>2, <2>4 DEF IInv
<1>2. ASSUME command[k].state = "final", Answer(c, command[k].verdict),
             UNCHANGED <<available, fee, command, admissions>>
      PROVE  IInv'
  <2>1. command[k].verdict \in Verdicts /\ CallInv(c)'
    BY <1>0, <1>2, VerdictRepeats
  <2> QED BY <1>2, <2>1, AnswerEffect, CallMoves
<1>3. ASSUME Answer(c, "queued"), UNCHANGED <<available, fee, command, admissions>>
      PROVE  IInv'
  <2>1. "queued" \in Verdicts \cup Errors
    BY DEF Errors
  <2>2. CallInv(c)'
    <3>1. /\ call'[c].answer = "queued"
          /\ call'[c].key = k /\ call'[c].body = call[c].body
      BY <1>3, <2>1, AnswerEffect
    <3> QED BY <1>0, <1>3, <3>1 DEF CallInv, Exists, Verdicts
  <2> QED BY <1>3, <2>1, <2>2, AnswerEffect, CallMoves
<1> QED BY <1>1, <1>2, <1>3 DEF Process

LEMMA RecoverKeeps ==
    ASSUME IInv, NEW k \in Keys, Recover(k)
    PROVE  IInv'
<1>0. call' = call /\ call' \in [Calls -> CallStates]
  BY DEF IInv, TypeOK, CallStates, Recover
<1>1. ASSUME NEW v \in Verdicts, Executed(k, v) PROVE IInv'
  <2>1. TypeOK' /\ HoldTakenOnce' /\ RowsInv' /\ RowProgress
    BY <1>0, <1>1, ExecutedEffect
  <2>2. \A d \in Calls : CallInv(d)'
    BY <1>0, <2>1, NoCallMoved
  <2> QED BY <2>1, <2>2 DEF IInv
<1>2. CASE Exhausted(k)
  <2>1. /\ command[k].state = "pending" /\ UNCHANGED <<available, fee, admissions>>
        /\ command'[k].state = "failed_terminal"
        /\ command'[k].body = command[k].body /\ command'[k].hold = command[k].hold
        /\ command'[k].holding = command[k].holding
        /\ \A q \in Keys \ {k} : command'[q] = command[q]
    BY <1>2 DEF Exhausted, IInv, TypeOK
  <2>2. TypeOK'
    BY <1>0, <1>2 DEF Exhausted, IInv, TypeOK, CallStates
  <2>3. HoldTakenOnce'
    <3>1. Holds'[k] = Holds[k] /\ Holds[k] \in Int /\ available \in Int
      BY <2>1 DEF Holds, IInv, TypeOK
    <3> QED BY <2>1, <2>2, <3>1, BalanceFollows DEF IInv, HoldTakenOnce
  <2>4. RowsInv' /\ RowProgress
    BY <2>1 DEF IInv, RowsInv, CreatedWithCommand, PendingHolds, FinalHasVerdict,
                EmptyHoldsNothing, RowProgress, Exists
  <2>5. \A d \in Calls : CallInv(d)'
    BY <1>0, <2>4, NoCallMoved
  <2> QED BY <2>2, <2>3, <2>4, <2>5 DEF IInv
<1> QED BY <1>1, <1>2 DEF Recover

LEMMA CancelledKeeps ==
    ASSUME IInv, NEW k \in Keys, Cancelled(k)
    PROVE  IInv'
<1>0. call' = call
  BY DEF Cancelled
<1>1. /\ command[k].state = "final" /\ command[k].holding /\ UNCHANGED <<fee, admissions>>
      /\ command'[k].state = "final" /\ command'[k].verdict = command[k].verdict
      /\ command'[k].body = command[k].body /\ command'[k].hold = command[k].hold
      /\ ~command'[k].holding
      /\ \A q \in Keys \ {k} : command'[q] = command[q]
      /\ available' = available + command[k].hold
  BY DEF Cancelled, IInv, TypeOK
<1>2. TypeOK'
  <2>1. available' \in Nat
    BY <1>1 DEF IInv, TypeOK
  <2>2. command' = [command EXCEPT ![k].holding = FALSE]
    BY DEF Cancelled
  <2>3. command' \in [Keys -> CommandStates]
    <3>1. command \in [Keys -> CommandStates]
      BY DEF IInv, TypeOK, CommandStates
    <3>2. [command[k] EXCEPT !.holding = FALSE] \in CommandStates
      BY <3>1 DEF CommandStates
    <3> QED BY <2>2, <3>1, <3>2
  <2> QED BY <1>0, <1>1, <2>1, <2>3 DEF IInv, TypeOK, CommandStates
<1>3. HoldTakenOnce'
  <2>1. Holds[k] = command[k].hold /\ Holds'[k] = 0 /\ available' = available + Holds[k] - Holds'[k]
    BY <1>1 DEF Holds, IInv, TypeOK
  <2> QED BY <1>1, <1>2, <2>1, BalanceFollows DEF IInv, HoldTakenOnce
<1>4. RowsInv' /\ RowProgress
  BY <1>1 DEF IInv, RowsInv, CreatedWithCommand, PendingHolds, FinalHasVerdict,
              EmptyHoldsNothing, RowProgress, Exists
<1>5. \A d \in Calls : CallInv(d)'
  BY <1>0, <1>4, NoCallMoved
<1> QED BY <1>2, <1>3, <1>4, <1>5 DEF IInv

LEMMA QuietKeeps ==
    ASSUME IInv, UNCHANGED <<available, command, admissions, call>>, fee' \in 0..MaxFee
    PROVE  IInv'
<1>1. TypeOK'
  BY DEF IInv, TypeOK
<1>2. HoldTakenOnce' /\ RowsInv'
  BY RowsKept
<1>3. \A c \in Calls : CallInv(c)'
  BY DEF IInv, CallInv, Exists
<1> QED BY <1>1, <1>2, <1>3 DEF IInv

LEMMA StepKeeps == IInv /\ [Next]_vars => IInv'
<1> SUFFICES ASSUME IInv, [Next]_vars PROVE IInv'
  OBVIOUS
<1>1. ASSUME NEW c \in Calls,
             \/ \E k \in Keys, b \in Bodies : Send(c, k, b)
             \/ Precheck(c) \/ AdmitNew(c) \/ AdmitReplay(c) \/ Process(c) \/ Lose(c)
      PROVE  IInv'
  BY <1>1, SendKeeps, PrecheckKeeps, AdmitNewKeeps, AdmitReplayKeeps, ProcessKeeps, LoseKeeps
<1>2. ASSUME NEW k \in Keys, Recover(k) \/ Cancelled(k) PROVE IInv'
  BY <1>2, RecoverKeeps, CancelledKeeps
<1>3. CASE RaiseFee
  BY <1>3, QuietKeeps, PlacementAssumption DEF RaiseFee, IInv, TypeOK
<1>4. CASE UNCHANGED vars
  BY <1>4, QuietKeeps DEF vars, IInv, TypeOK
<1> QED BY <1>1, <1>2, <1>3, <1>4 DEF Next

LEMMA Invariance == Spec => []IInv
BY InitHolds, StepKeeps, PTL DEF Spec

(* Every row and call stays in its type.                                   *)
THEOREM TypeCorrect == Spec => []TypeOK
<1>1. IInv => TypeOK
  BY DEF IInv
<1> QED BY <1>1, Invariance, PTL

(* However many calls, retries, lost answers and fee changes interleave, a *)
(* key creates one order and takes one hold, and what the balance misses   *)
(* is what the commands hold.                                              *)
THEOREM OneHoldPerKey == Spec => []HoldTakenOnce
<1>1. IInv => HoldTakenOnce
  BY DEF IInv
<1> QED BY <1>1, Invariance, PTL

(* Whoever is told a verdict is told the stored one, of its own request.   *)
THEOREM VerdictsAreTold == Spec => []VerdictsAreStored
<1>1. IInv => VerdictsAreStored
  BY DEF IInv, CallInv, VerdictsAreStored
<1> QED BY <1>1, Invariance, PTL

(* A key that is reused for another request never reaches its command.     *)
THEOREM ReuseIsRefused == Spec => []ReuseNeverExecutes
<1>1. IInv => ReuseNeverExecutes
  BY DEF IInv, CallInv, ReuseNeverExecutes
<1> QED BY <1>1, Invariance, PTL
=============================================================================
