-------------------------- MODULE Notifications_proofs --------------------------
(***************************************************************************)
(* Theorems about Notifications, for every set of events and workers and   *)
(* every maximum of attempts.  The two invariants and the types are        *)
(* inductive together: that a claim which still holds its row finds its    *)
(* attempt open and no intent is what each needs of the other.             *)
(***************************************************************************)
EXTENDS Notifications, TLAPS

IInv == TypeOK /\ AttemptsTellTheStory /\ NotifiedOrGivenUp

LEMMA InitHolds == Init => IInv
BY NotificationAssumption DEF Init, IInv, TypeOK, AttemptsTellTheStory, NotifiedOrGivenUp,
                              Attempts, Closed, Claims

(* A step that writes neither events nor what comes of them.               *)
LEMMA QuietKeeps ==
    ASSUME IInv, UNCHANGED <<event, count, attempt, dead, intent, delivery>>, TypeOK'
    PROVE  IInv'
BY DEF IInv, AttemptsTellTheStory, NotifiedOrGivenUp

LEMMA EnqueueKeeps ==
    ASSUME IInv, NEW e \in Event, Enqueue(e)
    PROVE  IInv'
<1>1. TypeOK'
  BY DEF IInv, TypeOK, Enqueue, rows, made
<1>2. AttemptsTellTheStory'
  BY <1>1 DEF IInv, TypeOK, Enqueue, AttemptsTellTheStory, Closed, Attempts, made
<1>3. NotifiedOrGivenUp'
  BY DEF IInv, TypeOK, Enqueue, NotifiedOrGivenUp, made
<1> QED BY <1>1, <1>2, <1>3 DEF IInv

(* A lease is recovered only from an event that is being processed, and    *)
(* a claim finds one that is pending or may be tried again.                *)
LEMMA ClaimKeeps ==
    ASSUME IInv, NEW w \in Worker, NEW R \in SUBSET Event, NEW S \in SUBSET Event,
           Claim(w, R, S)
    PROVE  IInv'
<1>a. \A e \in R : event[e] = "processing"
  BY DEF Claim, Expired
<1>b. \A e \in S : /\ count[e] < Max
                   /\ e \in R \/ event[e] \in {"pending", "failed_retryable"}
  BY DEF Claim, Claimable, EventAfter
<1>c. \A e \in S : e \in R => ~Spent(e)
  BY <1>b, NotificationAssumption DEF Spent, IInv, TypeOK
<1>1. TypeOK'
  <2>1. event' \in [Event -> {"none", "pending", "processing", "failed_retryable"} \cup Closed]
    BY DEF IInv, TypeOK, Claim, EventAfter, Closed
  <2>2. count' \in [Event -> 0 .. Max] /\ owner' \in [Event -> Worker \cup {"none"}]
    BY <1>b, NotificationAssumption DEF IInv, TypeOK, Claim
  <2>3. attempt' \in [Event -> [Attempts -> {"none", "claimed", "processed", "failed_retryable",
                                             "failed_terminal", "lease_recovered"}]]
    BY DEF IInv, TypeOK, Claim, AttemptAfter
  <2>4. due' \subseteq Event /\ dead' \subseteq Event
    BY DEF IInv, TypeOK, Claim, DeadAfter
  <2>5. work' \subseteq Claims
    <3>1. ASSUME NEW e \in S
          PROVE  [w |-> w, e |-> e, n |-> count[e] + 1, pc |-> "claimed",
                  final |-> FALSE] \in Claims
      <4>1. count[e] + 1 \in Attempts
        BY <1>b, NotificationAssumption DEF IInv, TypeOK, Attempts
      <4> QED BY <4>1 DEF Claims
    <3>2. work' = work \cup {[w |-> w, e |-> e, n |-> count[e] + 1, pc |-> "claimed",
                              final |-> FALSE] : e \in S}
      BY DEF Claim
    <3> QED BY <3>1, <3>2 DEF IInv, TypeOK
  <2> QED BY <2>1, <2>2, <2>3, <2>4, <2>5 DEF IInv, TypeOK, Claim, made
<1>2. ASSUME NEW e \in Event
      PROVE  /\ e \in S => /\ event'[e] = "processing"
                           /\ count'[e] = count[e] + 1
             /\ e \in R \ S => /\ event'[e] = IF Spent(e) THEN "failed_terminal"
                                                         ELSE "failed_retryable"
                               /\ count'[e] = count[e]
             /\ e \notin R \cup S => event'[e] = event[e] /\ count'[e] = count[e]
             /\ \A n \in Attempts :
                  attempt'[e][n] = IF e \in S /\ n = count[e] + 1 THEN "claimed"
                                   ELSE IF e \in R /\ n = count[e] /\ attempt[e][n] = "claimed"
                                   THEN "lease_recovered" ELSE attempt[e][n]
  BY DEF Claim, EventAfter, AttemptAfter
<1>3. AttemptsTellTheStory'
  <2> SUFFICES ASSUME NEW e \in Event
               PROVE  /\ \A n \in Attempts :
                           /\ attempt'[e][n] = "none" <=> n > count'[e]
                           /\ attempt'[e][n] = "claimed" <=>
                                event'[e] = "processing" /\ n = count'[e]
                           /\ attempt'[e][n] \in Closed =>
                                event'[e] = attempt'[e][n] /\ n = count'[e]
                      /\ event'[e] = "processed" => attempt'[e][count'[e]] = "processed"
    BY DEF AttemptsTellTheStory
  <2>0. count[e] \in Nat /\ Max \in Nat
    BY NotificationAssumption DEF IInv, TypeOK
  <2>1. \A n \in Attempts :
           /\ attempt[e][n] = "none" <=> n > count[e]
           /\ attempt[e][n] = "claimed" <=> event[e] = "processing" /\ n = count[e]
           /\ attempt[e][n] \in Closed => event[e] = attempt[e][n] /\ n = count[e]
    BY DEF IInv, AttemptsTellTheStory
  <2>2. CASE e \in S
    <3>1. /\ event'[e] = "processing" /\ count'[e] = count[e] + 1 /\ count[e] < Max
          /\ \A n \in Attempts :
               attempt'[e][n] = IF n = count[e] + 1 THEN "claimed"
                                ELSE IF e \in R /\ n = count[e] /\ attempt[e][n] = "claimed"
                                THEN "lease_recovered" ELSE attempt[e][n]
      BY <2>2, <1>b, <1>2
    <3>2. e \in R \/ event[e] \notin {"processing"} \cup Closed
      BY <2>2, <1>b DEF Closed
    <3>3. e \in R => event[e] = "processing"
      BY <1>a
    <3>4. \A n \in Attempts : n > count[e] + 1 <=> n > count[e] /\ n # count[e] + 1
      BY <2>0 DEF Attempts
    <3> QED BY <2>0, <2>1, <3>1, <3>2, <3>3, <3>4 DEF Attempts, Closed
  <2>3. CASE e \in R \ S
    BY <2>0, <2>1, <2>3, <1>a, <1>2 DEF Attempts, Closed
  <2>4. CASE e \notin R \cup S
    <3>1. event'[e] = event[e] /\ count'[e] = count[e]
      BY <2>4, <1>2
    <3>2. \A n \in Attempts : attempt'[e][n] = attempt[e][n]
      BY <2>4, <1>2
    <3>3. attempt'[e] = attempt[e]
      BY <1>1, <3>2 DEF IInv, TypeOK
    <3> QED BY <3>1, <3>3 DEF IInv, AttemptsTellTheStory
  <2> QED BY <2>2, <2>3, <2>4
<1>4. NotifiedOrGivenUp'
  <2> SUFFICES ASSUME NEW e \in Event
               PROVE  /\ intent'[e] # "none" <=> event'[e] = "processed"
                      /\ e \in dead' <=> event'[e] = "failed_terminal"
                      /\ delivery'[e] # "none" <=> intent'[e] = "notified"
    BY DEF NotifiedOrGivenUp
  <2>1. intent' = intent /\ delivery' = delivery
    BY DEF Claim, made
  <2>2. e \in dead' <=> e \in dead \/ (e \in R /\ Spent(e))
    BY DEF Claim, DeadAfter
  <2> QED BY <2>1, <2>2, <1>a, <1>b, <1>c, <1>2 DEF IInv, NotifiedOrGivenUp
<1> QED BY <1>1, <1>3, <1>4 DEF IInv

(* A final update of a claim meets the open attempt of its event.          *)
LEMMA FinishKeeps ==
    ASSUME IInv, NEW k \in work, NEW outcome \in {"failed_retryable"} \cup Closed,
           Finish(k, outcome)
    PROVE  /\ event[k.e] = "processing"
           /\ event' = [event EXCEPT ![k.e] = outcome]
           /\ k.e \in Event
           /\ event' \in [Event -> {"none", "pending", "processing", "failed_retryable"} \cup Closed]
           /\ AttemptsTellTheStory'
           /\ UNCHANGED <<count, past>>
           /\ owner' \in [Event -> Worker \cup {"none"}]
           /\ due' \subseteq Event
           /\ attempt' \in [Event -> [Attempts -> {"none", "claimed", "processed",
                 "failed_retryable", "failed_terminal", "lease_recovered"}]]
           /\ work' \subseteq Claims
<1>1. k.e \in Event /\ k.n \in Attempts /\ k.w \in Worker
  BY DEF IInv, TypeOK, Claims
<1>2. event[k.e] = "processing" /\ count[k.e] = k.n /\ attempt[k.e][k.n] = "claimed"
  BY DEF Finish, Holds, AttemptOpen
<1>3. event' = [event EXCEPT ![k.e] = outcome] /\ UNCHANGED <<count, past>>
  BY DEF Finish
<1>4. attempt' \in [Event -> [Attempts -> {"none", "claimed", "processed",
                 "failed_retryable", "failed_terminal", "lease_recovered"}]]
  BY <1>1 DEF Finish, IInv, TypeOK, Closed
<1>5. ASSUME NEW e \in Event, NEW n \in Attempts
      PROVE  attempt'[e][n] = IF e = k.e /\ n = k.n THEN outcome ELSE attempt[e][n]
  BY <1>1 DEF Finish, IInv, TypeOK
<1>6. AttemptsTellTheStory'
  <2> SUFFICES ASSUME NEW e \in Event
               PROVE  /\ \A n \in Attempts :
                           /\ attempt'[e][n] = "none" <=> n > count[e]
                           /\ attempt'[e][n] = "claimed" <=>
                                event'[e] = "processing" /\ n = count[e]
                           /\ attempt'[e][n] \in Closed =>
                                event'[e] = attempt'[e][n] /\ n = count[e]
                      /\ event'[e] = "processed" => attempt'[e][count[e]] = "processed"
    BY <1>3 DEF AttemptsTellTheStory
  <2>1. CASE e = k.e
    <3>1. event'[e] = outcome
      BY <1>1, <1>3, <2>1 DEF IInv, TypeOK
    <3>2. /\ \A n \in Attempts :
               attempt'[e][n] = IF n = k.n THEN outcome ELSE attempt[e][n]
          /\ count[e] = k.n /\ k.n \in Nat
      BY <1>1, <1>2, <1>5, <2>1 DEF Attempts
    <3>3. \A n \in Attempts :
             /\ attempt[e][n] = "none" <=> n > count[e]
             /\ attempt[e][n] = "claimed" <=> event[e] = "processing" /\ n = count[e]
             /\ attempt[e][n] \in Closed => event[e] = attempt[e][n] /\ n = count[e]
      BY DEF IInv, AttemptsTellTheStory
    <3> QED BY <1>1, <1>2, <2>1, <3>1, <3>2, <3>3 DEF Attempts, Closed
  <2>2. CASE e # k.e
    <3>1. event'[e] = event[e]
      BY <1>3, <2>2 DEF IInv, TypeOK
    <3>2. attempt'[e] = attempt[e]
      BY <1>1, <2>2 DEF Finish, IInv, TypeOK
    <3> QED BY <3>1, <3>2 DEF IInv, AttemptsTellTheStory
  <2> QED BY <2>1, <2>2
<1>7. owner' \in [Event -> Worker \cup {"none"}] /\ due' \subseteq Event /\ work' \subseteq Claims
  BY <1>1 DEF Finish, Drop, IInv, TypeOK
<1>8. event' \in [Event -> {"none", "pending", "processing", "failed_retryable"} \cup Closed]
  BY <1>1, <1>3 DEF IInv, TypeOK, Closed
<1> QED BY <1>1, <1>2, <1>3, <1>4, <1>6, <1>7, <1>8

LEMMA ProcessKeeps ==
    ASSUME IInv, NEW k \in work, Process(k)
    PROVE  IInv'
<1>1. Finish(k, "processed") /\ dead' = dead /\ CreateNotification(k.e)
  BY DEF Process
<1>2. "processed" \in {"failed_retryable"} \cup Closed
  BY DEF Closed
<1>3. k.e \in Event /\ event[k.e] = "processing" /\ event' = [event EXCEPT ![k.e] = "processed"]
  BY <1>1, <1>2, FinishKeeps
<1>4. intent[k.e] = "none"
  BY <1>3 DEF IInv, NotifiedOrGivenUp
<1>5. \/ intent' = [intent EXCEPT ![k.e] = "suppressed"] /\ delivery' = delivery
      \/ /\ intent' = [intent EXCEPT ![k.e] = "notified"]
         /\ delivery' = [delivery EXCEPT ![k.e] = "pending"]
  BY <1>1, <1>4 DEF CreateNotification
<1>6. TypeOK'
  <2>1. /\ event' \in [Event -> {"none", "pending", "processing", "failed_retryable"} \cup Closed]
        /\ UNCHANGED <<count, past>>
        /\ owner' \in [Event -> Worker \cup {"none"}]
        /\ due' \subseteq Event
        /\ attempt' \in [Event -> [Attempts -> {"none", "claimed", "processed",
              "failed_retryable", "failed_terminal", "lease_recovered"}]]
        /\ work' \subseteq Claims
    BY <1>1, <1>2, FinishKeeps
  <2>2. /\ intent' \in [Event -> {"none", "notified", "suppressed"}]
        /\ delivery' \in [Event -> {"none", "pending", "provider_accepted", "expired"}]
    BY <1>3, <1>5 DEF IInv, TypeOK
  <2> QED BY <1>1, <2>1, <2>2 DEF IInv, TypeOK
<1>7. NotifiedOrGivenUp'
  BY <1>1, <1>3, <1>4, <1>5 DEF IInv, TypeOK, NotifiedOrGivenUp
<1> QED BY <1>1, <1>2, <1>6, <1>7, FinishKeeps DEF IInv

LEMMA FailKeeps ==
    ASSUME IInv, NEW k \in work, Fail(k)
    PROVE  IInv'
<1> DEFINE outcome == IF k.final THEN "failed_terminal" ELSE "failed_retryable"
<1>1. Finish(k, outcome) /\ made' = made /\ dead' = IF k.final THEN dead \cup {k.e} ELSE dead
  BY DEF Fail
<1>2. outcome \in {"failed_retryable"} \cup Closed
  BY DEF Closed
<1> HIDE DEF outcome
<1>3. /\ k.e \in Event /\ event[k.e] = "processing"
      /\ event' = [event EXCEPT ![k.e] = outcome]
  BY <1>1, <1>2, FinishKeeps
<1>4. TypeOK'
  BY <1>1, <1>2, <1>3, FinishKeeps DEF IInv, TypeOK, made
<1>5. NotifiedOrGivenUp'
  BY <1>1, <1>3 DEF IInv, TypeOK, NotifiedOrGivenUp, made, outcome
<1> QED BY <1>1, <1>2, <1>4, <1>5, FinishKeeps DEF IInv

LEMMA DeliverKeeps ==
    ASSUME IInv, NEW X \in SUBSET Event, NEW A \in SUBSET Event, Deliver(X, A)
    PROVE  IInv'
<1>1. TypeOK'
  BY DEF IInv, TypeOK, Deliver, rows
<1>2. AttemptsTellTheStory'
  BY DEF IInv, Deliver, rows, AttemptsTellTheStory
<1>3. NotifiedOrGivenUp'
  BY DEF IInv, Deliver, Waiting, rows, NotifiedOrGivenUp
<1> QED BY <1>1, <1>2, <1>3 DEF IInv

(* The steps of a claim that write no row.                                 *)
LEMMA ClaimStepKeeps ==
    ASSUME IInv, NEW k \in work, Begin(k) \/ ProcessFails(k) \/ Abandon(k)
    PROVE  IInv'
<1>1. k \in Claims
  BY DEF IInv, TypeOK
<1>2. work' \subseteq Claims
  <2>1. CASE Begin(k)
    BY <1>1, <2>1 DEF Begin, Step, Claims, IInv, TypeOK
  <2>2. CASE ProcessFails(k)
    <3>1. PICK retryable \in BOOLEAN :
            Step(k, [k EXCEPT !.pc = "failed", !.final = ~retryable \/ k.n >= Max])
      BY <2>2 DEF ProcessFails
    <3>2. [k EXCEPT !.pc = "failed", !.final = ~retryable \/ k.n >= Max] \in Claims
      BY <1>1 DEF Claims
    <3> QED BY <3>1, <3>2 DEF Step, IInv, TypeOK
  <2>3. CASE Abandon(k)
    BY <2>3 DEF Abandon, Drop, IInv, TypeOK
  <2> QED BY <2>1, <2>2, <2>3
<1>3. UNCHANGED <<rows, past, made>>
  BY DEF Begin, ProcessFails, Abandon
<1> QED BY <1>2, <1>3, QuietKeeps DEF IInv, TypeOK, rows, made

LEMMA TimeKeeps ==
    ASSUME IInv, NEW e \in Event, LeaseExpires(e) \/ NotificationExpires(e)
    PROVE  IInv'
<1>1. TypeOK' /\ UNCHANGED <<event, count, attempt, dead, intent, delivery>>
  BY DEF IInv, TypeOK, LeaseExpires, NotificationExpires, rows, made
<1> QED BY <1>1, QuietKeeps

LEMMA Invariance == Spec => []IInv
<1>1. IInv /\ [Next]_vars => IInv'
  <2> SUFFICES ASSUME IInv, [Next]_vars PROVE IInv'
    OBVIOUS
  <2>1. ASSUME NEW e \in Event, Enqueue(e) \/ LeaseExpires(e) \/ NotificationExpires(e)
        PROVE  IInv'
    BY <2>1, EnqueueKeeps, TimeKeeps
  <2>2. ASSUME NEW w \in Worker, NEW R \in SUBSET Event, NEW S \in SUBSET Event, Claim(w, R, S)
        PROVE  IInv'
    BY <2>2, ClaimKeeps
  <2>3. ASSUME NEW k \in work,
               Begin(k) \/ Process(k) \/ ProcessFails(k) \/ Fail(k) \/ Abandon(k)
        PROVE  IInv'
    BY <2>3, ClaimStepKeeps, ProcessKeeps, FailKeeps
  <2>4. ASSUME NEW X \in SUBSET Event, NEW A \in SUBSET Event, Deliver(X, A)
        PROVE  IInv'
    BY <2>4, DeliverKeeps
  <2>5. CASE UNCHANGED vars
    BY <2>5, QuietKeeps DEF vars, rows, made, IInv, TypeOK
  <2> QED BY <2>1, <2>2, <2>3, <2>4, <2>5 DEF Next
<1> QED BY <1>1, InitHolds, PTL DEF Spec

(* Rows keep their columns' types and CHECKs, attempts never pass Max and  *)
(* every claim a worker carries is one that was handed out.                *)
THEOREM TypeCorrect == Spec => []TypeOK
BY Invariance, PTL DEF IInv

(* The attempt rows say what happened to their event: exactly the counted  *)
(* attempt of an event in processing is open, whoever lost leases before.  *)
THEOREM EvidenceIsTrue == Spec => []AttemptsTellTheStory
BY Invariance, PTL DEF IInv

(* At most one notification per event, none by a claim that was lost, and  *)
(* a dead letter exactly for an event that was given up.                   *)
THEOREM OneOutcomePerEvent == Spec => []NotifiedOrGivenUp
BY Invariance, PTL DEF IInv
================================================================================
