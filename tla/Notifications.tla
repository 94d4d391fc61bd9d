----------------------------- MODULE Notifications -----------------------------
(***************************************************************************)
(* The notification hand-off: domain transactions write events to          *)
(* notification_domain_outbox, workers claim them in batches under a       *)
(* lease, turn each into an intent, a notification and a delivery row, and *)
(* the in-app worker publishes the deliveries.                             *)
(*                                                                         *)
(* The queries of a transaction compare with NOW(), the time at which it   *)
(* began, so beginning a transaction and running it are two actions.       *)
(* Backoff, schedules, priorities and batch sizes are not modelled: any    *)
(* rows of the right status may be claimed together.                       *)
(***************************************************************************)
EXTENDS Naturals

CONSTANTS
    Event,  \* domain events, by (tenant, type, event id)
    Worker, \* processes running run-notification-domain-worker
    Max     \* max_attempts of an event; 8 in the schema

ASSUME NotificationAssumption == Max \in Nat \ {0}

VARIABLES
    event,     \* notification_domain_outbox.status; "none" has no row
    count,     \* attempt_count
    owner,     \* locked_by
    due,       \* events whose lease_expires_at has passed
    attempt,   \* notification_domain_outbox_attempts.status, by number
    dead,      \* notification_domain_dead_letters
    past,      \* events whose notification's expires_at has passed
    intent,    \* notification_intents, by its event
    delivery,  \* notification_outbox.status of its delivery
    work       \* claims the workers are still going to process

vars == <<event, count, owner, due, attempt, dead, past, intent, delivery, work>>
rows == <<event, count, owner, due, attempt, dead>>
made == <<intent, delivery>>

Closed == {"processed", "failed_terminal"}
Attempts == 1 .. Max

Claims ==
    [w : Worker, e : Event, n : Attempts,
     pc : {"claimed", "process", "failed", "fail"},
     final : BOOLEAN]   \* the failure to record allows no other attempt

TypeOK ==
    /\ event \in [Event -> {"none", "pending", "processing", "failed_retryable"} \cup Closed]
    /\ count \in [Event -> 0 .. Max]
    /\ owner \in [Event -> Worker \cup {"none"}]
    /\ due \subseteq Event
    /\ attempt \in [Event -> [Attempts -> {"none", "claimed", "processed", "failed_retryable",
                                           "failed_terminal", "lease_recovered"}]]
    /\ dead \subseteq Event
    /\ past \subseteq Event
    /\ intent \in [Event -> {"none", "notified", "suppressed"}]
    /\ delivery \in [Event -> {"none", "pending", "provider_accepted", "expired"}]
    /\ work \subseteq Claims

Init ==
    /\ event = [e \in Event |-> "none"]
    /\ count = [e \in Event |-> 0]
    /\ owner = [e \in Event |-> "none"]
    /\ due = {}
    /\ attempt = [e \in Event |-> [n \in Attempts |-> "none"]]
    /\ dead = {}
    /\ past = {}
    /\ intent = [e \in Event |-> "none"]
    /\ delivery = [e \in Event |-> "none"]
    /\ work = {}

-------------------------------------------------------------------------------
(* The domain transaction writes the event; a repeated call finds the row  *)
(* and changes nothing.                                                    *)
Enqueue(e) ==
    /\ event[e] = "none"
    /\ event' = [event EXCEPT ![e] = "pending"]
    /\ UNCHANGED <<count, owner, due, attempt, dead, past, made, work>>

(* Mutant: the recovery and the claim disagree on the last attempt.        *)
SpentLater(e) == count[e] > Max

(* What the recovery of the leases R that have run out leaves: an event    *)
(* may be tried again unless this was its last attempt.                    *)
Spent(e) == count[e] >= Max

EventAfter(R) ==
    [e \in Event |-> IF e \notin R THEN event[e]
                     ELSE IF Spent(e) THEN "failed_terminal" ELSE "failed_retryable"]

(* Mutant: the recovery forgets the attempt whose lease ran out.           *)
AttemptAfterForgotten(R) == attempt

AttemptAfter(R) ==
    [e \in Event |-> [n \in Attempts |->
        IF e \in R /\ n = count[e] /\ attempt[e][n] = "claimed"
        THEN "lease_recovered" ELSE attempt[e][n]]]

(* Mutant: an event that has used its attempts up gets no dead letter.     *)
DeadAfterForgotten(R) == dead

DeadAfter(R) == dead \cup {e \in R : Spent(e)}

Expired == {e \in due : event[e] = "processing"}

Claimable(R) ==
    {e \in Event : EventAfter(R)[e] \in {"pending", "failed_retryable"} /\ count[e] < Max}

(* A worker claims: it first recovers leases that have run out, R, then    *)
(* takes the events S, the ones just recovered among them.  SKIP LOCKED    *)
(* leaves out any row another transaction holds.                           *)
Claim(w, R, S) ==
    /\ R \subseteq Expired
    /\ S \subseteq Claimable(R)
    /\ R \cup S # {}
    /\ event' = [e \in Event |-> IF e \in S THEN "processing" ELSE EventAfter(R)[e]]
    /\ count' = [e \in Event |-> IF e \in S THEN count[e] + 1 ELSE count[e]]
    /\ owner' = [e \in Event |-> IF e \in S THEN w ELSE IF e \in R THEN "none" ELSE owner[e]]
    /\ due' = due \ (R \cup S)
    /\ attempt' = [e \in Event |-> [n \in Attempts |->
           IF e \in S /\ n = count[e] + 1 THEN "claimed" ELSE AttemptAfter(R)[e][n]]]
    /\ dead' = DeadAfter(R)
    /\ work' = work \cup {[w |-> w, e |-> e, n |-> count[e] + 1, pc |-> "claimed",
                           final |-> FALSE] : e \in S}
    /\ UNCHANGED <<past, made>>

(* Time passes: a lease runs out, a notification expires.                  *)
LeaseExpires(e) ==
    /\ event[e] = "processing"
    /\ e \notin due
    /\ due' = due \cup {e}
    /\ UNCHANGED <<event, count, owner, attempt, dead, past, made, work>>

NotificationExpires(e) ==
    /\ event[e] # "none"
    /\ e \notin past
    /\ past' = past \cup {e}
    /\ UNCHANGED <<rows, made, work>>

-------------------------------------------------------------------------------
Step(k, c) == work' = (work \ {k}) \cup {c}
Drop(k) == work' = work \ {k}

(* The transaction of the worker's next step begins, with time left in the *)
(* lease; one that begins later can only throw lease_lost.                 *)
Begin(k) ==
    /\ k.pc \in {"claimed", "failed"}
    /\ k.e \notin due
    /\ Step(k, [k EXCEPT !.pc = IF k.pc = "claimed" THEN "process" ELSE "fail"])
    /\ UNCHANGED <<rows, past, made>>

(* The row is still the claim's: the condition of both final updates.      *)
Holds(k) ==
    /\ event[k.e] = "processing"
    /\ owner[k.e] = k.w
    /\ count[k.e] = k.n

AttemptOpen(k) == attempt[k.e][k.n] = "claimed"

(* Both final updates of a claim: the event, its attempt, the lease.       *)
Finish(k, outcome) ==
    /\ Holds(k)
    /\ AttemptOpen(k)
    /\ event' = [event EXCEPT ![k.e] = outcome]
    /\ attempt' = [attempt EXCEPT ![k.e][k.n] = outcome]
    /\ owner' = [owner EXCEPT ![k.e] = "none"]
    /\ due' = due \ {k.e}
    /\ Drop(k)
    /\ UNCHANGED <<count, past>>

(* The intent of the event and, unless the policy suppresses or escalates  *)
(* it, a notification with a delivery row; found again by correlation key. *)
CreateNotification(e) ==
    IF intent[e] # "none" THEN UNCHANGED made
    ELSE \/ /\ intent' = [intent EXCEPT ![e] = "suppressed"]
            /\ UNCHANGED delivery
         \/ /\ intent' = [intent EXCEPT ![e] = "notified"]
            /\ delivery' = [delivery EXCEPT ![e] = "pending"]

(* The event becomes a notification, in one transaction with its status.   *)
Process(k) ==
    /\ k.pc = "process"
    /\ k.e \notin past
    /\ Finish(k, "processed")
    /\ CreateNotification(k.e)
    /\ UNCHANGED dead

(* It throws and is rolled back: the claim is lost, the notification has   *)
(* expired, or anything else.  A lost claim or connection is worth another *)
(* attempt, some errors are not, and after the last attempt none is.       *)
ProcessFails(k) ==
    /\ k.pc \in {"claimed", "process"}
    /\ \E retryable \in BOOLEAN :
          /\ k.pc = "claimed" \/ ~Holds(k) => retryable
          /\ Step(k, [k EXCEPT !.pc = "failed", !.final = ~retryable \/ k.n >= Max])
    /\ UNCHANGED <<rows, past, made>>

(* The failure is recorded, with a dead letter when it is final.           *)
Fail(k) ==
    /\ k.pc = "fail"
    /\ Finish(k, IF k.final THEN "failed_terminal" ELSE "failed_retryable")
    /\ dead' = IF k.final THEN dead \cup {k.e} ELSE dead
    /\ UNCHANGED made

(* The worker gives the claim up: its failure could not be recorded, the   *)
(* batch ended because another claim's could not, it is stopping (SIGTERM) *)
(* or it died.  The row keeps its lease.                                   *)
Abandon(k) ==
    /\ Drop(k)
    /\ UNCHANGED <<rows, past, made>>

-------------------------------------------------------------------------------
(* A batch of the in-app worker: deliveries X expire, A are claimed and    *)
(* accepted, which publishes the notification.  The worker claims and      *)
(* accepts in one transaction: its lease cannot run out in between, and an *)
(* error aborts the transaction with what would record the failure.  So no *)
(* delivery rests in "processing", and outbox.ts's recovery of leases,     *)
(* failed attempts and dead letters after them are left out: nothing but   *)
(* the tests commits between a claim and its outcome.                      *)
Waiting == {e \in Event : delivery[e] = "pending"}

Deliver(X, A) ==
    /\ X \subseteq Waiting \cap past
    /\ A \subseteq Waiting \ past
    /\ X \cup A # {}
    /\ delivery' = [e \in Event |-> IF e \in X THEN "expired"
                                    ELSE IF e \in A THEN "provider_accepted" ELSE delivery[e]]
    /\ UNCHANGED <<rows, past, intent, work>>

Next ==
    \/ \E e \in Event : Enqueue(e) \/ LeaseExpires(e) \/ NotificationExpires(e)
    \/ \E w \in Worker, R, S \in SUBSET Event : Claim(w, R, S)
    \/ \E k \in work : Begin(k) \/ Process(k) \/ ProcessFails(k) \/ Fail(k) \/ Abandon(k)
    \/ \E X, A \in SUBSET Event : Deliver(X, A)

Spec == Init /\ [][Next]_vars

(* Some worker keeps polling and takes the oldest rows first, so no event  *)
(* is passed over for ever, and so does an in-app worker; leases run out.  *)
(* Nothing is assumed of the claims once taken.                            *)
Fairness ==
    \A e \in Event :
       /\ WF_vars(\E w \in Worker, R, S \in SUBSET Event : e \in R \cup S /\ Claim(w, R, S))
       /\ WF_vars(LeaseExpires(e))
       /\ WF_vars(\E X, A \in SUBSET Event : e \in X \cup A /\ Deliver(X, A))

FairSpec == Spec /\ Fairness

-------------------------------------------------------------------------------
(* An event being processed has exactly the attempt it counts open, every  *)
(* earlier one is closed, and the last attempt of a closed event says how  *)
(* it ended.  For deliveries getNotificationOutboxReconciliation counts    *)
(* the rows of which this is not true (processingWithoutAttempt); for      *)
(* domain events nothing does.                                             *)
AttemptsTellTheStory ==
    \A e \in Event :
       /\ \A n \in Attempts :
             /\ attempt[e][n] = "none" <=> n > count[e]
             /\ attempt[e][n] = "claimed" <=> event[e] = "processing" /\ n = count[e]
             /\ attempt[e][n] \in Closed => event[e] = attempt[e][n] /\ n = count[e]
       /\ event[e] = "processed" => attempt[e][count[e]] = "processed"

(* An event has an intent exactly when it is processed and a dead letter   *)
(* exactly when it is given up: a worker that lost its claim leaves        *)
(* nothing behind, and nobody reopens a closed event.                      *)
NotifiedOrGivenUp ==
    \A e \in Event :
       /\ intent[e] # "none" <=> event[e] = "processed"
       /\ e \in dead <=> event[e] = "failed_terminal"
       /\ delivery[e] # "none" <=> intent[e] = "notified"

(* Every event is processed or given up in the end, and every notification *)
(* is published or expires, even if every worker abandons every claim.     *)
EventsEnd ==
    \A e \in Event :
       /\ event[e] # "none" ~> event[e] \in Closed
       /\ delivery[e] # "none" ~> delivery[e] \in {"provider_accepted", "expired"}

================================================================================
