------------------------- MODULE WithdrawalExecution -------------------------
(***************************************************************************)
(* The execution side of withdrawals, composed with the request side: the  *)
(* workers that claim, build, sign, broadcast, reconcile, confirm and      *)
(* settle, the three tables they keep (execution intents, broadcast        *)
(* attempts, confirmation outbox), the confirmation queue and the chain.   *)
(* One action is one PostgreSQL transaction, one provider call or one      *)
(* queue operation; a worker may crash between any two.                    *)
(***************************************************************************)
EXTENDS Withdrawals, Sequences

CONSTANTS
    Worker,       \* processes that run jobs
    Dispatched,   \* withdrawals whose execution job is delivered
    MaxGens,      \* bound: signed transactions built per withdrawal
    MaxAttempts,  \* bound: broadcast attempts per withdrawal
    RpcTries,     \* tries of one RpcClient.call; 3 in the code
    LatePolls,    \* tries of a confirmation job due after its deadline; at least 3
    MaxStalls     \* stalls the queue forgives a job; 1, BullMQ's default

ASSUME ExecutionAssumption ==
    /\ W # {}
    /\ Dispatched \subseteq W
    /\ MaxGens \in Nat
    /\ MaxAttempts \in Nat
    /\ RpcTries \in Nat \ {0}
    /\ LatePolls \in Nat \ {0}
    /\ MaxStalls \in Nat

VARIABLES
    signed,    \* raw_tx and tx_hash: the generation whose bytes they are, or 0
    intent,    \* the latest execution intent
    attempts,  \* the states of the broadcast attempts, oldest first
    leaseDue,  \* the lease of the calling attempt has run out
    outbox,    \* the confirmation outbox row
    watch,     \* the confirmation job, as the queue keeps it
    chain,     \* what the network knows of each signed transaction
    worker     \* what each worker is doing

execVars == <<signed, intent, attempts, leaseDue, outbox, watch, chain, worker>>
vars == <<requestVars, execVars>>

rows == <<signed, intent, attempts, leaseDue, outbox>>
wallet == <<ledger, available, held, reserved>>
requestOnly == <<cleared, authorization, receipts>>

Gens == 1..MaxGens
ActiveAttempt == {"calling", "ambiguous"}
Accepted == {"accepted", "already_known", "reconciled_present"}
Refused == {"rejected", "hash_mismatch"}
AttemptStates == ActiveAttempt \cup Accepted \cup Refused \cup {"reconciled_absent"}

Steps ==
    {"idle", "recover", "expire", "claim", "reclaim", "build", "failprep", "begin",
     "rpc", "accept", "refuse", "observe", "resolve", "publish", "mark",
     "unpublish", "load", "poll", "settle", "outcome", "done", "throw"}

Seen == {"none", "accepted", "already_known", "rejected", "ambiguous",
         "present", "absent", "dropped", "timeout"}

(* job is the kind of job, stale a confirmation job whose lock was lost,   *)
(* gen the transaction in hand, att the attempt, tries the RPC tries made, *)
(* seen what the last external call told.                                  *)
WorkerStates ==
    [pc : Steps, job : {"exec", "confirm", "stale"}, w : W, gen : 0..MaxGens,
     att : 0..MaxAttempts, tries : 0..RpcTries, seen : Seen]

NoJob == [pc |-> "idle", job |-> "exec", w |-> CHOOSE w \in W : TRUE, gen |-> 0,
          att |-> 0, tries |-> 0, seen |-> "none"]

(* late: the confirmation deadline of the withdrawal has passed; left: the *)
(* tries that remain once it has; stalls: how often a worker lost the job. *)
WatchStates ==
    [st : {"none", "waiting", "active", "failed"}, late : BOOLEAN,
     left : 0..LatePolls, stalls : 0..MaxStalls]

NoWatch == [st |-> "none", late |-> FALSE, left |-> 0, stalls |-> 0]

TypeOK ==
    /\ RequestTypeOK
    /\ signed \in [W -> 0..MaxGens]
    /\ intent \in [W -> [gen : 0..MaxGens, st : {"none", "building", "prepared", "failed"}]]
    /\ attempts \in [W -> Seq(AttemptStates)]
    /\ leaseDue \in [W -> BOOLEAN]
    /\ outbox \in [W -> {"none", "pending", "published", "dead_letter", "completed"}]
    /\ watch \in [W -> WatchStates]
    /\ chain \in [W -> [Gens -> {"unseen", "pending", "reverted", "success"}]]
    /\ worker \in [Worker -> WorkerStates]

Init ==
    /\ RequestInit
    /\ signed = [w \in W |-> 0]
    /\ intent = [w \in W |-> [gen |-> 0, st |-> "none"]]
    /\ attempts = [w \in W |-> <<>>]
    /\ leaseDue = [w \in W |-> FALSE]
    /\ outbox = [w \in W |-> "none"]
    /\ watch = [w \in W |-> NoWatch]
    /\ chain = [w \in W |-> [g \in Gens |-> "unseen"]]
    /\ worker = [k \in Worker |-> NoJob]

-----------------------------------------------------------------------------
(* Worker k goes on at step p; it ends its job.                            *)
At(k, p) == worker[k].pc = p
GoTo(k, p) == worker' = [worker EXCEPT ![k].pc = p]
EndJob(k) == worker' = [worker EXCEPT ![k] = NoJob]

LastAttempt(w) == IF attempts[w] = <<>> THEN "none" ELSE attempts[w][Len(attempts[w])]
Prepared(w) == signed[w] # 0

(* Execution and recovery jobs are delivered at least once, at any time.   *)
Deliver(k, w) ==
    /\ At(k, "idle")
    /\ w \in Dispatched
    /\ worker' = [worker EXCEPT ![k] = [NoJob EXCEPT !.pc = "recover", !.w = w]]
    /\ UNCHANGED <<requestVars, rows, watch, chain>>

-----------------------------------------------------------------------------
(* The confirmation queue.  A job whose deduplication id is in the queue   *)
(* is not added again; one that completed or failed for good is.           *)
Enqueued(q) ==
    IF q.st \in {"waiting", "active"} THEN q
    ELSE [st |-> "waiting", late |-> q.late, left |-> LatePolls, stalls |-> 0]

Over(q, st) == [st |-> st, late |-> q.late, left |-> 0, stalls |-> 0]

(* A throw waits for the next poll.  Tries before the deadline are as many *)
(* as it takes; LatePolls of them fall behind it, and the last one fails   *)
(* the job.                                                                *)
Thrown(q) ==
    IF ~q.late THEN [q EXCEPT !.st = "waiting"]
    ELSE IF q.left <= 1 THEN Over(q, "failed")
    ELSE [q EXCEPT !.st = "waiting", !.left = @ - 1]

(* The worker lost the job: it is delivered again, or fails for good.      *)
Stalled(q) ==
    IF q.stalls = MaxStalls THEN Over(q, "failed")
    ELSE [q EXCEPT !.st = "waiting", !.stalls = @ + 1]

DeliverWatch(k, w) ==
    /\ At(k, "idle")
    /\ watch[w].st = "waiting"
    /\ watch' = [watch EXCEPT ![w].st = "active"]
    /\ worker' = [worker EXCEPT ![k] =
                    [NoJob EXCEPT !.pc = "publish", !.job = "confirm", !.w = w]]
    /\ UNCHANGED <<requestVars, rows, chain>>

(* The queue takes word of an active job from the worker that has its      *)
(* lock; a worker that lost it goes on, and is not listened to.            *)
Tell(k, told) ==
    watch' = IF worker[k].job = "confirm" /\ watch[worker[k].w].st = "active"
               THEN [watch EXCEPT ![worker[k].w] = told] ELSE watch

JobDone(k) ==
    /\ At(k, "done")
    /\ Tell(k, Over(watch[worker[k].w], "none"))
    /\ EndJob(k)
    /\ UNCHANGED <<requestVars, rows, chain>>

JobThrows(k) ==
    /\ At(k, "throw")
    /\ Tell(k, Thrown(watch[worker[k].w]))
    /\ EndJob(k)
    /\ UNCHANGED <<requestVars, rows, chain>>

Crash(k) ==
    /\ ~At(k, "idle")
    /\ Tell(k, Stalled(watch[worker[k].w]))
    /\ EndJob(k)
    /\ UNCHANGED <<requestVars, rows, chain>>

LosesLock(k) ==
    /\ worker[k].job = "confirm"
    /\ Tell(k, Stalled(watch[worker[k].w]))
    /\ worker' = [worker EXCEPT ![k].job = "stale"]
    /\ UNCHANGED <<requestVars, rows, chain>>

(* The deadline counts from the last broadcast and passes at any time.     *)
DeadlinePasses(w) ==
    /\ watch[w].st \in {"waiting", "active"}
    /\ ~watch[w].late
    /\ watch' = [watch EXCEPT ![w].late = TRUE]
    /\ UNCHANGED <<requestVars, rows, chain, worker>>

-----------------------------------------------------------------------------
(* recoverExpiredWithdrawalBroadcastAttempt, the read: an active lease     *)
(* ends the job (a delayed recovery job follows).                          *)
RecoverRead(k) ==
    /\ At(k, "recover")
    /\ LET w == worker[k].w IN
       IF LastAttempt(w) # "calling"
         THEN GoTo(k, "claim")
         ELSE IF leaseDue[w]
           THEN worker' = [worker EXCEPT ![k].pc = "expire",
                                         ![k].att = Len(attempts[w]),
                                         ![k].seen = "ambiguous"]
           ELSE EndJob(k)
    /\ UNCHANGED <<requestVars, rows, watch, chain>>

(* finalizeWithdrawalBroadcastFailure with its category already computed:  *)
(* only a calling attempt changes, and only a definite refusal fails the   *)
(* withdrawal.                                                             *)
RecordFailure(w, n, category) ==
    IF attempts[w][n] = "calling"
      THEN /\ attempts' = [attempts EXCEPT ![w][n] = category]
           /\ state' = IF category # "ambiguous" /\ state[w] = "broadcasting"
                         THEN [state EXCEPT ![w] = "failed"] ELSE state
      ELSE UNCHANGED <<attempts, state>>

ExpireAttempt(k) ==
    /\ At(k, "expire")
    /\ LET w == worker[k].w  n == worker[k].att IN
       /\ RecordFailure(w, n, "ambiguous")
       /\ IF attempts[w][n] \in {"calling", "ambiguous"} \cup Refused
            THEN worker' = [worker EXCEPT ![k].pc = "claim", ![k].seen = "none"]
            ELSE EndJob(k)
    /\ UNCHANGED <<wallet, requestOnly, signed, intent, leaseDue, outbox, watch, chain>>

-----------------------------------------------------------------------------
(* claimWithdrawalExecution.  The branches in the order of the code.       *)
Finished == {"none", "completed", "cancelled", "timeout", "rejected", "blocked"}

ToConfirm(w) == state[w] \in {"broadcasted", "confirming"} /\ Prepared(w)
ToReconcile(w) == ~ToConfirm(w) /\ state[w] \notin Finished /\ LastAttempt(w) = "ambiguous"
Resumable(w) == ~ToConfirm(w) /\ state[w] \notin Finished /\ LastAttempt(w) \notin ActiveAttempt
ToResume(w) == Resumable(w) /\ Prepared(w)
ToBuild(w) == Resumable(w) /\ ~Prepared(w) /\ state[w] \in {"approved", "failed"}

(* Mutant: no gate on the attempts made.                                   *)
RetryAlways(w) == TRUE

(* The database gate of 0043: a failed withdrawal is broadcast again only  *)
(* when no attempt is unresolved or was refused.                           *)
RetryAllowed(w) ==
    \A i \in 1..Len(attempts[w]) : attempts[w][i] \notin {"ambiguous"} \cup Refused

ClaimNothing(k) ==
    /\ At(k, "claim") \/ At(k, "reclaim")
    /\ LET w == worker[k].w IN
       \/ ~ToConfirm(w) /\ ~ToReconcile(w) /\ ~ToResume(w) /\ ~ToBuild(w)
       \/ ToResume(w) /\ state[w] = "failed" /\ ~RetryAllowed(w)
       \/ ToBuild(w) /\ (intent[w].st = "building" \/ intent[w].gen = MaxGens)
       \/ At(k, "reclaim") /\ (ToConfirm(w) \/ ToReconcile(w))
    /\ EndJob(k)
    /\ UNCHANGED <<requestVars, rows, watch, chain>>

ClaimConfirm(k) ==
    /\ At(k, "claim")
    /\ ToConfirm(worker[k].w)
    /\ GoTo(k, "publish")
    /\ UNCHANGED <<requestVars, rows, watch, chain>>

ClaimReconcile(k) ==
    /\ At(k, "claim")
    /\ ToReconcile(worker[k].w)
    /\ worker' = [worker EXCEPT ![k].pc = "observe",
                                ![k].att = Len(attempts[worker[k].w])]
    /\ UNCHANGED <<requestVars, rows, watch, chain>>

(* The signed transaction is there: broadcast the same bytes again.        *)
ClaimResume(k) ==
    /\ At(k, "claim") \/ At(k, "reclaim")
    /\ LET w == worker[k].w IN
       /\ ToResume(w)
       /\ state[w] = "failed" => RetryAllowed(w)
       /\ state' = [state EXCEPT ![w] = IF @ \in {"failed", "building_transaction"}
                                          THEN "broadcasting" ELSE @]
    /\ GoTo(k, "begin")
    /\ UNCHANGED <<wallet, requestOnly, rows, watch, chain>>

(* An intent still building keeps the claim out: the unique index of one   *)
(* active generation.  The branch that would retire an expired one is only *)
(* reached from approved or failed, where no intent is building.  At the   *)
(* bound MaxGens the job ends instead.                                     *)
ClaimBuild(k) ==
    /\ At(k, "claim") \/ At(k, "reclaim")
    /\ LET w == worker[k].w IN
       /\ ToBuild(w)
       /\ intent[w].st # "building"
       /\ intent[w].gen < MaxGens
       /\ intent' = [intent EXCEPT ![w] = [gen |-> @.gen + 1, st |-> "building"]]
       /\ state' = [state EXCEPT ![w] = "building_transaction"]
       /\ worker' = [worker EXCEPT ![k].pc = "build", ![k].gen = intent[w].gen + 1]
    /\ UNCHANGED <<wallet, requestOnly, signed, attempts, leaseDue, outbox, watch, chain>>
(* buildSignAndPersist: building and signing happen outside the database;  *)
(* then one transaction binds the bytes to the withdrawal.                 *)
CommitPrepared(k) ==
    /\ At(k, "build")
    /\ LET w == worker[k].w  g == worker[k].gen IN
       IF /\ state[w] = "building_transaction"
          /\ ~Prepared(w)
          /\ intent[w] = [gen |-> g, st |-> "building"]
         THEN /\ intent' = [intent EXCEPT ![w].st = "prepared"]
              /\ signed' = [signed EXCEPT ![w] = g]
              /\ state' = [state EXCEPT ![w] = "broadcasting"]
              /\ GoTo(k, "begin")
         ELSE /\ GoTo(k, "failprep")
              /\ UNCHANGED <<intent, signed, state>>
    /\ UNCHANGED <<wallet, requestOnly, attempts, leaseDue, outbox, watch, chain>>

BuildFails(k) ==
    /\ At(k, "build")
    /\ GoTo(k, "failprep")
    /\ UNCHANGED <<requestVars, rows, watch, chain>>

FailPreparation(k) ==
    /\ At(k, "failprep")
    /\ LET w == worker[k].w IN
       IF intent[w] = [gen |-> worker[k].gen, st |-> "building"]
         THEN /\ intent' = [intent EXCEPT ![w].st = "failed"]
              /\ state' = IF state[w] = "building_transaction"
                            THEN [state EXCEPT ![w] = "failed"] ELSE state
         ELSE UNCHANGED <<intent, state>>
    /\ EndJob(k)
    /\ UNCHANGED <<wallet, requestOnly, signed, attempts, leaseDue, outbox, watch, chain>>

-----------------------------------------------------------------------------
(* beginWithdrawalBroadcastAttempt: the attempt is durable, and calling,   *)
(* before the provider is asked.  At the bound MaxAttempts the job ends.   *)
CanBegin(w) ==
    /\ state[w] = "broadcasting"
    /\ Prepared(w)
    /\ LastAttempt(w) \notin ActiveAttempt

Begin(k) ==
    /\ At(k, "begin")
    /\ LET w == worker[k].w IN
       IF CanBegin(w) /\ Len(attempts[w]) < MaxAttempts
         THEN /\ attempts' = [attempts EXCEPT ![w] = Append(@, "calling")]
              /\ leaseDue' = [leaseDue EXCEPT ![w] = FALSE]
              /\ worker' = [worker EXCEPT ![k].pc = "rpc",
                                          ![k].gen = signed[w],
                                          ![k].att = Len(attempts[w]) + 1]
         ELSE EndJob(k) /\ UNCHANGED <<attempts, leaseDue>>
    /\ UNCHANGED <<requestVars, signed, intent, outbox, watch, chain>>

LeaseExpires(w) ==
    /\ LastAttempt(w) = "calling"
    /\ ~leaseDue[w]
    /\ leaseDue' = [leaseDue EXCEPT ![w] = TRUE]
    /\ UNCHANGED <<requestVars, signed, intent, attempts, outbox, watch, chain, worker>>

(* What one endpoint may answer to a transaction in a given chain state.   *)
(* lost: any timeout or network error, the node having seen it or not.  An *)
(* endpoint that has not seen a pending transaction may still refuse it.   *)
Answers(c) ==
    CASE c = "unseen" -> {"accepted", "rejected", "mismatch", "lost"}
      [] c = "pending" -> {"accepted", "already_known", "rejected", "mismatch", "lost"}
      [] OTHER -> {"already_known", "rejected", "lost"}

(* The next chain state of a transaction whose bytes reached an endpoint.  *)
Reaches(answer, c) ==
    IF c # "unseen" \/ answer = "rejected" THEN {c}
    ELSE IF answer = "lost" THEN {"unseen", "pending"} ELSE {"pending"}

(* broadcastOnce and classifyWithdrawalBroadcastError on the last answer.  *)
(* "withdrawal_broadcast_hash_mismatch" matches none of the classifier's   *)
(* patterns (its own is "hash mismatch"), so a mismatch is unknown.        *)
Outcome(answer) ==
    CASE answer \in {"accepted", "already_known"} -> [pc |-> "accept", seen |-> answer]
      [] answer = "rejected" -> [pc |-> "refuse", seen |-> "rejected"]
      [] OTHER -> [pc |-> "refuse", seen |-> "ambiguous"]

(* RpcClient.call retries on any error, "already known" and "nonce too     *)
(* low" included, and throws the last one.  A result ends the call.        *)
Retries(k, answer) ==
    /\ answer \in {"already_known", "rejected", "lost"}
    /\ worker[k].tries + 1 < RpcTries

RpcTry(k) ==
    /\ At(k, "rpc")
    /\ LET w == worker[k].w  g == worker[k].gen IN
       \E answer \in Answers(chain[w][g]) :
         /\ \E c \in Reaches(answer, chain[w][g]) :
              chain' = [chain EXCEPT ![w][g] = c]
         /\ worker' = IF Retries(k, answer)
              THEN [worker EXCEPT ![k].tries = @ + 1]
              ELSE [worker EXCEPT ![k].pc = Outcome(answer).pc,
                                  ![k].seen = Outcome(answer).seen,
                                  ![k].tries = 0]
    /\ UNCHANGED <<requestVars, rows, watch>>

(* finalizeWithdrawalBroadcastAccepted.  An attempt that is neither calling*)
(* nor accepted throws, and the failure path then changes nothing.         *)
FinalizeAccepted(k) ==
    /\ At(k, "accept")
    /\ LET w == worker[k].w  n == worker[k].att IN
       \/ /\ attempts[w][n] = "calling"
          /\ state[w] \in {"broadcasting", "broadcasted", "confirming", "completed"}
          /\ attempts' = [attempts EXCEPT ![w][n] = worker[k].seen]
          /\ state' = [state EXCEPT ![w] = IF @ = "broadcasting" THEN "broadcasted" ELSE @]
          /\ outbox' = [outbox EXCEPT ![w] = IF @ = "none" THEN "pending" ELSE @]
          /\ worker' = [worker EXCEPT ![k].pc = "publish", ![k].seen = "none"]
       \/ /\ attempts[w][n] # "calling"
          /\ IF attempts[w][n] \in Accepted
               THEN worker' = [worker EXCEPT ![k].pc = "publish", ![k].seen = "none"]
               ELSE EndJob(k)
          /\ UNCHANGED <<attempts, state, outbox>>
    /\ UNCHANGED <<wallet, requestOnly, signed, intent, leaseDue, watch, chain>>

(* The acceptance cannot be stored: its error is classified as unknown.    *)
AcceptFails(k) ==
    /\ At(k, "accept")
    /\ worker' = [worker EXCEPT ![k].pc = "refuse", ![k].seen = "ambiguous"]
    /\ UNCHANGED <<requestVars, rows, watch, chain>>

FinalizeFailure(k) ==
    /\ At(k, "refuse")
    /\ RecordFailure(worker[k].w, worker[k].att, worker[k].seen)
    /\ EndJob(k)
    /\ UNCHANGED <<wallet, requestOnly, signed, intent, leaseDue, outbox, watch, chain>>

-----------------------------------------------------------------------------
(* Mutant: a transaction no node knows is taken for a pending one.         *)
ObservationsOptimistic(c) ==
    IF c = "reverted" THEN {"absent", "unknown"} ELSE {"present", "unknown"}

(* getConfirmationStatus: "dropped" is what a provider says of a reverted  *)
(* transaction; a transaction no node knows is unknown, and so is any      *)
(* provider error.                                                         *)
Observations(c) ==
    CASE c = "unseen" -> {"unknown"}
      [] c = "reverted" -> {"absent", "unknown"}
      [] OTHER -> {"present", "unknown"}

Observe(k) ==
    /\ At(k, "observe")
    /\ LET w == worker[k].w IN
       \E o \in Observations(chain[w][signed[w]]) :
         IF o = "unknown"
           THEN EndJob(k)
           ELSE worker' = [worker EXCEPT ![k].pc = "resolve", ![k].seen = o]
    /\ UNCHANGED <<requestVars, rows, watch, chain>>

(* reconcileAmbiguousWithdrawalBroadcast and what its caller does with the *)
(* answer: accepted publishes, retry_allowed claims once more.             *)
Resolve(k) ==
    /\ At(k, "resolve")
    /\ LET w == worker[k].w  n == worker[k].att  present == worker[k].seen = "present" IN
       \/ /\ attempts[w][n] = "ambiguous"
          /\ attempts' = [attempts EXCEPT ![w][n] =
                            IF present THEN "reconciled_present" ELSE "reconciled_absent"]
          /\ state' = IF present /\ state[w] = "broadcasting"
                        THEN [state EXCEPT ![w] = "broadcasted"] ELSE state
          /\ outbox' = IF present /\ outbox[w] = "none"
                         THEN [outbox EXCEPT ![w] = "pending"] ELSE outbox
          /\ worker' = [worker EXCEPT ![k].pc = IF present THEN "publish" ELSE "reclaim",
                                      ![k].seen = "none"]
       \/ /\ attempts[w][n] # "ambiguous"
          /\ IF attempts[w][n] \in Accepted \cup {"reconciled_absent"}
               THEN worker' = [worker EXCEPT
                      ![k].pc = IF attempts[w][n] \in Accepted THEN "publish" ELSE "reclaim",
                      ![k].seen = "none"]
               ELSE EndJob(k)
          /\ UNCHANGED <<attempts, state, outbox>>
    /\ UNCHANGED <<wallet, requestOnly, signed, intent, leaseDue, watch, chain>>
-----------------------------------------------------------------------------
(* publishWithdrawalConfirmationOutbox for one withdrawal: a read selects  *)
(* the row and the job is enqueued, one transaction records it.  Whoever   *)
(* published goes on: an execution job ends, a confirmation job loads.     *)
(* A dead letter is due again after a minute.                              *)
Publishable(w) ==
    outbox[w] \in {"pending", "dead_letter"} /\ state[w] \in {"broadcasted", "confirming"}

Due(w) == IF outbox[w] = "dead_letter" THEN BOOLEAN ELSE {TRUE}

(* Mutant: a confirmation job stops once it has published.                 *)
PublishedEnds(k) == EndJob(k)

Published(k) ==
    IF worker[k].job = "exec" THEN EndJob(k) ELSE GoTo(k, "load")

PublishNothing(k) ==
    /\ At(k, "publish")
    /\ Publishable(worker[k].w) => FALSE \in Due(worker[k].w)
    /\ Published(k)
    /\ UNCHANGED <<requestVars, rows, watch, chain>>

PublishEnqueue(k) ==
    /\ At(k, "publish")
    /\ Publishable(worker[k].w)
    /\ watch' = [watch EXCEPT ![worker[k].w] = Enqueued(@)]
    /\ GoTo(k, "mark")
    /\ UNCHANGED <<requestVars, rows, chain>>

(* Mutant: a completed row is published again.                             *)
MarkedAgain(row) == IF row = "none" THEN row ELSE "published"

Marked(row) ==
    IF row \in {"pending", "dead_letter", "published"} THEN "published" ELSE row

PublishMark(k) ==
    /\ At(k, "mark")
    /\ LET w == worker[k].w IN
       /\ outbox' = [outbox EXCEPT ![w] = Marked(@)]
       /\ state' = [state EXCEPT ![w] = IF @ = "broadcasted" THEN "confirming" ELSE @]
    /\ Published(k)
    /\ UNCHANGED <<wallet, requestOnly, signed, intent, attempts, leaseDue, watch, chain>>

(* The queue or the transaction fails, before or after the job was added.  *)
PublishFails(k) ==
    /\ \/ At(k, "publish") /\ Publishable(worker[k].w)
       \/ At(k, "mark")
    /\ GoTo(k, "unpublish")
    /\ UNCHANGED <<requestVars, rows, watch, chain>>

Unpublish(k) ==
    /\ At(k, "unpublish")
    /\ outbox' = [outbox EXCEPT ![worker[k].w] =
                    IF @ = "completed" THEN @ ELSE "dead_letter"]
    /\ IF worker[k].job = "exec" THEN EndJob(k) ELSE GoTo(k, "throw")
    /\ UNCHANGED <<requestVars, signed, intent, attempts, leaseDue, watch, chain>>

-----------------------------------------------------------------------------
(* checkConfirmation once the publication committed.  It returns, or it    *)
(* throws and is tried again.                                              *)
LoadDone(k) ==
    /\ At(k, "load")
    /\ state[worker[k].w] \in {"completed", "timeout", "cancelled", "failed"}
    /\ GoTo(k, "done")
    /\ UNCHANGED <<requestVars, rows, watch, chain>>

LoadRefused(k) ==
    /\ At(k, "load")
    /\ state[worker[k].w] \notin {"completed", "timeout", "cancelled", "failed", "confirming"}
    /\ GoTo(k, "throw")
    /\ UNCHANGED <<requestVars, rows, watch, chain>>

LoadInTime(k) ==
    /\ At(k, "load")
    /\ state[worker[k].w] = "confirming"
    /\ ~watch[worker[k].w].late
    /\ GoTo(k, "poll")
    /\ UNCHANGED <<requestVars, rows, watch, chain>>

LoadLate(k) ==
    /\ At(k, "load")
    /\ state[worker[k].w] = "confirming"
    /\ watch[worker[k].w].late
    /\ worker' = [worker EXCEPT ![k].pc = "outcome", ![k].seen = "timeout"]
    /\ UNCHANGED <<requestVars, rows, watch, chain>>

Poll(k) ==
    /\ At(k, "poll")
    /\ LET c == chain[worker[k].w][signed[worker[k].w]] IN
       \/ GoTo(k, "throw")
       \/ /\ c = "reverted"
          /\ worker' = [worker EXCEPT ![k].pc = "outcome", ![k].seen = "dropped"]
       \/ c = "success" /\ GoTo(k, "settle")
    /\ UNCHANGED <<requestVars, rows, watch, chain>>

(* markWithdrawalConfirmationOutcome.  From broadcasted the database gate  *)
(* (0044) refuses the transition: the job is retried.                      *)
MarkOutcome(k) ==
    /\ At(k, "outcome")
    /\ LET w == worker[k].w IN
       \/ /\ state[w] = "confirming"
          /\ state' = [state EXCEPT ![w] =
                         IF worker[k].seen = "dropped" THEN "failed" ELSE "timeout"]
          /\ outbox' = [outbox EXCEPT ![w] = "completed"]
          /\ GoTo(k, "done")
       \/ /\ state[w] # "confirming"
          /\ GoTo(k, IF state[w] = "broadcasted" THEN "throw" ELSE "done")
          /\ UNCHANGED <<state, outbox>>
    /\ UNCHANGED <<wallet, requestOnly, signed, intent, attempts, leaseDue, watch, chain>>

(* settleConfirmedWithdrawal: the hold is consumed, the ledger says so and *)
(* the outbox is closed with the state; a completed row is a replay.       *)
Settle(k) ==
    /\ At(k, "settle")
    /\ LET w == worker[k].w IN
       \/ /\ state[w] = "confirming"
          /\ reserved[w] /\ "withdraw" \notin ledger[w] /\ held >= Amount[w]
          /\ held' = held - Amount[w]
          /\ ledger' = [ledger EXCEPT ![w] = @ \cup {"withdraw"}]
          /\ state' = [state EXCEPT ![w] = "completed"]
          /\ reserved' = [reserved EXCEPT ![w] = FALSE]
          /\ outbox' = [outbox EXCEPT ![w] = "completed"]
          /\ GoTo(k, "done")
       \/ /\ state[w] # "confirming"
          /\ GoTo(k, IF state[w] = "completed" THEN "done" ELSE "throw")
          /\ UNCHANGED <<held, ledger, state, reserved, outbox>>
    /\ UNCHANGED <<available, requestOnly, signed, intent, attempts, leaseDue, watch, chain>>

(* The network includes a transaction, reverts it, or undoes a reverting   *)
(* block that was not final.  A success counts once it is final.           *)
Network(w, g) ==
    /\ \/ chain[w][g] = "pending" /\ chain' \in {[chain EXCEPT ![w][g] = "reverted"],
                                                  [chain EXCEPT ![w][g] = "success"]}
       \/ chain[w][g] = "reverted" /\ chain' = [chain EXCEPT ![w][g] = "pending"]
    /\ UNCHANGED <<requestVars, rows, watch, worker>>

WorkerStep(k) ==
    \/ RecoverRead(k) \/ ExpireAttempt(k)
    \/ ClaimNothing(k) \/ ClaimConfirm(k) \/ ClaimReconcile(k) \/ ClaimResume(k)
    \/ ClaimBuild(k) \/ CommitPrepared(k) \/ BuildFails(k) \/ FailPreparation(k)
    \/ Begin(k) \/ RpcTry(k) \/ FinalizeAccepted(k) \/ AcceptFails(k)
    \/ FinalizeFailure(k) \/ Observe(k) \/ Resolve(k)
    \/ PublishNothing(k) \/ PublishEnqueue(k) \/ PublishMark(k) \/ PublishFails(k)
    \/ Unpublish(k) \/ LoadDone(k) \/ LoadRefused(k) \/ LoadInTime(k) \/ LoadLate(k)
    \/ Poll(k) \/ MarkOutcome(k) \/ Settle(k) \/ JobDone(k) \/ JobThrows(k)

Next ==
    \/ RequestNext /\ UNCHANGED execVars
    \/ \E k \in Worker : WorkerStep(k) \/ Crash(k) \/ LosesLock(k)
    \/ \E k \in Worker, w \in W : Deliver(k, w) \/ DeliverWatch(k, w)
    \/ \E w \in W : LeaseExpires(w) \/ DeadlinePasses(w)
    \/ \E w \in W, g \in Gens : Network(w, g)

Spec == Init /\ [][Next]_vars
-----------------------------------------------------------------------------
(* What each withdrawal keeps reserved, and what it has taken.             *)
Reserved == [w \in W |-> IF reserved[w] THEN Amount[w] ELSE 0]
Withdrawn == [w \in W |-> IF "withdraw" \in ledger[w] THEN Amount[w] ELSE 0]

(* Every unit of the user's funds is available, set aside for a withdrawal *)
(* that still has its reservation, or withdrawn: across admission, the two *)
(* ways of releasing and the settlement, whatever runs beside them.        *)
FundsAccounted ==
    /\ held = SumFunctionOnSet(Reserved, W)
    /\ available + held + SumFunctionOnSet(Withdrawn, W) = Funds

(* A withdrawal that says it was broadcast is one the network knows: no    *)
(* provider silence, lost answer or stale worker makes it so.              *)
BroadcastIsKnown ==
    \A w \in W : state[w] \in {"broadcasted", "confirming", "completed"} =>
        Prepared(w) /\ chain[w][signed[w]] # "unseen"

(* An attempt is followed by another only after it was accepted, or found  *)
(* absent: never while its outcome is unknown, nor after a refusal.        *)
RetryNeedsAnswer ==
    \A w \in W : \A i \in 1..Len(attempts[w]) :
        i < Len(attempts[w]) => attempts[w][i] \in Accepted \cup {"reconciled_absent"}

(* An intent is building exactly while its withdrawal is: the branch of    *)
(* the claim that retires an expired intent is never reached, and a        *)
(* builder's commit meets the intent it was given.                         *)
IntentMatchesState ==
    \A w \in W : (intent[w].st = "building") <=> (state[w] = "building_transaction")

(* A published row has a confirmation job, which is in the queue or which  *)
(* the queue itself failed for good (processor.ts never puts it back, and  *)
(* no publisher selects the row again).  No order of the publishers, whose *)
(* job is not added while another is there, of a job that returns and of a *)
(* worker that lost its lock leaves a published row without any.           *)
PublishedHasJob ==
    \A w \in W : outbox[w] = "published" => watch[w].st # "none"

(* 6.2 of the evidence inventory: a successful broadcast result creates    *)
(* durable confirmation work with the broadcasted state.                   *)
BroadcastHasConfirmationWork ==
    \A w \in W : state[w] = "broadcasted" => outbox[w] # "completed"

(* What the withdrawals do, seen as the custodian's promise.               *)
Fate(w) ==
    IF "withdraw" \in ledger[w] THEN "paid"
    ELSE IF "release" \in ledger[w] THEN "returned"
    ELSE IF "hold" \in ledger[w] THEN "held"
    ELSE IF state[w] = "none" THEN "none" ELSE "refused"

Promise == INSTANCE WithdrawalPromise WITH
    fate <- [w \in W |-> Fate(w)],
    sent <- [w \in W |-> {g \in Gens : chain[w][g] # "unseen"}],
    landed <- [w \in W |-> {g \in Gens : chain[w][g] = "success"}]

(* Paid at most once, only against a transaction that was included; funds  *)
(* returned only if nothing was ever sent, and nothing sent afterwards; no *)
(* second signed transaction of a withdrawal ever reaches a node.          *)
KeepsPayoutPromise == Promise!Spec

-----------------------------------------------------------------------------
(* Fairness.  A worker that does not crash goes on, time passes, and the   *)
(* queue hands a waiting confirmation job to some free worker in its turn: *)
(* confirmation jobs have workers of their own (processor.ts).  Nothing is *)
(* assumed of crashes, lost locks or failing publications.                 *)
Fairness ==
    /\ \A k \in Worker : WF_vars(WorkerStep(k))
    /\ \A w \in W : WF_vars(DeadlinePasses(w))
    /\ \A w \in W : SF_vars(\E k \in Worker : DeliverWatch(k, w))

FairSpec == Spec /\ Fairness

(* A monitored confirmation does not go on for ever: it is settled,        *)
(* dropped or timed out, or the queue fails its job, after LatePolls tries *)
(* past the deadline or one stall too many.                                *)
MonitoringEnds ==
    \A w \in W :
        (outbox[w] = "published") ~> (outbox[w] = "completed" \/ watch[w].st = "failed")
==============================================================================
