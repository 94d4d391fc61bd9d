---------------------- MODULE WithdrawalExecution_proofs ----------------------
(***************************************************************************)
(* Theorems about WithdrawalExecution, for every set of withdrawals,       *)
(* commands and workers and every bound.                                   *)
(*                                                                         *)
(* The invariant speaks of the rows of one withdrawal (RowInv) and of the  *)
(* job of one worker (JobInv).  What a job knows of the rows is never      *)
(* taken back by a step of another (Kept), so each action is looked at for *)
(* the withdrawal it writes and for the worker that takes it.              *)
(***************************************************************************)
EXTENDS WithdrawalExecution, SumTheorems, SequenceTheorems, TLAPS

Sent == {"broadcasted", "confirming", "completed"}
Signing == {"broadcasting", "failed", "timeout"} \cup Sent
Reserving == {"compliance_review", "approved", "building_transaction", "broadcasting",
              "broadcasted", "confirming", "failed", "timeout"}
OpenRow == {"pending", "published", "dead_letter"}
Answered == Accepted \cup {"reconciled_absent"}

HasJob(w) == watch[w].st # "none"

(* One intent, one transaction: building with its withdrawal, prepared     *)
(* with its bytes, and no other transaction than these bytes anywhere.     *)
SigningInv(w) ==
    /\ (intent[w].st = "building") <=> (state[w] = "building_transaction")
    /\ (intent[w].st = "prepared") <=> (signed[w] # 0)
    /\ signed[w] # 0 => state[w] \in Signing
    /\ state[w] \in {"broadcasting"} \cup Sent => signed[w] # 0
    /\ \A g \in Gens : chain[w][g] # "unseen" => signed[w] = g
    /\ state[w] \in Sent => chain[w][signed[w]] # "unseen"

(* The funds of a withdrawal that may still be paid are on hold.           *)
FundsInv(w) ==
    /\ state[w] \in Reserving => ledger[w] = {"hold"} /\ reserved[w]
    /\ state[w] = "none" => ledger[w] = {}

(* Only the last attempt may be unanswered, and then the withdrawal is     *)
(* broadcasting; it is not broadcasting after a refusal.                   *)
AttemptsInv(w) ==
    /\ Len(attempts[w]) <= MaxAttempts
    /\ attempts[w] # <<>> => signed[w] # 0
    /\ \A i \in 1..Len(attempts[w]) : i < Len(attempts[w]) => attempts[w][i] \in Answered
    /\ attempts[w] # <<>> /\ attempts[w][Len(attempts[w])] \in ActiveAttempt =>
         state[w] = "broadcasting"
    /\ attempts[w] # <<>> /\ state[w] = "broadcasting" =>
         attempts[w][Len(attempts[w])] \notin Refused

(* The outbox has a row once the broadcast is known, and a job needs a row.*)
OutboxInv(w) ==
    /\ outbox[w] \in OpenRow => state[w] \in {"broadcasted", "confirming"}
    /\ state[w] \in Sent => outbox[w] # "none"
    /\ \A i \in 1..Len(attempts[w]) : attempts[w][i] \in Accepted => outbox[w] # "none"
    /\ outbox[w] = "published" => HasJob(w)
    /\ HasJob(w) => outbox[w] # "none"

RowInv(w) == SigningInv(w) /\ FundsInv(w) /\ AttemptsInv(w) /\ OutboxInv(w)

Watched(w) == outbox[w] # "none" /\ (outbox[w] \in OpenRow => HasJob(w))

(* What a worker knows between its steps.                                  *)
JobInv(k) ==
    LET j == worker[k] IN
    /\ j.pc = "build" => j.gen \in Gens
    /\ j.pc \in {"rpc", "accept", "refuse"} => j.gen = signed[j.w] /\ signed[j.w] # 0
    /\ j.pc \in {"rpc", "accept", "refuse", "expire", "observe", "resolve"} =>
         j.att \in 1..Len(attempts[j.w])
    /\ j.pc = "rpc" => j.tries < RpcTries
    /\ j.pc # "rpc" => j.tries = 0
    /\ j.pc \in {"observe", "poll", "settle"} => signed[j.w] # 0
    /\ j.pc \in {"accept", "settle"} \/ (j.pc = "resolve" /\ j.seen = "present") =>
         signed[j.w] # 0 /\ chain[j.w][signed[j.w]] # "unseen"
    /\ j.pc = "settle" => chain[j.w][signed[j.w]] = "success"
    /\ j.pc = "accept" => j.seen \in {"accepted", "already_known"}
    /\ j.pc = "refuse" => j.seen \in {"rejected", "ambiguous"}
    /\ j.pc \in {"publish", "mark", "unpublish", "load", "poll", "settle", "outcome"} =>
         outbox[j.w] # "none"
    /\ j.pc = "mark" => Watched(j.w)
    /\ j.pc = "done" => outbox[j.w] = "completed"

IInv ==
    /\ TypeOK
    /\ \A w \in W : RowInv(w)
    /\ \A k \in Worker : JobInv(k)

(* What no step takes back.                                                *)
Kept(w) ==
    /\ signed[w] # 0 => signed'[w] = signed[w]
    /\ \A g \in Gens : chain[w][g] # "unseen" => chain'[w][g] # "unseen"
    /\ \A g \in Gens : chain[w][g] = "success" => chain'[w][g] = "success"
    /\ Len(attempts[w]) <= Len(attempts'[w])
    /\ outbox[w] # "none" => outbox'[w] # "none"
    /\ outbox[w] = "completed" => outbox'[w] = "completed"
    /\ Watched(w) => Watched(w)'

(* The rows of a withdrawal that a step leaves alone.                      *)
Same(w) ==
    /\ state'[w] = state[w] /\ reserved'[w] = reserved[w] /\ ledger'[w] = ledger[w]
    /\ signed'[w] = signed[w] /\ intent'[w] = intent[w] /\ attempts'[w] = attempts[w]
    /\ outbox'[w] = outbox[w] /\ watch'[w] = watch[w] /\ chain'[w] = chain[w]

(* No job but that of worker k changes, and it stays in its types.         *)
Goes(k) ==
    /\ worker' \in [Worker -> WorkerStates]
    /\ \A q \in Worker \ {k} : worker'[q] = worker[q]

PromiseStep == [Promise!Next]_(Promise!promiseVars)
-----------------------------------------------------------------------------
LEMMA NoJobTyped ==
    /\ NoJob \in WorkerStates
    /\ NoJob.pc = "idle" /\ NoJob.tries = 0 /\ NoJob.gen = 0 /\ NoJob.att = 0
<1>1. (CHOOSE w \in W : TRUE) \in W
  BY ExecutionAssumption
<1> QED BY <1>1, ExecutionAssumption DEF NoJob, WorkerStates, Steps, Seen

LEMMA InitHolds == Init => IInv
<1> SUFFICES ASSUME Init PROVE IInv
  OBVIOUS
<1>1. RequestTypeOK
  BY RequestAssumption DEF Init, RequestInit, RequestTypeOK, WithdrawalStates
<1>2. \A w \in W : attempts[w] = <<>> /\ <<>> \in Seq(AttemptStates)
  BY DEF Init
<1>3. TypeOK
  BY <1>1, <1>2, NoJobTyped, ExecutionAssumption DEF Init, TypeOK, NoWatch, WatchStates
<1>4. ASSUME NEW w \in W PROVE RowInv(w)
  <2>1. /\ state[w] = "none" /\ ledger[w] = {} /\ signed[w] = 0 /\ intent[w].st = "none"
        /\ attempts[w] = <<>> /\ outbox[w] = "none" /\ \A g \in Gens : chain[w][g] = "unseen"
        /\ ~HasJob(w)
    BY DEF Init, RequestInit, HasJob, NoWatch
  <2>2. Len(attempts[w]) = 0
    BY <2>1
  <2> QED BY <2>1, <2>2, ExecutionAssumption
          DEF RowInv, SigningInv, FundsInv, AttemptsInv, OutboxInv, HasJob, Sent,
              Signing, Reserving, OpenRow
<1>5. ASSUME NEW k \in Worker PROVE JobInv(k)
  <2>1. worker[k] = NoJob
    BY DEF Init
  <2> QED BY <2>1, NoJobTyped DEF JobInv
<1> QED BY <1>3, <1>4, <1>5 DEF IInv

(* A step that writes the rows of at most one withdrawal.                  *)
LEMMA RowStep ==
    ASSUME IInv, TypeOK', NEW w \in W, \A v \in W \ {w} : Same(v),
           RowInv(w)', Kept(w),
           \A k \in Worker : worker'[k] = worker[k] \/ JobInv(k)'
    PROVE  IInv'
<1>1. ASSUME NEW v \in W \ {w} PROVE RowInv(v)'
  BY <1>1 DEF IInv, RowInv, SigningInv, FundsInv, AttemptsInv, OutboxInv, HasJob, Same
<1>2. ASSUME NEW v \in W PROVE Kept(v)
  <2>1. CASE v # w
    <3>1. Same(v)
      BY <2>1
    <3>2. attempts[v] \in Seq(AttemptStates) /\ Len(attempts[v]) \in Nat
      BY LenProperties DEF IInv, TypeOK
    <3> QED BY <3>1, <3>2 DEF Same, Kept, Watched, HasJob
  <2> QED BY <2>1
<1>3. ASSUME NEW k \in Worker PROVE JobInv(k)'
  <2>1. CASE worker'[k] = worker[k]
    <3> DEFINE j == worker[k]
    <3>1. j \in WorkerStates /\ JobInv(k) /\ j.w \in W
      BY DEF IInv, TypeOK, WorkerStates
    <3>2. Kept(j.w)
      BY <1>2, <3>1
    <3>3. /\ signed[j.w] \in 0..MaxGens
          /\ Len(attempts[j.w]) \in Nat /\ Len(attempts'[j.w]) \in Nat
      BY <3>1, LenProperties DEF IInv, TypeOK
    <3>4. signed[j.w] # 0 => signed[j.w] \in Gens
      BY <3>3, ExecutionAssumption DEF Gens
    <3> QED BY <2>1, <3>1, <3>2, <3>3, <3>4 DEF JobInv, Kept
  <2> QED BY <2>1
<1> QED BY <1>1, <1>3 DEF IInv

(* What the promise sees: the ledger, whether a row is there, the network. *)
LEMMA PromiseUnseen ==
    ASSUME \A v \in W : /\ ledger'[v] = ledger[v]
                        /\ (state'[v] = "none") <=> (state[v] = "none"),
           chain' = chain
    PROVE  PromiseStep
<1>1. \A v \in W : Fate(v)' = Fate(v)
  BY DEF Fate
<1> QED BY <1>1 DEF PromiseStep, Promise!promiseVars

(* A step of a worker that writes no row.                                  *)
LEMMA QuietStep ==
    ASSUME IInv, NEW k \in Worker, UNCHANGED <<requestVars, rows, watch, chain>>,
           Goes(k), JobInv(k)'
    PROVE  IInv' /\ PromiseStep
<1>1. TypeOK'
  BY DEF IInv, TypeOK, RequestTypeOK, Goes, requestVars, rows
<1>2. \A v \in W : RowInv(v)' /\ Same(v) /\ Kept(v)
  <2>1. \A v \in W : Len(attempts[v]) \in Nat
    BY LenProperties DEF IInv, TypeOK
  <2> QED BY <2>1 DEF IInv, RowInv, SigningInv, FundsInv, AttemptsInv, OutboxInv, HasJob, Same,
                    Kept, Watched,
             requestVars, rows
<1>3. \A q \in Worker : worker'[q] = worker[q] \/ JobInv(q)'
  BY DEF Goes
<1>4. PICK w \in W : TRUE
  BY ExecutionAssumption
<1>5. IInv'
  BY <1>1, <1>2, <1>3, <1>4, RowStep
<1> QED BY <1>5, PromiseUnseen DEF requestVars, rows
-----------------------------------------------------------------------------
(* The job of a worker in the state before a step, in its types.           *)
LEMMA JobTyped ==
    ASSUME IInv, NEW k \in Worker
    PROVE  /\ worker[k] \in WorkerStates /\ worker[k].w \in W /\ JobInv(k)
           /\ RowInv(worker[k].w)
           /\ worker[k].att \in 0..MaxAttempts /\ worker[k].gen \in 0..MaxGens
           /\ worker[k].tries \in 0..RpcTries /\ worker[k].seen \in Seen
           /\ worker[k].job \in {"exec", "confirm", "stale"}
BY DEF IInv, TypeOK, WorkerStates

LEMMA RowTyped ==
    ASSUME IInv, NEW w \in W
    PROVE  /\ attempts[w] \in Seq(AttemptStates) /\ Len(attempts[w]) \in 0..MaxAttempts
           /\ attempts[w] # <<>> => Len(attempts[w]) \in 1..Len(attempts[w])
           /\ attempts[w] = <<>> => Len(attempts[w]) = 0
           /\ signed[w] \in 0..MaxGens /\ (signed[w] # 0 => signed[w] \in Gens)
           /\ state[w] \in WithdrawalStates /\ RowInv(w)
           /\ outbox[w] \in {"none", "pending", "published", "dead_letter", "completed"}
           /\ intent[w] \in [gen : 0..MaxGens, st : {"none", "building", "prepared", "failed"}]
           /\ chain[w] \in [Gens -> {"unseen", "pending", "reverted", "success"}]
<1>1. attempts[w] \in Seq(AttemptStates)
  BY DEF IInv, TypeOK
<1>2. Len(attempts[w]) \in Nat /\ (attempts[w] = <<>> <=> Len(attempts[w]) = 0)
  BY <1>1, LenProperties, EmptySeq
<1>3. Len(attempts[w]) <= MaxAttempts
  BY DEF IInv, RowInv, AttemptsInv
<1> QED BY <1>1, <1>2, <1>3, ExecutionAssumption DEF IInv, TypeOK, RequestTypeOK, Gens

(* A row of a withdrawal that is not monitored any more is completed.      *)
LEMMA Closed ==
    ASSUME IInv, NEW w \in W, outbox[w] # "none", state[w] \notin {"broadcasted", "confirming"}
    PROVE  outbox[w] = "completed"
BY RowTyped DEF RowInv, OutboxInv, OpenRow

(* The three ways a job goes on.                                           *)
LEMMA Ended ==
    ASSUME IInv, NEW k \in Worker, EndJob(k)
    PROVE  Goes(k) /\ JobInv(k)'
<1>1. Goes(k) /\ worker'[k] = NoJob
  BY NoJobTyped DEF IInv, TypeOK, EndJob, Goes
<1> QED BY <1>1, NoJobTyped DEF JobInv

LEMMA Gone ==
    ASSUME IInv, NEW k \in Worker, NEW p \in Steps, GoTo(k, p)
    PROVE  /\ Goes(k) /\ worker'[k].pc = p
           /\ worker'[k].w = worker[k].w /\ worker'[k].gen = worker[k].gen
           /\ worker'[k].att = worker[k].att /\ worker'[k].tries = worker[k].tries
           /\ worker'[k].seen = worker[k].seen
BY DEF IInv, TypeOK, GoTo, Goes, WorkerStates

LEMMA Becomes ==
    ASSUME IInv, NEW k \in Worker, NEW j \in WorkerStates,
           worker' = [worker EXCEPT ![k] = j]
    PROVE  Goes(k) /\ worker'[k] = j
BY DEF IInv, TypeOK, Goes

LEMMA DeliverKeeps ==
    ASSUME IInv, NEW k \in Worker, NEW w \in W, Deliver(k, w)
    PROVE  IInv' /\ PromiseStep
<1> DEFINE j == [NoJob EXCEPT !.pc = "recover", !.w = w]
<1>1. worker' = [worker EXCEPT ![k] = j] /\ UNCHANGED <<requestVars, rows, watch, chain>>
  BY DEF Deliver
<1>2. j \in WorkerStates /\ j.pc = "recover" /\ j.tries = 0
  BY NoJobTyped DEF WorkerStates, Steps
<1> HIDE DEF j
<1>3. Goes(k) /\ worker'[k] = j
  BY <1>1, <1>2, Becomes
<1>4. JobInv(k)'
  BY <1>2, <1>3 DEF JobInv
<1> QED BY <1>1, <1>3, <1>4, QuietStep

(* What the queue does to its jobs.  A job needs a row, and an open row is *)
(* not left without the job it has.                                        *)
LEMMA WatchStep ==
    ASSUME IInv, NEW w \in W, NEW q \in WatchStates, watch' = [watch EXCEPT ![w] = q],
           q.st # "none" => outbox[w] # "none",
           outbox[w] \in OpenRow /\ HasJob(w) => q.st # "none",
           UNCHANGED <<requestVars, rows, chain>>,
           worker' \in [Worker -> WorkerStates],
           \A k \in Worker : worker'[k] = worker[k] \/ JobInv(k)'
    PROVE  IInv' /\ PromiseStep
<1>1. RowInv(w) /\ Len(attempts[w]) \in 0..MaxAttempts
  BY RowTyped
<1>2. /\ watch' \in [W -> WatchStates] /\ watch'[w] = q
      /\ \A v \in W \ {w} : watch'[v] = watch[v]
  BY DEF IInv, TypeOK
<1>3. TypeOK'
  BY <1>2 DEF IInv, TypeOK, RequestTypeOK, requestVars, rows
<1>4. outbox[w] = "published" => q.st # "none"
  BY <1>1 DEF RowInv, OutboxInv, OpenRow
<1>5. SigningInv(w)' /\ FundsInv(w)' /\ AttemptsInv(w)'
  BY <1>1 DEF RowInv, SigningInv, FundsInv, AttemptsInv, requestVars, rows
<1>6. OutboxInv(w)'
  BY <1>1, <1>2, <1>4 DEF RowInv, OutboxInv, HasJob, requestVars, rows
<1>7. Kept(w)
  BY <1>1, <1>2 DEF Kept, Watched, HasJob, requestVars, rows
<1>8. \A v \in W \ {w} : Same(v)
  BY <1>2 DEF Same, requestVars, rows
<1>9. IInv'
  BY <1>3, <1>5, <1>6, <1>7, <1>8, RowStep DEF RowInv
<1> QED BY <1>9, PromiseUnseen DEF requestVars, rows

LEMMA WatchTyped ==
    ASSUME IInv, NEW w \in W
    PROVE  /\ watch[w] \in WatchStates /\ watch[w].st \in {"none", "waiting", "active", "failed"}
           /\ watch[w].late \in BOOLEAN
           /\ watch[w].left \in 0..LatePolls /\ watch[w].stalls \in 0..MaxStalls
           /\ HasJob(w) => outbox[w] # "none"
BY DEF IInv, TypeOK, WatchStates, RowInv, OutboxInv

LEMMA DeliverWatchKeeps ==
    ASSUME IInv, NEW k \in Worker, NEW w \in W, DeliverWatch(k, w)
    PROVE  IInv' /\ PromiseStep
<1> DEFINE j == [NoJob EXCEPT !.pc = "publish", !.job = "confirm", !.w = w]
           q == [watch[w] EXCEPT !.st = "active"]
<1>1. /\ worker' = [worker EXCEPT ![k] = j] /\ watch' = [watch EXCEPT ![w] = q]
      /\ UNCHANGED <<requestVars, rows, chain>>
  BY DEF DeliverWatch
<1>2. j \in WorkerStates /\ j.pc = "publish" /\ j.tries = 0 /\ j.w = w
  BY NoJobTyped DEF WorkerStates, Steps
<1>3. q \in WatchStates /\ q.st = "active" /\ outbox[w] # "none"
  BY WatchTyped DEF WatchStates, DeliverWatch, HasJob
<1> HIDE DEF j, q
<1>4. Goes(k) /\ worker'[k] = j
  BY <1>1, <1>2, Becomes
<1>5. JobInv(k)'
  BY <1>1, <1>2, <1>3, <1>4 DEF JobInv, rows
<1> QED BY <1>1, <1>3, <1>4, <1>5, WatchStep DEF Goes

(* What a job tells the queue when its worker leaves it.                   *)
LEMMA Leaves ==
    ASSUME IInv, NEW k \in Worker, EndJob(k), NEW q \in WatchStates, Tell(k, q),
           q.st # "none" \/ outbox[worker[k].w] = "completed",
           UNCHANGED <<requestVars, rows, chain>>
    PROVE  IInv' /\ PromiseStep
<1>1. Goes(k) /\ JobInv(k)' /\ worker[k].w \in W
  BY Ended, JobTyped
<1>2. CASE worker[k].job = "confirm" /\ watch[worker[k].w].st = "active"
  <2>1. watch' = [watch EXCEPT ![worker[k].w] = q]
    BY <1>2 DEF Tell
  <2>2. outbox[worker[k].w] # "none"
    BY <1>1, <1>2, WatchTyped DEF HasJob
  <2> QED BY <1>1, <2>1, <2>2, WatchStep DEF Goes, OpenRow
<1>3. CASE ~(worker[k].job = "confirm" /\ watch[worker[k].w].st = "active")
  BY <1>1, <1>3, QuietStep DEF Tell
<1> QED BY <1>2, <1>3

LEMMA JobDoneKeeps ==
    ASSUME IInv, NEW k \in Worker, JobDone(k)
    PROVE  IInv' /\ PromiseStep
<1> DEFINE q == Over(watch[worker[k].w], "none")
<1>1. worker[k].w \in W /\ outbox[worker[k].w] = "completed"
  BY JobTyped DEF JobDone, At, JobInv
<1>2. q \in WatchStates /\ q.st = "none"
  BY <1>1, WatchTyped, ExecutionAssumption DEF Over, WatchStates
<1>3. EndJob(k) /\ Tell(k, q) /\ UNCHANGED <<requestVars, rows, chain>>
  BY DEF JobDone
<1> HIDE DEF q
<1> QED BY <1>1, <1>2, <1>3, Leaves

(* A job that throws or stalls is there still, waiting or failed.          *)
LEMMA TriedAgain ==
    ASSUME IInv, NEW w \in W
    PROVE  /\ Thrown(watch[w]) \in WatchStates /\ Thrown(watch[w]).st # "none"
           /\ Stalled(watch[w]) \in WatchStates /\ Stalled(watch[w]).st # "none"
<1>1. /\ watch[w] \in WatchStates /\ watch[w].late \in BOOLEAN
      /\ watch[w].left \in 0..LatePolls /\ watch[w].stalls \in 0..MaxStalls
  BY WatchTyped
<1>2. Over(watch[w], "failed") \in WatchStates /\ Over(watch[w], "failed").st = "failed"
  BY <1>1, ExecutionAssumption DEF Over, WatchStates
<1>3. Thrown(watch[w]) \in WatchStates /\ Thrown(watch[w]).st # "none"
  <2>1. CASE ~watch[w].late
    BY <1>1, <2>1 DEF Thrown, WatchStates
  <2>2. CASE watch[w].late /\ watch[w].left <= 1
    BY <1>2, <2>2 DEF Thrown
  <2>3. CASE watch[w].late /\ ~(watch[w].left <= 1)
    <3>1. watch[w].left - 1 \in 0..LatePolls
      BY <1>1, <2>3, ExecutionAssumption
    <3>2. Thrown(watch[w]) = [watch[w] EXCEPT !.st = "waiting", !.left = @ - 1]
      BY <2>3 DEF Thrown
    <3> QED BY <1>1, <3>1, <3>2 DEF WatchStates
  <2> QED BY <2>1, <2>2, <2>3
<1>4. Stalled(watch[w]) \in WatchStates /\ Stalled(watch[w]).st # "none"
  <2>1. CASE watch[w].stalls = MaxStalls
    BY <1>2, <2>1 DEF Stalled
  <2>2. CASE watch[w].stalls # MaxStalls
    <3>1. watch[w].stalls + 1 \in 0..MaxStalls
      BY <1>1, <2>2, ExecutionAssumption
    <3>2. Stalled(watch[w]) = [watch[w] EXCEPT !.st = "waiting", !.stalls = @ + 1]
      BY <2>2 DEF Stalled
    <3> QED BY <1>1, <3>1, <3>2 DEF WatchStates
  <2> QED BY <2>1, <2>2
<1> QED BY <1>3, <1>4

LEMMA JobThrowsKeeps ==
    ASSUME IInv, NEW k \in Worker, JobThrows(k)
    PROVE  IInv' /\ PromiseStep
<1> DEFINE q == Thrown(watch[worker[k].w])
<1>1. worker[k].w \in W
  BY JobTyped
<1>2. q \in WatchStates /\ q.st # "none"
  BY <1>1, TriedAgain
<1>3. EndJob(k) /\ Tell(k, q) /\ UNCHANGED <<requestVars, rows, chain>>
  BY DEF JobThrows
<1> HIDE DEF q
<1> QED BY <1>2, <1>3, Leaves

LEMMA CrashKeeps ==
    ASSUME IInv, NEW k \in Worker, Crash(k)
    PROVE  IInv' /\ PromiseStep
<1> DEFINE q == Stalled(watch[worker[k].w])
<1>1. worker[k].w \in W
  BY JobTyped
<1>2. q \in WatchStates /\ q.st # "none"
  BY <1>1, TriedAgain
<1>3. EndJob(k) /\ Tell(k, q) /\ UNCHANGED <<requestVars, rows, chain>>
  BY DEF Crash
<1> HIDE DEF q
<1> QED BY <1>2, <1>3, Leaves

LEMMA LosesLockKeeps ==
    ASSUME IInv, NEW k \in Worker, LosesLock(k)
    PROVE  IInv' /\ PromiseStep
<1> DEFINE q == Stalled(watch[worker[k].w])
           j == [worker[k] EXCEPT !.job = "stale"]
<1>1. worker[k].w \in W /\ worker[k] \in WorkerStates /\ JobInv(k)
  BY JobTyped
<1>2. q \in WatchStates /\ q.st # "none"
  BY <1>1, TriedAgain
<1>3. /\ worker' = [worker EXCEPT ![k] = j] /\ Tell(k, q)
      /\ UNCHANGED <<requestVars, rows, chain>>
  BY DEF LosesLock
<1>4. /\ j \in WorkerStates /\ j.pc = worker[k].pc /\ j.w = worker[k].w
      /\ j.gen = worker[k].gen /\ j.att = worker[k].att /\ j.tries = worker[k].tries
      /\ j.seen = worker[k].seen
  BY <1>1 DEF WorkerStates
<1> HIDE DEF q, j
<1>5. Goes(k) /\ worker'[k] = j
  BY <1>3, <1>4, Becomes
<1>6. ASSUME NEW w \in W, w = worker[k].w, Watched(w) PROVE Watched(w)'
  <2>1. watch'[w] \in {watch[w], q}
    BY <1>3, <1>6 DEF Tell, IInv, TypeOK
  <2> QED BY <1>2, <1>3, <1>6, <2>1 DEF Watched, HasJob, rows
<1>7. JobInv(k)'
  BY <1>1, <1>3, <1>4, <1>5, <1>6 DEF JobInv, rows
<1>8. CASE worker[k].job = "confirm" /\ watch[worker[k].w].st = "active"
  <2>1. watch' = [watch EXCEPT ![worker[k].w] = q] /\ outbox[worker[k].w] # "none"
    BY <1>1, <1>3, <1>8, WatchTyped DEF Tell, HasJob
  <2> QED BY <1>1, <1>2, <1>3, <1>5, <1>7, <2>1, WatchStep DEF Goes
<1>9. CASE ~(worker[k].job = "confirm" /\ watch[worker[k].w].st = "active")
  BY <1>3, <1>5, <1>7, <1>9, QuietStep DEF Tell
<1> QED BY <1>8, <1>9

LEMMA DeadlineKeeps ==
    ASSUME IInv, NEW w \in W, DeadlinePasses(w)
    PROVE  IInv' /\ PromiseStep
<1> DEFINE q == [watch[w] EXCEPT !.late = TRUE]
<1>1. /\ watch' = [watch EXCEPT ![w] = q] /\ UNCHANGED <<requestVars, rows, chain, worker>>
      /\ HasJob(w)
  BY DEF DeadlinePasses, HasJob
<1>2. q \in WatchStates /\ q.st # "none" /\ outbox[w] # "none"
  BY <1>1, WatchTyped DEF WatchStates, HasJob
<1> HIDE DEF q
<1>3. worker' \in [Worker -> WorkerStates]
  BY <1>1 DEF IInv, TypeOK
<1> QED BY <1>1, <1>2, <1>3, WatchStep

LEMMA RecoverReadKeeps ==
    ASSUME IInv, NEW k \in Worker, RecoverRead(k)
    PROVE  IInv' /\ PromiseStep
<1> DEFINE w == worker[k].w
<1>1. w \in W /\ worker[k] \in WorkerStates /\ worker[k].pc = "recover" /\ worker[k].tries = 0
  BY JobTyped DEF RecoverRead, At, JobInv
<1>2. UNCHANGED <<requestVars, rows, watch, chain>>
  BY DEF RecoverRead
<1>3. CASE LastAttempt(w) # "calling"
  <2>1. GoTo(k, "claim")
    BY <1>3 DEF RecoverRead
  <2>2. Goes(k) /\ JobInv(k)'
    BY <1>1, <2>1, Gone DEF JobInv, Steps
  <2> QED BY <1>2, <2>2, QuietStep
<1>4. CASE LastAttempt(w) = "calling" /\ leaseDue[w]
  <2> DEFINE j == [worker[k] EXCEPT !.pc = "expire", !.att = Len(attempts[w]),
                                     !.seen = "ambiguous"]
  <2>1. Len(attempts[w]) \in 1..Len(attempts[w]) /\ Len(attempts[w]) \in 0..MaxAttempts
    BY <1>1, <1>4, RowTyped DEF LastAttempt
  <2>2. /\ j \in WorkerStates /\ j.pc = "expire" /\ j.tries = 0 /\ j.w = w
        /\ j.att = Len(attempts[w])
    BY <1>1, <2>1 DEF WorkerStates, Steps, Seen
  <2>3. worker' = [worker EXCEPT ![k] = j]
    BY <1>4 DEF RecoverRead
  <2> HIDE DEF j
  <2>4. Goes(k) /\ worker'[k] = j
    BY <2>2, <2>3, Becomes
  <2>5. JobInv(k)'
    BY <1>2, <2>1, <2>2, <2>4 DEF JobInv, rows
  <2> QED BY <1>2, <2>4, <2>5, QuietStep
<1>5. CASE LastAttempt(w) = "calling" /\ ~leaseDue[w]
  BY <1>2, <1>5, Ended, QuietStep DEF RecoverRead
<1> QED BY <1>3, <1>4, <1>5

(* A step that only moves a job to a place where nothing more is known.    *)
LEMMA GoneKeeps ==
    ASSUME IInv, NEW k \in Worker, NEW p \in {"claim", "publish", "failprep", "throw"},
           GoTo(k, p), p = "publish" => outbox[worker[k].w] # "none", worker[k].tries = 0,
           UNCHANGED <<requestVars, rows, watch, chain>>
    PROVE  IInv' /\ PromiseStep
<1>1. Goes(k) /\ JobInv(k)'
  BY Gone DEF JobInv, Steps, rows
<1> QED BY <1>1, QuietStep

LEMMA ClaimQuietKeeps ==
    ASSUME IInv, NEW k \in Worker, ClaimNothing(k) \/ ClaimConfirm(k) \/ ClaimReconcile(k)
    PROVE  IInv' /\ PromiseStep
<1>1. CASE ClaimNothing(k)
  BY <1>1, Ended, QuietStep DEF ClaimNothing
<1>2. CASE ClaimConfirm(k)
  <2>1. worker[k].tries = 0 /\ outbox[worker[k].w] # "none"
    BY <1>2, JobTyped DEF ClaimConfirm, ToConfirm, At, JobInv, RowInv, OutboxInv, Sent
  <2> QED BY <1>2, <2>1, GoneKeeps DEF ClaimConfirm
<1>3. CASE ClaimReconcile(k)
  <2> DEFINE w == worker[k].w
             j == [worker[k] EXCEPT !.pc = "observe", !.att = Len(attempts[w])]
  <2>1. w \in W /\ worker[k] \in WorkerStates /\ worker[k].tries = 0
    BY <1>3, JobTyped DEF ClaimReconcile, At, JobInv
  <2>2. attempts[w] # <<>>
    BY <1>3 DEF ClaimReconcile, ToReconcile, LastAttempt
  <2>3. /\ Len(attempts[w]) \in 1..Len(attempts[w]) /\ Len(attempts[w]) \in 0..MaxAttempts
        /\ signed[w] # 0
    BY <2>1, <2>2, RowTyped DEF RowInv, AttemptsInv
  <2>4. /\ j \in WorkerStates /\ j.pc = "observe" /\ j.tries = 0 /\ j.w = w
        /\ j.att = Len(attempts[w])
    BY <2>1, <2>3 DEF WorkerStates, Steps
  <2>5. /\ worker' = [worker EXCEPT ![k] = j]
        /\ UNCHANGED <<requestVars, rows, watch, chain>>
    BY <1>3 DEF ClaimReconcile
  <2> HIDE DEF j
  <2>6. Goes(k) /\ worker'[k] = j
    BY <2>4, <2>5, Becomes
  <2>7. JobInv(k)'
    BY <2>3, <2>4, <2>5, <2>6 DEF JobInv, rows
  <2> QED BY <2>5, <2>6, <2>7, QuietStep
<1> QED BY <1>1, <1>2, <1>3

LEMMA BuildFailsKeeps ==
    ASSUME IInv, NEW k \in Worker, BuildFails(k)
    PROVE  IInv' /\ PromiseStep
<1>1. worker[k].tries = 0
  BY JobTyped DEF BuildFails, At, JobInv
<1> QED BY <1>1, GoneKeeps DEF BuildFails

LEMMA AcceptFailsKeeps ==
    ASSUME IInv, NEW k \in Worker, AcceptFails(k)
    PROVE  IInv' /\ PromiseStep
<1> DEFINE j == [worker[k] EXCEPT !.pc = "refuse", !.seen = "ambiguous"]
<1>1. /\ worker[k] \in WorkerStates /\ JobInv(k) /\ worker[k].pc = "accept"
      /\ worker' = [worker EXCEPT ![k] = j]
      /\ UNCHANGED <<requestVars, rows, watch, chain>>
  BY JobTyped DEF AcceptFails, At
<1>2. /\ j \in WorkerStates /\ j.pc = "refuse" /\ j.seen = "ambiguous" /\ j.w = worker[k].w
      /\ j.gen = worker[k].gen /\ j.att = worker[k].att /\ j.tries = worker[k].tries
  BY <1>1 DEF WorkerStates, Steps, Seen
<1> HIDE DEF j
<1>3. Goes(k) /\ worker'[k] = j
  BY <1>1, <1>2, Becomes
<1>4. JobInv(k)'
  BY <1>1, <1>2, <1>3 DEF JobInv, rows
<1> QED BY <1>1, <1>3, <1>4, QuietStep

(* A provider that knows the transaction tells that it was sent.           *)
LEMMA ObserveKeeps ==
    ASSUME IInv, NEW k \in Worker, Observe(k)
    PROVE  IInv' /\ PromiseStep
<1> DEFINE w == worker[k].w
<1>1. /\ w \in W /\ worker[k] \in WorkerStates /\ JobInv(k) /\ worker[k].pc = "observe"
      /\ worker[k].tries = 0 /\ signed[w] # 0 /\ worker[k].att \in 1..Len(attempts[w])
  BY JobTyped DEF Observe, At, JobInv
<1>2. UNCHANGED <<requestVars, rows, watch, chain>>
  BY DEF Observe
<1>3. PICK o \in Observations(chain[w][signed[w]]) :
        IF o = "unknown"
          THEN EndJob(k)
          ELSE worker' = [worker EXCEPT ![k].pc = "resolve", ![k].seen = o]
  BY DEF Observe
<1>4. CASE o = "unknown"
  BY <1>2, <1>3, <1>4, Ended, QuietStep
<1>5. CASE o # "unknown"
  <2> DEFINE j == [worker[k] EXCEPT !.pc = "resolve", !.seen = o]
  <2>1. o \in {"present", "absent"} /\ chain[w][signed[w]] # "unseen"
    BY <1>3, <1>5 DEF Observations
  <2>2. /\ j \in WorkerStates /\ j.pc = "resolve" /\ j.seen = o /\ j.w = w
        /\ j.att = worker[k].att /\ j.tries = worker[k].tries
    BY <1>1, <2>1 DEF WorkerStates, Steps, Seen
  <2>3. worker' = [worker EXCEPT ![k] = j]
    BY <1>3, <1>5
  <2> HIDE DEF j
  <2>4. Goes(k) /\ worker'[k] = j
    BY <2>2, <2>3, Becomes
  <2>5. JobInv(k)'
    BY <1>1, <1>2, <2>1, <2>2, <2>4 DEF JobInv, rows
  <2> QED BY <1>2, <2>4, <2>5, QuietStep
<1> QED BY <1>4, <1>5

(* A publisher ends its job, or loads the withdrawal it will check.        *)
LEMMA PublishedKeeps ==
    ASSUME IInv, NEW k \in Worker, Published(k), worker[k].tries = 0,
           outbox'[worker[k].w] # "none"
    PROVE  Goes(k) /\ JobInv(k)'
<1>1. CASE EndJob(k)
  BY <1>1, Ended
<1>2. CASE GoTo(k, "load")
  BY <1>2, Gone DEF JobInv, Steps
<1> QED BY <1>1, <1>2 DEF Published

LEMMA PublishQuietKeeps ==
    ASSUME IInv, NEW k \in Worker, PublishNothing(k) \/ PublishFails(k)
    PROVE  IInv' /\ PromiseStep
<1>1. JobInv(k) /\ worker[k].tries = 0
  BY JobTyped DEF PublishNothing, PublishFails, At, JobInv
<1>2. UNCHANGED <<requestVars, rows, watch, chain>>
  BY DEF PublishNothing, PublishFails
<1>3. CASE PublishNothing(k)
  <2>1. outbox'[worker[k].w] # "none"
    BY <1>1, <1>2, <1>3 DEF PublishNothing, At, JobInv, rows
  <2> QED BY <1>1, <1>2, <1>3, <2>1, PublishedKeeps, QuietStep DEF PublishNothing
<1>4. CASE PublishFails(k)
  <2>1. outbox[worker[k].w] # "none"
    BY <1>1, <1>4 DEF PublishFails, At, JobInv
  <2>2. Goes(k) /\ JobInv(k)'
    BY <1>1, <1>2, <1>4, <2>1, Gone DEF PublishFails, JobInv, Steps, rows
  <2> QED BY <1>2, <2>2, QuietStep
<1> QED BY <1>3, <1>4

LEMMA LoadQuietKeeps ==
    ASSUME IInv, NEW k \in Worker,
           LoadDone(k) \/ LoadRefused(k) \/ LoadInTime(k) \/ LoadLate(k) \/ Poll(k)
    PROVE  IInv' /\ PromiseStep
<1> DEFINE w == worker[k].w
<1>1. /\ w \in W /\ worker[k] \in WorkerStates /\ JobInv(k) /\ worker[k].tries = 0
      /\ outbox[w] # "none"
  BY JobTyped DEF LoadDone, LoadRefused, LoadInTime, LoadLate, Poll, At, JobInv
<1>2. UNCHANGED <<requestVars, rows, watch, chain>>
  BY DEF LoadDone, LoadRefused, LoadInTime, LoadLate, Poll
<1>3. CASE GoTo(k, "throw")
  BY <1>1, <1>2, <1>3, GoneKeeps
<1>4. CASE LoadInTime(k)
  <2>1. signed[w] # 0
    BY <1>1, <1>4, RowTyped DEF LoadInTime, RowInv, SigningInv, Sent
  <2>2. Goes(k) /\ JobInv(k)'
    BY <1>1, <1>2, <1>4, <2>1, Gone DEF LoadInTime, JobInv, Steps, rows
  <2> QED BY <1>2, <2>2, QuietStep
<1>5. ASSUME NEW s \in Seen, worker' = [worker EXCEPT ![k].pc = "outcome", ![k].seen = s]
      PROVE  IInv' /\ PromiseStep
  <2> DEFINE j == [worker[k] EXCEPT !.pc = "outcome", !.seen = s]
  <2>1. j \in WorkerStates /\ j.pc = "outcome" /\ j.tries = worker[k].tries /\ j.w = w
    BY <1>1 DEF WorkerStates, Steps
  <2>2. worker' = [worker EXCEPT ![k] = j]
    BY <1>5
  <2> HIDE DEF j
  <2>3. Goes(k) /\ worker'[k] = j
    BY <2>1, <2>2, Becomes
  <2>4. JobInv(k)'
    BY <1>1, <1>2, <2>1, <2>3 DEF JobInv, rows
  <2> QED BY <1>2, <2>3, <2>4, QuietStep
<1>6. ASSUME Poll(k), chain[w][signed[w]] = "success", GoTo(k, "settle")
      PROVE  IInv' /\ PromiseStep
  <2>1. signed[w] # 0
    BY <1>1, <1>6 DEF Poll, At, JobInv
  <2>2. Goes(k) /\ JobInv(k)'
    BY <1>1, <1>2, <1>6, <2>1, Gone DEF JobInv, Steps, rows
  <2> QED BY <1>2, <2>2, QuietStep
<1>7. CASE LoadDone(k)
  <2>1. outbox[w] = "completed"
    BY <1>1, <1>7, Closed DEF LoadDone
  <2>2. Goes(k) /\ JobInv(k)'
    BY <1>1, <1>2, <1>7, <2>1, Gone DEF LoadDone, JobInv, Steps, rows
  <2> QED BY <1>2, <2>2, QuietStep
<1> QED BY <1>3, <1>4, <1>5, <1>6, <1>7 DEF LoadRefused, LoadLate, Poll, Seen
-----------------------------------------------------------------------------
(* A step of worker k that writes the rows of w and is not seen by the     *)
(* promise.                                                                *)
LEMMA WorkerRowStep ==
    ASSUME IInv, TypeOK', NEW k \in Worker, NEW w \in W, Goes(k), JobInv(k)',
           \A v \in W \ {w} : Same(v), RowInv(w)', Kept(w),
           ledger' = ledger, (state'[w] = "none") <=> (state[w] = "none"), chain' = chain
    PROVE  IInv' /\ PromiseStep
<1>1. \A q \in Worker : worker'[q] = worker[q] \/ JobInv(q)'
  BY DEF Goes
<1>2. IInv'
  BY <1>1, RowStep
<1>3. \A v \in W : (state'[v] = "none") <=> (state[v] = "none")
  BY DEF Same
<1> QED BY <1>2, <1>3, PromiseUnseen

(* An open attempt is the last one, and its withdrawal is broadcasting.    *)
LEMMA OpenIsLast ==
    ASSUME IInv, NEW w \in W, NEW n \in 1..Len(attempts[w]), attempts[w][n] \in ActiveAttempt
    PROVE  n = Len(attempts[w]) /\ attempts[w] # <<>> /\ state[w] = "broadcasting"
           /\ signed[w] # 0
<1>1. /\ Len(attempts[w]) \in Nat /\ attempts[w] # <<>> /\ AttemptsInv(w)
  BY RowTyped DEF RowInv
<1>2. attempts[w][n] \notin Answered
  BY DEF ActiveAttempt, Answered, Accepted
<1>3. n = Len(attempts[w])
  BY <1>1, <1>2 DEF AttemptsInv
<1> QED BY <1>1, <1>3 DEF AttemptsInv

LEMMA AttemptWritten ==
    ASSUME IInv, NEW w \in W, NEW n \in 1..Len(attempts[w]), NEW c \in AttemptStates,
           attempts' = [attempts EXCEPT ![w][n] = c]
    PROVE  /\ attempts' \in [W -> Seq(AttemptStates)]
           /\ Len(attempts'[w]) = Len(attempts[w]) /\ attempts'[w] # <<>>
           /\ \A i \in 1..Len(attempts[w]) :
                attempts'[w][i] = IF i = n THEN c ELSE attempts[w][i]
           /\ \A v \in W \ {w} : attempts'[v] = attempts[v]
<1> DEFINE s == attempts[w]
           t == [s EXCEPT ![n] = c]
<1>1. s \in Seq(AttemptStates) /\ attempts \in [W -> Seq(AttemptStates)]
  BY DEF IInv, TypeOK
<1>2. /\ t \in Seq(AttemptStates) /\ Len(t) = Len(s)
      /\ \A i \in 1..Len(s) : t[i] = IF i = n THEN c ELSE s[i]
  BY <1>1, ExceptSeq
<1>3. t # <<>>
  BY <1>2, LenProperties, EmptySeq, <1>1
<1>4. attempts' = [attempts EXCEPT ![w] = t]
  OBVIOUS
<1> HIDE DEF t
<1> QED BY <1>1, <1>2, <1>3, <1>4

(* What a failed call writes, whoever stores it.                           *)
LEMMA FailureRecorded ==
    ASSUME IInv, NEW w \in W, NEW n \in 1..Len(attempts[w]),
           NEW category \in {"ambiguous", "rejected"}, RecordFailure(w, n, category),
           UNCHANGED <<wallet, requestOnly, signed, intent, leaseDue, outbox, watch, chain>>
    PROVE  /\ attempts' \in [W -> Seq(AttemptStates)] /\ state' \in [W -> WithdrawalStates]
           /\ Len(attempts'[w]) = Len(attempts[w])
           /\ \A v \in W \ {w} : Same(v)
           /\ RowInv(w)' /\ Kept(w)
           /\ (state'[w] = "none") <=> (state[w] = "none")
<1>0. /\ attempts \in [W -> Seq(AttemptStates)] /\ state \in [W -> WithdrawalStates]
      /\ RowInv(w) /\ Len(attempts[w]) \in 0..MaxAttempts
  BY RowTyped DEF IInv, TypeOK, RequestTypeOK
<1>1. CASE attempts[w][n] # "calling"
  <2>1. UNCHANGED <<attempts, state>>
    BY <1>1 DEF RecordFailure
  <2> QED BY <1>0, <2>1 DEF Same, Kept, Watched, HasJob, RowInv, SigningInv, FundsInv,
                    AttemptsInv, OutboxInv, HasJob,
                            wallet, requestOnly
<1>2. CASE attempts[w][n] = "calling"
  <2>1. /\ attempts' = [attempts EXCEPT ![w][n] = category]
        /\ state' = IF category # "ambiguous" /\ state[w] = "broadcasting"
                      THEN [state EXCEPT ![w] = "failed"] ELSE state
    BY <1>2 DEF RecordFailure
  <2>2. n = Len(attempts[w]) /\ attempts[w] # <<>> /\ state[w] = "broadcasting" /\ signed[w] # 0
    BY <1>2, OpenIsLast DEF ActiveAttempt
  <2>3. category \in AttemptStates
    BY DEF AttemptStates, ActiveAttempt, Refused
  <2>4. /\ attempts' \in [W -> Seq(AttemptStates)]
        /\ Len(attempts'[w]) = Len(attempts[w]) /\ attempts'[w] # <<>>
        /\ \A i \in 1..Len(attempts[w]) :
             attempts'[w][i] = IF i = n THEN category ELSE attempts[w][i]
        /\ \A v \in W \ {w} : attempts'[v] = attempts[v]
    BY <2>1, <2>3, AttemptWritten
  <2>5. /\ state' \in [W -> WithdrawalStates]
        /\ state'[w] = IF category = "rejected" THEN "failed" ELSE "broadcasting"
        /\ \A v \in W \ {w} : state'[v] = state[v]
    BY <1>0, <2>1, <2>2 DEF WithdrawalStates
  <2>6. \A v \in W \ {w} : Same(v)
    BY <2>4, <2>5 DEF Same, wallet, requestOnly
  <2>7. SigningInv(w)'
    BY <1>0, <2>2, <2>5 DEF RowInv, SigningInv, Signing, Sent
  <2>8. FundsInv(w)' /\ OutboxInv(w)'
    BY <1>0, <2>2, <2>4, <2>5 DEF RowInv, FundsInv, OutboxInv, HasJob, Reserving, OpenRow, Sent,
       Accepted, wallet
  <2>9. AttemptsInv(w)'
    BY <1>0, <2>2, <2>4, <2>5 DEF RowInv, AttemptsInv, ActiveAttempt, Refused
  <2>10. Kept(w)
    BY <1>0, <2>4 DEF Kept, Watched, HasJob
  <2> QED BY <2>2, <2>4, <2>5, <2>6, <2>7, <2>8, <2>9, <2>10 DEF RowInv
<1> QED BY <1>1, <1>2

LEMMA FailureKeeps ==
    ASSUME IInv, NEW k \in Worker, ExpireAttempt(k) \/ FinalizeFailure(k)
    PROVE  IInv' /\ PromiseStep
<1>0. PICK w \in W, n \in 0..MaxAttempts : w = worker[k].w /\ n = worker[k].att
  BY JobTyped
<1>1. /\ worker[k] \in WorkerStates /\ JobInv(k) /\ worker[k].tries = 0
      /\ n \in 1..Len(attempts[w])
  BY <1>0, JobTyped DEF ExpireAttempt, FinalizeFailure, At, JobInv
<1>2. UNCHANGED <<wallet, requestOnly, signed, intent, leaseDue, outbox, watch, chain>>
  BY DEF ExpireAttempt, FinalizeFailure
<1>3. PICK category \in {"ambiguous", "rejected"} : RecordFailure(w, n, category)
  BY <1>0, <1>1 DEF ExpireAttempt, FinalizeFailure, At, JobInv
<1>4. /\ attempts' \in [W -> Seq(AttemptStates)] /\ state' \in [W -> WithdrawalStates]
      /\ \A v \in W \ {w} : Same(v)
      /\ RowInv(w)' /\ Kept(w)
      /\ (state'[w] = "none") <=> (state[w] = "none")
  BY <1>1, <1>2, <1>3, FailureRecorded
<1>5. Goes(k) /\ JobInv(k)'
  <2>1. CASE EndJob(k)
    BY <2>1, Ended
  <2>2. CASE worker' = [worker EXCEPT ![k].pc = "claim", ![k].seen = "none"]
    <3> DEFINE j == [worker[k] EXCEPT !.pc = "claim", !.seen = "none"]
    <3>1. j \in WorkerStates /\ j.pc = "claim" /\ j.tries = 0
      BY <1>1 DEF WorkerStates, Steps, Seen
    <3>2. worker' = [worker EXCEPT ![k] = j]
      BY <2>2
    <3> HIDE DEF j
    <3>3. Goes(k) /\ worker'[k] = j
      BY <3>1, <3>2, Becomes
    <3> QED BY <3>1, <3>3 DEF JobInv
  <2> QED BY <1>0, <2>1, <2>2 DEF ExpireAttempt, FinalizeFailure
<1>6. TypeOK'
  BY <1>2, <1>4, <1>5 DEF IInv, TypeOK, RequestTypeOK, Goes, wallet, requestOnly
<1> QED BY <1>1, <1>2, <1>4, <1>5, <1>6, WorkerRowStep DEF wallet

LEMMA ClaimResumeKeeps ==
    ASSUME IInv, NEW k \in Worker, ClaimResume(k)
    PROVE  IInv' /\ PromiseStep
<1>0. PICK w \in W : w = worker[k].w
  BY JobTyped
<1>1. /\ worker[k].tries = 0 /\ RowInv(w) /\ Len(attempts[w]) \in 0..MaxAttempts
      /\ attempts[w] # <<>> => Len(attempts[w]) \in 1..Len(attempts[w])
  BY <1>0, JobTyped, RowTyped DEF ClaimResume, At, JobInv
<1>2. /\ ToResume(w) /\ (state[w] = "failed" => RetryAllowed(w))
      /\ state' = [state EXCEPT ![w] = IF @ \in {"failed", "building_transaction"}
                                          THEN "broadcasting" ELSE @]
      /\ GoTo(k, "begin")
      /\ UNCHANGED <<wallet, requestOnly, rows, watch, chain>>
  BY <1>0 DEF ClaimResume
<1>3. signed[w] # 0 /\ state[w] \in {"broadcasting", "failed"}
  <2>1. signed[w] # 0 /\ state[w] \notin Finished /\ state[w] \notin {"broadcasted", "confirming"}
    BY <1>2 DEF ToResume, Resumable, ToConfirm, Prepared
  <2> QED BY <1>1, <2>1 DEF RowInv, SigningInv, Signing, Sent, Finished
<1>4. /\ state' \in [W -> WithdrawalStates] /\ state'[w] = "broadcasting"
      /\ \A v \in W \ {w} : state'[v] = state[v]
  BY <1>2, <1>3 DEF IInv, TypeOK, RequestTypeOK, WithdrawalStates
<1>5. attempts[w] # <<>> => attempts[w][Len(attempts[w])] \notin Refused
  <2>1. CASE state[w] = "failed"
    BY <1>1, <1>2, <2>1 DEF RetryAllowed
  <2>2. CASE state[w] = "broadcasting"
    BY <1>1, <2>2 DEF RowInv, AttemptsInv
  <2> QED BY <1>3, <2>1, <2>2
<1>6. RowInv(w)'
  BY <1>1, <1>2, <1>3, <1>4, <1>5 DEF RowInv, SigningInv, FundsInv, AttemptsInv, OutboxInv,
                    HasJob,
       Signing, Sent, Reserving, OpenRow, wallet, rows
<1>7. Goes(k) /\ JobInv(k)'
  BY <1>1, <1>2, Gone DEF JobInv, Steps
<1>8. TypeOK'
  BY <1>2, <1>4, <1>7 DEF IInv, TypeOK, RequestTypeOK, Goes, wallet, requestOnly, rows
<1>9. Kept(w) /\ \A v \in W \ {w} : Same(v)
  BY <1>1, <1>2, <1>4 DEF Kept, Watched, HasJob, Same, wallet, rows
<1> QED BY <1>2, <1>3, <1>4, <1>6, <1>7, <1>8, <1>9, WorkerRowStep DEF wallet

LEMMA ClaimBuildKeeps ==
    ASSUME IInv, NEW k \in Worker, ClaimBuild(k)
    PROVE  IInv' /\ PromiseStep
<1>0. PICK w \in W : w = worker[k].w
  BY JobTyped
<1>1. /\ worker[k] \in WorkerStates /\ worker[k].tries = 0 /\ RowInv(w)
      /\ Len(attempts[w]) \in 0..MaxAttempts
      /\ intent[w] \in [gen : 0..MaxGens, st : {"none", "building", "prepared", "failed"}]
  BY <1>0, JobTyped, RowTyped DEF ClaimBuild, At, JobInv
<1>2. /\ ToBuild(w) /\ intent[w].gen < MaxGens
      /\ intent' = [intent EXCEPT ![w] = [gen |-> @.gen + 1, st |-> "building"]]
      /\ state' = [state EXCEPT ![w] = "building_transaction"]
      /\ worker' = [worker EXCEPT ![k].pc = "build", ![k].gen = intent[w].gen + 1]
      /\ UNCHANGED <<wallet, requestOnly, signed, attempts, leaseDue, outbox, watch, chain>>
  BY <1>0 DEF ClaimBuild
<1>3. signed[w] = 0 /\ state[w] \in {"approved", "failed"} /\ attempts[w] = <<>>
  BY <1>1, <1>2 DEF ToBuild, Prepared, RowInv, AttemptsInv
<1>4. intent[w].gen + 1 \in Gens /\ intent[w].gen + 1 \in 0..MaxGens
  BY <1>1, <1>2, ExecutionAssumption DEF Gens
<1>5. /\ state' \in [W -> WithdrawalStates] /\ state'[w] = "building_transaction"
      /\ \A v \in W \ {w} : state'[v] = state[v]
  BY <1>2 DEF IInv, TypeOK, RequestTypeOK, WithdrawalStates
<1>6. /\ intent' \in [W -> [gen : 0..MaxGens, st : {"none", "building", "prepared", "failed"}]]
      /\ intent'[w].st = "building"
      /\ \A v \in W \ {w} : intent'[v] = intent[v]
  BY <1>2, <1>4 DEF IInv, TypeOK
<1>7. RowInv(w)'
  BY <1>1, <1>2, <1>3, <1>5, <1>6 DEF RowInv, SigningInv, FundsInv, AttemptsInv, OutboxInv,
                    HasJob,
       Signing, Sent, Reserving, OpenRow, wallet
<1>8. Goes(k) /\ JobInv(k)'
  <2> DEFINE j == [worker[k] EXCEPT !.pc = "build", !.gen = intent[w].gen + 1]
  <2>1. j \in WorkerStates /\ j.pc = "build" /\ j.gen \in Gens /\ j.tries = 0
    BY <1>1, <1>4 DEF WorkerStates, Steps
  <2>2. worker' = [worker EXCEPT ![k] = j]
    BY <1>2
  <2> HIDE DEF j
  <2>3. Goes(k) /\ worker'[k] = j
    BY <2>1, <2>2, Becomes
  <2> QED BY <2>1, <2>3 DEF JobInv
<1>9. TypeOK'
  BY <1>2, <1>5, <1>6, <1>8 DEF IInv, TypeOK, RequestTypeOK, Goes, wallet, requestOnly
<1>10. Kept(w) /\ \A v \in W \ {w} : Same(v)
  BY <1>1, <1>2, <1>5, <1>6 DEF Kept, Watched, HasJob, Same, wallet
<1> QED BY <1>2, <1>3, <1>5, <1>7, <1>8, <1>9, <1>10, WorkerRowStep DEF wallet

LEMMA CommitPreparedKeeps ==
    ASSUME IInv, NEW k \in Worker, CommitPrepared(k)
    PROVE  IInv' /\ PromiseStep
<1>0. PICK w \in W, g \in Gens : w = worker[k].w /\ g = worker[k].gen
  BY JobTyped DEF CommitPrepared, At, JobInv
<1>1. /\ worker[k] \in WorkerStates /\ worker[k].tries = 0 /\ RowInv(w)
      /\ Len(attempts[w]) \in 0..MaxAttempts
      /\ intent[w] \in [gen : 0..MaxGens, st : {"none", "building", "prepared", "failed"}]
  BY <1>0, JobTyped, RowTyped DEF CommitPrepared, At, JobInv
<1>2. CASE ~(state[w] = "building_transaction" /\ ~Prepared(w)
             /\ intent[w] = [gen |-> g, st |-> "building"])
  <2>1. GoTo(k, "failprep") /\ UNCHANGED <<requestVars, rows, watch, chain>>
    BY <1>0, <1>2 DEF CommitPrepared, requestVars, requestOnly, wallet, rows
  <2> QED BY <1>1, <2>1, GoneKeeps
<1>3. CASE /\ state[w] = "building_transaction" /\ ~Prepared(w)
           /\ intent[w] = [gen |-> g, st |-> "building"]
  <2>1. /\ intent' = [intent EXCEPT ![w].st = "prepared"]
        /\ signed' = [signed EXCEPT ![w] = g]
        /\ state' = [state EXCEPT ![w] = "broadcasting"]
        /\ GoTo(k, "begin")
        /\ UNCHANGED <<wallet, requestOnly, attempts, leaseDue, outbox, watch, chain>>
    BY <1>0, <1>3 DEF CommitPrepared
  <2>2. g \in 0..MaxGens /\ g # 0
    BY DEF Gens
  <2>3. /\ state' \in [W -> WithdrawalStates] /\ state'[w] = "broadcasting"
        /\ \A v \in W \ {w} : state'[v] = state[v]
    BY <2>1 DEF IInv, TypeOK, RequestTypeOK, WithdrawalStates
  <2>4. /\ intent' \in [W -> [gen : 0..MaxGens, st : {"none", "building", "prepared", "failed"}]]
        /\ intent'[w].st = "prepared"
        /\ \A v \in W \ {w} : intent'[v] = intent[v]
    BY <2>1 DEF IInv, TypeOK
  <2>5. /\ signed' \in [W -> 0..MaxGens] /\ signed'[w] = g
        /\ \A v \in W \ {w} : signed'[v] = signed[v]
    BY <2>1, <2>2 DEF IInv, TypeOK
  <2>6. signed[w] = 0 /\ attempts[w] = <<>> /\ \A h \in Gens : chain[w][h] = "unseen"
    BY <1>1, <1>3, ExecutionAssumption DEF Prepared, RowInv, SigningInv, AttemptsInv, Gens
  <2>7. RowInv(w)'
    BY <1>1, <1>3, <2>1, <2>2, <2>3, <2>4, <2>5, <2>6 DEF RowInv, SigningInv, FundsInv,
                    AttemptsInv,
         OutboxInv, HasJob, Signing, Sent, Reserving, OpenRow, wallet
  <2>8. Goes(k) /\ JobInv(k)'
    BY <1>1, <2>1, Gone DEF JobInv, Steps
  <2>9. TypeOK'
    BY <2>1, <2>3, <2>4, <2>5, <2>8 DEF IInv, TypeOK, RequestTypeOK, Goes, wallet, requestOnly
  <2>10. Kept(w) /\ \A v \in W \ {w} : Same(v)
    BY <1>1, <2>1, <2>3, <2>4, <2>5, <2>6 DEF Kept, Watched, HasJob, Same, wallet
  <2> QED BY <1>3, <2>1, <2>3, <2>7, <2>8, <2>9, <2>10, WorkerRowStep DEF wallet
<1> QED BY <1>2, <1>3

LEMMA FailPreparationKeeps ==
    ASSUME IInv, NEW k \in Worker, FailPreparation(k)
    PROVE  IInv' /\ PromiseStep
<1>0. PICK w \in W : w = worker[k].w
  BY JobTyped
<1>1. EndJob(k) /\ Goes(k) /\ JobInv(k)'
  BY Ended DEF FailPreparation
<1>2. CASE intent[w] # [gen |-> worker[k].gen, st |-> "building"]
  <2>1. UNCHANGED <<requestVars, rows, watch, chain>>
    BY <1>0, <1>2 DEF FailPreparation, requestVars, requestOnly, wallet, rows
  <2> QED BY <1>1, <2>1, QuietStep
<1>3. CASE intent[w] = [gen |-> worker[k].gen, st |-> "building"]
  <2>0. RowInv(w) /\ Len(attempts[w]) \in 0..MaxAttempts
    BY RowTyped
  <2>1. state[w] = "building_transaction" /\ signed[w] = 0
    BY <1>3, <2>0 DEF RowInv, SigningInv, Signing, Sent
  <2>2. /\ intent' = [intent EXCEPT ![w].st = "failed"]
        /\ state' = [state EXCEPT ![w] = "failed"]
        /\ UNCHANGED <<wallet, requestOnly, signed, attempts, leaseDue, outbox, watch, chain>>
    BY <1>0, <1>3, <2>1 DEF FailPreparation
  <2>3. /\ state' \in [W -> WithdrawalStates] /\ state'[w] = "failed"
        /\ \A v \in W \ {w} : state'[v] = state[v]
    BY <2>2 DEF IInv, TypeOK, RequestTypeOK, WithdrawalStates
  <2>4. /\ intent' \in [W -> [gen : 0..MaxGens, st : {"none", "building", "prepared", "failed"}]]
        /\ intent'[w].st = "failed"
        /\ \A v \in W \ {w} : intent'[v] = intent[v]
    BY <2>2 DEF IInv, TypeOK
  <2>5. RowInv(w)'
    BY <1>3, <2>0, <2>1, <2>2, <2>3, <2>4 DEF RowInv, SigningInv, FundsInv, AttemptsInv,
                    OutboxInv, HasJob,
         Signing, Sent, Reserving, OpenRow, wallet, ActiveAttempt
  <2>6. TypeOK'
    BY <1>1, <2>2, <2>3, <2>4 DEF IInv, TypeOK, RequestTypeOK, Goes, wallet, requestOnly
  <2>7. Kept(w) /\ \A v \in W \ {w} : Same(v)
    BY <2>0, <2>2, <2>3, <2>4 DEF Kept, Watched, HasJob, Same, wallet
  <2> QED BY <1>1, <2>1, <2>2, <2>3, <2>5, <2>6, <2>7, WorkerRowStep DEF wallet
<1> QED BY <1>2, <1>3

LEMMA BeginKeeps ==
    ASSUME IInv, NEW k \in Worker, Begin(k)
    PROVE  IInv' /\ PromiseStep
<1>0. PICK w \in W : w = worker[k].w
  BY JobTyped
<1>1. /\ worker[k] \in WorkerStates /\ worker[k].tries = 0 /\ RowInv(w)
      /\ attempts[w] \in Seq(AttemptStates) /\ Len(attempts[w]) \in 0..MaxAttempts
      /\ signed[w] \in 0..MaxGens
      /\ attempts[w] # <<>> => Len(attempts[w]) \in 1..Len(attempts[w])
  BY <1>0, JobTyped, RowTyped DEF Begin, At, JobInv
<1>2. UNCHANGED <<requestVars, signed, intent, outbox, watch, chain>>
  BY DEF Begin
<1>3. CASE ~(CanBegin(w) /\ Len(attempts[w]) < MaxAttempts)
  <2>1. EndJob(k) /\ UNCHANGED <<attempts, leaseDue>>
    BY <1>0, <1>3 DEF Begin
  <2> QED BY <1>2, <2>1, Ended, QuietStep DEF rows
<1>4. CASE CanBegin(w) /\ Len(attempts[w]) < MaxAttempts
  <2>1. /\ attempts' = [attempts EXCEPT ![w] = Append(@, "calling")]
        /\ leaseDue' = [leaseDue EXCEPT ![w] = FALSE]
        /\ worker' = [worker EXCEPT ![k].pc = "rpc", ![k].gen = signed[w],
                                    ![k].att = Len(attempts[w]) + 1]
    BY <1>0, <1>4 DEF Begin
  <2>2. "calling" \in AttemptStates
    BY DEF AttemptStates, ActiveAttempt
  <2> DEFINE s == Append(attempts[w], "calling")
  <2>3. /\ s \in Seq(AttemptStates) /\ s # <<>> /\ Len(s) = Len(attempts[w]) + 1
        /\ \A i \in 1..Len(attempts[w]) : s[i] = attempts[w][i]
        /\ s[Len(s)] = "calling"
    BY <1>1, <2>2, AppendProperties
  <2>4. attempts' = [attempts EXCEPT ![w] = s]
    BY <2>1
  <2> HIDE DEF s
  <2>5. /\ attempts' \in [W -> Seq(AttemptStates)] /\ attempts'[w] = s
        /\ \A v \in W \ {w} : attempts'[v] = attempts[v]
    BY <2>3, <2>4 DEF IInv, TypeOK
  <2>6. /\ state[w] = "broadcasting" /\ signed[w] # 0
        /\ attempts[w] # <<>> => attempts[w][Len(attempts[w])] \in Answered
    <3>1. attempts[w] # <<>> => attempts[w][Len(attempts[w])] \in AttemptStates
      BY <1>1
    <3> QED BY <1>1, <1>4, <3>1 DEF CanBegin, Prepared, LastAttempt, RowInv, AttemptsInv,
                AttemptStates, Answered
  <2>7. AttemptsInv(w)'
    <3>1. ASSUME NEW i \in 1..Len(s), i < Len(s) PROVE s[i] \in Answered
      <4>1. i \in 1..Len(attempts[w]) /\ attempts[w] # <<>> /\ s[i] = attempts[w][i]
        BY <1>1, <2>3, <3>1, RowTyped
      <4>2. CASE i < Len(attempts[w])
        BY <1>1, <4>1, <4>2 DEF RowInv, AttemptsInv
      <4>3. CASE ~(i < Len(attempts[w]))
        BY <1>1, <2>6, <4>1, <4>3
      <4> QED BY <4>2, <4>3
    <3>2. Len(s) <= MaxAttempts
      BY <1>1, <1>4, <2>3, ExecutionAssumption
    <3> QED BY <1>2, <2>3, <2>5, <2>6, <3>1, <3>2 DEF AttemptsInv, requestVars, Refused
  <2>8. RowInv(w)'
    <3>1. ASSUME NEW i \in 1..Len(s), s[i] \in Accepted PROVE outbox[w] # "none"
      <4>1. i \in 1..Len(attempts[w]) /\ s[i] = attempts[w][i]
        BY <1>1, <2>3, <3>1 DEF Accepted
      <4> QED BY <1>1, <3>1, <4>1 DEF RowInv, OutboxInv
    <3> QED BY <1>1, <1>2, <2>3, <2>5, <2>7, <3>1 DEF RowInv, SigningInv, FundsInv, OutboxInv,
                    HasJob,
               requestVars
  <2>9. Goes(k) /\ JobInv(k)'
    <3> DEFINE j == [worker[k] EXCEPT !.pc = "rpc", !.gen = signed[w],
                                       !.att = Len(attempts[w]) + 1]
    <3>1. Len(attempts[w]) + 1 \in 0..MaxAttempts
      BY <1>1, <1>4, ExecutionAssumption
    <3>2. /\ j \in WorkerStates /\ j.pc = "rpc" /\ j.tries = 0 /\ j.w = w
          /\ j.gen = signed[w] /\ j.att = Len(attempts[w]) + 1
      BY <1>0, <1>1, <3>1 DEF WorkerStates, Steps
    <3>3. worker' = [worker EXCEPT ![k] = j]
      BY <2>1
    <3> HIDE DEF j
    <3>4. Goes(k) /\ worker'[k] = j
      BY <3>2, <3>3, Becomes
    <3>5. j.att \in 1..Len(attempts'[w])
      BY <1>1, <2>3, <2>5, <3>2
    <3> QED BY <1>2, <2>6, <3>2, <3>4, <3>5, ExecutionAssumption DEF JobInv
  <2>10. TypeOK'
    BY <1>2, <2>1, <2>5, <2>9 DEF IInv, TypeOK, RequestTypeOK, Goes, requestVars
  <2>11. Kept(w) /\ \A v \in W \ {w} : Same(v)
    BY <1>1, <1>2, <2>3, <2>5 DEF Kept, Watched, HasJob, Same, requestVars
  <2> QED BY <1>2, <2>8, <2>9, <2>10, <2>11, WorkerRowStep DEF requestVars
<1> QED BY <1>3, <1>4

LEMMA LeaseExpiresKeeps ==
    ASSUME IInv, NEW w \in W, LeaseExpires(w)
    PROVE  IInv' /\ PromiseStep
<1>1. UNCHANGED <<requestVars, signed, intent, attempts, outbox, watch, chain, worker>>
  BY DEF LeaseExpires
<1>2. RowInv(w) /\ Len(attempts[w]) \in 0..MaxAttempts
  BY RowTyped
<1>3. TypeOK'
  BY <1>1 DEF LeaseExpires, IInv, TypeOK, RequestTypeOK, requestVars
<1>4. RowInv(w)' /\ Kept(w) /\ \A v \in W : Same(v)
  BY <1>1, <1>2 DEF RowInv, SigningInv, FundsInv, AttemptsInv, OutboxInv, HasJob, Kept, Watched,
                    Same,
       requestVars
<1>5. IInv'
  BY <1>1, <1>3, <1>4, RowStep
<1> QED BY <1>1, <1>5, PromiseUnseen DEF requestVars

(* The first sending of a withdrawal: its funds are on hold, and nothing   *)
(* of it was sent before.                                                  *)
LEMMA FirstSending ==
    ASSUME IInv, NEW w \in W, NEW g \in Gens, signed[w] = g, chain[w][g] = "unseen",
           chain' = [chain EXCEPT ![w][g] = "pending"], UNCHANGED <<ledger, state>>
    PROVE  Promise!Send(w, g)
<1>1. signed[w] # 0 /\ RowInv(w)
  BY RowTyped DEF Gens
<1>2. \A h \in Gens : chain[w][h] = "unseen"
  BY <1>1 DEF RowInv, SigningInv
<1>3. ledger[w] = {"hold"}
  BY <1>1 DEF RowInv, SigningInv, FundsInv, Signing, Sent, Reserving
<1>4. /\ \A v \in W \ {w} : chain'[v] = chain[v]
      /\ \A h \in Gens : chain'[w][h] = IF h = g THEN "pending" ELSE chain[w][h]
  BY DEF IInv, TypeOK
<1>5. Fate(w) = "held" /\ \A v \in W : Fate(v)' = Fate(v)
  BY <1>3 DEF Fate
<1>6. {h \in Gens : chain[w][h] # "unseen"} = {} /\ {h \in Gens : chain'[w][h] # "unseen"} = {g}
  BY <1>2, <1>4
<1>7. \A v \in W : {h \in Gens : chain'[v][h] = "success"} = {h \in Gens : chain[v][h] = "success"}
  BY <1>2, <1>4
<1>8. /\ [v \in W |-> Fate(v)][w] = "held"
      /\ [v \in W |-> Fate(v)]' = [v \in W |-> Fate(v)]
  BY <1>5
<1>9. /\ [v \in W |-> {h \in Gens : chain[v][h] # "unseen"}][w] = {}
      /\ [v \in W |-> {h \in Gens : chain'[v][h] # "unseen"}] =
           [[v \in W |-> {h \in Gens : chain[v][h] # "unseen"}] EXCEPT ![w] = {g}]
  <2> DEFINE S(v) == {h \in Gens : chain[v][h] # "unseen"}
             T(v) == {h \in Gens : chain'[v][h] # "unseen"}
  <2>1. S(w) = {} /\ \A v \in W : T(v) = IF v = w THEN {g} ELSE S(v)
    BY <1>4, <1>6
  <2> HIDE DEF S, T
  <2>2. /\ [v \in W |-> S(v)][w] = {}
        /\ [v \in W |-> T(v)] = [[v \in W |-> S(v)] EXCEPT ![w] = {g}]
    BY <2>1
  <2> QED BY <2>2 DEF S, T
<1>10. [v \in W |-> {h \in Gens : chain'[v][h] = "success"}] =
         [v \in W |-> {h \in Gens : chain[v][h] = "success"}]
  BY <1>7
<1> QED BY <1>8, <1>9, <1>10 DEF Promise!Send

(* A transaction is included: it is the one that was sent.                 *)
LEMMA Inclusion ==
    ASSUME IInv, NEW w \in W, NEW g \in Gens, chain[w][g] = "pending",
           chain' = [chain EXCEPT ![w][g] = "success"], UNCHANGED <<ledger, state>>
    PROVE  Promise!Land(w)
<1>1. \A h \in Gens : chain[w][h] # "unseen" => h = g
  BY DEF IInv, RowInv, SigningInv
<1>2. /\ \A v \in W \ {w} : chain'[v] = chain[v]
      /\ \A h \in Gens : chain'[w][h] = IF h = g THEN "success" ELSE chain[w][h]
  BY DEF IInv, TypeOK
<1>3. \A v \in W : Fate(v)' = Fate(v)
  BY DEF Fate
<1>4. /\ {h \in Gens : chain[w][h] # "unseen"} = {g}
      /\ {h \in Gens : chain'[w][h] = "success"} = {g}
      /\ {h \in Gens : chain'[w][h] # "unseen"} = {g}
  BY <1>1, <1>2
<1>5. [v \in W |-> Fate(v)]' = [v \in W |-> Fate(v)]
  BY <1>3
<1>6. [v \in W |-> {h \in Gens : chain'[v][h] # "unseen"}] =
        [v \in W |-> {h \in Gens : chain[v][h] # "unseen"}]
  BY <1>2, <1>4
<1>7. [v \in W |-> {h \in Gens : chain'[v][h] = "success"}] =
        [[v \in W |-> {h \in Gens : chain[v][h] = "success"}] EXCEPT
            ![w] = [v \in W |-> {h \in Gens : chain[v][h] # "unseen"}][w]]
  <2> DEFINE S(v) == {h \in Gens : chain[v][h] # "unseen"}
             L(v) == {h \in Gens : chain[v][h] = "success"}
             T(v) == {h \in Gens : chain'[v][h] = "success"}
  <2>1. S(w) = {g} /\ \A v \in W : T(v) = IF v = w THEN {g} ELSE L(v)
    BY <1>2, <1>4
  <2> HIDE DEF S, L, T
  <2>2. [v \in W |-> T(v)] = [[v \in W |-> L(v)] EXCEPT ![w] = [v \in W |-> S(v)][w]]
    BY <2>1
  <2> QED BY <2>2 DEF S, L, T
<1> QED BY <1>5, <1>6, <1>7 DEF Promise!Land

LEMMA NetworkKeeps ==
    ASSUME IInv, NEW w \in W, NEW g \in Gens, Network(w, g)
    PROVE  IInv' /\ PromiseStep
<1>1. UNCHANGED <<requestVars, rows, watch, worker>>
  BY DEF Network
<1>2. RowInv(w) /\ Len(attempts[w]) \in 0..MaxAttempts
      /\ chain[w] \in [Gens -> {"unseen", "pending", "reverted", "success"}]
  BY RowTyped
<1>3. PICK c \in {"pending", "reverted", "success"} :
        /\ chain' = [chain EXCEPT ![w][g] = c]
        /\ c = "pending" => chain[w][g] = "reverted"
        /\ c # "pending" => chain[w][g] = "pending"
  BY DEF Network
<1>4. /\ chain' \in [W -> [Gens -> {"unseen", "pending", "reverted", "success"}]]
      /\ \A v \in W \ {w} : chain'[v] = chain[v]
      /\ \A h \in Gens : chain'[w][h] = IF h = g THEN c ELSE chain[w][h]
  BY <1>3 DEF IInv, TypeOK
<1>5. TypeOK'
  BY <1>1, <1>4 DEF IInv, TypeOK, RequestTypeOK, requestVars, rows
<1>6. \A h \in Gens : chain'[w][h] # "unseen" <=> chain[w][h] # "unseen"
  BY <1>3, <1>4
<1>7. RowInv(w)'
  <2>1. signed[w] # 0 => signed[w] \in Gens
    BY RowTyped
  <2> QED BY <1>1, <1>2, <1>6, <2>1 DEF RowInv, SigningInv, FundsInv, AttemptsInv, OutboxInv,
                    HasJob, Sent,
             requestVars, rows
<1>8. Kept(w) /\ \A v \in W \ {w} : Same(v)
  BY <1>1, <1>2, <1>3, <1>4 DEF Kept, Watched, HasJob, Same, requestVars, rows
<1>9. IInv'
  BY <1>1, <1>5, <1>7, <1>8, RowStep
<1>10. PromiseStep
  <2>1. CASE c = "success"
    <3>1. Promise!Land(w)
      BY <1>1, <1>3, <2>1, Inclusion DEF requestVars
    <3> QED BY <3>1 DEF PromiseStep, Promise!Next
  <2>2. CASE c # "success"
    <3>1. \A v \in W : /\ {h \in Gens : chain'[v][h] # "unseen"} = {h \in Gens : chain[v][h] # "unseen"}
                       /\ {h \in Gens : chain'[v][h] = "success"} = {h \in Gens : chain[v][h] = "success"}
      BY <1>3, <1>4, <1>6, <2>2
    <3>2. \A v \in W : Fate(v)' = Fate(v)
      BY <1>1 DEF Fate, requestVars
    <3> QED BY <3>1, <3>2 DEF PromiseStep, Promise!promiseVars
  <2> QED BY <2>1, <2>2
<1> QED BY <1>9, <1>10

(* One try of the provider: a transaction that reaches the network is the  *)
(* one that is signed, and an acceptance means that it was reached.        *)
LEMMA RpcTryKeeps ==
    ASSUME IInv, NEW k \in Worker, RpcTry(k)
    PROVE  IInv' /\ PromiseStep
<1>0. PICK w \in W, g \in Gens : w = worker[k].w /\ g = worker[k].gen
  BY JobTyped, RowTyped DEF RpcTry, At, JobInv
<1>1. /\ worker[k] \in WorkerStates /\ JobInv(k) /\ worker[k].pc = "rpc" /\ RowInv(w)
      /\ Len(attempts[w]) \in 0..MaxAttempts
      /\ signed[w] = g /\ worker[k].att \in 1..Len(attempts[w])
      /\ worker[k].tries \in 0..RpcTries
      /\ chain[w] \in [Gens -> {"unseen", "pending", "reverted", "success"}]
  BY <1>0, JobTyped, RowTyped DEF RpcTry, At, JobInv
<1>2. UNCHANGED <<requestVars, rows, watch>>
  BY DEF RpcTry
<1>3. PICK answer \in Answers(chain[w][g]) :
        /\ \E c \in Reaches(answer, chain[w][g]) : chain' = [chain EXCEPT ![w][g] = c]
        /\ worker' = IF Retries(k, answer)
             THEN [worker EXCEPT ![k].tries = @ + 1]
             ELSE [worker EXCEPT ![k].pc = Outcome(answer).pc,
                                 ![k].seen = Outcome(answer).seen, ![k].tries = 0]
  BY <1>0 DEF RpcTry
<1>4. PICK c \in Reaches(answer, chain[w][g]) : chain' = [chain EXCEPT ![w][g] = c]
  BY <1>3
<1>5. /\ c \in {"unseen", "pending", "reverted", "success"}
      /\ c # chain[w][g] => chain[w][g] = "unseen" /\ c = "pending"
      /\ answer \in {"accepted", "already_known"} => c # "unseen"
      /\ answer \in {"accepted", "already_known", "rejected", "mismatch", "lost"}
  BY <1>1, <1>3, <1>4 DEF Answers, Reaches
<1>6. /\ chain' \in [W -> [Gens -> {"unseen", "pending", "reverted", "success"}]]
      /\ \A v \in W \ {w} : chain'[v] = chain[v]
      /\ \A h \in Gens : chain'[w][h] = IF h = g THEN c ELSE chain[w][h]
  BY <1>4, <1>5 DEF IInv, TypeOK
<1>7. RowInv(w)'
  BY <1>1, <1>2, <1>5, <1>6 DEF RowInv, SigningInv, FundsInv, AttemptsInv, OutboxInv, HasJob,
                    Sent,
     requestVars, rows
<1>8. Kept(w) /\ \A v \in W \ {w} : Same(v)
  BY <1>1, <1>2, <1>5, <1>6 DEF Kept, Watched, HasJob, Same, requestVars, rows
<1>9. Goes(k) /\ JobInv(k)'
  <2>1. CASE Retries(k, answer)
    <3> DEFINE j == [worker[k] EXCEPT !.tries = @ + 1]
    <3>1. worker[k].tries + 1 < RpcTries /\ worker[k].tries + 1 \in 0..RpcTries
      BY <1>1, <2>1, ExecutionAssumption DEF Retries
    <3>2. /\ j \in WorkerStates /\ j.pc = "rpc" /\ j.w = w /\ j.gen = g
          /\ j.att = worker[k].att /\ j.tries < RpcTries
      BY <1>0, <1>1, <3>1 DEF WorkerStates
    <3>3. worker' = [worker EXCEPT ![k] = j]
      BY <1>3, <2>1
    <3> HIDE DEF j
    <3>4. Goes(k) /\ worker'[k] = j
      BY <3>2, <3>3, Becomes
    <3> QED BY <1>1, <1>2, <3>2, <3>4 DEF JobInv, rows, Gens
  <2>2. CASE ~Retries(k, answer)
    <3> DEFINE o == Outcome(answer)
               j == [worker[k] EXCEPT !.pc = o.pc, !.seen = o.seen, !.tries = 0]
    <3>1. \/ o.pc = "accept" /\ o.seen \in {"accepted", "already_known"} /\ c # "unseen"
          \/ o.pc = "refuse" /\ o.seen \in {"rejected", "ambiguous"}
      <4>1. CASE answer \in {"accepted", "already_known"}
        BY <1>5, <4>1 DEF Outcome
      <4>2. CASE answer \notin {"accepted", "already_known"}
        BY <1>5, <4>2 DEF Outcome
      <4> QED BY <4>1, <4>2
    <3> HIDE DEF o
    <3>2. /\ j \in WorkerStates /\ j.pc = o.pc /\ j.seen = o.seen /\ j.w = w /\ j.gen = g
          /\ j.att = worker[k].att /\ j.tries = 0
      <4>1. o.pc \in Steps /\ o.seen \in Seen /\ 0 \in 0..RpcTries
        BY <3>1, ExecutionAssumption DEF Steps, Seen
      <4> QED BY <1>0, <1>1, <4>1 DEF WorkerStates
    <3>3. worker' = [worker EXCEPT ![k] = j]
      BY <1>3, <2>2 DEF o
    <3> HIDE DEF j
    <3>4. Goes(k) /\ worker'[k] = j
      BY <3>2, <3>3, Becomes
    <3>5. chain'[w][signed'[w]] = c /\ signed'[w] = g /\ attempts'[w] = attempts[w] /\ g # 0
      BY <1>1, <1>2, <1>6 DEF rows, Gens
    <3> QED BY <1>1, <3>1, <3>2, <3>4, <3>5 DEF JobInv
  <2> QED BY <2>1, <2>2
<1>10. TypeOK'
  BY <1>2, <1>6, <1>9 DEF IInv, TypeOK, RequestTypeOK, Goes, requestVars, rows
<1>11. IInv'
  <2>1. \A q \in Worker : worker'[q] = worker[q] \/ JobInv(q)'
    BY <1>9 DEF Goes
  <2> QED BY <1>7, <1>8, <1>10, <2>1, RowStep
<1>12. PromiseStep
  <2>1. CASE c = chain[w][g]
    <3>1. chain' = chain
      BY <1>4, <2>1 DEF IInv, TypeOK
    <3> QED BY <1>2, <3>1, PromiseUnseen DEF requestVars
  <2>2. CASE c # chain[w][g]
    <3>1. Promise!Send(w, g)
      BY <1>1, <1>2, <1>4, <1>5, <2>2, FirstSending DEF requestVars
    <3> QED BY <3>1 DEF PromiseStep, Promise!Next
  <2> QED BY <2>1, <2>2
<1> QED BY <1>11, <1>12

(* A job goes on to publish or to claim again, whatever it has seen.       *)
LEMMA Cleared ==
    ASSUME IInv, NEW k \in Worker, NEW p \in {"publish", "reclaim"}, worker[k].tries = 0,
           p = "publish" => outbox'[worker[k].w] # "none",
           worker' = [worker EXCEPT ![k].pc = p, ![k].seen = "none"]
    PROVE  Goes(k) /\ JobInv(k)'
<1> DEFINE j == [worker[k] EXCEPT !.pc = p, !.seen = "none"]
<1>1. j \in WorkerStates /\ j.pc = p /\ j.tries = 0 /\ j.w = worker[k].w
  BY JobTyped DEF WorkerStates, Steps, Seen
<1>2. worker' = [worker EXCEPT ![k] = j]
  OBVIOUS
<1> HIDE DEF j
<1>3. Goes(k) /\ worker'[k] = j
  BY <1>1, <1>2, Becomes
<1> QED BY <1>1, <1>3 DEF JobInv

(* What the answer to the last attempt of w writes, from the call or from  *)
(* the look at the chain.                                                  *)
LEMMA AnswerRecorded ==
    ASSUME IInv, NEW w \in W, NEW n \in 1..Len(attempts[w]), attempts[w][n] \in ActiveAttempt,
           NEW answer \in Answered, attempts' = [attempts EXCEPT ![w][n] = answer],
           answer \in Accepted => chain[w][signed[w]] # "unseen",
           state' = IF answer \in Accepted THEN [state EXCEPT ![w] = "broadcasted"] ELSE state,
           outbox' = IF answer \in Accepted /\ outbox[w] = "none"
                       THEN [outbox EXCEPT ![w] = "pending"] ELSE outbox,
           UNCHANGED <<wallet, requestOnly, signed, intent, leaseDue, watch, chain>>
    PROVE  /\ attempts' \in [W -> Seq(AttemptStates)] /\ state' \in [W -> WithdrawalStates]
           /\ outbox' \in [W -> {"none", "pending", "published", "dead_letter", "completed"}]
           /\ \A v \in W \ {w} : Same(v)
           /\ RowInv(w)' /\ Kept(w) /\ (answer \in Accepted => outbox'[w] # "none")
           /\ (state'[w] = "none") <=> (state[w] = "none")
<1>1. /\ RowInv(w) /\ Len(attempts[w]) \in 0..MaxAttempts
      /\ n = Len(attempts[w]) /\ attempts[w] # <<>> /\ state[w] = "broadcasting" /\ signed[w] # 0
  BY RowTyped, OpenIsLast
<1>2. answer \in AttemptStates /\ answer \notin ActiveAttempt \cup Refused
  BY DEF AttemptStates, Answered, Accepted, ActiveAttempt, Refused
<1>3. /\ attempts' \in [W -> Seq(AttemptStates)]
      /\ Len(attempts'[w]) = Len(attempts[w]) /\ attempts'[w] # <<>>
      /\ \A i \in 1..Len(attempts[w]) : attempts'[w][i] = IF i = n THEN answer ELSE attempts[w][i]
      /\ \A v \in W \ {w} : attempts'[v] = attempts[v]
  BY <1>2, AttemptWritten
<1>4. /\ state' \in [W -> WithdrawalStates]
      /\ state'[w] = IF answer \in Accepted THEN "broadcasted" ELSE "broadcasting"
      /\ \A v \in W \ {w} : state'[v] = state[v]
  BY <1>1 DEF IInv, TypeOK, RequestTypeOK, WithdrawalStates
<1>5. /\ outbox' \in [W -> {"none", "pending", "published", "dead_letter", "completed"}]
      /\ outbox'[w] = IF answer \in Accepted /\ outbox[w] = "none" THEN "pending" ELSE outbox[w]
      /\ \A v \in W \ {w} : outbox'[v] = outbox[v]
  BY DEF IInv, TypeOK
<1>6. outbox[w] \notin OpenRow
  BY <1>1 DEF RowInv, OutboxInv
<1>7. \A v \in W \ {w} : Same(v)
  BY <1>3, <1>4, <1>5 DEF Same, wallet
<1>8. SigningInv(w)' /\ FundsInv(w)' /\ OutboxInv(w)'
  BY <1>1, <1>3, <1>4, <1>5, <1>6 DEF RowInv, SigningInv, FundsInv, OutboxInv, HasJob, Signing,
     Sent, Reserving, OpenRow, Accepted, wallet
<1>9. AttemptsInv(w)'
  BY <1>1, <1>2, <1>3, <1>4 DEF RowInv, AttemptsInv
<1>10. Kept(w)
  BY <1>1, <1>3, <1>5, <1>6 DEF Kept, Watched, HasJob, OpenRow
<1> QED BY <1>1, <1>3, <1>4, <1>5, <1>7, <1>8, <1>9, <1>10 DEF RowInv

LEMMA FinalizeAcceptedKeeps ==
    ASSUME IInv, NEW k \in Worker, FinalizeAccepted(k)
    PROVE  IInv' /\ PromiseStep
<1>0. PICK w \in W, n \in 0..MaxAttempts : w = worker[k].w /\ n = worker[k].att
  BY JobTyped
<1>1. /\ worker[k] \in WorkerStates /\ JobInv(k) /\ worker[k].tries = 0
      /\ n \in 1..Len(attempts[w]) /\ worker[k].seen \in {"accepted", "already_known"}
      /\ chain[w][signed[w]] # "unseen"
  BY <1>0, JobTyped DEF FinalizeAccepted, At, JobInv
<1>2. UNCHANGED <<wallet, requestOnly, signed, intent, leaseDue, watch, chain>>
  BY DEF FinalizeAccepted
<1>3. CASE attempts[w][n] = "calling"
  <2>1. /\ attempts' = [attempts EXCEPT ![w][n] = worker[k].seen]
        /\ state' = [state EXCEPT ![w] = IF @ = "broadcasting" THEN "broadcasted" ELSE @]
        /\ outbox' = [outbox EXCEPT ![w] = IF @ = "none" THEN "pending" ELSE @]
        /\ worker' = [worker EXCEPT ![k].pc = "publish", ![k].seen = "none"]
    BY <1>0, <1>3 DEF FinalizeAccepted
  <2>2. state[w] = "broadcasting" /\ attempts[w][n] \in ActiveAttempt
    BY <1>1, <1>3, OpenIsLast DEF ActiveAttempt
  <2>3. /\ state' = [state EXCEPT ![w] = "broadcasted"]
        /\ outbox' = IF outbox[w] = "none" THEN [outbox EXCEPT ![w] = "pending"] ELSE outbox
    BY <2>1, <2>2 DEF IInv, TypeOK
  <2>4. PICK answer \in Accepted : answer = worker[k].seen
    BY <1>1 DEF Accepted
  <2>5. /\ attempts' \in [W -> Seq(AttemptStates)] /\ state' \in [W -> WithdrawalStates]
        /\ outbox' \in [W -> {"none", "pending", "published", "dead_letter", "completed"}]
        /\ \A v \in W \ {w} : Same(v)
        /\ RowInv(w)' /\ Kept(w) /\ outbox'[w] # "none"
        /\ (state'[w] = "none") <=> (state[w] = "none")
    BY <1>1, <1>2, <2>1, <2>2, <2>3, <2>4, AnswerRecorded DEF Answered
  <2>6. Goes(k) /\ JobInv(k)'
    BY <1>0, <1>1, <2>1, <2>5, Cleared
  <2>7. TypeOK'
    BY <1>2, <2>5, <2>6 DEF IInv, TypeOK, RequestTypeOK, Goes, wallet, requestOnly
  <2> QED BY <1>2, <2>5, <2>6, <2>7, WorkerRowStep DEF wallet
<1>4. CASE attempts[w][n] # "calling"
  <2>1. UNCHANGED <<requestVars, rows, watch, chain>>
    BY <1>0, <1>2, <1>4 DEF FinalizeAccepted, requestVars, wallet, requestOnly, rows
  <2>2. attempts[w][n] \in Accepted => outbox'[worker[k].w] # "none"
    BY <1>0, <1>1, <2>1, RowTyped DEF RowInv, OutboxInv, rows
  <2>3. Goes(k) /\ JobInv(k)'
    BY <1>0, <1>1, <1>4, <2>2, Ended, Cleared DEF FinalizeAccepted
  <2> QED BY <2>1, <2>3, QuietStep
<1> QED BY <1>3, <1>4

LEMMA ResolveKeeps ==
    ASSUME IInv, NEW k \in Worker, Resolve(k)
    PROVE  IInv' /\ PromiseStep
<1>0. PICK w \in W, n \in 0..MaxAttempts, present \in BOOLEAN :
        w = worker[k].w /\ n = worker[k].att /\ present = (worker[k].seen = "present")
  BY JobTyped
<1>1. /\ worker[k] \in WorkerStates /\ JobInv(k) /\ worker[k].tries = 0
      /\ n \in 1..Len(attempts[w])
      /\ present => chain[w][signed[w]] # "unseen"
  BY <1>0, JobTyped DEF Resolve, At, JobInv
<1>2. UNCHANGED <<wallet, requestOnly, signed, intent, leaseDue, watch, chain>>
  BY DEF Resolve
<1>3. CASE attempts[w][n] = "ambiguous"
  <2>1. /\ attempts' = [attempts EXCEPT ![w][n] =
                          IF present THEN "reconciled_present" ELSE "reconciled_absent"]
        /\ state' = IF present /\ state[w] = "broadcasting"
                      THEN [state EXCEPT ![w] = "broadcasted"] ELSE state
        /\ outbox' = IF present /\ outbox[w] = "none"
                       THEN [outbox EXCEPT ![w] = "pending"] ELSE outbox
        /\ worker' = [worker EXCEPT ![k].pc = IF present THEN "publish" ELSE "reclaim",
                                    ![k].seen = "none"]
    BY <1>0, <1>3 DEF Resolve
  <2>2. state[w] = "broadcasting" /\ attempts[w][n] \in ActiveAttempt
    BY <1>1, <1>3, OpenIsLast DEF ActiveAttempt
  <2> DEFINE answer == IF present THEN "reconciled_present" ELSE "reconciled_absent"
  <2>3. answer \in Answered /\ (answer \in Accepted <=> present)
    BY DEF Answered, Accepted
  <2>4. /\ attempts' = [attempts EXCEPT ![w][n] = answer]
        /\ state' = IF answer \in Accepted THEN [state EXCEPT ![w] = "broadcasted"] ELSE state
        /\ outbox' = IF answer \in Accepted /\ outbox[w] = "none"
                       THEN [outbox EXCEPT ![w] = "pending"] ELSE outbox
    BY <2>1, <2>2, <2>3
  <2> HIDE DEF answer
  <2>5. /\ attempts' \in [W -> Seq(AttemptStates)] /\ state' \in [W -> WithdrawalStates]
        /\ outbox' \in [W -> {"none", "pending", "published", "dead_letter", "completed"}]
        /\ \A v \in W \ {w} : Same(v)
        /\ RowInv(w)' /\ Kept(w) /\ (present => outbox'[w] # "none")
        /\ (state'[w] = "none") <=> (state[w] = "none")
    BY <1>1, <1>2, <2>2, <2>3, <2>4, AnswerRecorded
  <2>6. Goes(k) /\ JobInv(k)'
    BY <1>0, <1>1, <2>1, <2>5, Cleared
  <2>7. TypeOK'
    BY <1>2, <2>5, <2>6 DEF IInv, TypeOK, RequestTypeOK, Goes, wallet, requestOnly
  <2> QED BY <1>2, <2>5, <2>6, <2>7, WorkerRowStep DEF wallet
<1>4. CASE attempts[w][n] # "ambiguous"
  <2>1. UNCHANGED <<requestVars, rows, watch, chain>>
    BY <1>0, <1>2, <1>4 DEF Resolve, requestVars, wallet, requestOnly, rows
  <2>2. attempts[w][n] \in Accepted => outbox'[worker[k].w] # "none"
    BY <1>0, <1>1, <2>1, RowTyped DEF RowInv, OutboxInv, rows
  <2>3. Goes(k) /\ JobInv(k)'
    BY <1>0, <1>1, <1>4, <2>2, Ended, Cleared DEF Resolve
  <2> QED BY <2>1, <2>3, QuietStep
<1> QED BY <1>3, <1>4

(* Steps of the publication and of the confirmation job.                   *)
LEMMA PublishEnqueueKeeps ==
    ASSUME IInv, NEW k \in Worker, PublishEnqueue(k)
    PROVE  IInv' /\ PromiseStep
<1> DEFINE w == worker[k].w
           q == Enqueued(watch[w])
<1>1. /\ w \in W /\ worker[k].tries = 0 /\ outbox[w] # "none"
  BY JobTyped DEF PublishEnqueue, At, JobInv
<1>2. /\ watch' = [watch EXCEPT ![w] = q] /\ GoTo(k, "mark")
      /\ UNCHANGED <<requestVars, rows, chain>>
  BY DEF PublishEnqueue
<1>3. q \in WatchStates /\ q.st # "none"
  BY <1>1, WatchTyped, ExecutionAssumption DEF Enqueued, WatchStates
<1>4. watch'[w] = q
  BY <1>1, <1>2 DEF IInv, TypeOK
<1> HIDE DEF q
<1>5. Goes(k) /\ JobInv(k)'
  BY <1>1, <1>2, <1>3, <1>4, Gone DEF JobInv, Steps, Watched, HasJob, rows
<1> QED BY <1>1, <1>2, <1>3, <1>5, WatchStep DEF Goes

(* A row in the outbox changes, and the state perhaps with it.             *)
LEMMA OutboxStep ==
    ASSUME IInv, NEW k \in Worker, NEW w \in W, outbox[w] # "none",
           NEW row \in {"published", "dead_letter", "completed", outbox[w]},
           NEW s \in {"confirming", "failed", "timeout", state[w]},
           outbox' = [outbox EXCEPT ![w] = row], state' = [state EXCEPT ![w] = s],
           s # state[w] => \/ state[w] = "broadcasted" /\ s = "confirming"
                           \/ state[w] = "confirming" /\ row = "completed",
           row \in OpenRow => outbox[w] \in OpenRow /\ s \in {state[w], "confirming"},
           row = "published" => HasJob(w),
           UNCHANGED <<wallet, requestOnly, signed, intent, attempts, leaseDue, watch, chain>>,
           Goes(k), JobInv(k)'
    PROVE  IInv' /\ PromiseStep
<1>1. RowInv(w) /\ Len(attempts[w]) \in 0..MaxAttempts /\ state[w] \in WithdrawalStates
  BY RowTyped
<1>2. /\ outbox' \in [W -> {"none", "pending", "published", "dead_letter", "completed"}]
      /\ outbox'[w] = row /\ row # "none" /\ \A v \in W \ {w} : outbox'[v] = outbox[v]
  BY DEF IInv, TypeOK
<1>3. /\ state' \in [W -> WithdrawalStates] /\ state'[w] = s
      /\ \A v \in W \ {w} : state'[v] = state[v]
  BY DEF IInv, TypeOK, RequestTypeOK, WithdrawalStates
<1>4. outbox[w] = "completed" => row = "completed"
  BY <1>2, RowTyped DEF OpenRow
<1>5. TypeOK'
  BY <1>2, <1>3 DEF IInv, TypeOK, RequestTypeOK, Goes, wallet, requestOnly
<1>6. SigningInv(w)' /\ FundsInv(w)'
  BY <1>1, <1>3 DEF RowInv, SigningInv, FundsInv, Signing, Sent, Reserving, wallet
<1>7. AttemptsInv(w)'
  BY <1>1, <1>3 DEF RowInv, AttemptsInv
<1>8. OutboxInv(w)'
  BY <1>1, <1>2, <1>3 DEF RowInv, OutboxInv, HasJob, OpenRow
<1>9. Kept(w)
  BY <1>1, <1>2, <1>4 DEF Kept, Watched, HasJob, OpenRow
<1>10. \A v \in W \ {w} : Same(v)
  BY <1>2, <1>3 DEF Same, wallet
<1>11. (state'[w] = "none") <=> (state[w] = "none")
  BY <1>3
<1> QED BY <1>5, <1>6, <1>7, <1>8, <1>9, <1>10, <1>11, WorkerRowStep DEF RowInv, wallet

LEMMA PublishMarkKeeps ==
    ASSUME IInv, NEW k \in Worker, PublishMark(k)
    PROVE  IInv' /\ PromiseStep
<1>0. PICK w \in W : w = worker[k].w
  BY JobTyped
<1>1. /\ worker[k].tries = 0 /\ Watched(w) /\ outbox[w] # "none" /\ RowInv(w)
      /\ outbox[w] \in {"none", "pending", "published", "dead_letter", "completed"}
  BY <1>0, JobTyped DEF PublishMark, At, JobInv, IInv, TypeOK, Watched
<1> DEFINE row == Marked(outbox[w])
           s == IF state[w] = "broadcasted" THEN "confirming" ELSE state[w]
<1>2. /\ outbox' = [outbox EXCEPT ![w] = row] /\ state' = [state EXCEPT ![w] = s]
      /\ UNCHANGED <<wallet, requestOnly, signed, intent, attempts, leaseDue, watch, chain>>
  BY <1>0 DEF PublishMark
<1>3. /\ row \in {"published", "dead_letter", "completed", outbox[w]}
      /\ row \in OpenRow => outbox[w] \in OpenRow
      /\ row = "published" => HasJob(w)
      /\ row # "none"
  BY <1>1 DEF Marked, OpenRow, Watched
<1>4. Goes(k) /\ JobInv(k)'
  <2>1. outbox'[w] # "none"
    BY <1>2, <1>3 DEF IInv, TypeOK
  <2> QED BY <1>0, <1>1, <2>1, PublishedKeeps DEF PublishMark
<1>5. /\ s \in {"confirming", "failed", "timeout", state[w]}
      /\ s # state[w] => state[w] = "broadcasted" /\ s = "confirming"
      /\ s \in {state[w], "confirming"}
  OBVIOUS
<1> HIDE DEF row, s
<1> QED BY <1>1, <1>2, <1>3, <1>4, <1>5, OutboxStep

LEMMA UnpublishKeeps ==
    ASSUME IInv, NEW k \in Worker, Unpublish(k)
    PROVE  IInv' /\ PromiseStep
<1>0. PICK w \in W : w = worker[k].w
  BY JobTyped
<1>1. /\ outbox[w] # "none" /\ worker[k].tries = 0
      /\ outbox[w] \in {"none", "pending", "published", "dead_letter", "completed"}
  BY <1>0, JobTyped DEF Unpublish, At, JobInv, IInv, TypeOK
<1> DEFINE row == IF outbox[w] = "completed" THEN outbox[w] ELSE "dead_letter"
<1>2. /\ outbox' = [outbox EXCEPT ![w] = row] /\ state' = [state EXCEPT ![w] = state[w]]
      /\ UNCHANGED <<wallet, requestOnly, signed, intent, attempts, leaseDue, watch, chain>>
  BY <1>0 DEF Unpublish, IInv, TypeOK, RequestTypeOK, requestVars, wallet, requestOnly
<1>3. /\ row \in {"published", "dead_letter", "completed", outbox[w]}
      /\ row \in OpenRow => outbox[w] \in OpenRow
      /\ row # "published"
  BY <1>1 DEF OpenRow
<1>4. Goes(k) /\ JobInv(k)'
  <2>1. CASE EndJob(k)
    BY <2>1, Ended
  <2>2. CASE GoTo(k, "throw")
    BY <1>1, <2>2, Gone DEF JobInv, Steps
  <2> QED BY <2>1, <2>2 DEF Unpublish
<1> HIDE DEF row
<1> QED BY <1>1, <1>2, <1>3, <1>4, OutboxStep

LEMMA MarkOutcomeKeeps ==
    ASSUME IInv, NEW k \in Worker, MarkOutcome(k)
    PROVE  IInv' /\ PromiseStep
<1>0. PICK w \in W : w = worker[k].w
  BY JobTyped
<1>1. /\ UNCHANGED <<wallet, requestOnly, signed, intent, attempts, leaseDue, watch, chain>>
      /\ worker[k].tries = 0 /\ outbox[w] # "none"
  BY <1>0, JobTyped DEF MarkOutcome, At, JobInv
<1>2. CASE state[w] = "confirming"
  <2>1. PICK s \in {"failed", "timeout"} : state' = [state EXCEPT ![w] = s]
    BY <1>0, <1>2 DEF MarkOutcome
  <2>2. outbox' = [outbox EXCEPT ![w] = "completed"] /\ GoTo(k, "done")
    BY <1>0, <1>2 DEF MarkOutcome
  <2>3. outbox'[w] = "completed"
    BY <2>2 DEF IInv, TypeOK
  <2>4. Goes(k) /\ JobInv(k)'
    BY <1>0, <1>1, <2>2, <2>3, Gone DEF JobInv, Steps
  <2> QED BY <1>1, <1>2, <2>1, <2>2, <2>4, OutboxStep DEF OpenRow
<1>3. CASE state[w] = "broadcasted"
  <2>1. GoTo(k, "throw") /\ UNCHANGED <<requestVars, rows, watch, chain>>
    BY <1>0, <1>1, <1>3 DEF MarkOutcome, requestVars, wallet, requestOnly, rows
  <2> QED BY <1>1, <2>1, GoneKeeps
<1>4. CASE state[w] \notin {"broadcasted", "confirming"}
  <2>1. GoTo(k, "done") /\ UNCHANGED <<requestVars, rows, watch, chain>>
    BY <1>0, <1>1, <1>4 DEF MarkOutcome, requestVars, wallet, requestOnly, rows
  <2>2. outbox[w] = "completed"
    BY <1>1, <1>4, Closed
  <2>3. Goes(k) /\ JobInv(k)'
    BY <1>0, <1>1, <2>1, <2>2, Gone DEF JobInv, Steps, rows
  <2> QED BY <2>1, <2>3, QuietStep
<1> QED BY <1>2, <1>3, <1>4

(* The settlement: the hold becomes a payment of an included transaction.  *)
LEMMA SettleKeeps ==
    ASSUME IInv, NEW k \in Worker, Settle(k)
    PROVE  IInv' /\ PromiseStep
<1>0. PICK w \in W : w = worker[k].w
  BY JobTyped
<1>1. /\ RowInv(w) /\ Len(attempts[w]) \in 0..MaxAttempts
      /\ signed[w] \in Gens /\ chain[w][signed[w]] = "success"
      /\ worker[k].tries = 0 /\ outbox[w] # "none"
  BY <1>0, JobTyped, RowTyped DEF Settle, At, JobInv
<1>2. UNCHANGED <<available, requestOnly, signed, intent, attempts, leaseDue, watch, chain>>
  BY DEF Settle
<1>4. CASE state[w] \notin {"confirming", "completed"}
  <2>1. GoTo(k, "throw") /\ UNCHANGED <<requestVars, rows, watch, chain>>
    BY <1>0, <1>2, <1>4 DEF Settle, requestVars, requestOnly, rows
  <2> QED BY <1>1, <2>1, GoneKeeps
<1>5. CASE state[w] = "completed"
  <2>1. GoTo(k, "done") /\ UNCHANGED <<requestVars, rows, watch, chain>>
    BY <1>0, <1>2, <1>5 DEF Settle, requestVars, requestOnly, rows
  <2>2. outbox[w] = "completed"
    BY <1>1, <1>5, Closed
  <2>3. Goes(k) /\ JobInv(k)'
    BY <1>0, <1>1, <2>1, <2>2, Gone DEF JobInv, Steps, rows
  <2> QED BY <2>1, <2>3, QuietStep
<1>6. CASE state[w] = "confirming"
  <2>1. /\ held >= Amount[w]
        /\ held' = held - Amount[w]
        /\ ledger' = [ledger EXCEPT ![w] = @ \cup {"withdraw"}]
        /\ state' = [state EXCEPT ![w] = "completed"]
        /\ reserved' = [reserved EXCEPT ![w] = FALSE]
        /\ outbox' = [outbox EXCEPT ![w] = "completed"]
        /\ GoTo(k, "done")
    BY <1>0, <1>6 DEF Settle
  <2>2. /\ state' \in [W -> WithdrawalStates] /\ state'[w] = "completed"
        /\ \A v \in W \ {w} : state'[v] = state[v]
    BY <2>1 DEF IInv, TypeOK, RequestTypeOK, WithdrawalStates
  <2>3. /\ ledger' \in [W -> SUBSET {"hold", "release", "withdraw"}]
        /\ ledger'[w] = ledger[w] \cup {"withdraw"}
        /\ \A v \in W \ {w} : ledger'[v] = ledger[v]
    BY <2>1 DEF IInv, TypeOK, RequestTypeOK
  <2>4. /\ reserved' \in [W -> BOOLEAN] /\ \A v \in W \ {w} : reserved'[v] = reserved[v]
    BY <2>1 DEF IInv, TypeOK, RequestTypeOK
  <2>5. /\ outbox' \in [W -> {"none", "pending", "published", "dead_letter", "completed"}]
        /\ outbox'[w] = "completed" /\ \A v \in W \ {w} : outbox'[v] = outbox[v]
    BY <2>1 DEF IInv, TypeOK
  <2>6. Goes(k) /\ JobInv(k)'
    BY <1>0, <1>1, <2>1, <2>5, Gone DEF JobInv, Steps
  <2>7. held' \in Nat
    <3>1. held \in Nat /\ Amount[w] \in Nat
      BY RequestAssumption DEF IInv, TypeOK, RequestTypeOK
    <3> QED BY <2>1, <3>1
  <2>8. TypeOK'
    BY <1>2, <2>2, <2>3, <2>4, <2>5, <2>6, <2>7
       DEF IInv, TypeOK, RequestTypeOK, Goes, requestOnly
  <2>9. SigningInv(w)' /\ FundsInv(w)' /\ OutboxInv(w)'
    BY <1>1, <1>2, <1>6, <2>2, <2>5 DEF RowInv, SigningInv, FundsInv, OutboxInv, HasJob, Signing,
       Sent, Reserving, OpenRow
  <2>10. AttemptsInv(w)'
    BY <1>1, <1>2, <1>6, <2>2 DEF RowInv, AttemptsInv
  <2>11. Kept(w) /\ \A v \in W \ {w} : Same(v)
    BY <1>1, <1>2, <2>2, <2>3, <2>4, <2>5 DEF Kept, Watched, HasJob, Same, OpenRow
  <2>12. IInv'
    <3>1. \A q \in Worker : worker'[q] = worker[q] \/ JobInv(q)'
      BY <2>6 DEF Goes
    <3> QED BY <2>8, <2>9, <2>10, <2>11, <3>1, RowStep DEF RowInv
  <2>13. Promise!Pay(w)
    <3>1. ledger[w] = {"hold"}
      BY <1>1, <1>6 DEF RowInv, FundsInv, Reserving
    <3>2. /\ Fate(w) = "held"
          /\ \A v \in W : Fate(v)' = IF v = w THEN "paid" ELSE Fate(v)
      BY <2>2, <2>3, <3>1 DEF Fate
    <3>3. signed[w] \in {g \in Gens : chain[w][g] = "success"}
      BY <1>1
    <3>4. /\ [v \in W |-> Fate(v)][w] = "held"
          /\ [v \in W |-> Fate(v)]' = [[v \in W |-> Fate(v)] EXCEPT ![w] = "paid"]
      BY <3>2
    <3> QED BY <1>2, <3>3, <3>4 DEF Promise!Pay
  <2> QED BY <2>12, <2>13 DEF PromiseStep, Promise!Next
<1> QED BY <1>4, <1>5, <1>6

-----------------------------------------------------------------------------
(* The request side: the rows of the workers stay.                         *)
LEMMA RequestRowStep ==
    ASSUME IInv, RequestTypeOK', UNCHANGED execVars, NEW w \in W,
           \A v \in W \ {w} : state'[v] = state[v] /\ reserved'[v] = reserved[v]
                              /\ ledger'[v] = ledger[v],
           RowInv(w)'
    PROVE  IInv'
<1>1. TypeOK'
  BY DEF IInv, TypeOK, execVars
<1>2. Len(attempts[w]) \in 0..MaxAttempts
  BY RowTyped
<1>3. Kept(w) /\ \A v \in W \ {w} : Same(v)
  BY <1>2 DEF Kept, Watched, HasJob, Same, execVars
<1> QED BY <1>1, <1>3, RowStep DEF execVars

(* Authorizations and receipts.                                            *)
LEMMA PaperKeeps ==
    ASSUME IInv, RequestTypeOK', UNCHANGED execVars, UNCHANGED <<state, reserved, ledger>>
    PROVE  IInv' /\ PromiseStep
<1>1. PICK w \in W : TRUE
  BY ExecutionAssumption
<1>2. RowInv(w) /\ RowInv(w)'
  BY RowTyped DEF RowInv, SigningInv, FundsInv, AttemptsInv, OutboxInv, HasJob, execVars
<1>3. IInv'
  BY <1>2, RequestRowStep
<1> QED BY <1>3, PromiseUnseen DEF execVars

(* The state of a withdrawal without a transaction changes.                *)
LEMMA Unsigned ==
    ASSUME IInv, NEW w \in W, state[w] \in {"none", "compliance_review"}, UNCHANGED execVars,
           state'[w] \in {"compliance_review", "approved", "blocked", "rejected", "cancelled"}
    PROVE  /\ SigningInv(w)' /\ AttemptsInv(w)' /\ OutboxInv(w)'
           /\ \A g \in Gens : chain[w][g] = "unseen"
<1>1. RowInv(w)
  BY RowTyped
<1>2. signed[w] = 0 /\ attempts[w] = <<>> /\ \A g \in Gens : chain[w][g] = "unseen"
  BY <1>1, ExecutionAssumption DEF RowInv, SigningInv, AttemptsInv, Signing, Sent, Gens
<1> QED BY <1>1, <1>2 DEF RowInv, SigningInv, AttemptsInv, OutboxInv, HasJob, Signing, Sent,
                    OpenRow,
           ActiveAttempt, execVars

LEMMA AdmitKeeps ==
    ASSUME IInv, NEW w \in W, NEW decision \in ComplianceDecisions, Admit(w, decision),
           UNCHANGED execVars
    PROVE  IInv' /\ PromiseStep
<1>1. state[w] = "none" /\ ledger[w] = {} /\ RowInv(w)
  BY RowTyped DEF Admit, KeyTaken, RowInv, FundsInv
<1>2. decision.state \in {"approved", "compliance_review", "blocked"} /\ decision.cleared \in BOOLEAN
  BY DEF ComplianceDecisions
<1>3. /\ state' \in [W -> WithdrawalStates] /\ state'[w] = decision.state
      /\ \A v \in W \ {w} : state'[v] = state[v]
  BY <1>2 DEF Admit, IInv, TypeOK, RequestTypeOK, WithdrawalStates
<1>4. /\ authorization' \in [W -> {"none", "issued", "consumed"}]
      /\ cleared' \in [W -> BOOLEAN] /\ receipts' = receipts
  BY <1>2 DEF Admit, IInv, TypeOK, RequestTypeOK
<1>5. /\ ledger' \in [W -> SUBSET {"hold", "release", "withdraw"}] /\ reserved' \in [W -> BOOLEAN]
      /\ available' \in Nat /\ held' \in Nat
      /\ \A v \in W \ {w} : ledger'[v] = ledger[v] /\ reserved'[v] = reserved[v]
      /\ decision.state = "blocked" => ledger'[w] = {}
      /\ decision.state # "blocked" => ledger'[w] = {"hold"} /\ reserved'[w]
  <2>1. CASE decision.state = "blocked"
    BY <1>1, <2>1 DEF Admit, IInv, TypeOK, RequestTypeOK
  <2>2. CASE decision.state # "blocked"
    <3>1. Reserve(w)
      BY <2>2 DEF Admit
    <3>2. available \in Nat /\ held \in Nat /\ Amount[w] \in Nat
      BY RequestAssumption DEF IInv, TypeOK, RequestTypeOK
    <3>3. available' \in Nat /\ held' \in Nat
      BY <3>1, <3>2 DEF Reserve
    <3> QED BY <1>1, <2>2, <3>1, <3>3 DEF Reserve, IInv, TypeOK, RequestTypeOK
  <2> QED BY <2>1, <2>2
<1>6. RequestTypeOK'
  BY <1>3, <1>4, <1>5 DEF IInv, TypeOK, RequestTypeOK
<1>7. RowInv(w)'
  <2>1. SigningInv(w)' /\ AttemptsInv(w)' /\ OutboxInv(w)'
    BY <1>1, <1>2, <1>3, Unsigned
  <2> QED BY <1>2, <1>3, <1>5, <2>1 DEF RowInv, FundsInv, Reserving
<1>8. IInv'
  BY <1>3, <1>5, <1>6, <1>7, RequestRowStep
<1>9. Promise!Decide(w)
  <2> DEFINE f == IF decision.state = "blocked" THEN "refused" ELSE "held"
  <2>1. Fate(w) = "none" /\ \A v \in W : Fate(v)' = IF v = w THEN f ELSE Fate(v)
    BY <1>1, <1>2, <1>3, <1>5 DEF Fate
  <2>2. f \in {"held", "refused"}
    OBVIOUS
  <2> HIDE DEF f
  <2>3. /\ [v \in W |-> Fate(v)][w] = "none"
        /\ [v \in W |-> Fate(v)]' = [[v \in W |-> Fate(v)] EXCEPT ![w] = f]
    BY <2>1
  <2> QED BY <2>2, <2>3 DEF Promise!Decide, execVars
<1> QED BY <1>8, <1>9 DEF PromiseStep, Promise!Next

(* A withdrawal under review is given up: its funds go back, and nothing   *)
(* of it was ever sent.                                                    *)
LEMMA ReturnKeeps ==
    ASSUME IInv, NEW w \in W, state[w] = "compliance_review", Release(w),
           NEW s \in {"cancelled", "rejected", "blocked"},
           state' = [state EXCEPT ![w] = s], reserved' = [reserved EXCEPT ![w] = FALSE],
           receipts' \subseteq Command, UNCHANGED <<cleared, authorization>>, UNCHANGED execVars
    PROVE  IInv' /\ PromiseStep
<1>1. RowInv(w) /\ ledger[w] = {"hold"} /\ reserved[w]
  BY RowTyped DEF RowInv, FundsInv, Reserving
<1>2. /\ held >= Amount[w] /\ held' = held - Amount[w] /\ available' = available + Amount[w]
      /\ ledger' = [ledger EXCEPT ![w] = @ \cup {"release"}]
  BY <1>1 DEF Release
<1>3. held' \in Nat /\ available' \in Nat
  <2>1. available \in Nat /\ held \in Nat /\ Amount[w] \in Nat
    BY RequestAssumption DEF IInv, TypeOK, RequestTypeOK
  <2> QED BY <1>2, <2>1
<1>4. /\ state' \in [W -> WithdrawalStates] /\ state'[w] = s
      /\ \A v \in W \ {w} : state'[v] = state[v]
  BY DEF IInv, TypeOK, RequestTypeOK, WithdrawalStates
<1>5. /\ ledger' \in [W -> SUBSET {"hold", "release", "withdraw"}]
      /\ ledger'[w] = {"hold", "release"}
      /\ \A v \in W \ {w} : ledger'[v] = ledger[v]
  BY <1>1, <1>2 DEF IInv, TypeOK, RequestTypeOK
<1>6. reserved' \in [W -> BOOLEAN] /\ \A v \in W \ {w} : reserved'[v] = reserved[v]
  BY DEF IInv, TypeOK, RequestTypeOK
<1>7. RequestTypeOK'
  BY <1>3, <1>4, <1>5, <1>6 DEF IInv, TypeOK, RequestTypeOK
<1>8. /\ SigningInv(w)' /\ AttemptsInv(w)' /\ OutboxInv(w)'
      /\ \A g \in Gens : chain[w][g] = "unseen"
  BY <1>4, Unsigned
<1>9. RowInv(w)'
  BY <1>4, <1>8 DEF RowInv, FundsInv, Reserving
<1>10. IInv'
  BY <1>4, <1>5, <1>6, <1>7, <1>9, RequestRowStep
<1>11. Promise!Return(w)
  <2>1. Fate(w) = "held" /\ \A v \in W : Fate(v)' = IF v = w THEN "returned" ELSE Fate(v)
    BY <1>1, <1>4, <1>5 DEF Fate
  <2>2. {g \in Gens : chain[w][g] # "unseen"} = {}
    BY <1>8
  <2>3. /\ [v \in W |-> Fate(v)][w] = "held"
        /\ [v \in W |-> Fate(v)]' = [[v \in W |-> Fate(v)] EXCEPT ![w] = "returned"]
        /\ [v \in W |-> {g \in Gens : chain[v][g] # "unseen"}][w] = {}
    BY <2>1, <2>2
  <2> QED BY <2>3 DEF Promise!Return, execVars
<1> QED BY <1>10, <1>11 DEF PromiseStep, Promise!Next

LEMMA CommandKeeps ==
    ASSUME IInv, NEW c \in Command, Cancel(c) \/ AdminDecide(c), UNCHANGED execVars
    PROVE  IInv' /\ PromiseStep
<1>0. PICK w \in W : w = c.w
  BY RequestAssumption
<1>1. /\ state[w] = "compliance_review" /\ receipts' \subseteq Command
      /\ UNCHANGED <<cleared, authorization>>
  BY <1>0, RowTyped DEF Cancel, AdminDecide, Reviewable, WithdrawalStates, IInv, TypeOK,
                    RequestTypeOK
<1>2. CASE Cancel(c)
  BY <1>0, <1>1, <1>2, ReturnKeeps DEF Cancel
<1>3. CASE AdminDecide(c) /\ c.action \in {"reject", "block"}
  <2>1. RequestedState(c) \in {"rejected", "blocked"}
    BY <1>3 DEF RequestedState
  <2> QED BY <1>0, <1>1, <1>3, <2>1, ReturnKeeps DEF AdminDecide
<1>4. CASE AdminDecide(c) /\ c.action \notin {"reject", "block"}
  <2>1. RequestedState(c) = "approved"
    BY <1>0, <1>1, <1>4 DEF AdminDecide, RequestedState
  <2>2. /\ state' = [state EXCEPT ![w] = "approved"]
        /\ UNCHANGED <<ledger, available, held, reserved>>
    BY <1>0, <1>4, <2>1 DEF AdminDecide
  <2>3. /\ state' \in [W -> WithdrawalStates] /\ state'[w] = "approved"
        /\ \A v \in W \ {w} : state'[v] = state[v]
    BY <2>2 DEF IInv, TypeOK, RequestTypeOK, WithdrawalStates
  <2>4. RequestTypeOK'
    BY <1>1, <2>2, <2>3 DEF IInv, TypeOK, RequestTypeOK
  <2>5. SigningInv(w)' /\ AttemptsInv(w)' /\ OutboxInv(w)'
    BY <1>1, <2>3, Unsigned
  <2>6. RowInv(w)'
    BY <1>1, <2>2, <2>3, <2>5, RowTyped DEF RowInv, FundsInv, Reserving
  <2>7. IInv'
    BY <2>2, <2>3, <2>4, <2>6, RequestRowStep
  <2>8. \A v \in W : ledger'[v] = ledger[v] /\ ((state'[v] = "none") <=> (state[v] = "none"))
    BY <1>1, <2>2, <2>3
  <2> QED BY <2>7, <2>8, PromiseUnseen DEF execVars
<1> QED BY <1>2, <1>3, <1>4

LEMMA RequestKeeps ==
    ASSUME IInv, RequestNext, UNCHANGED execVars
    PROVE  IInv' /\ PromiseStep
<1>1. ASSUME NEW w \in W, IssueAuthorization(w) \/ ExpireAuthorization(w)
      PROVE  IInv' /\ PromiseStep
  <2>1. RequestTypeOK' /\ UNCHANGED <<state, reserved, ledger>>
    BY <1>1 DEF IssueAuthorization, ExpireAuthorization, IInv, TypeOK, RequestTypeOK
  <2> QED BY <2>1, PaperKeeps
<1>2. ASSUME NEW c \in Command, AdminRepeat(c) \/ PurgeReceipt(c)
      PROVE  IInv' /\ PromiseStep
  <2>1. RequestTypeOK' /\ UNCHANGED <<state, reserved, ledger>>
    BY <1>2 DEF AdminRepeat, PurgeReceipt, IInv, TypeOK, RequestTypeOK
  <2> QED BY <2>1, PaperKeeps
<1> QED BY <1>1, <1>2, AdmitKeeps, CommandKeeps DEF RequestNext
-----------------------------------------------------------------------------
LEMMA WorkerKeeps ==
    ASSUME IInv, NEW k \in Worker, WorkerStep(k)
    PROVE  IInv' /\ PromiseStep
BY RecoverReadKeeps, FailureKeeps, ClaimQuietKeeps, ClaimResumeKeeps, ClaimBuildKeeps,
   CommitPreparedKeeps, BuildFailsKeeps, FailPreparationKeeps, BeginKeeps, RpcTryKeeps,
   FinalizeAcceptedKeeps, AcceptFailsKeeps, ObserveKeeps, ResolveKeeps, PublishQuietKeeps,
   PublishEnqueueKeeps, PublishMarkKeeps, UnpublishKeeps, LoadQuietKeeps, MarkOutcomeKeeps,
   SettleKeeps, JobDoneKeeps, JobThrowsKeeps
   DEF WorkerStep

LEMMA StepKeeps == IInv /\ [Next]_vars => IInv' /\ PromiseStep
<1> SUFFICES ASSUME IInv, [Next]_vars PROVE IInv' /\ PromiseStep
  OBVIOUS
<1>1. CASE RequestNext /\ UNCHANGED execVars
  BY <1>1, RequestKeeps
<1>2. ASSUME NEW k \in Worker, WorkerStep(k) \/ Crash(k) \/ LosesLock(k)
      PROVE  IInv' /\ PromiseStep
  BY <1>2, WorkerKeeps, CrashKeeps, LosesLockKeeps
<1>3. ASSUME NEW k \in Worker, NEW w \in W, Deliver(k, w) \/ DeliverWatch(k, w)
      PROVE  IInv' /\ PromiseStep
  BY <1>3, DeliverKeeps, DeliverWatchKeeps
<1>4. ASSUME NEW w \in W, LeaseExpires(w) \/ DeadlinePasses(w) PROVE IInv' /\ PromiseStep
  BY <1>4, LeaseExpiresKeeps, DeadlineKeeps
<1>5. ASSUME NEW w \in W, NEW g \in Gens, Network(w, g) PROVE IInv' /\ PromiseStep
  BY <1>5, NetworkKeeps
<1>6. CASE UNCHANGED vars
  <2>1. UNCHANGED requestVars /\ UNCHANGED execVars
    BY <1>6 DEF vars
  <2>2. RequestTypeOK'
    BY <2>1 DEF IInv, TypeOK, RequestTypeOK, requestVars
  <2> QED BY <2>1, <2>2, PaperKeeps DEF requestVars
<1> QED BY <1>1, <1>2, <1>3, <1>4, <1>5, <1>6 DEF Next

LEMMA Invariance == Spec => []IInv
BY InitHolds, StepKeeps, PTL DEF Spec

(* Rows keep their columns' types, attempts and generations their bounds,  *)
(* jobs their places and locals.                                           *)
THEOREM TypeCorrect == Spec => []TypeOK
BY Invariance, PTL DEF IInv

(* A withdrawal that says it was broadcast is known to the network.        *)
THEOREM BroadcastsAreKnown == Spec => []BroadcastIsKnown
<1>1. IInv => BroadcastIsKnown
  BY DEF IInv, RowInv, SigningInv, Sent, BroadcastIsKnown, Prepared
<1> QED BY <1>1, Invariance, PTL

(* No attempt follows one whose outcome is unknown or refused.             *)
THEOREM RetriesAreAnswered == Spec => []RetryNeedsAnswer
<1>1. IInv => RetryNeedsAnswer
  BY DEF IInv, RowInv, AttemptsInv, Answered, RetryNeedsAnswer
<1> QED BY <1>1, Invariance, PTL

(* An intent is building exactly while its withdrawal is.                  *)
THEOREM IntentsMatch == Spec => []IntentMatchesState
<1>1. IInv => IntentMatchesState
  BY DEF IInv, RowInv, SigningInv, IntentMatchesState
<1> QED BY <1>1, Invariance, PTL

(* A published outbox row has a confirmation job, in the queue or failed   *)
(* there for good: none is published without one, and none loses it while  *)
(* several publishers, jobs and workers without a lock meet at it.  It does*)
(* not say that the job still runs: see MonitoringEnds.                    *)
THEOREM PublishedRowsHaveJobs == Spec => []PublishedHasJob
<1>1. IInv => PublishedHasJob
  BY DEF IInv, RowInv, OutboxInv, HasJob, PublishedHasJob
<1> QED BY <1>1, Invariance, PTL

(* The withdrawals implement WithdrawalPromise: paid at most once and only *)
(* against an included transaction, returned only if nothing was sent, one *)
(* transaction per withdrawal on the network.                              *)
THEOREM PromiseIsKept == Spec => KeepsPayoutPromise
<1>1. Init => Promise!Init
  <2> SUFFICES ASSUME Init PROVE Promise!Init
    OBVIOUS
  <2>1. \A w \in W : /\ Fate(w) = "none"
                     /\ {g \in Gens : chain[w][g] # "unseen"} = {}
                     /\ {g \in Gens : chain[w][g] = "success"} = {}
    BY DEF Init, RequestInit, Fate
  <2> QED BY <2>1 DEF Promise!Init
<1>2. IInv /\ [Next]_vars => [Promise!Next]_(Promise!promiseVars)
  BY StepKeeps DEF PromiseStep
<1> QED BY <1>1, <1>2, Invariance, PTL DEF Spec, KeepsPayoutPromise, Promise!Spec
-----------------------------------------------------------------------------
(* Where the funds are.  A reservation is a hold that was neither given    *)
(* back nor taken.                                                         *)
FundsInvariant ==
    /\ FundsAccounted
    /\ \A w \in W : reserved[w] <=> ledger[w] = {"hold"}

LEMMA SumsTyped ==
    ASSUME RequestTypeOK
    PROVE  /\ \A w \in W : Reserved[w] \in Int /\ Withdrawn[w] \in Int
           /\ SumFunctionOnSet(Reserved, W) \in Int /\ SumFunctionOnSet(Withdrawn, W) \in Int
           /\ available \in Nat /\ held \in Nat
<1>1. \A w \in W : Reserved[w] \in Int /\ Withdrawn[w] \in Int
  BY RequestAssumption DEF RequestTypeOK, Reserved, Withdrawn
<1> QED BY <1>1, SumInt, RequestAssumption DEF RequestTypeOK

LEMMA FundsInit == Init => FundsInvariant
<1> SUFFICES ASSUME Init PROVE FundsInvariant
  OBVIOUS
<1>1. \A w \in W : Reserved[w] = 0 /\ Withdrawn[w] = 0
  BY DEF Init, RequestInit, Reserved, Withdrawn
<1>2. SumFunctionOnSet(Reserved, W) = 0 /\ SumFunctionOnSet(Withdrawn, W) = 0
  BY <1>1, SumZero, RequestAssumption
<1> QED BY <1>2, RequestAssumption DEF Init, RequestInit, FundsInvariant, FundsAccounted

LEMMA WalletUnmoved ==
    ASSUME FundsInvariant, UNCHANGED wallet
    PROVE  FundsInvariant'
<1>1. Reserved' = Reserved /\ Withdrawn' = Withdrawn
  BY DEF wallet, Reserved, Withdrawn
<1> QED BY <1>1 DEF wallet, FundsInvariant, FundsAccounted

(* A movement for one withdrawal that the wallet's row follows.            *)
LEMMA FundsFollow ==
    ASSUME RequestTypeOK, RequestTypeOK', FundsInvariant, NEW w \in W,
           \A v \in W \ {w} : reserved'[v] = reserved[v] /\ ledger'[v] = ledger[v],
           reserved'[w] <=> ledger'[w] = {"hold"},
           held' = held + Reserved'[w] - Reserved[w],
           available' + held' + Withdrawn'[w] = available + held + Withdrawn[w]
    PROVE  FundsInvariant'
<1>1. /\ \A v \in W : Reserved[v] \in Int /\ Withdrawn[v] \in Int
      /\ SumFunctionOnSet(Reserved, W) \in Int /\ SumFunctionOnSet(Withdrawn, W) \in Int
      /\ available \in Nat /\ held \in Nat
  BY SumsTyped
<1>2. \A v \in W : Reserved'[v] \in Int /\ Withdrawn'[v] \in Int
  BY RequestAssumption DEF RequestTypeOK, Reserved, Withdrawn
<1>3. available' \in Nat /\ held' \in Nat
  BY DEF RequestTypeOK
<1>4. \A v \in W \ {w} : Reserved'[v] = Reserved[v] /\ Withdrawn'[v] = Withdrawn[v]
  BY DEF Reserved, Withdrawn
<1>5. SumFunctionOnSet(Reserved', W) = SumFunctionOnSet(Reserved, W) + Reserved'[w] - Reserved[w]
  BY <1>1, <1>2, <1>4, SumChange, RequestAssumption
<1>6. SumFunctionOnSet(Withdrawn', W)
        = SumFunctionOnSet(Withdrawn, W) + Withdrawn'[w] - Withdrawn[w]
  <2>1. /\ \A v \in W : Withdrawn[v] \in Int /\ Withdrawn'[v] \in Int
        /\ \A v \in W \ {w} : Withdrawn'[v] = Withdrawn[v]
    BY <1>1, <1>2, <1>4
  <2>2. IsFiniteSet(W)
    BY RequestAssumption
  <2> QED BY ONLY <2>1, <2>2, SumChange, w \in W
<1>7. /\ held = SumFunctionOnSet(Reserved, W)
      /\ available + held + SumFunctionOnSet(Withdrawn, W) = Funds
  BY DEF FundsInvariant, FundsAccounted
<1>8. held' = SumFunctionOnSet(Reserved', W)
  BY <1>5, <1>7
<1>9. available' + held' + SumFunctionOnSet(Withdrawn', W) = Funds
  BY <1>1, <1>2, <1>3, <1>6, <1>7
<1>10. \A v \in W : reserved'[v] <=> ledger'[v] = {"hold"}
  BY DEF FundsInvariant
<1> QED BY <1>8, <1>9, <1>10 DEF FundsInvariant, FundsAccounted

LEMMA AdmitFunds ==
    ASSUME IInv, RequestTypeOK', FundsInvariant, NEW w \in W,
           NEW decision \in ComplianceDecisions, Admit(w, decision)
    PROVE  FundsInvariant'
<1>0. RequestTypeOK /\ Amount[w] \in Nat \ {0} /\ available \in Nat /\ held \in Nat
  BY RequestAssumption DEF IInv, TypeOK, RequestTypeOK
<1>1. CASE decision.state = "blocked"
  BY <1>1, WalletUnmoved DEF Admit, wallet
<1>2. CASE decision.state # "blocked"
  <2>1. Reserve(w)
    BY <1>2 DEF Admit
  <2>2. ledger[w] = {} /\ ~reserved[w]
    <3>1. ledger[w] = {}
      BY RowTyped DEF Admit, KeyTaken, RowInv, FundsInv
    <3> QED BY <3>1 DEF FundsInvariant
  <2>3. /\ ledger'[w] = {"hold"} /\ reserved'[w]
        /\ \A v \in W \ {w} : reserved'[v] = reserved[v] /\ ledger'[v] = ledger[v]
        /\ available' = available - Amount[w] /\ held' = held + Amount[w]
    BY <1>0, <2>1, <2>2 DEF Reserve, RequestTypeOK
  <2>4. /\ Reserved[w] = 0 /\ Reserved'[w] = Amount[w]
        /\ Withdrawn[w] = 0 /\ Withdrawn'[w] = 0
    BY <2>2, <2>3 DEF Reserved, Withdrawn
  <2>5. /\ held' = held + Reserved'[w] - Reserved[w]
        /\ available' + held' + Withdrawn'[w] = available + held + Withdrawn[w]
    BY <1>0, <2>3, <2>4
  <2> QED BY <1>0, <2>3, <2>5, FundsFollow
<1> QED BY <1>1, <1>2

LEMMA ReturnFunds ==
    ASSUME IInv, RequestTypeOK', FundsInvariant, NEW w \in W,
           state[w] = "compliance_review", Release(w),
           reserved' = [reserved EXCEPT ![w] = FALSE]
    PROVE  FundsInvariant'
<1>0. RequestTypeOK /\ Amount[w] \in Nat \ {0} /\ available \in Nat /\ held \in Nat
  BY RequestAssumption DEF IInv, TypeOK, RequestTypeOK
<1>1. ledger[w] = {"hold"} /\ reserved[w]
  BY RowTyped DEF RowInv, FundsInv, Reserving
<1>2. /\ held' = held - Amount[w] /\ available' = available + Amount[w]
      /\ ledger' = [ledger EXCEPT ![w] = @ \cup {"release"}]
  BY <1>1 DEF Release
<1>3. /\ ledger'[w] = {"hold", "release"} /\ ~reserved'[w]
      /\ \A v \in W \ {w} : reserved'[v] = reserved[v] /\ ledger'[v] = ledger[v]
  BY <1>0, <1>1, <1>2 DEF RequestTypeOK
<1>4. /\ Reserved[w] = Amount[w] /\ Reserved'[w] = 0
      /\ Withdrawn[w] = 0 /\ Withdrawn'[w] = 0
  BY <1>1, <1>3 DEF Reserved, Withdrawn
<1>5. /\ held' = held + Reserved'[w] - Reserved[w]
      /\ available' + held' + Withdrawn'[w] = available + held + Withdrawn[w]
  BY <1>0, <1>2, <1>4
<1>6. reserved'[w] <=> ledger'[w] = {"hold"}
  BY <1>3
<1> QED BY <1>0, <1>3, <1>5, <1>6, FundsFollow

LEMMA SettleFunds ==
    ASSUME IInv, RequestTypeOK', FundsInvariant, NEW k \in Worker, Settle(k)
    PROVE  FundsInvariant'
<1>0. PICK w \in W : w = worker[k].w
  BY JobTyped
<1>1. RequestTypeOK /\ Amount[w] \in Nat \ {0} /\ available \in Nat /\ held \in Nat
  BY RequestAssumption DEF IInv, TypeOK, RequestTypeOK
<1>2. CASE state[w] # "confirming"
  BY <1>0, <1>2, WalletUnmoved DEF Settle, wallet
<1>3. CASE state[w] = "confirming"
  <2>1. /\ held' = held - Amount[w] /\ available' = available
        /\ ledger' = [ledger EXCEPT ![w] = @ \cup {"withdraw"}]
        /\ reserved' = [reserved EXCEPT ![w] = FALSE]
    BY <1>0, <1>3 DEF Settle
  <2>2. ledger[w] = {"hold"} /\ reserved[w]
    BY <1>3, RowTyped DEF RowInv, FundsInv, Reserving
  <2>3. /\ ledger'[w] = {"hold", "withdraw"} /\ ~reserved'[w]
        /\ \A v \in W \ {w} : reserved'[v] = reserved[v] /\ ledger'[v] = ledger[v]
    BY <1>1, <2>1, <2>2 DEF RequestTypeOK
  <2>4. /\ Reserved[w] = Amount[w] /\ Reserved'[w] = 0
        /\ Withdrawn[w] = 0 /\ Withdrawn'[w] = Amount[w]
    BY <2>2, <2>3 DEF Reserved, Withdrawn
  <2>5. /\ held' = held + Reserved'[w] - Reserved[w]
        /\ available' + held' + Withdrawn'[w] = available + held + Withdrawn[w]
    BY <1>1, <2>1, <2>4
  <2>6. reserved'[w] <=> ledger'[w] = {"hold"}
    BY <2>3
  <2> QED BY <1>1, <2>3, <2>5, <2>6, FundsFollow
<1> QED BY <1>2, <1>3

(* No other step of a worker touches the wallet.                           *)
LEMMA OthersLeaveWallet ==
    ASSUME NEW k \in Worker, WorkerStep(k), ~Settle(k)
    PROVE  UNCHANGED wallet
<1>1. CASE RecoverRead(k) \/ ExpireAttempt(k) \/ ClaimNothing(k) \/ ClaimConfirm(k)
             \/ ClaimReconcile(k) \/ ClaimResume(k) \/ ClaimBuild(k)
  BY <1>1 DEF RecoverRead, ExpireAttempt, ClaimNothing, ClaimConfirm, ClaimReconcile,
              ClaimResume, ClaimBuild, requestVars, wallet
<1>2. CASE CommitPrepared(k) \/ BuildFails(k) \/ FailPreparation(k) \/ Begin(k) \/ RpcTry(k)
  BY <1>2 DEF CommitPrepared, BuildFails, FailPreparation, Begin, RpcTry, requestVars, wallet
<1>3. CASE FinalizeAccepted(k) \/ AcceptFails(k) \/ FinalizeFailure(k) \/ Observe(k) \/ Resolve(k)
  BY <1>3 DEF FinalizeAccepted, AcceptFails, FinalizeFailure, Observe, Resolve, requestVars,
              wallet
<1>4. CASE PublishNothing(k) \/ PublishEnqueue(k) \/ PublishMark(k) \/ PublishFails(k) \/ Unpublish(k)
  BY <1>4 DEF PublishNothing, PublishEnqueue, PublishMark, PublishFails, Unpublish,
              requestVars, wallet
<1>5. CASE LoadDone(k) \/ LoadRefused(k) \/ LoadInTime(k) \/ LoadLate(k) \/ Poll(k)
             \/ MarkOutcome(k) \/ JobDone(k) \/ JobThrows(k)
  BY <1>5 DEF LoadDone, LoadRefused, LoadInTime, LoadLate, Poll, MarkOutcome, JobDone, JobThrows,
              requestVars, wallet
<1> QED BY <1>1, <1>2, <1>3, <1>4, <1>5 DEF WorkerStep

LEMMA RequestFunds ==
    ASSUME IInv, RequestTypeOK', FundsInvariant, RequestNext
    PROVE  FundsInvariant'
<1>1. ASSUME NEW c \in Command, Cancel(c) \/ AdminDecide(c) PROVE FundsInvariant'
  <2>1. c.w \in W
    BY RequestAssumption
  <2>2. state[c.w] = "compliance_review"
    BY <1>1, <2>1, RowTyped DEF Cancel, AdminDecide, Reviewable, WithdrawalStates, IInv, TypeOK,
                                RequestTypeOK
  <2>3. \/ Release(c.w) /\ reserved' = [reserved EXCEPT ![c.w] = FALSE]
        \/ UNCHANGED wallet
    BY <1>1 DEF Cancel, AdminDecide, wallet
  <2> QED BY <2>1, <2>2, <2>3, ReturnFunds, WalletUnmoved
<1>2. ASSUME NEW c \in Command, AdminRepeat(c) \/ PurgeReceipt(c) PROVE FundsInvariant'
  BY <1>2, WalletUnmoved DEF AdminRepeat, PurgeReceipt, wallet
<1>3. ASSUME NEW w \in W, IssueAuthorization(w) \/ ExpireAuthorization(w) PROVE FundsInvariant'
  BY <1>3, WalletUnmoved DEF IssueAuthorization, ExpireAuthorization, wallet
<1> QED BY <1>1, <1>2, <1>3, AdmitFunds DEF RequestNext

LEMMA FundsStep == IInv /\ IInv' /\ FundsInvariant /\ [Next]_vars => FundsInvariant'
<1> SUFFICES ASSUME IInv, IInv', FundsInvariant, [Next]_vars PROVE FundsInvariant'
  OBVIOUS
<1>0. RequestTypeOK'
  BY DEF IInv, TypeOK
<1>1. CASE RequestNext
  BY <1>0, <1>1, RequestFunds
<1>2. ASSUME NEW k \in Worker, WorkerStep(k) PROVE FundsInvariant'
  BY <1>0, <1>2, SettleFunds, OthersLeaveWallet, WalletUnmoved
<1>3. ASSUME NEW k \in Worker, Crash(k) \/ LosesLock(k) PROVE FundsInvariant'
  BY <1>3, WalletUnmoved DEF Crash, LosesLock, requestVars, wallet
<1>4. ASSUME NEW k \in Worker, NEW w \in W, Deliver(k, w) \/ DeliverWatch(k, w)
      PROVE  FundsInvariant'
  BY <1>4, WalletUnmoved DEF Deliver, DeliverWatch, requestVars, wallet
<1>5. ASSUME NEW w \in W, LeaseExpires(w) \/ DeadlinePasses(w) PROVE FundsInvariant'
  BY <1>5, WalletUnmoved DEF LeaseExpires, DeadlinePasses, requestVars, wallet
<1>6. ASSUME NEW w \in W, NEW g \in Gens, Network(w, g) PROVE FundsInvariant'
  BY <1>6, WalletUnmoved DEF Network, requestVars, wallet
<1>7. CASE UNCHANGED vars
  BY <1>7, WalletUnmoved DEF vars, requestVars, wallet
<1> QED BY <1>1, <1>2, <1>3, <1>4, <1>5, <1>6, <1>7 DEF Next

(* Whatever runs beside them, admissions, releases and settlements leave   *)
(* every unit of the user's funds available, reserved for a withdrawal, or *)
(* withdrawn.                                                              *)
THEOREM FundsAreAccounted == Spec => []FundsAccounted
<1>1. FundsInvariant => FundsAccounted
  BY DEF FundsInvariant
<1> QED BY <1>1, FundsInit, FundsStep, Invariance, PTL DEF Spec
=============================================================================
