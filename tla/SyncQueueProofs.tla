---------------------------- MODULE SyncQueueProofs ----------------------------
(***************************************************************************)
(* Proofs about SyncQueue, for any jobs, lanes, workers and bounds.        *)
(*                                                                         *)
(* QueueInv is inductive.  Its heart is ClaimsAreAttempts: attempt rows    *)
(* are numbered by pgmq's read count, so a claim names a row no other lane *)
(* has, and the lease check "no later attempt" leaves one row that counts. *)
(***************************************************************************)
EXTENDS SyncQueue, TLAPS

\* The steps of Next, each with its parameters: proofs split on these.
LEMMA NextCases ==
  ASSUME Next
  PROVE  \/ \E j \in Job, delayed \in BOOLEAN : Enqueue(j, delayed)
         \/ \E l \in Lane : PollNext(l)
         \/ \E l \in Lane, j \in Job : ClaimJob(l, j)
         \/ \E l \in Lane, j \in Job : Complete(l, j)
         \/ \E l \in Lane, j \in Job, error \in {"retryable", "terminal"} : Retry(l, j, error)
         \/ \E l \in Lane, j \in Job, error \in {"retryable", "terminal"} : Fail(l, j, error)
         \/ \E l \in Lane, j \in Job : Extend(l, j)
         \/ \E l \in Lane, j \in Job : Defer(l, j)
         \/ \E l \in Lane : LoseClaim(l)
         \/ \E l \in Lane : Crash(l)
         \/ \E j \in Job : DelayEnds(j)
         \/ \E j \in Job : WindowCloses(j)
         \/ \E j \in Job, n \in Reads : DeadlinePasses(j, n)
BY DEF Next, Poll, Resolve

-------------------------------------------------------------------------------
(* What a held lease says about the state. *)

\* A lane that holds a lease works on the newest read of an open job.
LEMMA HolderOnNewest ==
  ASSUME QueueInv, NEW l \in Lane, NEW j \in Job, Holds(l, j)
  PROVE  /\ claim[l] \in Claim /\ claim[l].job = j
         /\ claim[l].read = readCount[j]
         /\ claim[l].read \in Reads
         /\ request[j] = "running"
         /\ attempt[j][claim[l].read].worker = WorkerOf[l]
         /\ attempt[j][claim[l].read].outcome = "none"
<1> DEFINE n == claim[l].read
<1>1. claim[l] \in Claim /\ claim[l].job = j /\ n \in Reads
  BY DEF QueueInv, TypeOK, Holds, Claim
<1>2. LeaseActive(j, n, WorkerOf[l])
  BY DEF Holds
<1>3. n <= readCount[j] /\ readCount[j] \in 0 .. MaxReads
  BY <1>1 DEF QueueInv, ClaimsAreAttempts, TypeOK, Holds
<1>4. n = readCount[j]
  <2> SUFFICES ASSUME n < readCount[j] PROVE FALSE
    BY <1>1, <1>3, QueueAssumption DEF Reads
  <2>1. readCount[j] \in Reads
    BY <1>1, <1>3, QueueAssumption DEF Reads
  <2>2. attempt[j][readCount[j]].worker = NoWorker
    BY <1>2, <2>1 DEF LeaseActive, Newest
  <2>3. attempt[j][readCount[j]].worker \in Worker
    BY <2>1, <1>3, QueueAssumption DEF QueueInv, ClaimsAreAttempts
  <2> QED BY <2>2, <2>3, QueueAssumption
<1> QED BY <1>1, <1>2, <1>4 DEF LeaseActive

\* The property SingleLease is a consequence of the invariant.
LEMMA OneHolder ==
  ASSUME QueueInv
  PROVE  SingleLease
<1> SUFFICES ASSUME NEW j \in Job, NEW l \in Lane, NEW m \in Lane, Holds(l, j), Holds(m, j)
             PROVE  l = m
  BY DEF SingleLease
<1>1. claim[l] \in Claim /\ claim[m] \in Claim
  BY HolderOnNewest
<1>2. claim[l].job = claim[m].job /\ claim[l].read = claim[m].read
  BY HolderOnNewest
<1>3. claim[l] = claim[m] /\ claim[l] # NoClaim
  BY <1>1, <1>2 DEF Claim, Holds
<1> QED BY <1>3 DEF QueueInv, ClaimsAreAttempts

-------------------------------------------------------------------------------
(* The invariant is inductive. *)

\* The invariant holds initially.
LEMMA QueueInit == Init => QueueInv
<1> SUFFICES ASSUME Init PROVE QueueInv
  OBVIOUS
<1>1. TypeOK
  BY QueueAssumption DEF Init, TypeOK, Status, InQueue, Attempt, NoAttempt, Queue
<1>2. ClaimsAreAttempts
  BY QueueAssumption DEF Init, ClaimsAreAttempts, Reads
<1>3. NoLostJob /\ DeadLetterJustified
  BY DEF Init, NoLostJob, DeadLetterJustified, Terminal
<1>4. LedgerExplains
  BY DEF Init, LedgerExplains, NoAttempt, Terminal
<1> QED BY <1>1, <1>2, <1>3, <1>4 DEF QueueInv

\* Publishing touches a job that has no attempt yet.
LEMMA EnqueueStep ==
  ASSUME QueueInv, NEW j \in Job, NEW delayed \in BOOLEAN, Enqueue(j, delayed)
  PROVE  QueueInv'
<1>1. TypeOK'
  BY DEF QueueInv, TypeOK, Enqueue, Status, InQueue
<1>2. ClaimsAreAttempts'
  BY DEF QueueInv, ClaimsAreAttempts, Enqueue
<1>3. NoLostJob'
  BY DEF QueueInv, TypeOK, NoLostJob, Enqueue, Terminal
<1>4. LedgerExplains'
  BY DEF QueueInv, TypeOK, LedgerExplains, Enqueue, Terminal
<1>5. DeadLetterJustified'
  BY DEF QueueInv, TypeOK, DeadLetterJustified, Enqueue
<1> QED BY <1>1, <1>2, <1>3, <1>4, <1>5 DEF QueueInv

\* A claim numbers its attempt with the read count it has just incremented, so
\* the row is new and no other lane's claim names it.
LEMMA ClaimJobStep ==
  ASSUME QueueInv, NEW l \in Lane, NEW j \in Job, ClaimJob(l, j)
  PROVE  QueueInv'
<1> DEFINE n == readCount[j] + 1
           row == [worker |-> WorkerOf[l], deadline |-> "open", outcome |-> "none", error |-> "none"]
<1> USE QueueAssumption
<1>1. readCount[j] \in Nat /\ n \in Reads
  BY DEF QueueInv, TypeOK, ClaimJob, Readable, Reads
<1>2. row \in Attempt
  BY DEF Attempt
<1>3. request[j] \notin Terminal \cup {"absent"}
  BY DEF QueueInv, TypeOK, NoLostJob, ClaimJob, Readable, Terminal
<1>4. TypeOK'
  <2>1. attempt' = [attempt EXCEPT ![j][n] = row]
    BY DEF ClaimJob
  <2>2. attempt' \in [Job -> [Reads -> Attempt]]
    BY <1>1, <1>2, <2>1 DEF QueueInv, TypeOK
  <2>3. claim' \in [Lane -> Claim \cup {NoClaim}]
    BY <1>1 DEF QueueInv, TypeOK, ClaimJob, Claim
  <2>4. readCount' \in [Job -> 0 .. MaxReads]
    BY <1>1 DEF QueueInv, TypeOK, ClaimJob, Reads
  <2> QED BY <2>2, <2>3, <2>4 DEF QueueInv, TypeOK, ClaimJob, Status, InQueue, Queue
<1>5. ClaimsAreAttempts'
  <2> DEFINE new == [job |-> j, read |-> n]
  <2>1. \A i \in Job : \A k \in Reads :
          IF k <= readCount'[i] THEN attempt'[i][k].worker \in Worker ELSE attempt'[i][k] = NoAttempt
    <3>1. \A i \in Job : \A k \in Reads :
            attempt'[i][k] = IF i = j /\ k = n THEN row ELSE attempt[i][k]
      BY <1>1 DEF QueueInv, TypeOK, ClaimJob
    <3>2. \A i \in Job : readCount'[i] = IF i = j THEN n ELSE readCount[i]
      BY DEF QueueInv, TypeOK, ClaimJob
    <3>3. row.worker \in Worker
      BY DEF Attempt
    <3>4. \A k \in Reads : k <= n <=> k <= readCount[j] \/ k = n
      BY <1>1 DEF Reads
    <3>5. \A k \in Reads : IF k <= n THEN attempt'[j][k].worker \in Worker ELSE attempt'[j][k] = NoAttempt
      BY <3>1, <3>3, <3>4 DEF QueueInv, ClaimsAreAttempts
    <3> QED BY <3>1, <3>2, <3>5 DEF QueueInv, ClaimsAreAttempts
  <2>2. \A m \in Lane : claim[m] # NoClaim =>
          claim[m] \in Claim /\ claim[m] # new /\ claim[m].read <= readCount'[claim[m].job]
    BY <1>1 DEF QueueInv, TypeOK, ClaimsAreAttempts, ClaimJob, Claim, Reads
  <2>3. \A m \in Lane : claim'[m] = claim[m] \/ (m = l /\ claim'[m] = new)
    BY DEF QueueInv, TypeOK, ClaimJob
  <2>4. new.read <= readCount'[new.job]
    BY <1>1 DEF QueueInv, TypeOK, ClaimJob
  <2>5. \A m \in Lane : claim'[m] # NoClaim => claim'[m].read <= readCount'[claim'[m].job]
    BY <2>2, <2>3, <2>4
  <2>6. \A m, k \in Lane : claim'[m] # NoClaim /\ claim'[m] = claim'[k] => m = k
    BY <2>2, <2>3 DEF QueueInv, ClaimsAreAttempts
  <2> QED BY <2>1, <2>5, <2>6 DEF ClaimsAreAttempts
<1>6. NoLostJob'
  BY <1>3 DEF QueueInv, TypeOK, NoLostJob, ClaimJob, Terminal
<1>7. LedgerExplains'
  <2>1. \A k \in Reads : attempt'[j][k].outcome \notin Terminal
    BY <1>1, <1>3 DEF QueueInv, TypeOK, LedgerExplains, ClaimJob, Terminal
  <2>2. request'[j] = "running"
    BY DEF QueueInv, TypeOK, ClaimJob
  <2>3. \A i \in Job \ {j} :
          request'[i] = request[i] /\ attempt'[i] = attempt[i] /\ readCount'[i] = readCount[i]
    BY DEF QueueInv, TypeOK, ClaimJob
  <2> QED BY <2>1, <2>2, <2>3 DEF QueueInv, LedgerExplains, Terminal
<1>8. DeadLetterJustified'
  <2>1. request'[j] = "running" /\ deadLetter' = deadLetter /\ request[j] # "failed"
    BY <1>3 DEF QueueInv, TypeOK, ClaimJob, Terminal
  <2>2. \A i \in Job \ {j} :
          request'[i] = request[i] /\ attempt'[i] = attempt[i] /\ readCount'[i] = readCount[i]
    BY DEF QueueInv, TypeOK, ClaimJob
  <2> QED BY <2>1, <2>2 DEF QueueInv, DeadLetterJustified
<1> QED BY <1>4, <1>5, <1>6, <1>7, <1>8 DEF QueueInv

\* What every call that ends a lease does to the attempts and the claims: one
\* outcome is recorded, on the newest row, and the lane lets its claim go.
LEMMA Settles ==
  ASSUME QueueInv, NEW l \in Lane, NEW j \in Job, Holds(l, j),
         NEW outcome \in {"none", "retry"} \cup Terminal,
         NEW error \in {"none", "retryable", "terminal", "deferral"},
         Outcome(j, claim[l].read, outcome, error), Release(l), readCount' = readCount
  PROVE  /\ attempt' \in [Job -> [Reads -> Attempt]]
         /\ claim' \in [Lane -> Claim \cup {NoClaim}]
         /\ ClaimsAreAttempts'
         /\ \A i \in Job \ {j} : attempt'[i] = attempt[i]
         /\ \A k \in Reads : k # readCount[j] => attempt'[j][k] = attempt[j][k]
         /\ attempt'[j][readCount[j]].outcome = outcome
         /\ attempt'[j][readCount[j]].error = error
<1> DEFINE n == claim[l].read
           row == [attempt[j][n] EXCEPT !.outcome = outcome, !.error = error]
<1>1. n \in Reads /\ n = readCount[j] /\ attempt[j][n] \in Attempt
  BY HolderOnNewest DEF QueueInv, TypeOK
<1>2. /\ row \in Attempt
      /\ row.worker = attempt[j][n].worker /\ row.outcome = outcome /\ row.error = error
  BY <1>1 DEF Attempt
<1>3. attempt' = [attempt EXCEPT ![j][n] = row]
  BY <1>1 DEF Outcome, QueueInv, TypeOK
<1>4. /\ attempt' \in [Job -> [Reads -> Attempt]]
      /\ \A i \in Job \ {j} : attempt'[i] = attempt[i]
      /\ \A k \in Reads : attempt'[j][k] = IF k = n THEN row ELSE attempt[j][k]
  BY <1>1, <1>2, <1>3 DEF QueueInv, TypeOK
<1>5. \A m \in Lane : claim'[m] = IF m = l THEN NoClaim ELSE claim[m]
  BY DEF Release, QueueInv, TypeOK
<1>6. claim' \in [Lane -> Claim \cup {NoClaim}]
  BY DEF Release, QueueInv, TypeOK
<1>7. ClaimsAreAttempts'
  <2>1. \A i \in Job : \A k \in Reads :
          IF k <= readCount'[i] THEN attempt'[i][k].worker \in Worker ELSE attempt'[i][k] = NoAttempt
    <3> SUFFICES ASSUME NEW i \in Job, NEW k \in Reads
                 PROVE  IF k <= readCount[i] THEN attempt'[i][k].worker \in Worker
                        ELSE attempt'[i][k] = NoAttempt
      OBVIOUS
    <3>1. CASE i = j /\ k = n
      <4>1. n <= readCount[j] /\ attempt[j][n].worker \in Worker
        BY <1>1, QueueAssumption DEF QueueInv, ClaimsAreAttempts, Reads
      <4> QED BY <1>2, <1>4, <3>1, <4>1
    <3>2. CASE ~(i = j /\ k = n)
      BY <1>4, <3>2 DEF QueueInv, ClaimsAreAttempts
    <3> QED BY <3>1, <3>2
  <2> QED BY <1>5, <2>1 DEF QueueInv, ClaimsAreAttempts
<1> QED BY <1>1, <1>2, <1>4, <1>6, <1>7

\* complete_sync_job preserves the invariant.
LEMMA CompleteStep ==
  ASSUME QueueInv, NEW l \in Lane, NEW j \in Job, Complete(l, j)
  PROVE  QueueInv'
<1> DEFINE n == readCount[j]
<1>1. /\ n \in Reads /\ request[j] = "running" /\ Holds(l, j)
      /\ attempt[j][n].outcome = "none"
  BY HolderOnNewest DEF Complete
<1>2. /\ attempt' \in [Job -> [Reads -> Attempt]]
      /\ claim' \in [Lane -> Claim \cup {NoClaim}]
      /\ ClaimsAreAttempts'
      /\ \A i \in Job \ {j} : attempt'[i] = attempt[i]
      /\ \A k \in Reads : k # n => attempt'[j][k] = attempt[j][k]
      /\ attempt'[j][n].outcome = "succeeded"
  BY <1>1, Settles DEF Complete, Terminal
<1>3. /\ \A i \in Job \ {j} : request'[i] = request[i] /\ message'[i] = message[i]
      /\ request'[j] = "succeeded" /\ message'[j] = "archived"
      /\ readCount' = readCount /\ deadLetter' = deadLetter
  BY DEF Complete, QueueInv, TypeOK
<1>4. TypeOK'
  BY <1>2 DEF QueueInv, TypeOK, Complete, Status, Terminal
<1>5. NoLostJob'
  BY <1>3 DEF QueueInv, NoLostJob, Terminal
<1>6. LedgerExplains'
  BY <1>1, <1>2, <1>3 DEF QueueInv, LedgerExplains, Terminal, Reads
<1>7. DeadLetterJustified'
  BY <1>1, <1>2, <1>3 DEF QueueInv, DeadLetterJustified
<1> QED BY <1>2, <1>4, <1>5, <1>6, <1>7 DEF QueueInv

\* A retry and a deferral end the lease without resolving the job.
LEMMA GiveBackStep ==
  ASSUME QueueInv, NEW l \in Lane, NEW j \in Job, Holds(l, j),
         NEW error \in {"none", "retryable", "terminal", "deferral"},
         Outcome(j, claim[l].read, "retry", error), Release(l),
         message' = [message EXCEPT ![j] = "hidden"],
         request' = [request EXCEPT ![j] = "retry_wait"],
         disturbances' \in 0 .. MaxDisturbances,
         UNCHANGED <<readCount, deadLetter, scan>>
  PROVE  QueueInv'
<1> DEFINE n == readCount[j]
<1>1. n \in Reads /\ request[j] = "running" /\ attempt[j][n].outcome = "none"
  BY HolderOnNewest
<1>2. /\ attempt' \in [Job -> [Reads -> Attempt]]
      /\ claim' \in [Lane -> Claim \cup {NoClaim}]
      /\ ClaimsAreAttempts'
      /\ \A i \in Job \ {j} : attempt'[i] = attempt[i]
      /\ \A k \in Reads : k # n => attempt'[j][k] = attempt[j][k]
      /\ attempt'[j][n].outcome = "retry"
  BY Settles
<1>3. /\ \A i \in Job \ {j} : request'[i] = request[i] /\ message'[i] = message[i]
      /\ request'[j] = "retry_wait" /\ message'[j] = "hidden"
      /\ message[j] # "unsent" /\ message[j] # "archived"
      /\ readCount' = readCount /\ deadLetter' = deadLetter
  BY <1>1 DEF QueueInv, TypeOK, NoLostJob, Terminal
<1>4. TypeOK'
  BY <1>2 DEF QueueInv, TypeOK, Status, InQueue
<1>5. NoLostJob'
  BY <1>3 DEF QueueInv, NoLostJob, Terminal
<1>6. LedgerExplains'
  BY <1>1, <1>2, <1>3 DEF QueueInv, LedgerExplains, Terminal, Reads
<1>7. DeadLetterJustified'
  BY <1>1, <1>2, <1>3 DEF QueueInv, DeadLetterJustified
<1> QED BY <1>2, <1>4, <1>5, <1>6, <1>7 DEF QueueInv

\* The dead-letter branch of retry_or_fail_sync_job preserves the invariant.
LEMMA FailStep ==
  ASSUME QueueInv, NEW l \in Lane, NEW j \in Job,
         NEW error \in {"retryable", "terminal"}, Fail(l, j, error)
  PROVE  QueueInv'
<1> DEFINE n == readCount[j]
<1>1. /\ n \in Reads /\ request[j] = "running" /\ Holds(l, j)
      /\ attempt[j][n].outcome = "none" /\ n >= Budget(error)
  BY HolderOnNewest DEF Fail
<1>2. /\ attempt' \in [Job -> [Reads -> Attempt]]
      /\ claim' \in [Lane -> Claim \cup {NoClaim}]
      /\ ClaimsAreAttempts'
      /\ \A i \in Job \ {j} : attempt'[i] = attempt[i]
      /\ \A k \in Reads : k # n => attempt'[j][k] = attempt[j][k]
      /\ attempt'[j][n].outcome = "failed"
      /\ attempt'[j][n].error = error
  BY <1>1, Settles DEF Fail, Terminal
<1>3. /\ \A i \in Job \ {j} : /\ request'[i] = request[i] /\ message'[i] = message[i]
                              /\ deadLetter'[i] = deadLetter[i]
      /\ request'[j] = "failed" /\ message'[j] = "archived"
      /\ deadLetter'[j] = deadLetter[j] + 1
      /\ readCount' = readCount
  BY DEF Fail, QueueInv, TypeOK
<1>4. TypeOK'
  <2>1. deadLetter' \in [Job -> Nat]
    <3>1. deadLetter \in [Job -> Nat] /\ deadLetter[j] + 1 \in Nat
      BY DEF QueueInv, TypeOK
    <3> QED BY <3>1 DEF Fail
  <2>2. request' \in [Job -> Status] /\ message' \in [Job -> InQueue \cup {"unsent", "archived"}]
    BY DEF QueueInv, TypeOK, Fail, Status, Terminal
  <2> QED BY <1>2, <2>1, <2>2 DEF QueueInv, TypeOK, Fail
<1>5. NoLostJob'
  BY <1>3 DEF QueueInv, NoLostJob, Terminal
<1>6. LedgerExplains'
  BY <1>1, <1>2, <1>3 DEF QueueInv, LedgerExplains, Terminal, Reads
<1>7. DeadLetterJustified'
  <2>1. deadLetter[j] = 0
    BY <1>1 DEF QueueInv, DeadLetterJustified
  <2>2. readCount'[j] >= MaxAttempts \/ attempt'[j][readCount'[j]].error = "terminal"
    BY <1>1, <1>2, <1>3 DEF Budget
  <2> QED BY <1>2, <1>3, <2>1, <2>2 DEF QueueInv, DeadLetterJustified
<1> QED BY <1>2, <1>4, <1>5, <1>6, <1>7 DEF QueueInv

\* A message that is hidden again, or becomes visible, stays in its queue.
LEMMA VisibilityStep ==
  ASSUME QueueInv, NEW j \in Job, NEW place \in InQueue,
         message[j] \in InQueue, message' = [message EXCEPT ![j] = place],
         disturbances' \in 0 .. MaxDisturbances,
         UNCHANGED <<request, readCount, attempt, deadLetter, claim, scan>>
  PROVE  QueueInv'
<1>1. TypeOK'
  BY DEF QueueInv, TypeOK, InQueue
<1>2. NoLostJob'
  BY DEF QueueInv, TypeOK, NoLostJob, InQueue
<1>3. ClaimsAreAttempts' /\ LedgerExplains' /\ DeadLetterJustified'
  BY DEF QueueInv, ClaimsAreAttempts, LedgerExplains, DeadLetterJustified
<1> QED BY <1>1, <1>2, <1>3 DEF QueueInv

\* A lane that drops its claim leaves the ledger alone.
LEMMA DropStep ==
  ASSUME QueueInv, NEW l \in Lane, Release(l),
         scan' \in [Lane -> Queue], disturbances' \in 0 .. MaxDisturbances,
         UNCHANGED ledgerVars
  PROVE  QueueInv'
<1>1. TypeOK'
  BY DEF QueueInv, TypeOK, Release, ledgerVars
<1>2. \A m \in Lane : claim'[m] = IF m = l THEN NoClaim ELSE claim[m]
  BY DEF QueueInv, TypeOK, Release
<1>3. ClaimsAreAttempts'
  BY <1>2 DEF QueueInv, ClaimsAreAttempts, ledgerVars
<1>4. NoLostJob' /\ LedgerExplains' /\ DeadLetterJustified'
  BY DEF QueueInv, NoLostJob, LedgerExplains, DeadLetterJustified, ledgerVars
<1> QED BY <1>1, <1>3, <1>4 DEF QueueInv

\* A lease deadline that passes preserves the invariant.
LEMMA DeadlineStep ==
  ASSUME QueueInv, NEW j \in Job, NEW n \in Reads, DeadlinePasses(j, n)
  PROVE  QueueInv'
<1> DEFINE row == [attempt[j][n] EXCEPT !.deadline = "passed"]
<1>1. /\ row \in Attempt /\ row.worker = attempt[j][n].worker
      /\ row.outcome = attempt[j][n].outcome /\ row.error = attempt[j][n].error
  <2>1. attempt[j][n] \in Attempt
    BY DEF QueueInv, TypeOK
  <2> QED BY <2>1 DEF Attempt
<1>2. attempt' = [attempt EXCEPT ![j][n] = row]
  BY DEF DeadlinePasses, QueueInv, TypeOK
<1>3. /\ attempt' \in [Job -> [Reads -> Attempt]]
      /\ \A i \in Job, k \in Reads :
           attempt'[i][k] = IF i = j /\ k = n THEN row ELSE attempt[i][k]
  BY <1>1, <1>2 DEF QueueInv, TypeOK
<1>4. attempt[j][n] # NoAttempt
  BY DEF DeadlinePasses, NoAttempt
<1>5. ClaimsAreAttempts'
  BY <1>1, <1>3, <1>4 DEF QueueInv, ClaimsAreAttempts, DeadlinePasses
<1>6. TypeOK'
  BY <1>3 DEF QueueInv, TypeOK, DeadlinePasses
<1>7. \A i \in Job, k \in Reads : /\ attempt'[i][k].outcome = attempt[i][k].outcome
                                 /\ attempt'[i][k].error = attempt[i][k].error
  BY <1>1, <1>3
<1>8. \A i \in Job : readCount[i] \in 0 .. MaxReads
  BY DEF QueueInv, TypeOK
<1>9. LedgerExplains'
  BY <1>7, <1>8, QueueAssumption DEF QueueInv, LedgerExplains, DeadlinePasses, Reads
<1>10. DeadLetterJustified'
  BY <1>7, <1>8, QueueAssumption DEF QueueInv, LedgerExplains, DeadLetterJustified, DeadlinePasses,
    Reads, Terminal
<1>11. NoLostJob'
  BY DEF QueueInv, NoLostJob, DeadlinePasses
<1> QED BY <1>5, <1>6, <1>9, <1>10, <1>11 DEF QueueInv

\* The invariant is preserved by every step.
LEMMA QueueStep == QueueInv /\ [Next]_vars => QueueInv'
<1> SUFFICES ASSUME QueueInv, [Next]_vars PROVE QueueInv'
  OBVIOUS
<1>0. CASE UNCHANGED vars
  BY <1>0 DEF vars, QueueInv, TypeOK, ClaimsAreAttempts, NoLostJob, LedgerExplains,
    DeadLetterJustified
<1> SUFFICES ASSUME Next PROVE QueueInv'
  BY <1>0
<1> USE DEF InQueue
<1>1. disturbances \in 0 .. MaxDisturbances /\ (Disturb => disturbances' \in 0 .. MaxDisturbances)
  BY QueueAssumption DEF QueueInv, TypeOK, Disturb
<1>2. scan \in [Lane -> Queue]
  BY DEF QueueInv, TypeOK
<1>3. CASE \E j \in Job, delayed \in BOOLEAN : Enqueue(j, delayed)
  BY <1>3, EnqueueStep
<1>4. CASE \E l \in Lane : PollNext(l)
  <2>1. PICK l \in Lane : PollNext(l)
    BY <1>4
  <2>2. scan' \in [Lane -> Queue]
    BY <1>2, <2>1 DEF PollNext, Queue
  <2> QED BY <2>1, <2>2 DEF PollNext, ledgerVars, QueueInv, TypeOK, ClaimsAreAttempts, NoLostJob,
    LedgerExplains, DeadLetterJustified
<1>5. CASE \E l \in Lane, j \in Job : ClaimJob(l, j)
  BY <1>5, ClaimJobStep
<1>6. CASE \E l \in Lane, j \in Job : Complete(l, j)
  BY <1>6, CompleteStep
<1>7. CASE \E l \in Lane, j \in Job, error \in {"retryable", "terminal"} : Retry(l, j, error)
  <2>1. PICK l \in Lane, j \in Job, error \in {"retryable", "terminal"} : Retry(l, j, error)
    BY <1>7
  <2>2. error \in {"none", "retryable", "terminal", "deferral"}
    OBVIOUS
  <2>3. /\ Holds(l, j) /\ Release(l) /\ Outcome(j, claim[l].read, "retry", error)
        /\ message' = [message EXCEPT ![j] = "hidden"]
        /\ request' = [request EXCEPT ![j] = "retry_wait"]
        /\ UNCHANGED <<readCount, deadLetter, scan>> /\ disturbances' = disturbances
    BY <2>1 DEF Retry
  <2> QED BY <1>1, <2>2, <2>3, GiveBackStep
<1>8. CASE \E l \in Lane, j \in Job, error \in {"retryable", "terminal"} : Fail(l, j, error)
  BY <1>8, FailStep
<1>9. CASE \E l \in Lane, j \in Job : Extend(l, j)
  <2>1. PICK l \in Lane, j \in Job : Extend(l, j)
    BY <1>9
  <2>2. message[j] \in InQueue
    <3>1. request[j] = "running"
      BY <2>1, HolderOnNewest DEF Extend
    <3> QED BY <3>1 DEF QueueInv, TypeOK, NoLostJob, Terminal
  <2> QED BY <1>1, <2>1, <2>2, VisibilityStep DEF Extend
<1>10. CASE \E l \in Lane, j \in Job : Defer(l, j)
  BY <1>1, <1>10, GiveBackStep DEF Defer
<1>11. CASE \E l \in Lane : LoseClaim(l)
  BY <1>1, <1>2, <1>11, DropStep DEF LoseClaim
<1>12. CASE \E l \in Lane : Crash(l)
  <2>1. PICK l \in Lane : Crash(l)
    BY <1>12
  <2>2. scan' \in [Lane -> Queue]
    BY <1>2, <2>1 DEF Crash, Queue
  <2> QED BY <1>1, <2>1, <2>2, DropStep DEF Crash
<1>13. CASE \E j \in Job : DelayEnds(j)
  BY <1>1, <1>13, VisibilityStep DEF DelayEnds
<1>14. CASE \E j \in Job : WindowCloses(j)
  BY <1>1, <1>14, VisibilityStep DEF WindowCloses
<1>15. CASE \E j \in Job, n \in Reads : DeadlinePasses(j, n)
  BY <1>15, DeadlineStep
<1> QED BY <1>3, <1>4, <1>5, <1>6, <1>7, <1>8, <1>9, <1>10, <1>11, <1>12, <1>13, <1>14, <1>15,
  NextCases

-------------------------------------------------------------------------------
(* The theorems. *)

\* Type correctness and the named safety properties of SyncQueue hold in every
\* reachable state, for any number of jobs, lanes, reads and faults.
THEOREM QueueInvariant == Spec => []QueueInv
<1>1. Init => QueueInv
  BY QueueInit
<1>2. QueueInv /\ [Next]_vars => QueueInv'
  BY QueueStep
<1> QED BY <1>1, <1>2, PTL DEF Spec

\* The state predicates of the component are all of the right type.
THEOREM QueueTypes == Spec => []TypeOK
<1>1. QueueInv => TypeOK
  BY DEF QueueInv
<1> QED BY <1>1, QueueInvariant, PTL

\* The lease fence: no two lanes' calls about one job are ever both accepted
\* (require_active_sync_job_lease, with attempts numbered by pgmq's read count).
THEOREM LeaseIsExclusive == Spec => []SingleLease
<1>1. QueueInv => SingleLease
  BY OneHolder
<1> QED BY <1>1, QueueInvariant, PTL

\* Ledger and queue agree: no job is lost and no resolved job is redelivered.
THEOREM NoJobIsLost == Spec => []NoLostJob
<1>1. QueueInv => NoLostJob
  BY DEF QueueInv
<1> QED BY <1>1, QueueInvariant, PTL

\* Attempt rows are numbered 1 to read_ct without a gap, and no two lanes claim
\* the same attempt (claim_sync_jobs, claim_next_sync_job).
THEOREM AttemptsAreClaims == Spec => []ClaimsAreAttempts
<1>1. QueueInv => ClaimsAreAttempts
  BY DEF QueueInv
<1> QED BY <1>1, QueueInvariant, PTL

\* A job is terminal exactly when its newest attempt says so (record_sync_attempt,
\* sync_job_requests.status).
THEOREM LedgerIsExplained == Spec => []LedgerExplains
<1>1. QueueInv => LedgerExplains
  BY DEF QueueInv
<1> QED BY <1>1, QueueInvariant, PTL

\* Every dead letter is single and has a reason.
THEOREM DeadLettersAreJustified == Spec => []DeadLetterJustified
<1>1. QueueInv => DeadLetterJustified
  BY DEF QueueInv
<1> QED BY <1>1, QueueInvariant, PTL

-------------------------------------------------------------------------------
(* History. *)

\* What one step may not do to job j.
HistoryKept(j) ==
  /\ request[j] \in Terminal => request'[j] = request[j]
  /\ \A n \in Reads : attempt[j][n].outcome # "none" =>
       attempt'[j][n].outcome = attempt[j][n].outcome

\* A call that ends a lease writes one outcome, where none was.
LEMMA SettlingKeepsHistory ==
  ASSUME QueueInv, NEW l \in Lane, NEW j \in Job, Holds(l, j),
         NEW outcome \in {"none", "retry"} \cup Terminal,
         NEW error \in {"none", "retryable", "terminal", "deferral"},
         NEW status, request' = [request EXCEPT ![j] = status],
         Outcome(j, claim[l].read, outcome, error), Release(l), readCount' = readCount
  PROVE  \A i \in Job : HistoryKept(i)
<1>1. request[j] = "running" /\ attempt[j][readCount[j]].outcome = "none"
  BY HolderOnNewest
<1>2. /\ \A i \in Job \ {j} : attempt'[i] = attempt[i]
      /\ \A k \in Reads : k # readCount[j] => attempt'[j][k] = attempt[j][k]
  BY Settles
<1>3. \A i \in Job \ {j} : request'[i] = request[i]
  BY DEF QueueInv, TypeOK
<1> QED BY <1>1, <1>2, <1>3 DEF HistoryKept, Terminal

\* A step keeps terminal requests and written outcomes.
LEMMA HistoryStep ==
  ASSUME QueueInv, [Next]_vars
  PROVE  \A i \in Job : HistoryKept(i)
<1>0. CASE UNCHANGED <<request, attempt>>
  BY <1>0 DEF HistoryKept
<1>1. CASE UNCHANGED vars
  BY <1>0, <1>1 DEF vars
<1> SUFFICES ASSUME Next PROVE \A i \in Job : HistoryKept(i)
  BY <1>1
<1>2. CASE \E j \in Job, delayed \in BOOLEAN : Enqueue(j, delayed)
  BY <1>2 DEF Enqueue, QueueInv, TypeOK, HistoryKept, Terminal
<1>3. CASE \E l \in Lane, j \in Job : ClaimJob(l, j)
  <2>1. PICK l \in Lane, j \in Job : ClaimJob(l, j)
    BY <1>3
  <2>2. request[j] \notin Terminal
    BY <2>1 DEF ClaimJob, Readable, QueueInv, NoLostJob
  <2>3. \A i \in Job \ {j} : request'[i] = request[i] /\ attempt'[i] = attempt[i]
    BY <2>1 DEF ClaimJob, QueueInv, TypeOK
  <2>4. readCount[j] + 1 \in Reads /\ attempt[j][readCount[j] + 1].outcome = "none"
    BY <2>1, QueueAssumption DEF ClaimJob, Readable, QueueInv, TypeOK, ClaimsAreAttempts, Reads,
      NoAttempt
  <2>5. \A k \in Reads : k # readCount[j] + 1 => attempt'[j][k] = attempt[j][k]
    BY <2>1 DEF ClaimJob, QueueInv, TypeOK
  <2> QED BY <2>2, <2>3, <2>4, <2>5 DEF HistoryKept
<1>4. CASE \E l \in Lane, j \in Job : Complete(l, j)
  BY <1>4, SettlingKeepsHistory DEF Complete, Terminal
<1>5. CASE \E l \in Lane, j \in Job, error \in {"retryable", "terminal"} :
             Retry(l, j, error) \/ Fail(l, j, error)
  <2>1. PICK l \in Lane, j \in Job, error \in {"retryable", "terminal"} :
             Retry(l, j, error) \/ Fail(l, j, error)
    BY <1>5
  <2>2. error \in {"none", "retryable", "terminal", "deferral"}
    OBVIOUS
  <2>3. CASE Retry(l, j, error)
    BY <2>2, <2>3, SettlingKeepsHistory DEF Retry
  <2>4. CASE Fail(l, j, error)
    BY <2>2, <2>4, SettlingKeepsHistory DEF Fail, Terminal
  <2> QED BY <2>1, <2>3, <2>4
<1>6. CASE \E l \in Lane, j \in Job : Defer(l, j)
  BY <1>6, SettlingKeepsHistory DEF Defer
<1>7. CASE \E j \in Job, n \in Reads : DeadlinePasses(j, n)
  <2>1. PICK j \in Job, n \in Reads : DeadlinePasses(j, n)
    BY <1>7
  <2>2. attempt[j][n] \in Attempt
    BY DEF QueueInv, TypeOK
  <2>3. \A i \in Job, k \in Reads : attempt'[i][k].outcome = attempt[i][k].outcome
    BY <2>1, <2>2 DEF DeadlinePasses, QueueInv, TypeOK, Attempt
  <2> QED BY <2>1, <2>3 DEF DeadlinePasses, HistoryKept
<1> QED BY <1>0, <1>2, <1>3, <1>4, <1>5, <1>6, <1>7, NextCases DEF PollNext, Extend, LoseClaim,
  Crash, DelayEnds, WindowCloses, ledgerVars

\* Terminal jobs and recorded outcomes never change, whatever a superseded
\* worker still calls.
THEOREM HistoryNeverChanges == Spec => HistoryIsFinal
<1>1. QueueInv /\ [Next]_vars =>
        [\A j \in Job :
           /\ request[j] \in Terminal => request'[j] = request[j]
           /\ \A n \in Reads : attempt[j][n].outcome # "none" =>
                attempt'[j][n].outcome = attempt[j][n].outcome]_vars
  BY HistoryStep DEF HistoryKept
<1> QED BY <1>1, QueueInvariant, PTL DEF Spec, HistoryIsFinal

-------------------------------------------------------------------------------
(* SyncQueue implements LeasedWork. *)

\* In every state of the queue, a job's abstract holder is the lane that holds
\* its lease, and NoLane when there is none.
LEMMA TheHolder ==
  ASSUME QueueInv, NEW j \in Job
  PROVE  /\ \A l \in Lane : Holds(l, j) => Holders(j) = {l} /\ AnyOf(Holders(j)) = l
         /\ (\A l \in Lane : ~Holds(l, j)) => AnyOf(Holders(j)) = NoLane
<1>1. \A l \in Lane : AnyOf({l}) = l
  BY DEF AnyOf
<1>2. \A l \in Lane : Holds(l, j) => Holders(j) = {l}
  BY OneHolder DEF SingleLease, Holders
<1> QED BY <1>1, <1>2 DEF Holders, AnyOf

\* The abstract stage of a job on which some lane holds the lease is "pending".
LEMMA HeldIsPending ==
  ASSUME QueueInv, NEW j \in Job, NEW l \in Lane, Holds(l, j)
  PROVE  StageOf(request[j]) = "pending" /\ AnyOf(Holders(j)) # NoLane
BY HolderOnNewest, TheHolder, QueueAssumption DEF StageOf

\* A step that leaves the requests, the attempts and everybody's claim on a
\* job as they are is invisible in the abstract state of that job.
LEMMA SameHolders ==
  ASSUME NEW j \in Job, request'[j] = request[j], attempt'[j] = attempt[j],
         \A l \in Lane : \/ claim'[l] = claim[l]
                        \/ /\ claim[l] = NoClaim \/ claim[l].job # j \/ ~Holds(l, j)
                           /\ claim'[l] = NoClaim \/ claim'[l].job # j
  PROVE  Holders(j)' = Holders(j)
<1>1. \A l \in Lane : Holds(l, j)' <=> Holds(l, j)
  BY DEF Holds, LeaseActive, Newest
<1> QED BY <1>1 DEF Holders

\* A call that ends a lease leaves the job without a holder, and the holders of
\* the other jobs in place.
LEMMA SettlingFreesOne ==
  ASSUME QueueInv, NEW l \in Lane, NEW j \in Job, Holds(l, j), Release(l),
         NEW status, status # "running", request' = [request EXCEPT ![j] = status],
         \A i \in Job \ {j} : attempt'[i] = attempt[i]
  PROVE  /\ Holders(j)' = {}
         /\ \A i \in Job \ {j} : Holders(i)' = Holders(i)
<1>1. request'[j] # "running"
  BY DEF QueueInv, TypeOK
<1>2. Holders(j)' = {}
  BY <1>1 DEF Holders, Holds, LeaseActive
<1>3. \A i \in Job \ {j} : attempt'[i] = attempt[i] /\ request'[i] = request[i]
  BY DEF QueueInv, TypeOK
<1>4. \A m \in Lane : claim'[m] = IF m = l THEN NoClaim ELSE claim[m]
  BY DEF Release, QueueInv, TypeOK
<1>5. claim[l].job = j
  BY HolderOnNewest
<1>6. \A i \in Job \ {j} : Holders(i)' = Holders(i)
  BY <1>3, <1>4, <1>5, SameHolders
<1> QED BY <1>2, <1>6

\* After a claim the lane holds the job, unless its payload did not parse; a
\* lane that held it before is superseded by the newer attempt.
LEMMA ClaimMovesOne ==
  ASSUME QueueInv, NEW l \in Lane, NEW j \in Job, ClaimJob(l, j)
  PROVE  /\ Holders(j)' = IF j \in Malformed THEN {} ELSE {l}
         /\ \A i \in Job \ {j} : Holders(i)' = Holders(i)
<1> DEFINE n == readCount[j] + 1
           row == [worker |-> WorkerOf[l], deadline |-> "open", outcome |-> "none", error |-> "none"]
<1>1. n \in Reads /\ readCount[j] \in Nat
  BY QueueAssumption DEF QueueInv, TypeOK, ClaimJob, Readable, Reads
<1>2. /\ attempt'[j][n] = row /\ request'[j] = "running"
      /\ \A k \in Reads : k # n => attempt'[j][k] = attempt[j][k]
      /\ \A i \in Job \ {j} : attempt'[i] = attempt[i] /\ request'[i] = request[i]
  BY <1>1 DEF ClaimJob, QueueInv, TypeOK
<1>3. WorkerOf[l] \in Worker /\ NoWorker \notin Worker
  BY QueueAssumption
<1>4. \A m \in Lane : claim'[m] = IF m = l /\ j \notin Malformed THEN [job |-> j, read |-> n] ELSE claim[m]
  BY DEF ClaimJob, QueueInv, TypeOK
<1>5. \A m \in Lane : claim'[m] = claim[m] => ~Holds(m, j)'
  <2> SUFFICES ASSUME NEW m \in Lane, claim'[m] = claim[m], Holds(m, j)' PROVE FALSE
    OBVIOUS
  <2>1. claim[m] \in Claim /\ claim[m].job = j /\ claim[m].read <= readCount[j]
    BY DEF Holds, QueueInv, TypeOK, ClaimsAreAttempts
  <2>2. claim[m].read \in Nat /\ claim[m].read < n
    BY <1>1, <2>1, QueueAssumption DEF Claim, Reads
  <2>3. attempt'[j][n].worker = NoWorker
    BY <1>1, <2>2 DEF Holds, LeaseActive, Newest
  <2> QED BY <1>2, <1>3, <2>3
<1>6. j \notin Malformed => Holds(l, j)'
  <2> SUFFICES ASSUME j \notin Malformed PROVE Holds(l, j)'
    OBVIOUS
  <2>1. claim'[l] = [job |-> j, read |-> n] /\ claim'[l] # NoClaim
    BY <1>1, <1>4, QueueAssumption DEF Reads
  <2>2. \A k \in Reads : k > n => attempt'[j][k].worker = NoWorker
    BY <1>1, <1>2, QueueAssumption DEF QueueInv, ClaimsAreAttempts, NoAttempt, Reads
  <2> QED BY <1>2, <2>1, <2>2 DEF Holds, LeaseActive, Newest
<1>7. Holders(j)' = IF j \in Malformed THEN {} ELSE {l}
  <2>1. \A m \in Lane : Holds(m, j)' => m = l /\ j \notin Malformed
    BY <1>4, <1>5
  <2> QED BY <1>6, <2>1 DEF Holders
<1>8. \A i \in Job \ {j} : Holders(i)' = Holders(i)
  <2> SUFFICES ASSUME NEW i \in Job \ {j} PROVE Holders(i)' = Holders(i)
    OBVIOUS
  <2>1. claim[l] = NoClaim
    BY DEF ClaimJob
  <2> QED BY <1>2, <1>4, <2>1, SameHolders
<1> QED BY <1>7, <1>8

\* The abstract state, spelled out.
stageBar == [j \in Job |-> StageOf(request[j])]
holderBar == [j \in Job |-> AnyOf(Holders(j))]
envelopesBar == {j \in Job : deadLetter[j] > 0}

\* How an abstract step of one job looks from the detailed state.
LEMMA AbstractStep ==
  ASSUME NEW j \in Job, \A i \in Job \ {j} : request'[i] = request[i] /\ Holders(i)' = Holders(i)
  PROVE  /\ stageBar' = [stageBar EXCEPT ![j] = StageOf(request'[j])]
         /\ holderBar' = [holderBar EXCEPT ![j] = AnyOf(Holders(j)')]
<1>1. \A i \in Job : stageBar'[i] = [stageBar EXCEPT ![j] = StageOf(request'[j])][i]
  BY DEF stageBar
<1>2. \A i \in Job : holderBar'[i] = [holderBar EXCEPT ![j] = AnyOf(Holders(j)')][i]
  BY DEF holderBar
<1>3. stageBar' = [stageBar EXCEPT ![j] = StageOf(request'[j])]
  BY <1>1 DEF stageBar
<1>4. holderBar' = [holderBar EXCEPT ![j] = AnyOf(Holders(j)')]
  BY <1>2 DEF holderBar
<1> QED BY <1>3, <1>4

\* The holder of a job disappears, or nothing happens.
LEMMA RevokeOrStutter ==
  ASSUME NEW j \in Job, StageOf(request[j]) = "pending",
         \A i \in Job : request'[i] = request[i], deadLetter' = deadLetter,
         \A i \in Job \ {j} : Holders(i)' = Holders(i),
         Holders(j)' = Holders(j) \/ Holders(j)' = {}
  PROVE  Promise!Revoke(j) \/ UNCHANGED Promise!workVars
<1>1. /\ stageBar' = [stageBar EXCEPT ![j] = StageOf(request'[j])]
      /\ holderBar' = [holderBar EXCEPT ![j] = AnyOf(Holders(j)')]
  BY AbstractStep
<1>2. stageBar' = stageBar /\ envelopesBar' = envelopesBar
  BY DEF stageBar, envelopesBar
<1>3. CASE Holders(j)' = Holders(j)
  <2>1. holderBar' = holderBar
    BY <1>3 DEF holderBar
  <2> QED BY <1>2, <2>1 DEF Promise!workVars, stageBar, holderBar, envelopesBar
<1>4. CASE Holders(j)' = {}
  <2>1. AnyOf(Holders(j)') = NoLane
    BY <1>4 DEF AnyOf
  <2> QED BY <1>1, <1>2, <2>1 DEF Promise!Revoke, stageBar, holderBar, envelopesBar
<1> QED BY <1>3, <1>4

\* A step that moves no status, envelope or lease is a stutter of LeasedWork.
LEMMA PromiseStutters ==
  ASSUME UNCHANGED <<request, deadLetter>>, \A i \in Job : Holders(i)' = Holders(i)
  PROVE  UNCHANGED Promise!workVars
BY DEF Promise!workVars

\* The initial ledger maps to the initial state of LeasedWork.
LEMMA PromiseInit == Init => Promise!WorkInit
<1> SUFFICES ASSUME Init PROVE Promise!WorkInit
  OBVIOUS
<1>1. \A j \in Job : Holders(j) = {}
  BY DEF Init, Holders, Holds
<1>2. \A j \in Job : AnyOf(Holders(j)) = NoLane
  BY <1>1 DEF AnyOf
<1>3. {j \in Job : deadLetter[j] > 0} = {}
  BY DEF Init
<1> QED BY <1>2, <1>3 DEF Init, Promise!WorkInit, StageOf

\* Completing a job is the abstract Finish.
LEMMA CompleteIsFinish ==
  ASSUME QueueInv, NEW l \in Lane, NEW j \in Job, Complete(l, j)
  PROVE  Promise!Finish(j)
<1>1. Holders(j)' = {} /\ \A i \in Job \ {j} : Holders(i)' = Holders(i)
  <2>1. \A i \in Job \ {j} : attempt'[i] = attempt[i]
    BY DEF Complete, Outcome, QueueInv, TypeOK
  <2> QED BY <2>1, SettlingFreesOne DEF Complete
<1>2. /\ \A i \in Job \ {j} : request'[i] = request[i]
      /\ request'[j] = "succeeded" /\ deadLetter' = deadLetter
  BY DEF Complete, QueueInv, TypeOK
<1>3. /\ stageBar' = [stageBar EXCEPT ![j] = "done"]
      /\ holderBar' = [holderBar EXCEPT ![j] = NoLane]
  BY <1>1, <1>2, AbstractStep DEF StageOf, AnyOf
<1>4. StageOf(request[j]) = "pending" /\ AnyOf(Holders(j)) # NoLane
  BY HeldIsPending DEF Complete
<1> QED BY <1>2, <1>3, <1>4 DEF Promise!Finish, stageBar, holderBar

\* Failing for good is the abstract Abandon, envelope included.
LEMMA FailIsAbandon ==
  ASSUME QueueInv, NEW l \in Lane, NEW j \in Job,
         NEW error \in {"retryable", "terminal"}, Fail(l, j, error)
  PROVE  Promise!Abandon(j)
<1>1. Holders(j)' = {} /\ \A i \in Job \ {j} : Holders(i)' = Holders(i)
  <2>1. \A i \in Job \ {j} : attempt'[i] = attempt[i]
    BY DEF Fail, Outcome, QueueInv, TypeOK
  <2> QED BY <2>1, SettlingFreesOne DEF Fail
<1>2. /\ \A i \in Job \ {j} : request'[i] = request[i] /\ deadLetter'[i] = deadLetter[i]
      /\ request'[j] = "failed" /\ deadLetter'[j] > 0
  BY DEF Fail, QueueInv, TypeOK
<1>3. /\ stageBar' = [stageBar EXCEPT ![j] = "dead"]
      /\ holderBar' = [holderBar EXCEPT ![j] = NoLane]
  BY <1>1, <1>2, AbstractStep DEF StageOf, AnyOf
<1>4. StageOf(request[j]) = "pending" /\ AnyOf(Holders(j)) # NoLane
  BY HeldIsPending DEF Fail
<1>5. envelopesBar' = envelopesBar \cup {j}
  BY <1>2 DEF envelopesBar
<1> QED BY <1>3, <1>4, <1>5 DEF Promise!Abandon, stageBar, holderBar, envelopesBar

\* A retry or a deferral is the abstract Revoke.
LEMMA GiveBackIsRevoke ==
  ASSUME QueueInv, NEW l \in Lane, NEW j \in Job, Holds(l, j),
         NEW error \in {"none", "retryable", "terminal", "deferral"},
         Outcome(j, claim[l].read, "retry", error), Release(l),
         request' = [request EXCEPT ![j] = "retry_wait"],
         readCount' = readCount, deadLetter' = deadLetter
  PROVE  Promise!Revoke(j)
<1>1. Holders(j)' = {} /\ \A i \in Job \ {j} : Holders(i)' = Holders(i)
  <2>1. \A i \in Job \ {j} : attempt'[i] = attempt[i]
    BY DEF Outcome, QueueInv, TypeOK
  <2> QED BY <2>1, SettlingFreesOne
<1>2. \A i \in Job \ {j} : request'[i] = request[i]
  BY DEF QueueInv, TypeOK
<1>3. request'[j] = "retry_wait"
  BY DEF QueueInv, TypeOK
<1>4. StageOf(request[j]) = "pending"
  BY HeldIsPending
<1>5. /\ stageBar' = [stageBar EXCEPT ![j] = "pending"]
      /\ holderBar' = [holderBar EXCEPT ![j] = NoLane]
  BY <1>1, <1>2, <1>3, AbstractStep DEF StageOf, AnyOf
<1>6. stageBar' = stageBar
  BY <1>4, <1>5 DEF stageBar
<1> QED BY <1>4, <1>5, <1>6 DEF Promise!Revoke, stageBar, holderBar

\* A claim is the abstract Grant, or Revoke when the payload does not parse.
LEMMA ClaimIsGrant ==
  ASSUME QueueInv, NEW l \in Lane, NEW j \in Job, ClaimJob(l, j)
  PROVE  Promise!Grant(j, l) \/ Promise!Revoke(j)
<1>1. /\ Holders(j)' = IF j \in Malformed THEN {} ELSE {l}
      /\ \A i \in Job \ {j} : Holders(i)' = Holders(i)
  BY ClaimMovesOne
<1>2. /\ \A i \in Job \ {j} : request'[i] = request[i]
      /\ request'[j] = "running" /\ deadLetter' = deadLetter
  BY DEF ClaimJob, QueueInv, TypeOK
<1>3. StageOf(request[j]) = "pending"
  BY DEF ClaimJob, Readable, QueueInv, TypeOK, NoLostJob, Terminal, StageOf, Status
<1>4. AnyOf({l}) = l /\ AnyOf({}) = NoLane
  BY DEF AnyOf
<1>5. /\ stageBar' = [stageBar EXCEPT ![j] = "pending"]
      /\ holderBar' = [holderBar EXCEPT ![j] = IF j \in Malformed THEN NoLane ELSE l]
  BY <1>1, <1>2, <1>4, AbstractStep DEF StageOf
<1>6. stageBar' = stageBar
  BY <1>3, <1>5 DEF stageBar
<1> QED BY <1>2, <1>3, <1>5, <1>6 DEF Promise!Revoke, Promise!Grant, stageBar, holderBar

\* Publishing is the abstract Submit.
LEMMA EnqueueIsSubmit ==
  ASSUME QueueInv, NEW j \in Job, NEW delayed \in BOOLEAN, Enqueue(j, delayed)
  PROVE  Promise!Submit(j)
<1>1. /\ \A i \in Job \ {j} : request'[i] = request[i]
      /\ request[j] = "absent" /\ request'[j] = "queued"
      /\ UNCHANGED <<attempt, claim, deadLetter>>
  BY DEF Enqueue, QueueInv, TypeOK
<1>2. \A i \in Job \ {j} : Holders(i)' = Holders(i)
  BY <1>1, SameHolders
<1>3. \A l \in Lane : ~Holds(l, j) /\ ~Holds(l, j)'
  <2>1. \A l \in Lane : Holds(l, j) => attempt[j][claim[l].read].worker = NoWorker
    BY <1>1 DEF Holds, LeaseActive
  <2>2. \A l \in Lane : Holds(l, j)' => FALSE
    <3> SUFFICES ASSUME NEW l \in Lane, Holds(l, j)' PROVE FALSE
      OBVIOUS
    <3>1. request'[j] = "running"
      BY DEF Holds, LeaseActive
    <3> QED BY <1>1, <3>1
  <2>3. \A l \in Lane : Holds(l, j) => FALSE
    BY <1>1 DEF Holds, LeaseActive
  <2> QED BY <2>2, <2>3
<1>4. Holders(j)' = Holders(j)
  BY <1>3 DEF Holders
<1>5. /\ stageBar' = [stageBar EXCEPT ![j] = "pending"]
      /\ holderBar' = [holderBar EXCEPT ![j] = AnyOf(Holders(j))]
  BY <1>1, <1>2, <1>4, AbstractStep DEF StageOf
<1>6. holderBar' = holderBar
  BY <1>5 DEF holderBar
<1>7. StageOf(request[j]) = "absent"
  BY <1>1 DEF StageOf
<1> QED BY <1>1, <1>5, <1>6, <1>7 DEF Promise!Submit, stageBar, holderBar

\* Every step of the queue maps to a step of LeasedWork or to a stutter.
LEMMA PromiseStep ==
  ASSUME QueueInv, [Next]_vars
  PROVE  [Promise!WorkNext]_Promise!workVars
<1>1. CASE UNCHANGED vars
  BY <1>1, SameHolders, PromiseStutters DEF vars
<1> SUFFICES ASSUME Next PROVE [Promise!WorkNext]_Promise!workVars
  BY <1>1
<1> USE DEF Promise!WorkNext
<1>2. CASE \E j \in Job, delayed \in BOOLEAN : Enqueue(j, delayed)
  BY <1>2, EnqueueIsSubmit
<1>3. CASE \E l \in Lane, j \in Job : ClaimJob(l, j)
  BY <1>3, ClaimIsGrant
<1>4. CASE \E l \in Lane, j \in Job : Complete(l, j)
  BY <1>4, CompleteIsFinish
<1>5. CASE \E l \in Lane, j \in Job, error \in {"retryable", "terminal"} : Fail(l, j, error)
  BY <1>5, FailIsAbandon
<1>6. CASE \E l \in Lane, j \in Job, error \in {"retryable", "terminal"} : Retry(l, j, error)
  <2>1. PICK l \in Lane, j \in Job, error \in {"retryable", "terminal"} : Retry(l, j, error)
    BY <1>6
  <2>2. error \in {"none", "retryable", "terminal", "deferral"}
    OBVIOUS
  <2>3. Promise!Revoke(j)
    BY <2>1, <2>2, GiveBackIsRevoke DEF Retry
  <2> QED BY <2>3
<1>7. CASE \E l \in Lane, j \in Job : Defer(l, j)
  BY <1>7, GiveBackIsRevoke DEF Defer
<1>8. CASE \E l \in Lane : LoseClaim(l)
  <2>1. PICK l \in Lane : LoseClaim(l)
    BY <1>8
  <2>2. \A m \in Lane : claim'[m] = IF m = l THEN NoClaim ELSE claim[m]
    BY <2>1 DEF LoseClaim, Release, QueueInv, TypeOK
  <2>3. \A i \in Job : ~Holds(l, i)
    BY <2>1 DEF LoseClaim, Holds
  <2>4. \A i \in Job : Holders(i)' = Holders(i)
    BY <2>1, <2>2, <2>3, SameHolders DEF LoseClaim, ledgerVars
  <2> QED BY <2>1, <2>4, PromiseStutters DEF LoseClaim, ledgerVars
<1>9. CASE \E l \in Lane : Crash(l)
  <2>1. PICK l \in Lane : Crash(l)
    BY <1>9
  <2>2. \A m \in Lane : claim'[m] = IF m = l THEN NoClaim ELSE claim[m]
    BY <2>1 DEF Crash, Release, QueueInv, TypeOK
  <2> PICK j \in Job : j = claim[l].job
    BY <2>1 DEF Crash, QueueInv, TypeOK, Claim
  <2>3. UNCHANGED <<request, deadLetter, attempt>>
    BY <2>1 DEF Crash, ledgerVars
  <2>4. CASE Holds(l, j)
    <3>1. StageOf(request[j]) = "pending" /\ Holders(j) = {l}
      BY <2>4, HeldIsPending, TheHolder
    <3>2. \A i \in Job \ {j} : Holders(i)' = Holders(i)
      BY <2>2, <2>3, SameHolders
    <3>3. Holders(j)' = {}
      <4>1. \A m \in Lane : Holds(m, j)' => m # l /\ Holds(m, j)
        BY <2>2, <2>3 DEF Holds, LeaseActive, Newest
      <4> QED BY <3>1, <4>1 DEF Holders
    <3> QED BY <2>3, <3>1, <3>2, <3>3, RevokeOrStutter
  <2>5. CASE ~Holds(l, j)
    <3>1. \A i \in Job : ~Holds(l, i)
      BY <2>5 DEF Holds
    <3> QED BY <2>2, <2>3, <3>1, SameHolders, PromiseStutters
  <2> QED BY <2>4, <2>5
<1>10. CASE \E j \in Job, n \in Reads : DeadlinePasses(j, n)
  <2>1. PICK j \in Job, n \in Reads : DeadlinePasses(j, n)
    BY <1>10
  <2> DEFINE row == [attempt[j][n] EXCEPT !.deadline = "passed"]
  <2>2. attempt[j][n] \in Attempt
    BY DEF QueueInv, TypeOK
  <2>3. /\ attempt'[j] = [attempt[j] EXCEPT ![n] = row]
        /\ \A i \in Job \ {j} : attempt'[i] = attempt[i]
        /\ UNCHANGED <<request, deadLetter, claim>>
    BY <2>1 DEF DeadlinePasses, QueueInv, TypeOK
  <2>4. \A k \in Reads : /\ attempt'[j][k].worker = attempt[j][k].worker
                         /\ attempt'[j][k].outcome = attempt[j][k].outcome
                         /\ attempt'[j][k].deadline = "open" => attempt[j][k].deadline = "open"
    BY <2>2, <2>3 DEF Attempt, QueueInv, TypeOK
  <2>5. \A i \in Job \ {j} : Holders(i)' = Holders(i)
    BY <2>3, SameHolders
  <2>6. \A l \in Lane : Holds(l, j)' => Holds(l, j)
    <3> SUFFICES ASSUME NEW l \in Lane, Holds(l, j)' PROVE Holds(l, j)
      OBVIOUS
    <3>1. claim[l] # NoClaim /\ claim[l].job = j /\ claim[l].read \in Reads
      BY <2>3 DEF Holds, QueueInv, TypeOK, Claim
    <3> QED BY <2>3, <2>4, <3>1 DEF Holds, LeaseActive, Newest
  <2>7. Holders(j)' = Holders(j) \/ Holders(j)' = {}
    BY <2>6, TheHolder DEF Holders
  <2>8. StageOf(request[j]) = "pending"
    BY <2>1 DEF DeadlinePasses, QueueInv, TypeOK, NoLostJob, Terminal, StageOf, Status
  <2> QED BY <2>3, <2>5, <2>7, <2>8, RevokeOrStutter
<1>11. CASE UNCHANGED <<request, attempt, claim, deadLetter>>
  BY <1>11, SameHolders, PromiseStutters
<1> QED BY <1>2, <1>3, <1>4, <1>5, <1>6, <1>7, <1>8, <1>9, <1>10, <1>11, NextCases DEF PollNext,
  Extend, DelayEnds, WindowCloses, ledgerVars

\* The queue implements LeasedWork: whatever the interleaving of lanes, retries,
\* lapsed windows and crashes, a job is resolved once and by its lease holder.
THEOREM QueueKeepsPromise == Spec => KeepsPromise
<1>1. Init => Promise!WorkInit
  BY PromiseInit
<1>2. QueueInv /\ [Next]_vars => [Promise!WorkNext]_Promise!workVars
  BY PromiseStep
<1> QED BY <1>1, <1>2, QueueInvariant, PTL DEF Spec, KeepsPromise, Promise!WorkSpec
===============================================================================
