--------------------------- MODULE CredentialProofs ----------------------------
(* Theorems about CredentialRefresh. *)
EXTENDS CredentialRefresh, TLAPS

Running(c) == call[c].op \in {"reread", "send", "store", "publish"}

\* A selection in progress was counted.
SelectionCounted == selection # 0 => selections # 0

\* What holds while only concurrency is at work.
Calm ==
  faults = 0 /\ selections = 0 =>
    /\ ~replayed
    /\ \A c \in Call :
         /\ call[c].at = "held" => LeaseActive(c)
         /\ Running(c) => call[c].at = "held"
         /\ call[c].op = "send" => call[c].token = stored.token
         /\ call[c].op \in {"store", "publish"} => call[c].token = newest
    /\ \/ stored.token = newest
       \/ \E c \in Call : call[c].op \in {"store", "publish"}

\* The inductive invariant: the first three parts hold under any faults.
RefreshInv == RefreshTypeOK /\ SelectionCounted /\ HolderMeetsNoConflict /\ Calm

\* The initial states satisfy the invariant.
LEMMA InitRefresh == ASSUME RefreshAssumption PROVE RefreshInit => RefreshInv
<1> SUFFICES ASSUME RefreshInit PROVE RefreshInv
  OBVIOUS
<1> USE DEF RefreshInit
<1>1. RefreshTypeOK
  <2>1. lease \in [id : Call \cup {NoCall}, fence : Nat, open : BOOLEAN]
    OBVIOUS
  <2>2. call \in [Call -> [at : Coordinator, op : Operation, seen : Nat, base : Nat,
                            token : Nat, fence : Nat]]
    BY DEF Coordinator, Operation
  <2>3. ASSUME NEW c \in Call
        PROVE  call[c].fence <= lease.fence
    <3>1. call[c].fence = 0 /\ lease.fence = 0
      OBVIOUS
    <3> QED
      BY <3>1
  <2>4. selections \in 0 .. MaxSelections /\ faults \in 0 .. MaxFaults
    BY DEF RefreshAssumption
  <2> QED
    BY <2>1, <2>2, <2>3, <2>4 DEF RefreshTypeOK
<1>2. SelectionCounted /\ HolderMeetsNoConflict /\ Calm
  BY DEF SelectionCounted, HolderMeetsNoConflict, Working, LeaseActive, Calm, Running
<1> QED
  BY <1>1, <1>2 DEF RefreshInv

\* Every step keeps the types.
LEMMA TypesStep ==
  ASSUME RefreshAssumption, RefreshTypeOK, [RefreshNext]_refreshVars
  PROVE  RefreshTypeOK'
<1> USE DEF RefreshTypeOK, Coordinator, Operation, Fault
<1>1. CASE UNCHANGED refreshVars
  BY <1>1 DEF refreshVars
<1>2. ASSUME NEW c \in Call,
             Start(c) \/ Coordinate(c) \/ Operate(c) \/ Interfere(c)
      PROVE  RefreshTypeOK'
  <2>1. CASE Start(c)
    <3>1. /\ call' = [call EXCEPT ![c] = [call[c] EXCEPT !.at = "acquire",
                                                       !.seen = stored.version]]
          /\ UNCHANGED <<lease, stored, newest, replayed, selection, selections, faults>>
      BY <2>1 DEF Start
    <3>2. [call[c] EXCEPT !.at = "acquire", !.seen = stored.version]
            \in [at : Coordinator, op : Operation, seen : Nat, base : Nat, token : Nat,
                 fence : Nat]
      OBVIOUS
    <3> QED
      BY <3>1, <3>2
  <2>2. CASE Acquire(c)
    BY <2>2 DEF Acquire, Grant
  <2>3. CASE Finish(c)
    BY <2>3 DEF Finish
  <2>4. CASE NoticeLoss(c)
    BY <2>4 DEF NoticeLoss
  <2>5. CASE Release(c)
    BY <2>5 DEF Release, Released
  <2>6. CASE Reread(c)
    <3>1. CASE stored.version # call[c].seen
      BY <2>6, <3>1 DEF Reread
    <3>2. CASE stored.version = call[c].seen
      <4>1. /\ call' = [call EXCEPT ![c] = [call[c] EXCEPT
                  !.op = "send", !.base = stored.version, !.token = stored.token]]
            /\ UNCHANGED <<lease, stored, newest, replayed, selection, selections, faults>>
        BY <2>6, <3>2 DEF Reread
      <4>2. [call[c] EXCEPT !.op = "send", !.base = stored.version, !.token = stored.token]
              \in [at : Coordinator, op : Operation, seen : Nat, base : Nat, token : Nat,
                   fence : Nat]
        OBVIOUS
      <4> QED
        BY <4>1, <4>2
    <3> QED
      BY <3>1, <3>2
  <2>7. CASE SendAborted(c)
    BY <2>7 DEF SendAborted
  <2>8. CASE Exchange(c)
    BY <2>8 DEF Exchange
  <2>9. CASE ExchangeRefused(c)
    BY <2>9 DEF ExchangeRefused
  <2>10. CASE CheckSignal(c)
    BY <2>10 DEF CheckSignal
  <2>11. CASE Publish(c)
    BY <2>11 DEF Publish
  <2>12. CASE PublishRefused(c)
    BY <2>12 DEF PublishRefused
  <2>13. CASE AcquireUnanswered(c)
    BY <2>13 DEF AcquireUnanswered, Grant
  <2>14. CASE GiveUp(c)
    BY <2>14 DEF GiveUp
  <2>15. CASE ExchangeUnanswered(c)
    BY <2>15 DEF ExchangeUnanswered
  <2>16. CASE OperationFails(c)
    BY <2>16 DEF OperationFails
  <2>17. CASE Abort(c)
    BY <2>17 DEF Abort
  <2>18. CASE ReleaseFails(c)
    BY <2>18 DEF ReleaseFails
  <2>19. CASE Crash(c)
    <3>1. /\ call' = [call EXCEPT ![c] = [call[c] EXCEPT !.at = "over", !.op = "done"]]
          /\ UNCHANGED <<lease, stored, newest, replayed, selection, selections>>
      BY <2>19 DEF Crash
    <3>2. faults' \in 0 .. MaxFaults
      BY <2>19 DEF Crash
    <3> QED
      BY <3>1, <3>2
  <2> QED
    BY <1>2, <2>1, <2>2, <2>3, <2>4, <2>5, <2>6, <2>7, <2>8, <2>9, <2>10, <2>11, <2>12, <2>13, <2>14, <2>15, <2>16, <2>17, <2>18, <2>19
    DEF Coordinate, Operate, Interfere
<1>3. CASE Lapse
  <2>1. faults' \in 0 .. MaxFaults
    BY <1>3, RefreshAssumption DEF Lapse, RefreshAssumption
  <2>2. /\ lease' = [lease EXCEPT !.open = FALSE]
        /\ UNCHANGED <<stored, newest, replayed, call, selection, selections>>
    BY <1>3 DEF Lapse
  <2> QED
    BY <2>1, <2>2
<1>4. CASE Expire
  BY <1>4 DEF Expire
<1>5. CASE SelectRead
  BY <1>5, RefreshAssumption DEF RefreshAssumption, SelectRead
<1>6. CASE SelectStore
  BY <1>6 DEF SelectStore
<1> QED
  BY <1>1, <1>2, <1>3, <1>4, <1>5, <1>6 DEF RefreshNext

\* Every step keeps the count of selections and the holder's version.
LEMMA HolderStep ==
  ASSUME RefreshAssumption, RefreshInv, [RefreshNext]_refreshVars
  PROVE  SelectionCounted' /\ HolderMeetsNoConflict'
<1> USE DEF RefreshInv, RefreshTypeOK, Coordinator, Operation, Fault, Grant, Released,
      SelectionCounted, HolderMeetsNoConflict, Working, LeaseActive
<1>1. CASE UNCHANGED refreshVars
  BY <1>1 DEF refreshVars
<1>2. ASSUME NEW c \in Call, Start(c) \/ Coordinate(c)
      PROVE  SelectionCounted' /\ HolderMeetsNoConflict'
  <2>1. CASE Start(c) \/ Finish(c) \/ NoticeLoss(c)
    BY <2>1 DEF Start, Finish, NoticeLoss
  <2>2. CASE Acquire(c)
    BY <2>2 DEF Acquire
  <2>3. CASE Release(c)
    BY <2>3, RefreshAssumption DEF RefreshAssumption, Release
  <2> QED
    BY <1>2, <2>1, <2>2, <2>3 DEF Coordinate
<1>3. ASSUME NEW c \in Call, Operate(c)
      PROVE  SelectionCounted' /\ HolderMeetsNoConflict'
  BY <1>3 DEF Operate, Reread, SendAborted, Exchange, ExchangeRefused, CheckSignal, Publish,
    PublishRefused
<1>4. ASSUME NEW c \in Call, Interfere(c)
      PROVE  SelectionCounted' /\ HolderMeetsNoConflict'
  BY <1>4 DEF Interfere, AcquireUnanswered, GiveUp, ExchangeUnanswered, OperationFails, Abort,
    ReleaseFails, Crash
<1>5. CASE Lapse \/ Expire \/ SelectRead \/ SelectStore
  BY <1>5, RefreshAssumption DEF RefreshAssumption, Lapse, Expire, SelectRead, SelectStore
<1> QED
  BY <1>1, <1>2, <1>3, <1>4, <1>5 DEF RefreshNext

\* Every step of concurrency alone keeps the newest token at hand.
LEMMA CalmStep ==
  ASSUME RefreshAssumption, RefreshInv, [RefreshNext]_refreshVars
  PROVE  Calm'
<1> USE DEF RefreshInv, RefreshTypeOK, Coordinator, Operation, Grant, Released, LeaseActive, Running
<1> SUFFICES ASSUME faults' = 0 /\ selections' = 0 PROVE Calm'
  BY DEF Calm
<1>0. CASE UNCHANGED refreshVars
  BY <1>0 DEF refreshVars, Calm
<1>1. ASSUME NEW c \in Call, Start(c)
      PROVE  Calm'
  BY <1>1 DEF Calm, Start
<1>2. ASSUME NEW c \in Call, Coordinate(c)
      PROVE  Calm'
  <2>1. CASE Acquire(c)
    BY <2>1, RefreshAssumption DEF Calm, Acquire, Grantable, RefreshAssumption
  <2>2. CASE Finish(c)
    BY <2>2 DEF Calm, Finish
  <2>3. CASE NoticeLoss(c)
    BY <2>3 DEF Calm, NoticeLoss
  <2>4. CASE Release(c)
    BY <2>4 DEF Calm, Release
  <2> QED
    BY <1>2, <2>1, <2>2, <2>3, <2>4 DEF Coordinate
<1>3. ASSUME NEW c \in Call, Operate(c)
      PROVE  Calm'
  <2> USE DEF Aborted
  <2>1. CASE Reread(c)
    BY <2>1 DEF Calm, Reread
  <2>2. CASE SendAborted(c) \/ CheckSignal(c)
    BY <2>2 DEF Calm, SendAborted, CheckSignal
  <2>3. CASE Exchange(c)
    BY <2>3 DEF Calm, Exchange
  <2>4. CASE ExchangeRefused(c)
    BY <2>4 DEF Calm, ExchangeRefused
  <2>5. CASE Publish(c)
    BY <2>5 DEF Calm, Publish
  <2>6. CASE PublishRefused(c)
    BY <2>6 DEF Calm, PublishRefused, HolderMeetsNoConflict, Working
  <2> QED
    BY <1>3, <2>1, <2>2, <2>3, <2>4, <2>5, <2>6 DEF Operate
<1>4. ASSUME NEW c \in Call, Interfere(c)
      PROVE  FALSE
  BY <1>4 DEF Interfere, AcquireUnanswered, GiveUp, ExchangeUnanswered, OperationFails, Abort,
    ReleaseFails, Crash, Fault
<1>5. CASE Lapse \/ SelectRead \/ SelectStore
  BY <1>5 DEF Calm, Lapse, Fault, SelectRead, SelectStore, SelectionCounted
<1>6. CASE Expire
  BY <1>6 DEF Calm, Expire
<1> QED
  BY <1>0, <1>1, <1>2, <1>3, <1>4, <1>5, <1>6 DEF RefreshNext

\* The invariant holds for any number of calls, faults and selections.
THEOREM RefreshInvariant == ASSUME RefreshAssumption PROVE RefreshSpec => []RefreshInv
<1>1. RefreshInit => RefreshInv
  BY InitRefresh
<1>2. RefreshInv /\ [RefreshNext]_refreshVars => RefreshInv'
  BY TypesStep, HolderStep, CalmStep DEF RefreshInv
<1> QED
  BY <1>1, <1>2, PTL DEF RefreshSpec

\* Every variable keeps its type, and no proof names a fencing token the row
\* has not reached.
THEOREM RefreshTypes == ASSUME RefreshAssumption PROVE RefreshSpec => []RefreshTypeOK
<1>1. RefreshInv => RefreshTypeOK
  BY DEF RefreshInv
<1> QED
  BY <1>1, RefreshInvariant, PTL

\* The holder of the lease publishes undisturbed, whatever lapsed calls do.
THEOREM HolderIsUndisturbed ==
  ASSUME RefreshAssumption PROVE RefreshSpec => []HolderMeetsNoConflict
<1>1. RefreshInv => HolderMeetsNoConflict
  BY DEF RefreshInv
<1> QED
  BY <1>1, RefreshInvariant, PTL

\* Concurrency alone loses no token.
THEOREM TokenIsKept ==
  ASSUME RefreshAssumption PROVE RefreshSpec => []ConcurrencyKeepsToken
<1>1. RefreshInv => ConcurrencyKeepsToken
  BY DEF RefreshInv, Calm, ConcurrencyKeepsToken, Kept, Running, HolderMeetsNoConflict, Working
<1> QED
  BY <1>1, RefreshInvariant, PTL

\* Concurrency alone presents no replaced token.
THEOREM NothingIsReplayed == ASSUME RefreshAssumption PROVE RefreshSpec => []NoReplay
<1>1. RefreshInv => NoReplay
  BY DEF RefreshInv, Calm, NoReplay
<1> QED
  BY <1>1, RefreshInvariant, PTL

\* An open lease is ended by its own holder's release or by its expiry.
THEOREM LeaseIsNotTaken == ASSUME RefreshAssumption PROVE RefreshSpec => LeaseIsKept
<1>1. RefreshTypeOK /\ [RefreshNext]_refreshVars =>
        [\A c \in Call : lease.id = c /\ lease.open /\ lease'.id # c
           => call[c].at = "release"]_refreshVars
  BY RefreshAssumption DEF RefreshAssumption, RefreshTypeOK, RefreshNext, refreshVars, Start, Coordinate, Acquire,
    Finish, NoticeLoss, Release, Operate, Reread, SendAborted, Exchange, ExchangeRefused,
    CheckSignal, Publish, PublishRefused, Interfere, AcquireUnanswered, GiveUp,
    ExchangeUnanswered, OperationFails, Abort, ReleaseFails, Crash, Lapse, Expire, SelectRead,
    SelectStore, Grant, Grantable, Released
<1> QED
  BY <1>1, RefreshTypes, PTL DEF RefreshSpec, LeaseIsKept
===============================================================================
