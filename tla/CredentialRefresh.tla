--------------------------- MODULE CredentialRefresh ---------------------------
(***************************************************************************)
(* The refresh of one OAuth credential whose refresh token can be used     *)
(* once.  The replicas of the sync workers share the encrypted credential  *)
(* and a fenced lease, both in the control plane; the vendor knows which   *)
(* token is the newest.                                                    *)
(*                                                                         *)
(* A call of withLease is two strands.  The coordinator acquires, watches  *)
(* and releases the lease; the operation rereads the credential, presents  *)
(* the token to the vendor and publishes the answer.  When the coordinator *)
(* gives up, the operation is not stopped: it runs on until it looks at    *)
(* the abort signal.  One action is one transaction or one vendor request. *)
(***************************************************************************)
EXTENDS Naturals

CONSTANTS
  Call,           \* calls of withLease; a call is its lease id, a fresh ulid
  NoCall,
  MaxFaults,      \* bound: lapses, crashes, lost answers, failed calls, aborts
  MaxSelections   \* bound: account selections, which only a provisional
                  \* credential has: 0 is a connection's credential

ASSUME RefreshAssumption ==
  /\ NoCall \notin Call
  /\ MaxFaults \in Nat
  /\ MaxSelections \in Nat

VARIABLES
  lease,       \* the row of oauth_credential_refresh_leases
  stored,      \* the active envelope: its version and its refresh token
  newest,      \* the token the vendor accepts; tokens are numbered as issued
  replayed,    \* the vendor was presented a token it had replaced
  call,        \* call[c]: the two strands of a call and what they remember
  selection,   \* the version a select_account has read, 0 when there is none
  selections,  \* how many selections have begun
  faults

refreshVars == <<lease, stored, newest, replayed, call, selection, selections, faults>>

Coordinator == {"idle", "acquire", "held", "release", "over"}
Operation == {"none", "reread", "send", "store", "publish", "done"}

RefreshTypeOK ==
  /\ lease \in [id : Call \cup {NoCall}, fence : Nat, open : BOOLEAN]
  /\ stored \in [version : Nat, token : Nat]
  /\ newest \in Nat
  /\ replayed \in BOOLEAN
  /\ call \in [Call -> [at : Coordinator, op : Operation, seen : Nat, base : Nat,
                        token : Nat, fence : Nat]]
  /\ \A c \in Call : call[c].fence <= lease.fence
  /\ selection \in Nat
  /\ selections \in 0 .. MaxSelections
  /\ faults \in 0 .. MaxFaults

RefreshInit ==
  /\ lease = [id |-> NoCall, fence |-> 0, open |-> FALSE]
  /\ stored = [version |-> 1, token |-> 1]
  /\ newest = 1
  /\ replayed = FALSE
  /\ call = [c \in Call |-> [at |-> "idle", op |-> "none", seen |-> 0, base |-> 0,
                             token |-> 0, fence |-> 0]]
  /\ selection = 0
  /\ selections = 0
  /\ faults = 0

Fault == faults < MaxFaults /\ faults' = faults + 1

-------------------------------------------------------------------------------
(* The lease. *)

\* assert_credential_refresh_lease accepts the proof of call c.
LeaseActive(c) ==
  /\ lease.id = c
  /\ lease.fence = call[c].fence
  /\ lease.open

\* Mutants of Grantable: a running lease is taken over, or an expired one kept.
GrantableAlways == TRUE

GrantableFree == lease.id = NoCall

\* The row is free, or its lease has expired.
Grantable == lease.id = NoCall \/ ~lease.open

\* The row is given to call c.
Grant(c) ==
  /\ Grantable
  /\ lease' = [id |-> c, fence |-> lease.fence + 1, open |-> TRUE]

\* The caller has read the credential, found it expired or refused by the
\* vendor, and calls withLease.
Start(c) ==
  /\ call[c].at = "idle"
  /\ call' = [call EXCEPT ![c].at = "acquire", ![c].seen = stored.version]
  /\ UNCHANGED <<lease, stored, newest, replayed, selection, selections, faults>>

\* Until the lease is granted, the coordinator polls.
Acquire(c) ==
  /\ call[c].at = "acquire"
  /\ Grant(c)
  /\ call' = [call EXCEPT ![c].at = "held", ![c].op = "reread", ![c].fence = lease.fence + 1]
  /\ UNCHANGED <<stored, newest, replayed, selection, selections, faults>>

\* The grant commits and its answer is lost: nobody has the proof.
AcquireUnanswered(c) ==
  /\ call[c].at = "acquire"
  /\ Grant(c)
  /\ Fault
  /\ call' = [call EXCEPT ![c].at = "over"]
  /\ UNCHANGED <<stored, newest, replayed, selection, selections>>

\* The operation's deadline passes, or the caller aborts, before the grant.
GiveUp(c) ==
  /\ call[c].at = "acquire"
  /\ Fault
  /\ call' = [call EXCEPT ![c].at = "over"]
  /\ UNCHANGED <<lease, stored, newest, replayed, selection, selections>>

\* The heartbeat of a call in progress comes too late.
Lapse ==
  /\ lease.open
  /\ lease.id # NoCall /\ call[lease.id].at \in {"held", "release"}
  /\ Fault
  /\ lease' = [lease EXCEPT !.open = FALSE]
  /\ UNCHANGED <<stored, newest, replayed, call, selection, selections>>

\* A lease nobody renews any more expires.
Expire ==
  /\ lease.open
  /\ lease.id # NoCall /\ call[lease.id].at = "over"
  /\ lease' = [lease EXCEPT !.open = FALSE]
  /\ UNCHANGED <<stored, newest, replayed, call, selection, selections, faults>>

-------------------------------------------------------------------------------
(* The operation. *)

\* Mutant of Reread: the version the caller saw is taken as current.
RereadSkipped(c) ==
  /\ call[c].op = "reread"
  /\ call' = [call EXCEPT ![c].op = "send", ![c].base = call[c].seen, ![c].token = stored.token]
  /\ UNCHANGED <<lease, stored, newest, replayed, selection, selections, faults>>

\* Under the lease, the credential is read again; when another call has
\* refreshed it, its result is used.
Reread(c) ==
  /\ call[c].op = "reread"
  /\ call' = IF stored.version # call[c].seen
             THEN [call EXCEPT ![c].op = "done"]
             ELSE [call EXCEPT ![c].op = "send", ![c].base = stored.version,
                               ![c].token = stored.token]
  /\ UNCHANGED <<lease, stored, newest, replayed, selection, selections, faults>>

Aborted(c) == call[c].at # "held"

\* No request is sent once the signal is aborted.
SendAborted(c) ==
  /\ call[c].op = "send" /\ Aborted(c)
  /\ call' = [call EXCEPT ![c].op = "done"]
  /\ UNCHANGED <<lease, stored, newest, replayed, selection, selections, faults>>

\* The vendor replaces the token it is presented.
Exchange(c) ==
  /\ call[c].op = "send" /\ ~Aborted(c)
  /\ call[c].token = newest
  /\ newest' = newest + 1
  /\ call' = [call EXCEPT ![c].op = "store", ![c].token = newest + 1]
  /\ UNCHANGED <<lease, stored, replayed, selection, selections, faults>>

\* The vendor replaces the token and the answer is lost; the request is sent
\* again, or was the last try.
ExchangeUnanswered(c) ==
  /\ call[c].op = "send" /\ ~Aborted(c)
  /\ call[c].token = newest
  /\ Fault
  /\ newest' = newest + 1
  /\ \E next \in {"send", "done"} : call' = [call EXCEPT ![c].op = next]
  /\ UNCHANGED <<lease, stored, replayed, selection, selections>>

\* A token that was replaced is refused.
ExchangeRefused(c) ==
  /\ call[c].op = "send" /\ ~Aborted(c)
  /\ call[c].token # newest
  /\ replayed' = TRUE
  /\ call' = [call EXCEPT ![c].op = "done"]
  /\ UNCHANGED <<lease, stored, newest, selection, selections, faults>>

\* performRefresh looks at the signal once before it publishes.  After an abort
\* it reads the credential and returns or throws.
CheckSignal(c) ==
  /\ call[c].op = "store"
  /\ call' = [call EXCEPT ![c].op = IF Aborted(c) THEN "done" ELSE "publish"]
  /\ UNCHANGED <<lease, stored, newest, replayed, selection, selections, faults>>

\* Mutant of Publish: the proof is not asserted in the transaction.
PublishUnfenced(c) ==
  /\ call[c].op = "publish"
  /\ stored.version = call[c].base
  /\ stored' = [version |-> call[c].base + 1, token |-> call[c].token]
  /\ call' = [call EXCEPT ![c].op = "done"]
  /\ UNCHANGED <<lease, newest, replayed, selection, selections, faults>>

\* compareAndSwap with a proof: lease and version are checked and the new
\* envelope written in one transaction.
Publish(c) ==
  /\ call[c].op = "publish"
  /\ LeaseActive(c) /\ stored.version = call[c].base
  /\ stored' = [version |-> call[c].base + 1, token |-> call[c].token]
  /\ call' = [call EXCEPT ![c].op = "done"]
  /\ UNCHANGED <<lease, newest, replayed, selection, selections, faults>>

PublishRefused(c) ==
  /\ call[c].op = "publish"
  /\ ~(LeaseActive(c) /\ stored.version = call[c].base)
  /\ call' = [call EXCEPT ![c].op = "done"]
  /\ UNCHANGED <<lease, stored, newest, replayed, selection, selections, faults>>

\* A read, a request or the transaction fails.
OperationFails(c) ==
  /\ call[c].op \in {"reread", "send", "publish"}
  /\ Fault
  /\ call' = [call EXCEPT ![c].op = "done"]
  /\ UNCHANGED <<lease, stored, newest, replayed, selection, selections>>

-------------------------------------------------------------------------------
(* The coordinator. *)

Finish(c) ==
  /\ call[c].at = "held" /\ call[c].op = "done"
  /\ call' = [call EXCEPT ![c].at = "release"]
  /\ UNCHANGED <<lease, stored, newest, replayed, selection, selections, faults>>

\* The heartbeat finds the lease lost and aborts the operation's signal.
NoticeLoss(c) ==
  /\ call[c].at = "held" /\ ~LeaseActive(c)
  /\ call' = [call EXCEPT ![c].at = "release"]
  /\ UNCHANGED <<lease, stored, newest, replayed, selection, selections, faults>>

\* The operation's deadline passes, the caller aborts or an extension fails.
Abort(c) ==
  /\ call[c].at = "held"
  /\ Fault
  /\ call' = [call EXCEPT ![c].at = "release"]
  /\ UNCHANGED <<lease, stored, newest, replayed, selection, selections>>

\* Mutant of Released: whoever holds it, the lease is cleared.
ReleasedAny(c) == [lease EXCEPT !.id = NoCall, !.open = FALSE]

\* release_credential_refresh_lease clears the row the proof matches, expired
\* or not.
Released(c) ==
  IF lease.id = c /\ lease.fence = call[c].fence
  THEN [lease EXCEPT !.id = NoCall, !.open = FALSE] ELSE lease

Release(c) ==
  /\ call[c].at = "release"
  /\ lease' = Released(c)
  /\ call' = [call EXCEPT ![c].at = "over"]
  /\ UNCHANGED <<stored, newest, replayed, selection, selections, faults>>

\* bestEffortRelease swallows its failure.
ReleaseFails(c) ==
  /\ call[c].at = "release"
  /\ Fault
  /\ call' = [call EXCEPT ![c].at = "over"]
  /\ UNCHANGED <<lease, stored, newest, replayed, selection, selections>>

\* The replica dies with both strands.
Crash(c) ==
  /\ call[c].at \in {"acquire", "held", "release"}
  /\ Fault
  /\ call' = [call EXCEPT ![c].at = "over", ![c].op = "done"]
  /\ UNCHANGED <<lease, stored, newest, replayed, selection, selections>>

-------------------------------------------------------------------------------
(* select_account, on a provisional credential: read, then compareAndSwap      *)
(* without a proof, which token material that does not change permits.         *)

SelectRead ==
  /\ selection = 0 /\ selections < MaxSelections
  /\ selection' = stored.version
  /\ selections' = selections + 1
  /\ UNCHANGED <<lease, stored, newest, replayed, call, faults>>

SelectStore ==
  /\ selection # 0
  /\ stored' = IF stored.version = selection
               THEN [stored EXCEPT !.version = @ + 1] ELSE stored
  /\ selection' = 0
  /\ UNCHANGED <<lease, newest, replayed, call, selections, faults>>

-------------------------------------------------------------------------------
Operate(c) ==
  \/ Reread(c) \/ SendAborted(c) \/ Exchange(c) \/ ExchangeRefused(c)
  \/ CheckSignal(c) \/ Publish(c) \/ PublishRefused(c)

Coordinate(c) == Acquire(c) \/ Finish(c) \/ NoticeLoss(c) \/ Release(c)

Interfere(c) ==
  \/ AcquireUnanswered(c) \/ GiveUp(c) \/ ExchangeUnanswered(c) \/ OperationFails(c)
  \/ Abort(c) \/ ReleaseFails(c) \/ Crash(c)

RefreshNext ==
  \/ \E c \in Call : Start(c) \/ Coordinate(c) \/ Operate(c) \/ Interfere(c)
  \/ Lapse \/ Expire \/ SelectRead \/ SelectStore

RefreshSpec == RefreshInit /\ [][RefreshNext]_refreshVars

\* A replica that runs makes progress, the vendor answers or times out, and the
\* database's clock passes every deadline.
RefreshFairness ==
  /\ \A c \in Call : WF_refreshVars(Coordinate(c)) /\ WF_refreshVars(Operate(c))
  /\ WF_refreshVars(Expire)

RefreshFairSpec == RefreshSpec /\ RefreshFairness

-------------------------------------------------------------------------------
(* Correctness. *)

\* The operation of c works on a version it has read.
Working(c) == call[c].op \in {"send", "store", "publish"}

\* While a call's lease is active nobody else changes a connection's credential
\* under it: its compareAndSwap meets no revision conflict, whatever expired
\* calls still try (the proof in compareAndSwap, the reread under the lease).
HolderMeetsNoConflict ==
  selections = 0 =>
    \A c \in Call : Working(c) /\ LeaseActive(c) => stored.version = call[c].base

\* Nobody takes an open lease from the call that has it: only its own release
\* ends it, or its expiry (acquire and release, both by exact match).
LeaseIsKept ==
  [][\A c \in Call : lease.id = c /\ lease.open /\ lease'.id # c => call[c].at = "release"]_refreshVars

\* The newest token is stored, or a call carries it that can publish it.
Kept ==
  \/ stored.token = newest
  \/ \E c \in Call :
       /\ call[c].op \in {"store", "publish"} /\ call[c].at = "held"
       /\ call[c].token = newest
       /\ LeaseActive(c) /\ stored.version = call[c].base

\* Concurrent calls alone, without a lapse, a crash or a lost answer, never lose
\* the only token the vendor accepts (the refresh of a connection's credential).
ConcurrencyKeepsToken == faults = 0 /\ selections = 0 => Kept

\* Concurrent calls alone never present a replaced token: whoever waited for
\* the lease takes the winner's token (the reread and its comparison).
NoReplay == faults = 0 /\ selections = 0 => ~replayed

\* ADR-0003: rotating refresh tokens remain correct under worker concurrency,
\* a provisional credential's included.
RotationIsKept == faults = 0 => Kept

\* Every call of withLease ends, also behind a lease whose holder has died.
EveryCallEnds == \A c \in Call : call[c].at = "acquire" ~> call[c].at = "over"
===============================================================================
