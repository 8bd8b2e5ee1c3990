-------------------------------- MODULE Wallet --------------------------------
(***************************************************************************)
(* The PMM's EVM account: TransactionService.executeTransaction sends with *)
(* the NonceManager that NonceManagerService caches, retries after a nonce *)
(* error, and NonceRefreshScheduler replaces the cached manager every      *)
(* minute, also while a transaction is between its nonce and its send.     *)
(* Every payment and approval passes through the one EVM worker, so there  *)
(* is one sender.  ethers' NonceManager and the node are external: the     *)
(* manager asks for the pending count once, at its first send, and counts  *)
(* every send from then on, also those that fail.                          *)
(***************************************************************************)
EXTENDS Naturals, FiniteSets

CONSTANTS
    Calls,          \* calls of executeTransaction
    MaxRetries,     \* maxNonceRetries, 1 by default
    MaxFaults,      \* bound: answers that are lost, refused or in error
    MaxCrashes,     \* bound: crashes of the process
    NoCall, NoManager, Shared, Unset, Rejected

ASSUME WalletAssumption ==
    /\ MaxRetries \in Nat /\ MaxFaults \in Nat /\ MaxCrashes \in Nat
    /\ IsFiniteSet(Calls) /\ NoCall \notin Calls
    /\ Unset \notin Nat /\ Rejected \notin Nat /\ Unset # Rejected
    /\ {NoManager, Shared} \cap [base : Nat \cup {Unset, Rejected}, delta : Nat] = {}
    /\ NoManager # Shared

(* More than all attempts of all calls use up.                             *)
Nonces == 0 .. (Cardinality(Calls) * (MaxRetries + 1) - 1)

VARIABLES
    slot,           \* the call whose transaction the node holds per nonce
    mined,          \* nonces below it are in blocks
    cached,         \* the NonceManager in the cache
    lock,           \* who has put its reset into nonceLocks
    sender,         \* executeTransaction under way
    outcome,        \* what became of each call
    known,          \* history: sends of a call answered "already known"
    skipped,        \* history: a send used up a nonce and the node did not get it
    faults, crashes

process == <<cached, lock>>
history == <<known, skipped>>
vars == <<slot, mined, process, sender, outcome, history, faults, crashes>>

(* getTransactionCount(address, 'pending'): the first nonce that is free.  *)
PendingCount ==
    CHOOSE n \in mined .. Cardinality(Nonces) :
        /\ \A k \in mined .. n - 1 : slot[k] # NoCall
        /\ n \in Nonces => slot[n] = NoCall

(* Mutation: a new manager takes the network's nonce at its creation.      *)
FreshManagerPrimed == [base |-> PendingCount, delta |-> 0]

(* new ethers.NonceManager(wallet): it has not asked the node for a nonce. *)
FreshManager == [base |-> Unset, delta |-> 0]

Idle == [at |-> "idle", call |-> NoCall, attempt |-> 0, nonce |-> Unset,
         own |-> NoManager]

Init ==
    /\ slot = [n \in Nonces |-> NoCall]
    /\ mined = 0
    /\ cached = NoManager
    /\ lock = "free"
    /\ sender = Idle
    /\ outcome = [c \in Calls |-> "none"]
    /\ known = [c \in Calls |-> 0]
    /\ skipped = FALSE
    /\ faults = 0
    /\ crashes = 0

Fault == faults < MaxFaults /\ faults' = faults + 1

Mine ==
    /\ mined < PendingCount
    /\ mined' = mined + 1
    /\ UNCHANGED <<slot, process, sender, outcome, history, faults, crashes>>

-----------------------------------------------------------------------------
(* executeTransaction                                                      *)

BeyondSender == UNCHANGED <<mined, crashes>>

Throw ==
    /\ sender' = Idle
    /\ outcome' = [outcome EXCEPT ![sender.call] = "thrown"]

Begin(c) ==
    /\ sender.at = "idle" /\ outcome[c] = "none"
    /\ sender' = [Idle EXCEPT !.at = "prepare", !.call = c]
    /\ UNCHANGED <<slot, process, outcome, history, faults>> /\ BeyondSender

(* executeTransactionInternal: getNonceManager, which creates one if there *)
(* is none; then the gas limit and the gas price are awaited.              *)
Prepare ==
    /\ sender.at = "prepare"
    /\ cached' = IF cached = NoManager THEN FreshManager ELSE cached
    /\ sender' = [sender EXCEPT !.at = "send", !.own = Shared]
    /\ UNCHANGED <<slot, lock, outcome, history, faults>> /\ BeyondSender

PrepareFails ==
    /\ sender.at = "send"
    /\ Fault
    /\ Throw
    /\ UNCHANGED <<slot, process, history>> /\ BeyondSender

(* The manager this attempt was given; a reset may have replaced it in the *)
(* cache since.                                                            *)
Own == IF sender.own = Shared THEN cached ELSE sender.own

(* NonceManager.sendTransaction: the count advances whatever happens next. *)
Advanced(base) ==
    cached' = IF sender.own = Shared
              THEN [base |-> base, delta |-> cached.delta + 1]
              ELSE cached

TakeNonce ==
    /\ sender.at = "send" /\ Own.base # Rejected
    /\ LET base == IF Own.base = Unset THEN PendingCount ELSE Own.base IN
       /\ Advanced(base)
       /\ sender' = [sender EXCEPT !.at = "broadcast", !.own = NoManager,
                                   !.nonce = base + Own.delta]
    /\ UNCHANGED <<slot, lock, outcome, history, faults>> /\ BeyondSender

(* The node does not say its count: the manager keeps the rejected promise *)
(* and every send with it throws.                                          *)
TakeNonceFails ==
    /\ sender.at = "send"
    /\ \/ Own.base = Unset /\ Fault
       \/ Own.base = Rejected /\ UNCHANGED faults
    /\ Advanced(Rejected)
    /\ Throw
    /\ UNCHANGED <<slot, lock, history>> /\ BeyondSender

Answers == {"taken", "lost", "known", "refused", "low", "underpriced"}

(* What a broadcast comes to.  A free nonce: the node takes it and answers,*)
(* takes it and the answer is lost, takes it and calls it known to a       *)
(* repeated request, or does not get it.  A nonce in use: too low if mined,*)
(* else underpriced, or it replaces the pending transaction.               *)
Replies(n) ==
    IF slot[n] = NoCall THEN {"taken", "lost", "known", "refused"}
    ELSE IF n < mined THEN {"low"}
    ELSE {"underpriced", "taken"}

(* Mutation: every error is retried.                                       *)
IsNonceRelatedErrorAny(reply) == reply # "taken"

IsNonceRelatedError(reply) == reply \in {"low", "known", "underpriced"}

(* Mutation: one retry too many.                                           *)
MayRetryOnceMore == sender.attempt <= MaxRetries

MayRetry == sender.attempt < MaxRetries

Broadcast(reply) ==
    LET c == sender.call
        n == sender.nonce IN
    /\ sender.at = "broadcast"
    /\ reply \in Replies(n)
    /\ IF reply \in {"lost", "known", "refused"} THEN Fault ELSE UNCHANGED faults
    /\ slot' = IF reply \in {"taken", "lost", "known"} THEN [slot EXCEPT ![n] = c] ELSE slot
    /\ known' = IF reply = "known" THEN [known EXCEPT ![c] = @ + 1] ELSE known
    /\ skipped' = (skipped \/ reply = "refused")
    /\ \/ /\ reply = "taken"
          /\ sender' = Idle
          /\ outcome' = [outcome EXCEPT ![c] = "returned"]
       \/ /\ IsNonceRelatedError(reply) /\ MayRetry
          /\ sender' = [sender EXCEPT !.at = "reset", !.nonce = Unset]
          /\ UNCHANGED outcome
       \/ /\ reply # "taken" /\ ~(IsNonceRelatedError(reply) /\ MayRetry)
          /\ Throw
    /\ UNCHANGED process /\ BeyondSender

-----------------------------------------------------------------------------
(* handleNonceError, called by the sender and by the refresh               *)

Retried == [sender EXCEPT !.at = "prepare", !.attempt = @ + 1]

(* The reset replaces the cached manager at once and then asks the node;   *)
(* with one under way, the sender waits for that one instead.              *)
Reset ==
    /\ sender.at = "reset"
    /\ IF lock = "free"
       THEN /\ lock' = "sender"
            /\ cached' = FreshManager
            /\ sender' = [sender EXCEPT !.at = "sync"]
       ELSE /\ sender' = [sender EXCEPT !.at = "wait"]
            /\ UNCHANGED process
    /\ UNCHANGED <<slot, outcome, history, faults>> /\ BeyondSender

ResetDone ==
    /\ sender.at = "sync"
    /\ lock' = "free"
    /\ \/ sender' = Retried /\ UNCHANGED <<outcome, faults>>
       \/ Fault /\ Throw
    /\ UNCHANGED <<slot, cached, history>> /\ BeyondSender

SenderStep ==
    \/ Prepare \/ PrepareFails
    \/ TakeNonce \/ TakeNonceFails
    \/ \E reply \in Answers : Broadcast(reply)
    \/ Reset \/ ResetDone

(* refreshAllNonces: nothing to do without a cached manager, and a reset   *)
(* under way serves as its own.                                            *)
RefreshStart ==
    /\ cached # NoManager /\ lock = "free"
    /\ lock' = "refresh"
    /\ sender' = IF sender.own = Shared THEN [sender EXCEPT !.own = cached] ELSE sender
    /\ cached' = FreshManager
    /\ UNCHANGED <<slot, mined, outcome, history, faults, crashes>>

(* Mutation: the lock is cleaned up only after a success.                  *)
RefreshEndKeepsLock ==
    /\ lock = "refresh"
    /\ \/ /\ lock' = "free"
          /\ sender' = IF sender.at = "wait" THEN Retried ELSE sender
          /\ UNCHANGED <<outcome, faults>>
       \/ /\ Fault /\ lock' = "kept"
          /\ IF sender.at = "wait" THEN Throw ELSE UNCHANGED <<sender, outcome>>
    /\ UNCHANGED <<slot, mined, cached, history, crashes>>

(* The node answers or not; a sender that waits gets the same result.      *)
RefreshEnd ==
    /\ lock = "refresh"
    /\ lock' = "free"
    /\ \/ /\ sender' = IF sender.at = "wait" THEN Retried ELSE sender
          /\ UNCHANGED <<outcome, faults>>
       \/ /\ Fault
          /\ IF sender.at = "wait" THEN Throw ELSE UNCHANGED <<sender, outcome>>
    /\ UNCHANGED <<slot, mined, cached, history, crashes>>

(* The process dies; a request under way may still have reached the node.  *)
Crash ==
    /\ crashes < MaxCrashes
    /\ crashes' = crashes + 1
    /\ cached' = NoManager
    /\ lock' = "free"
    /\ \/ UNCHANGED slot
       \/ /\ sender.at = "broadcast" /\ slot[sender.nonce] = NoCall
          /\ slot' = [slot EXCEPT ![sender.nonce] = sender.call]
    /\ IF sender.at = "idle" THEN UNCHANGED <<sender, outcome>> ELSE Throw
    /\ UNCHANGED <<mined, history, faults>>

Next ==
    \/ \E c \in Calls : Begin(c)
    \/ SenderStep
    \/ RefreshStart \/ RefreshEnd
    \/ Mine \/ Crash

Spec == Init /\ [][Next]_vars

(* The worker goes on, requests are answered or time out, and the cron     *)
(* service keeps refreshing; nothing is assumed of calls or of mining.     *)
Fairness == WF_vars(SenderStep) /\ WF_vars(RefreshStart) /\ WF_vars(RefreshEnd)

FairSpec == Spec /\ Fairness

-----------------------------------------------------------------------------
(* Properties                                                              *)

Manager == [base : Nonces \cup {Cardinality(Nonces), Unset, Rejected}, delta : Nat]

TypeOK ==
    /\ slot \in [Nonces -> Calls \cup {NoCall}]
    /\ mined \in 0 .. Cardinality(Nonces)
    /\ cached \in Manager \cup {NoManager}
    /\ lock \in {"free", "refresh", "sender"}
    /\ sender \in
         [at : {"idle", "prepare", "send", "broadcast", "reset", "sync", "wait"},
          call : Calls \cup {NoCall}, attempt : 0 .. MaxRetries,
          nonce : Nonces \cup {Unset},
          own : Manager \cup {NoManager, Shared}]
    /\ sender.at = "sync" <=> lock = "sender"
    /\ outcome \in [Calls -> {"none", "returned", "thrown"}]
    /\ known \in [Calls -> 0 .. MaxFaults]
    /\ skipped \in BOOLEAN
    /\ faults \in 0 .. MaxFaults /\ crashes \in 0 .. MaxCrashes

(* A call has one transaction at the node and one more for each send the   *)
(* node called already known, however often it was refused, lost or        *)
(* retried: the retry after a nonce error sends nothing twice by itself.   *)
CopiesAccounted ==
    \A c \in Calls : Cardinality({n \in Nonces : slot[n] = c}) <= 1 + known[c]

(* Unless a send has used up a nonce the node did not get, a transaction   *)
(* whose hash was returned, and so reported to the solver, keeps its nonce *)
(* and waits behind no gap, whatever resets happened while it was sent.    *)
ReturnedIsPending ==
    ~skipped => \A c \in Calls : outcome[c] = "returned" =>
        \E n \in Nonces : n < PendingCount /\ slot[n] = c

(* A manager that has cached the node's failure makes every payment throw  *)
(* until a refresh replaces it, and one does.                              *)
PoisonedIsReplaced ==
    (cached # NoManager /\ cached.base = Rejected)
        ~> (cached = NoManager \/ cached.base # Rejected)
=============================================================================
