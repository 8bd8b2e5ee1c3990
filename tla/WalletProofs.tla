----------------------------- MODULE WalletProofs -----------------------------
(***************************************************************************)
(* Proofs about Wallet, for any calls, retries, crashes and bad answers.   *)
(***************************************************************************)
EXTENDS Wallet, FiniteSetTheorems, NaturalsInduction, TLAPS

-----------------------------------------------------------------------------
(* The first free nonce                                                    *)

LEMMA LeastExists ==
    ASSUME NEW S \in SUBSET Nat, S # {}
    PROVE  \E n \in S : \A k \in S : n <= k
<1> DEFINE R == {p \in Nat \X Nat : p[1] < p[2]}
<1>1. IsWellFoundedOn(R, Nat)
  BY NatLessThanWellFounded DEF OpToRel
<1>2. PICK n \in S : \A k \in S : ~ (<<k, n>> \in R)
  BY <1>1, WFMin
<1>3. \A k \in S : ~ (k < n)
  BY <1>2
<1> QED
  BY <1>3

Size == Cardinality(Nonces)

LEMMA Constants ==
    /\ MaxRetries \in Nat /\ MaxFaults \in Nat /\ MaxCrashes \in Nat
    /\ NoCall \notin Calls /\ IsFiniteSet(Calls) /\ Cardinality(Calls) \in Nat
    /\ Unset \notin Nat /\ Rejected \notin Nat /\ Unset # Rejected
    /\ NoManager # Shared
    /\ \A m \in Manager : m # NoManager /\ m # Shared
    /\ Size \in Nat /\ Size = Cardinality(Calls) * (MaxRetries + 1)
    /\ Nonces = 0 .. Size - 1 /\ IsFiniteSet(Nonces)
<1>1. Cardinality(Calls) \in Nat
  BY WalletAssumption, FS_CardinalityType
<1> DEFINE k == Cardinality(Calls) * (MaxRetries + 1)
<1>2. k \in Nat
  BY <1>1, WalletAssumption
<1>3. Nonces = 0 .. k - 1
  BY DEF Nonces
<1> HIDE DEF k
<1>4. Size = k /\ IsFiniteSet(Nonces)
  BY <1>2, <1>3, FS_Interval DEF Size
<1>5. \A m \in Manager : m \in [base : Nat \cup {Unset, Rejected}, delta : Nat]
  BY <1>2, <1>3, <1>4 DEF Manager, Size
<1> QED
  BY <1>1, <1>2, <1>3, <1>4, <1>5, WalletAssumption DEF k

(* What PendingCount looks for in a node's state.                          *)
FirstFree(s, m, n) ==
    /\ n \in m .. Size
    /\ \A k \in m .. n - 1 : s[k] # NoCall
    /\ n \in Nonces => s[n] = NoCall

LEMMA FirstFreeExists ==
    ASSUME NEW s, NEW m \in 0 .. Size
    PROVE  \E n \in m .. Size : FirstFree(s, m, n)
<1> DEFINE F == {n \in m .. Size : n = Size \/ s[n] = NoCall}
<1>1. F \in SUBSET Nat /\ F # {}
  BY Constants
<1>2. PICK n \in F : \A k \in F : n <= k
  BY <1>1, LeastExists
<1>3. FirstFree(s, m, n)
  BY <1>2, Constants DEF FirstFree
<1> QED
  BY <1>2, <1>3

LEMMA FirstFreeUnique ==
    ASSUME NEW s, NEW m \in 0 .. Size, NEW n, NEW k, FirstFree(s, m, n), FirstFree(s, m, k)
    PROVE  n = k
<1>1. ASSUME NEW a, NEW b, FirstFree(s, m, a), FirstFree(s, m, b)
      PROVE  ~(a < b)
  BY <1>1, Constants DEF FirstFree
<1>2. n \in Int /\ k \in Int
  BY Constants DEF FirstFree
<1>3. ~(n < k) /\ ~(k < n)
  BY <1>1
<1> QED
  BY <1>2, <1>3

Count(s, m) == CHOOSE n \in m .. Size : FirstFree(s, m, n)

LEMMA CountIs ==
    ASSUME NEW s, NEW m \in 0 .. Size
    PROVE  /\ FirstFree(s, m, Count(s, m))
           /\ \A n : FirstFree(s, m, n) => n = Count(s, m)
BY FirstFreeExists, FirstFreeUnique DEF Count

LEMMA PendingIsCount == PendingCount = Count(slot, mined)
<1>1. \A n \in mined .. Size :
        FirstFree(slot, mined, n) <=> /\ \A k \in mined .. n - 1 : slot[k] # NoCall
                                      /\ n \in Nonces => slot[n] = NoCall
  BY DEF FirstFree
<1> QED
  BY <1>1 DEF PendingCount, Count, Size

-----------------------------------------------------------------------------
(* The inductive invariant                                                 *)

(* Where the call under way is, and which manager it holds.                *)
SenderInv ==
    /\ sender.at = "idle" => sender = Idle
    /\ sender.at # "idle" => sender.call \in Calls /\ outcome[sender.call] = "none"
    /\ sender.at \in {"reset", "sync", "wait"} => sender.attempt < MaxRetries
    /\ sender.at = "broadcast" => sender.nonce \in Nonces
    /\ sender.at # "broadcast" => sender.nonce = Unset
    /\ sender.at # "send" => sender.own = NoManager
    /\ sender.at = "send" =>
         \/ sender.own = Shared /\ cached \in Manager
         \/ sender.own \in Manager /\ cached = FreshManager

Filled == {n \in Nonces : slot[n] # NoCall}

Done == {c \in Calls : outcome[c] # "none"}

(* The attempts that are over: all that a finished call may have had, and  *)
(* those of the call under way.                                            *)
Spent == sender.attempt + (IF sender.at \in {"reset", "sync", "wait"} THEN 1 ELSE 0)

Tries == Cardinality(Done) * (MaxRetries + 1) + Spent

(* One more while the nonce that was taken is not yet broadcast.           *)
Reach == IF sender.at = "broadcast" THEN Tries + 1 ELSE Tries

Ahead == IF sender.at = "broadcast" THEN PendingCount + 1 ELSE PendingCount

(* A manager's next nonce is at most t, or exactly n.                      *)
Within(m, t) ==
    m \in Manager =>
        /\ m.base = Unset => m.delta = 0
        /\ m.base \in Nat => m.base + m.delta <= t

Holds(m, n) == m \in Manager /\ m.base \in Nat => m.base + m.delta = n

(* A nonce is used up by an attempt, so there are nonces enough.           *)
CountInv ==
    /\ Cardinality(Filled) <= Tries
    /\ sender.at = "broadcast" => sender.nonce <= Tries
    /\ Within(cached, Reach) /\ Within(sender.own, Reach)

MinedInv == \A n \in Nonces : n < mined => slot[n] # NoCall

Copies(c) == {n \in Nonces : slot[n] = c}

(* A call that goes on has no transaction but those called known.          *)
CopiesInv ==
    \A c \in Calls :
        /\ known[c] <= faults
        /\ Cardinality(Copies(c)) <= known[c] + (IF outcome[c] = "none" THEN 0 ELSE 1)

(* As long as no nonce was skipped there is no gap, and whoever holds a    *)
(* nonce holds the first that is free.                                     *)
PrefixInv ==
    ~skipped =>
        /\ \A n \in Nonces : slot[n] # NoCall => n < PendingCount
        /\ sender.at = "broadcast" => sender.nonce = PendingCount
        /\ Holds(cached, Ahead)
        /\ Holds(sender.own, Ahead)
        /\ \A c \in Calls : outcome[c] = "returned" => \E n \in Nonces : slot[n] = c

IInv ==
    /\ TypeOK
    /\ SenderInv
    /\ CountInv
    /\ MinedInv
    /\ CopiesInv
    /\ PrefixInv

-----------------------------------------------------------------------------
(* Counting                                                                *)

LEMMA PendingFacts ==
    ASSUME TypeOK, MinedInv
    PROVE  /\ PendingCount \in Nat /\ PendingCount \in mined .. Size
           /\ \A n \in Nonces : n < PendingCount => slot[n] # NoCall
           /\ PendingCount \in Nonces => slot[PendingCount] = NoCall
           /\ IsFiniteSet(Filled) /\ Cardinality(Filled) \in Nat
           /\ PendingCount <= Cardinality(Filled)
<1> DEFINE P == PendingCount
<1>1. mined \in 0 .. Size
  BY DEF TypeOK, Size
<1>2. FirstFree(slot, mined, P)
  BY <1>1, CountIs, PendingIsCount
<1>3. P \in mined .. Size /\ P \in Nat
  BY <1>1, <1>2, Constants DEF FirstFree
<1>4. \A n \in Nonces : n < P => slot[n] # NoCall
  BY <1>1, <1>2, <1>3, Constants DEF FirstFree, MinedInv
<1>5. P \in Nonces => slot[P] = NoCall
  BY <1>2 DEF FirstFree
<1>6. IsFiniteSet(Filled) /\ Cardinality(Filled) \in Nat
  BY Constants, FS_Subset, FS_CardinalityType DEF Filled
<1>7. 0 .. P - 1 \in SUBSET Filled
  BY <1>1, <1>3, <1>4, Constants DEF Filled
<1>8. Cardinality(0 .. P - 1) = P
  BY <1>3, FS_Interval
<1>9. P <= Cardinality(Filled)
  BY <1>6, <1>7, <1>8, FS_Subset
<1> QED
  BY <1>3, <1>4, <1>5, <1>6, <1>9

LEMMA PendingKept ==
    ASSUME UNCHANGED <<slot, mined>>
    PROVE  PendingCount' = PendingCount
BY DEF PendingCount

LEMMA DoneFacts ==
    ASSUME TypeOK
    PROVE  IsFiniteSet(Done) /\ Cardinality(Done) \in Nat
BY Constants, FS_Subset, FS_CardinalityType DEF Done

LEMMA Products ==
    ASSUME NEW k \in Nat, NEW r \in Nat
    PROVE  /\ k * (r + 1) \in Nat
           /\ (k + 1) * (r + 1) = k * (r + 1) + (r + 1)
OBVIOUS

LEMMA ProductsGrow ==
    ASSUME NEW k \in Nat, NEW n \in Nat, NEW r \in Nat, k <= n
    PROVE  k * r <= n * r
OBVIOUS

LEMMA TriesFacts ==
    ASSUME TypeOK, SenderInv
    PROVE  /\ Tries \in Nat
           /\ Spent \in 0 .. MaxRetries
           /\ sender.at # "idle" => Tries + 1 <= Size
<1>1. sender.attempt \in 0 .. MaxRetries
  BY DEF TypeOK
<1>2. Spent \in 0 .. MaxRetries
  BY <1>1, Constants DEF Spent, SenderInv
<1>3. Cardinality(Done) \in Nat /\ IsFiniteSet(Done)
  BY DoneFacts
<1>4. Tries \in Nat
  <2>1. Cardinality(Done) * (MaxRetries + 1) \in Nat
    BY <1>3, Products, Constants
  <2> QED
    BY <1>2, <2>1 DEF Tries
<1>5. ASSUME sender.at # "idle"
      PROVE  Tries + 1 <= Size
  <2>1. sender.call \in Calls \ Done
    BY <1>5 DEF SenderInv, Done
  <2>2. Cardinality(Done \cup {sender.call}) = Cardinality(Done) + 1
    BY <1>3, <2>1, FS_AddElement
  <2>3. Done \cup {sender.call} \in SUBSET Calls
    BY <2>1 DEF Done
  <2>4. Cardinality(Done) + 1 <= Cardinality(Calls)
    BY <2>2, <2>3, Constants, FS_Subset
  <2>5. (Cardinality(Done) + 1) * (MaxRetries + 1) <= Size
    <3>1. Cardinality(Done) + 1 \in Nat /\ MaxRetries + 1 \in Nat
      BY <1>3, Constants
    <3> HIDE DEF Size
    <3> QED
      BY <2>4, <3>1, ProductsGrow, Constants
  <2> QED
    BY <1>2, <1>3, <2>5, Products, Constants DEF Tries
<1> QED
  BY <1>2, <1>4, <1>5

(* A call that ends has had all its attempts.                              *)
LEMMA TriesAtEnd ==
    ASSUME TypeOK, SenderInv, sender.at # "idle", sender' = Idle, NEW o \in {"returned", "thrown"},
           outcome' = [outcome EXCEPT ![sender.call] = o]
    PROVE  Tries' \in Nat /\ Tries' >= Tries + 1 /\ Done' = Done \cup {sender.call}
<1>1. /\ sender.call \in Calls /\ sender.call \notin Done
      /\ outcome \in [Calls -> {"none", "returned", "thrown"}]
  BY DEF SenderInv, Done, TypeOK
<1>2. Done' = Done \cup {sender.call}
  BY <1>1 DEF Done
<1>3. IsFiniteSet(Done) /\ Cardinality(Done) \in Nat
  BY DoneFacts
<1>4. Cardinality(Done') = Cardinality(Done) + 1
  BY <1>1, <1>2, <1>3, FS_AddElement
<1>5. Spent' = 0
  BY DEF Spent, Idle
<1>6. Tries' = (Cardinality(Done) + 1) * (MaxRetries + 1)
  BY <1>3, <1>4, <1>5, Products, Constants DEF Tries
<1> QED
  BY <1>2, <1>3, <1>6, TriesFacts, Products, Constants DEF Tries

LEMMA WithinMore ==
    ASSUME NEW m, NEW t \in Int, NEW u \in Int, t <= u, Within(m, t)
    PROVE  Within(m, u)
<1>1. Unset \notin Nat /\ (m \in Manager => m.delta \in Nat)
  BY Constants DEF Manager
<1> QED
  BY <1>1 DEF Within

(* A manager that has no nonce to give.                                    *)
LEMMA EmptyManagers ==
    ASSUME NEW t \in Int
    PROVE  /\ FreshManager \in Manager
           /\ Within(FreshManager, t) /\ Holds(FreshManager, t)
           /\ Within(NoManager, t) /\ Holds(NoManager, t)
           /\ Within(Shared, t) /\ Holds(Shared, t)
BY Constants DEF FreshManager, Manager, Within, Holds

-----------------------------------------------------------------------------
(* Steps that send nothing                                                 *)

(* The call under way goes on, or it ends with nothing sent.               *)
Quiet ==
    /\ TypeOK' /\ SenderInv'
    /\ UNCHANGED <<slot, mined, known, skipped>>
    /\ faults' \in Nat /\ faults' >= faults
    /\ \A c \in Calls : \/ outcome'[c] = outcome[c]
                        \/ outcome[c] = "none" /\ outcome'[c] = "thrown"
    /\ Tries' \in Nat /\ Tries' >= Tries
    /\ sender'.at = "broadcast" =>
         sender'.nonce <= Tries' /\ (~skipped => sender'.nonce = PendingCount)
    /\ Within(cached', Reach') /\ Within(sender'.own, Reach')
    /\ ~skipped => Holds(cached', Ahead') /\ Holds(sender'.own, Ahead')

LEMMA QuietKeepsInv ==
    ASSUME IInv, Quiet
    PROVE  IInv'
<1> USE DEF Quiet
<1>1. PendingCount' = PendingCount /\ Filled' = Filled
      /\ \A c \in Calls : Copies(c)' = Copies(c)
  BY PendingKept DEF Filled, Copies
<1>2. /\ Tries \in Nat /\ Cardinality(Filled) \in Nat
      /\ Cardinality(Filled) <= Tries
  BY TriesFacts, PendingFacts DEF IInv, CountInv
<1>3. CountInv'
  BY <1>1, <1>2 DEF CountInv
<1>4. MinedInv'
  BY DEF IInv, MinedInv
<1>5. CopiesInv'
  <2> SUFFICES ASSUME NEW c \in Calls
               PROVE  /\ known'[c] <= faults'
                      /\ Cardinality(Copies(c)')
                           <= known'[c] + (IF outcome'[c] = "none" THEN 0 ELSE 1)
    BY DEF CopiesInv
  <2>1. known[c] \in Nat /\ faults \in Nat /\ Cardinality(Copies(c)) \in Nat
    <3>1. IsFiniteSet(Copies(c))
      BY Constants, FS_Subset DEF Copies
    <3> QED
      BY <3>1, FS_CardinalityType, Constants DEF IInv, TypeOK
  <2>2. /\ known[c] <= faults
        /\ Cardinality(Copies(c)) <= known[c] + (IF outcome[c] = "none" THEN 0 ELSE 1)
    BY DEF IInv, CopiesInv
  <2>3. Cardinality(Copies(c)') = Cardinality(Copies(c))
    BY <1>1
  <2> QED
    BY <2>1, <2>2, <2>3
<1>6. PrefixInv'
  <2> SUFFICES ASSUME ~skipped PROVE PrefixInv'
    BY DEF PrefixInv
  <2>1. \A c \in Calls : outcome'[c] = "returned" => outcome[c] = "returned"
    OBVIOUS
  <2> QED
    BY <1>1, <2>1 DEF IInv, PrefixInv
<1> QED
  BY <1>3, <1>4, <1>5, <1>6 DEF IInv

(* The same without a nonce in hand afterwards.                            *)
Idly ==
    /\ TypeOK' /\ SenderInv'
    /\ UNCHANGED <<slot, mined, known, skipped>>
    /\ faults' \in Nat /\ faults' >= faults
    /\ \A c \in Calls : \/ outcome'[c] = outcome[c]
                        \/ outcome[c] = "none" /\ outcome'[c] = "thrown"
    /\ Tries' \in Nat /\ Tries' >= Tries /\ sender'.at # "broadcast"
    /\ Within(cached', Tries') /\ Within(sender'.own, Tries')
    /\ ~skipped => Holds(cached', PendingCount) /\ Holds(sender'.own, PendingCount)

LEMMA IdlyKeepsInv ==
    ASSUME IInv, Idly
    PROVE  IInv'
<1>1. Reach' = Tries' /\ Ahead' = PendingCount
  BY PendingKept DEF Idly, Reach, Ahead
<1> QED
  BY <1>1, QuietKeepsInv DEF Idly, Quiet

(* A call that goes on at the same attempt.                                *)
LEMMA TriesKept ==
    ASSUME IInv, UNCHANGED outcome, Spent' = Spent
    PROVE  /\ Tries' = Tries /\ Tries' \in Nat /\ Tries' >= Tries
           /\ Spent \in 0 .. MaxRetries
<1>1. Tries \in Nat /\ Spent \in 0 .. MaxRetries
  BY TriesFacts DEF IInv
<1>2. Tries' = Tries
  BY DEF Tries, Done
<1> QED
  BY <1>1, <1>2

(* What the invariant says of the managers, apart from a broadcast.        *)
LEMMA ManagerFacts ==
    ASSUME IInv
    PROVE  /\ PendingCount \in Nat /\ Tries \in Nat /\ faults \in Nat
           /\ sender.at # "broadcast" =>
                /\ Within(cached, Tries) /\ Within(sender.own, Tries)
                /\ ~skipped => Holds(cached, PendingCount) /\ Holds(sender.own, PendingCount)
<1>1. PendingCount \in Nat /\ Tries \in Nat /\ faults \in Nat
  BY PendingFacts, TriesFacts, Constants DEF IInv, TypeOK
<1>2. ASSUME sender.at # "broadcast"
      PROVE  Reach = Tries /\ Ahead = PendingCount
  BY <1>1, <1>2 DEF Reach, Ahead
<1> QED
  BY <1>1, <1>2 DEF IInv, CountInv, PrefixInv

(* A call that throws before it has sent anything more.                    *)
LEMMA ThrowKeepsInv ==
    ASSUME IInv, sender.at \notin {"idle", "broadcast"}, Throw,
           UNCHANGED <<slot, mined, known, skipped, crashes>>,
           faults' \in 0 .. MaxFaults, faults' >= faults,
           lock' \in {"free", "refresh"},
           cached' \in Manager \cup {NoManager},
           Within(cached', Tries), ~skipped => Holds(cached', PendingCount)
    PROVE  IInv'
<1>1. /\ sender' = Idle /\ sender.call \in Calls /\ outcome[sender.call] = "none"
      /\ outcome \in [Calls -> {"none", "returned", "thrown"}]
      /\ outcome' = [outcome EXCEPT ![sender.call] = "thrown"]
  BY DEF Throw, IInv, SenderInv, TypeOK
<1>2. /\ outcome' \in [Calls -> {"none", "returned", "thrown"}]
      /\ \A c \in Calls : \/ outcome'[c] = outcome[c]
                          \/ outcome[c] = "none" /\ outcome'[c] = "thrown"
  BY <1>1
<1>3. Tries' \in Nat /\ Tries' >= Tries + 1 /\ Tries \in Nat /\ PendingCount \in Nat
      /\ faults \in Nat
  BY <1>1, TriesAtEnd, ManagerFacts DEF IInv
<1>4. TypeOK'
  BY <1>1, <1>2, Constants DEF IInv, TypeOK, Idle
<1>5. SenderInv'
  BY <1>1 DEF SenderInv, Idle
<1>6. sender'.own = NoManager /\ sender'.at = "idle"
  BY <1>1 DEF Idle
<1>7. Within(cached', Tries') /\ Within(sender'.own, Tries')
  BY <1>3, <1>6, WithinMore, EmptyManagers
<1>8. ~skipped => Holds(cached', PendingCount) /\ Holds(sender'.own, PendingCount)
  BY <1>3, <1>6, EmptyManagers
<1>9. faults' \in Nat /\ Tries' >= Tries
  BY <1>3, Constants
<1> QED
  BY <1>2, <1>3, <1>4, <1>5, <1>6, <1>7, <1>8, <1>9, IdlyKeepsInv DEF Idly

LEMMA BeginInv ==
    ASSUME IInv, NEW c \in Calls, Begin(c)
    PROVE  IInv'
<1>1. /\ sender = Idle /\ outcome[c] = "none"
      /\ sender' = [Idle EXCEPT !.at = "prepare", !.call = c]
      /\ UNCHANGED <<slot, cached, lock, outcome, known, skipped, faults, mined, crashes>>
  BY DEF Begin, BeyondSender, process, history, IInv, SenderInv
<1>2. TypeOK'
  BY <1>1, Constants DEF IInv, TypeOK, Idle
<1>3. SenderInv'
  BY <1>1 DEF SenderInv, Idle
<1>4. Spent' = Spent
  BY <1>1 DEF Spent, Idle
<1>5. Tries' = Tries /\ Tries' \in Nat /\ Tries' >= Tries
  BY <1>1, <1>4, TriesKept
<1>6. sender'.own = NoManager /\ sender'.at = "prepare" /\ sender.at = "idle"
  BY <1>1 DEF Idle
<1>7. PendingCount \in Nat /\ faults \in Nat
  BY ManagerFacts
<1>8. /\ Within(cached', Tries') /\ Within(sender'.own, Tries')
      /\ ~skipped => Holds(cached', PendingCount) /\ Holds(sender'.own, PendingCount)
  BY <1>1, <1>5, <1>6, <1>7, ManagerFacts, EmptyManagers
<1>9. faults' \in Nat /\ faults' >= faults
  BY <1>1, <1>7
<1> QED
  BY <1>1, <1>2, <1>3, <1>5, <1>6, <1>8, <1>9, IdlyKeepsInv DEF Idly

LEMMA PrepareInv ==
    ASSUME IInv, Prepare
    PROVE  IInv'
<1>1. /\ sender.at = "prepare"
      /\ cached' = IF cached = NoManager THEN FreshManager ELSE cached
      /\ sender' = [sender EXCEPT !.at = "send", !.own = Shared]
      /\ UNCHANGED <<slot, lock, outcome, known, skipped, faults, mined, crashes>>
  BY DEF Prepare, BeyondSender, history
<1>2. cached' \in Manager
  BY <1>1, EmptyManagers DEF IInv, TypeOK
<1>3. TypeOK'
  BY <1>1, <1>2 DEF IInv, TypeOK
<1>4. /\ sender'.at = "send" /\ sender'.own = Shared /\ sender'.call = sender.call
      /\ sender'.attempt = sender.attempt /\ sender'.nonce = sender.nonce
  BY <1>1 DEF IInv, TypeOK
<1>5. SenderInv'
  BY <1>1, <1>2, <1>4 DEF IInv, SenderInv
<1>6. Spent' = Spent
  BY <1>1, <1>4 DEF Spent
<1>7. Tries' = Tries /\ Tries' \in Nat /\ Tries' >= Tries
  BY <1>1, <1>6, TriesKept
<1>8. PendingCount \in Nat /\ faults \in Nat
  BY ManagerFacts
<1>9. /\ Within(cached', Tries') /\ Within(sender'.own, Tries')
      /\ ~skipped => Holds(cached', PendingCount) /\ Holds(sender'.own, PendingCount)
  BY <1>1, <1>4, <1>7, <1>8, ManagerFacts, EmptyManagers
<1>10. faults' \in Nat /\ faults' >= faults
  BY <1>1, <1>8
<1> QED
  BY <1>1, <1>3, <1>4, <1>5, <1>7, <1>9, <1>10, IdlyKeepsInv DEF Idly

LEMMA FaultFacts ==
    ASSUME IInv, Fault
    PROVE  faults' \in 0 .. MaxFaults /\ faults' >= faults
BY Constants DEF IInv, TypeOK, Fault

LEMMA PrepareFailsInv ==
    ASSUME IInv, PrepareFails
    PROVE  IInv'
<1>1. /\ sender.at = "send" /\ Throw /\ Fault
      /\ UNCHANGED <<slot, mined, known, skipped, crashes, cached, lock>>
  BY DEF PrepareFails, BeyondSender, history, process
<1>2. lock' \in {"free", "refresh"} /\ cached' \in Manager \cup {NoManager}
  BY <1>1 DEF IInv, TypeOK
<1>3. Within(cached', Tries) /\ (~skipped => Holds(cached', PendingCount))
  BY <1>1, ManagerFacts
<1> QED
  BY <1>1, <1>2, <1>3, FaultFacts, ThrowKeepsInv

LEMMA OwnFacts ==
    ASSUME IInv, sender.at = "send"
    PROVE  /\ Own \in Manager /\ Within(Own, Tries)
           /\ ~skipped => Holds(Own, PendingCount)
           /\ cached \in Manager
           /\ sender.own # Shared => cached = FreshManager
           /\ sender.own = Shared => Own = cached
<1>1. \/ sender.own = Shared /\ cached \in Manager
      \/ sender.own \in Manager /\ cached = FreshManager
  BY DEF IInv, SenderInv
<1>2. /\ Within(cached, Tries) /\ Within(sender.own, Tries)
      /\ ~skipped => Holds(cached, PendingCount) /\ Holds(sender.own, PendingCount)
  BY ManagerFacts
<1>3. Shared \notin Manager /\ FreshManager \in Manager
  BY Constants, EmptyManagers
<1> QED
  BY <1>1, <1>2, <1>3 DEF Own

LEMMA AdvancedManager ==
    ASSUME NEW m \in Manager, NEW b \in Nonces \cup {Size, Unset, Rejected}
    PROVE  /\ [base |-> b, delta |-> m.delta + 1] \in Manager
           /\ m.delta \in Nat
BY Constants DEF Manager, Size

LEMMA TakeNonceFailsInv ==
    ASSUME IInv, TakeNonceFails
    PROVE  IInv'
<1>1. /\ sender.at = "send" /\ Throw /\ Advanced(Rejected)
      /\ Fault \/ UNCHANGED faults
      /\ UNCHANGED <<slot, mined, known, skipped, crashes, lock>>
  BY DEF TakeNonceFails, BeyondSender, history
<1>2. lock' \in {"free", "refresh"} /\ cached \in Manager
  BY <1>1, OwnFacts DEF IInv, TypeOK
<1>3. faults' \in 0 .. MaxFaults /\ faults' >= faults
  BY <1>1, FaultFacts, Constants DEF IInv, TypeOK
<1>4. /\ cached' \in Manager /\ Within(cached', Tries)
      /\ ~skipped => Holds(cached', PendingCount)
  <2>1. CASE sender.own = Shared
    <3>1. cached' = [base |-> Rejected, delta |-> cached.delta + 1]
      BY <1>1, <2>1 DEF Advanced
    <3>2. cached' \in Manager
      BY <1>2, <3>1, AdvancedManager
    <3> QED
      BY <3>1, <3>2, Constants DEF Within, Holds
  <2>2. CASE sender.own # Shared
    BY <1>1, <1>2, <2>2, ManagerFacts DEF Advanced
  <2> QED
    BY <2>1, <2>2
<1> QED
  BY <1>1, <1>2, <1>3, <1>4, ThrowKeepsInv

(* The nonce that is taken is one the account has, and the first free one  *)
(* as long as none was skipped.                                            *)
LEMMA TakeNonceInv ==
    ASSUME IInv, TakeNonce
    PROVE  IInv'
<1> DEFINE P == PendingCount
           base == IF Own.base = Unset THEN P ELSE Own.base
           n == base + Own.delta
<1>1. /\ sender.at = "send" /\ Own.base # Rejected /\ Advanced(base)
      /\ sender' = [sender EXCEPT !.at = "broadcast", !.own = NoManager, !.nonce = n]
      /\ UNCHANGED <<slot, mined, lock, outcome, known, skipped, faults, crashes>>
  BY DEF TakeNonce, BeyondSender, history
<1>2. P \in 0 .. Size /\ P \in Nat /\ P <= Tries /\ Tries \in Nat /\ Tries + 1 <= Size
      /\ faults \in Nat
  <2>1. mined \in Nat /\ P \in Nat /\ P \in mined .. Size /\ P <= Cardinality(Filled)
        /\ Cardinality(Filled) \in Nat
    BY PendingFacts, Constants DEF IInv, TypeOK, Size
  <2>2. Cardinality(Filled) <= Tries
    BY DEF IInv, CountInv
  <2>3. Tries \in Nat /\ Tries + 1 <= Size /\ faults \in Nat
    BY <1>1, TriesFacts, ManagerFacts DEF IInv
  <2> QED
    BY <2>1, <2>2, <2>3, Constants
<1>3. /\ Own \in Manager /\ Within(Own, Tries) /\ cached \in Manager
      /\ ~skipped => Holds(Own, P)
      /\ sender.own # Shared => cached = FreshManager
      /\ sender.own = Shared => Own = cached
  BY <1>1, OwnFacts
<1> HIDE DEF P
<1>4. /\ base \in Nat /\ base \in Nonces \cup {Size, Unset, Rejected}
      /\ Own.delta \in Nat /\ n \in Nat
      /\ n <= Tries /\ (~skipped => n = P)
  <2>1. Own.base \in Nonces \cup {Size, Unset, Rejected} /\ Own.delta \in Nat
    BY <1>3 DEF Manager, Size
  <2>2. CASE Own.base = Unset
    <3>1. Own.delta = 0 /\ base = P
      BY <1>3, <2>2 DEF Within
    <3> QED
      BY <1>2, <3>1, Constants
  <2>3. CASE Own.base # Unset
    <3>1. Own.base \in Nat /\ base = Own.base
      BY <1>1, <2>1, <2>3, Constants
    <3> QED
      BY <1>3, <2>1, <3>1 DEF Within, Holds
  <2> QED
    BY <2>2, <2>3
<1> HIDE DEF base
<1>5. n \in Nonces
  BY <1>2, <1>4, Constants
<1>6. /\ sender'.at = "broadcast" /\ sender'.own = NoManager /\ sender'.nonce = n
      /\ sender'.call = sender.call /\ sender'.attempt = sender.attempt
  BY <1>1 DEF IInv, TypeOK
<1>7. /\ cached' \in Manager /\ Within(cached', Tries + 1)
      /\ ~skipped => Holds(cached', P + 1)
  <2>1. CASE sender.own = Shared
    <3>1. cached' = [base |-> base, delta |-> cached.delta + 1] /\ Own = cached
      BY <1>1, <1>3, <2>1 DEF Advanced
    <3>2. cached' \in Manager
      BY <1>3, <1>4, <3>1, AdvancedManager
    <3>3. cached'.base + cached'.delta = n + 1 /\ cached'.base \in Nat
      BY <1>4, <3>1
    <3>4. n + 1 <= Tries + 1 /\ (~skipped => n + 1 = P + 1)
      BY <1>2, <1>4
    <3> QED
      BY <3>2, <3>3, <3>4, Constants DEF Within, Holds
  <2>2. CASE sender.own # Shared
    <3>1. cached' = FreshManager
      BY <1>1, <1>3, <2>2 DEF Advanced
    <3>2. Tries + 1 \in Int /\ P + 1 \in Int
      BY <1>2
    <3> QED
      BY <3>1, <3>2, EmptyManagers
  <2> QED
    BY <2>1, <2>2
<1> HIDE DEF n
<1>8. TypeOK'
  BY <1>1, <1>5, <1>7 DEF IInv, TypeOK
<1>9. SenderInv'
  BY <1>1, <1>5, <1>6 DEF IInv, SenderInv
<1>10. Spent' = Spent
  BY <1>1, <1>6 DEF Spent
<1>11. Tries' = Tries /\ Tries' \in Nat /\ Tries' >= Tries
  BY <1>1, <1>10, TriesKept
<1>12. Reach' = Tries + 1 /\ Ahead' = P + 1
  BY <1>1, <1>6, <1>11, PendingKept DEF Reach, Ahead, P
<1>13. /\ Within(sender'.own, Tries + 1) /\ Holds(sender'.own, P + 1)
  <2>1. Tries + 1 \in Int /\ P + 1 \in Int
    BY <1>2
  <2> QED
    BY <1>6, <2>1, EmptyManagers
<1>14. faults' \in Nat /\ faults' >= faults
  BY <1>1, <1>2
<1>15. sender'.nonce <= Tries' /\ (~skipped => sender'.nonce = PendingCount)
  BY <1>4, <1>6, <1>11 DEF P
<1>16. Quiet
  BY <1>1, <1>7, <1>8, <1>9, <1>11, <1>12, <1>13, <1>14, <1>15 DEF Quiet
<1> QED
  BY <1>16, QuietKeepsInv

-----------------------------------------------------------------------------
(* Resets and refreshes                                                    *)

LEMMA ResetInv ==
    ASSUME IInv, Reset
    PROVE  IInv'
<1>1. /\ sender.at = "reset"
      /\ \/ /\ lock = "free" /\ lock' = "sender" /\ cached' = FreshManager
            /\ sender' = [sender EXCEPT !.at = "sync"]
         \/ /\ lock # "free" /\ UNCHANGED <<cached, lock>>
            /\ sender' = [sender EXCEPT !.at = "wait"]
      /\ UNCHANGED <<slot, mined, outcome, known, skipped, faults, crashes>>
  BY DEF Reset, BeyondSender, history, process
<1>2. /\ PendingCount \in Int /\ Tries \in Int /\ faults \in Nat
      /\ Within(cached, Tries) /\ Within(sender.own, Tries)
      /\ ~skipped => Holds(cached, PendingCount) /\ Holds(sender.own, PendingCount)
  BY <1>1, ManagerFacts
<1>3. /\ cached' \in Manager \cup {NoManager} /\ Within(cached', Tries)
      /\ ~skipped => Holds(cached', PendingCount)
  BY <1>1, <1>2, EmptyManagers DEF IInv, TypeOK
<1>4. /\ sender'.at \in {"sync", "wait"} /\ sender'.own = sender.own
      /\ sender'.attempt = sender.attempt /\ sender'.nonce = sender.nonce
      /\ sender'.call = sender.call
  BY <1>1 DEF IInv, TypeOK
<1>5. TypeOK'
  <2>1. lock' \in {"free", "refresh", "sender"} /\ (sender'.at = "sync" <=> lock' = "sender")
    BY <1>1, <1>4 DEF IInv, TypeOK
  <2> QED
    BY <1>1, <1>3, <2>1 DEF IInv, TypeOK
<1>6. SenderInv'
  BY <1>1, <1>4 DEF IInv, SenderInv
<1>7. Spent' = Spent
  BY <1>1, <1>4 DEF Spent
<1>8. Tries' = Tries /\ Tries' \in Nat /\ Tries' >= Tries
  BY <1>1, <1>7, TriesKept
<1>9. Idly
  BY <1>1, <1>2, <1>3, <1>4, <1>5, <1>6, <1>8 DEF Idly
<1> QED
  BY <1>9, IdlyKeepsInv

(* A sender whose reset is done begins its next attempt.                   *)
LEMMA RetryKeepsInv ==
    ASSUME IInv, sender.at \in {"sync", "wait"}, sender' = Retried,
           lock' = "free", UNCHANGED <<slot, mined, cached, outcome, known, skipped, crashes>>,
           UNCHANGED faults
    PROVE  IInv'
<1>1. /\ PendingCount \in Int /\ Tries \in Int /\ faults \in Nat
      /\ Within(cached, Tries) /\ Within(sender.own, Tries)
      /\ ~skipped => Holds(cached, PendingCount) /\ Holds(sender.own, PendingCount)
  BY ManagerFacts
<1>2. sender.attempt < MaxRetries /\ sender.attempt \in 0 .. MaxRetries
  BY DEF IInv, SenderInv, TypeOK
<1>3. /\ sender'.at = "prepare" /\ sender'.own = sender.own
      /\ sender'.attempt = sender.attempt + 1 /\ sender'.nonce = sender.nonce
      /\ sender'.call = sender.call
  BY DEF IInv, TypeOK, Retried
<1>4. sender.attempt + 1 \in 0 .. MaxRetries
  BY <1>2, Constants
<1>5. TypeOK'
  BY <1>3, <1>4 DEF IInv, TypeOK, Retried
<1>6. SenderInv'
  BY <1>3 DEF IInv, SenderInv
<1>7. Spent' = Spent
  BY <1>2, <1>3 DEF Spent
<1>8. Tries' = Tries /\ Tries' \in Nat /\ Tries' >= Tries
  BY <1>7, TriesKept
<1>9. Idly
  BY <1>1, <1>3, <1>5, <1>6, <1>8 DEF Idly
<1> QED
  BY <1>9, IdlyKeepsInv

LEMMA ResetDoneInv ==
    ASSUME IInv, ResetDone
    PROVE  IInv'
<1>1. /\ sender.at = "sync" /\ lock' = "free"
      /\ \/ sender' = Retried /\ UNCHANGED <<outcome, faults>>
         \/ Fault /\ Throw
      /\ UNCHANGED <<slot, cached, known, skipped, mined, crashes>>
  BY DEF ResetDone, BeyondSender, history
<1>2. CASE sender' = Retried /\ UNCHANGED <<outcome, faults>>
  BY <1>1, <1>2, RetryKeepsInv
<1>3. CASE Fault /\ Throw
  <2>1. cached' \in Manager \cup {NoManager} /\ Within(cached', Tries)
        /\ (~skipped => Holds(cached', PendingCount))
    BY <1>1, ManagerFacts DEF IInv, TypeOK
  <2> QED
    BY <1>1, <1>3, <2>1, FaultFacts, ThrowKeepsInv
<1> QED
  BY <1>1, <1>2, <1>3

(* The sender neither moves nor ends.                                      *)
LEMMA BesideKeepsInv ==
    ASSUME IInv, TypeOK', SenderInv', UNCHANGED <<slot, mined, known, skipped, outcome>>,
           sender'.at = sender.at, sender'.attempt = sender.attempt,
           sender'.nonce = sender.nonce, faults' >= faults,
           cached' \in {cached, FreshManager}, sender'.own \in {sender.own, cached}
    PROVE  IInv'
<1>1. /\ PendingCount \in Int /\ Tries \in Int /\ faults \in Nat /\ faults' \in Nat
  BY ManagerFacts, Constants DEF TypeOK
<1>2. Spent' = Spent
  BY DEF Spent
<1>3. Tries' = Tries /\ Tries' \in Nat /\ Tries' >= Tries
  BY <1>2, TriesKept
<1>4. Reach' = Reach /\ Ahead' = Ahead /\ Reach \in Int /\ Ahead \in Int
  BY <1>1, <1>3, PendingKept DEF Reach, Ahead
<1>5. /\ Within(cached', Reach) /\ Within(sender'.own, Reach)
      /\ ~skipped => Holds(cached', Ahead) /\ Holds(sender'.own, Ahead)
  BY <1>4, EmptyManagers DEF IInv, CountInv, PrefixInv
<1>6. sender'.at = "broadcast" =>
        sender'.nonce <= Tries' /\ (~skipped => sender'.nonce = PendingCount)
  BY <1>3 DEF IInv, CountInv, PrefixInv
<1>7. Quiet
  BY <1>1, <1>3, <1>4, <1>5, <1>6 DEF Quiet
<1> QED
  BY <1>7, QuietKeepsInv

LEMMA RefreshStartInv ==
    ASSUME IInv, RefreshStart
    PROVE  IInv'
<1>1. /\ cached # NoManager /\ lock = "free" /\ lock' = "refresh"
      /\ sender' = IF sender.own = Shared THEN [sender EXCEPT !.own = cached] ELSE sender
      /\ cached' = FreshManager
      /\ UNCHANGED <<slot, mined, outcome, known, skipped, faults, crashes>>
  BY DEF RefreshStart, history
<1>2. cached \in Manager /\ FreshManager \in Manager
  BY <1>1, EmptyManagers DEF IInv, TypeOK
<1>3. /\ sender'.at = sender.at /\ sender'.attempt = sender.attempt
      /\ sender'.nonce = sender.nonce /\ sender'.call = sender.call
      /\ sender'.own = IF sender.own = Shared THEN cached ELSE sender.own
  BY <1>1 DEF IInv, TypeOK
<1>4. TypeOK'
  BY <1>1, <1>2 DEF IInv, TypeOK
<1>5. sender.at # "send" => sender.own # Shared /\ sender' = sender
  BY <1>1, Constants DEF IInv, SenderInv
<1>6. SenderInv'
  BY <1>1, <1>2, <1>3, <1>5 DEF IInv, SenderInv
<1>7. faults' >= faults
  BY <1>1, ManagerFacts
<1> QED
  BY <1>1, <1>3, <1>4, <1>6, <1>7, BesideKeepsInv

LEMMA RefreshEndInv ==
    ASSUME IInv, RefreshEnd
    PROVE  IInv'
<1>1. /\ lock = "refresh" /\ lock' = "free"
      /\ UNCHANGED <<slot, mined, cached, known, skipped, crashes>>
      /\ \/ /\ sender' = IF sender.at = "wait" THEN Retried ELSE sender
            /\ UNCHANGED <<outcome, faults>>
         \/ /\ Fault
            /\ IF sender.at = "wait" THEN Throw ELSE UNCHANGED <<sender, outcome>>
  BY DEF RefreshEnd, history
<1>2. sender.at # "sync"
  BY <1>1 DEF IInv, TypeOK
<1>3. CASE sender.at = "wait" /\ sender' = Retried /\ UNCHANGED <<outcome, faults>>
  BY <1>1, <1>3, RetryKeepsInv
<1>4. CASE sender.at = "wait" /\ Fault /\ Throw
  <2>1. cached' \in Manager \cup {NoManager} /\ Within(cached', Tries)
        /\ (~skipped => Holds(cached', PendingCount))
    BY <1>1, <1>4, ManagerFacts DEF IInv, TypeOK
  <2> QED
    BY <1>1, <1>4, <2>1, FaultFacts, ThrowKeepsInv
<1>5. CASE sender.at # "wait" /\ UNCHANGED <<sender, outcome>>
  <2>1. faults' \in 0 .. MaxFaults /\ faults' >= faults
    BY <1>1, <1>5, FaultFacts, Constants DEF IInv, TypeOK
  <2>2. TypeOK'
    BY <1>1, <1>2, <1>5, <2>1 DEF IInv, TypeOK
  <2>3. SenderInv'
    BY <1>1, <1>5 DEF IInv, SenderInv
  <2> QED
    BY <1>1, <1>5, <2>1, <2>2, <2>3, BesideKeepsInv
<1> QED
  BY <1>1, <1>3, <1>4, <1>5

-----------------------------------------------------------------------------
(* Blocks and broadcasts                                                   *)

LEMMA PendingNext ==
    ASSUME TypeOK', NEW n, FirstFree(slot', mined', n)
    PROVE  PendingCount' = n
<1>1. \A k \in mined' .. Size :
        FirstFree(slot', mined', k) <=> /\ \A i \in mined' .. k - 1 : slot'[i] # NoCall
                                        /\ k \in Nonces => slot'[k] = NoCall
  BY DEF FirstFree
<1>2. PendingCount' = Count(slot', mined')
  BY <1>1 DEF PendingCount, Count, Size
<1>3. mined' \in 0 .. Size
  BY DEF TypeOK, Size
<1> QED
  BY <1>2, <1>3, CountIs

(* A block takes the first of the pending transactions.                    *)
LEMMA MineCount ==
    ASSUME IInv, Mine
    PROVE  TypeOK' /\ PendingCount' = PendingCount
<1>1. /\ mined < PendingCount /\ mined' = mined + 1
      /\ UNCHANGED <<slot, cached, lock, sender, outcome, known, skipped, faults, crashes>>
  BY DEF Mine, process, history
<1>2. /\ PendingCount \in Nat /\ PendingCount \in mined .. Size
      /\ PendingCount \in Nonces => slot[PendingCount] = NoCall
      /\ \A n \in Nonces : n < PendingCount => slot[n] # NoCall
      /\ mined \in 0 .. Size
  BY PendingFacts DEF IInv, TypeOK, Size
<1>3. TypeOK'
  BY <1>1, <1>2, Constants DEF IInv, TypeOK, Size
<1>4. FirstFree(slot', mined', PendingCount)
  <2> DEFINE P == PendingCount
  <2>1. P \in mined' .. Size
    BY <1>1, <1>2, Constants
  <2>2. ASSUME NEW k \in mined' .. P - 1
        PROVE  slot[k] # NoCall
    BY <1>1, <1>2, <2>2, Constants
  <2> HIDE DEF P
  <2> QED
    BY <1>1, <1>2, <2>1, <2>2 DEF FirstFree, P
<1> QED
  BY <1>3, <1>4, PendingNext

LEMMA MineInv ==
    ASSUME IInv, Mine
    PROVE  IInv'
<1>1. /\ mined < PendingCount /\ mined' = mined + 1
      /\ UNCHANGED <<slot, cached, lock, sender, outcome, known, skipped, faults, crashes>>
  BY DEF Mine, process, history
<1>2. /\ PendingCount \in Nat
      /\ \A n \in Nonces : n < PendingCount => slot[n] # NoCall
      /\ mined \in 0 .. Size
  BY PendingFacts DEF IInv, TypeOK, Size
<1>3. TypeOK' /\ PendingCount' = PendingCount
  BY MineCount
<1>4. SenderInv'
  BY <1>1 DEF IInv, SenderInv
<1>5. Tries' = Tries /\ Reach' = Reach /\ Ahead' = Ahead /\ Filled' = Filled
      /\ \A c \in Calls : Copies(c)' = Copies(c)
  BY <1>1, <1>3 DEF Tries, Done, Spent, Reach, Ahead, Filled, Copies
<1>6. CountInv'
  BY <1>1, <1>5 DEF IInv, CountInv
<1>7. MinedInv'
  BY <1>1, <1>2, Constants DEF MinedInv
<1>8. CopiesInv'
  BY <1>1, <1>5 DEF IInv, CopiesInv
<1>9. PrefixInv'
  BY <1>1, <1>3, <1>5 DEF IInv, PrefixInv
<1> QED
  BY <1>3, <1>4, <1>6, <1>7, <1>8, <1>9 DEF IInv

(* The transaction whose nonce was taken is sent, by the node's account or *)
(* not, and the attempt is over.                                           *)
Sent == [slot EXCEPT ![sender.nonce] = sender.call]

Sending ==
    LET c == sender.call IN
    /\ TypeOK' /\ SenderInv'
    /\ mined' = mined /\ slot' \in {slot, Sent}
    /\ \A x \in Calls : x # c => known'[x] = known[x] /\ outcome'[x] = outcome[x]
    /\ known'[c] \in {known[c], known[c] + 1} /\ known'[c] <= faults' /\ faults' >= faults
    /\ slot' = slot \/ known'[c] = known[c] + 1 \/ outcome'[c] # "none"
    /\ Tries' \in Nat /\ Tries' >= Tries + 1
    /\ sender'.at # "broadcast" /\ sender'.own = NoManager
    /\ cached' \in {cached, NoManager}
    /\ ~skipped' => ~skipped /\ (slot' = Sent \/ cached' = NoManager)
    /\ outcome'[c] = "returned" => slot' = Sent

LEMMA SendingCount ==
    ASSUME IInv, sender.at = "broadcast", Sending
    PROVE  CountInv' /\ MinedInv' /\ CopiesInv'
<1> DEFINE n == sender.nonce
           c == sender.call
<1>1. /\ n \in Nonces /\ c \in Calls /\ outcome[c] = "none" /\ c # NoCall
      /\ slot \in [Nonces -> Calls \cup {NoCall}]
  BY Constants DEF IInv, SenderInv, TypeOK
<1>2. \A k \in Nonces : slot'[k] = slot[k] \/ (k = n /\ slot'[k] = c)
  BY <1>1 DEF Sending, Sent
<1>3. MinedInv'
  BY <1>1, <1>2 DEF IInv, MinedInv, Sending
<1>4. CountInv'
  <2>1. IsFiniteSet(Filled) /\ Cardinality(Filled) \in Nat /\ Cardinality(Filled) <= Tries
        /\ Tries \in Nat
    BY PendingFacts, TriesFacts DEF IInv, CountInv
  <2>2. Filled' \in SUBSET (Filled \cup {n})
    BY <1>2 DEF Filled
  <2>3. IsFiniteSet(Filled \cup {n}) /\ Cardinality(Filled \cup {n}) \in Nat
        /\ Cardinality(Filled \cup {n}) <= Cardinality(Filled) + 1
    <3>1. IsFiniteSet(Filled \cup {n})
          /\ Cardinality(Filled \cup {n}) =
               IF n \in Filled THEN Cardinality(Filled) ELSE Cardinality(Filled) + 1
      BY <2>1, FS_AddElement
    <3> QED
      BY <2>1, <3>1
  <2>4. Cardinality(Filled') \in Nat /\ Cardinality(Filled') <= Cardinality(Filled \cup {n})
    BY <2>2, <2>3, FS_Subset, FS_CardinalityType
  <2>5. Cardinality(Filled') <= Tries'
    BY <2>1, <2>3, <2>4 DEF Sending
  <2>6. Reach = Tries + 1 /\ Reach' = Tries'
    BY DEF Reach, Sending
  <2>7. Within(cached, Tries')
    BY <2>1, <2>6, WithinMore DEF Sending, IInv, CountInv
  <2>8. Within(cached', Tries') /\ Within(sender'.own, Tries')
    BY <2>7, EmptyManagers DEF Sending
  <2> QED
    BY <2>5, <2>6, <2>8 DEF CountInv, Sending
<1>5. CopiesInv'
  <2> SUFFICES ASSUME NEW x \in Calls
               PROVE  /\ known'[x] <= faults'
                      /\ Cardinality(Copies(x)')
                           <= known'[x] + (IF outcome'[x] = "none" THEN 0 ELSE 1)
    BY DEF CopiesInv
  <2>1. /\ known[x] \in Nat /\ faults \in Nat /\ known[x] <= faults /\ faults' \in Nat
        /\ Cardinality(Copies(x)) <= known[x] + (IF outcome[x] = "none" THEN 0 ELSE 1)
    BY Constants DEF IInv, CopiesInv, TypeOK, Sending
  <2>2. IsFiniteSet(Copies(x)) /\ Cardinality(Copies(x)) \in Nat
    BY Constants, FS_Subset, FS_CardinalityType DEF Copies
  <2>3. CASE x # c
    <3>1. Copies(x)' \in SUBSET Copies(x)
      BY <1>2, <2>3 DEF Copies
    <3>2. Cardinality(Copies(x)') \in Nat /\ Cardinality(Copies(x)') <= Cardinality(Copies(x))
      BY <2>2, <3>1, FS_Subset, FS_CardinalityType
    <3>3. known'[x] = known[x] /\ outcome'[x] = outcome[x] /\ faults' >= faults
      BY <2>3 DEF Sending
    <3> QED
      BY <2>1, <2>2, <3>2, <3>3
  <2>4. CASE x = c /\ slot' = slot
    <3>1. Copies(x)' = Copies(x)
      BY <2>4 DEF Copies
    <3>2. known'[x] <= faults' /\ known'[x] \in Nat /\ known'[x] >= known[x]
      BY <2>1, <2>4 DEF Sending
    <3> QED
      BY <1>1, <2>1, <2>2, <2>4, <3>1, <3>2
  <2>5. CASE x = c /\ slot' # slot
    <3>1. Copies(x)' \in SUBSET (Copies(x) \cup {n})
      BY <1>2, <2>5 DEF Copies
    <3>2. IsFiniteSet(Copies(x) \cup {n}) /\ Cardinality(Copies(x) \cup {n}) \in Nat
          /\ Cardinality(Copies(x) \cup {n}) <= Cardinality(Copies(x)) + 1
      <4>1. IsFiniteSet(Copies(x) \cup {n})
            /\ Cardinality(Copies(x) \cup {n}) =
                 IF n \in Copies(x) THEN Cardinality(Copies(x)) ELSE Cardinality(Copies(x)) + 1
        BY <2>2, FS_AddElement
      <4> QED
        BY <2>2, <4>1
    <3>3. /\ Cardinality(Copies(x)') \in Nat
          /\ Cardinality(Copies(x)') <= Cardinality(Copies(x) \cup {n})
      BY <3>1, <3>2, FS_Subset, FS_CardinalityType
    <3>4. /\ known'[x] <= faults' /\ known'[x] \in Nat /\ known'[x] >= known[x]
          /\ known'[x] = known[x] + 1 \/ outcome'[x] # "none"
      BY <2>1, <2>5 DEF Sending
    <3>5. Cardinality(Copies(x)) <= known[x]
      BY <1>1, <2>1, <2>5
    <3> QED
      BY <2>1, <2>2, <3>2, <3>3, <3>4, <3>5
  <2> QED
    BY <2>3, <2>4, <2>5
<1> QED
  BY <1>3, <1>4, <1>5

(* Unless a nonce was skipped, the transaction that is sent fills the      *)
(* first nonce that is free.                                               *)
LEMMA SentCount ==
    ASSUME IInv, TypeOK', sender.at = "broadcast", ~skipped, slot' = Sent, mined' = mined
    PROVE  /\ PendingCount \in Nonces /\ sender.nonce = PendingCount
           /\ slot' = [slot EXCEPT ![PendingCount] = sender.call]
           /\ PendingCount' = PendingCount + 1
<1> DEFINE P == PendingCount
           c == sender.call
<1>1. /\ P \in Nat /\ P \in mined .. Size /\ mined \in 0 .. Size
      /\ \A k \in Nonces : k < P => slot[k] # NoCall
      /\ slot \in [Nonces -> Calls \cup {NoCall}]
  BY PendingFacts DEF IInv, TypeOK, Size
<1>2. /\ sender.nonce = P /\ P \in Nonces /\ c \in Calls /\ c # NoCall
      /\ \A k \in Nonces : slot[k] # NoCall => k < P
  BY Constants DEF IInv, PrefixInv, SenderInv
<1> HIDE DEF P
<1>3. slot' = [slot EXCEPT ![P] = c]
  BY <1>2 DEF Sent
<1>4. FirstFree(slot', mined', P + 1)
  BY <1>1, <1>2, <1>3, Constants DEF FirstFree
<1>5. PendingCount' = P + 1
  BY <1>4, PendingNext
<1> QED
  BY <1>2, <1>3, <1>5 DEF P

(* Without a gap the transaction takes the first free nonce.               *)
LEMMA SendingPrefix ==
    ASSUME IInv, sender.at = "broadcast", Sending
    PROVE  PrefixInv'
<1> SUFFICES ASSUME ~skipped' PROVE PrefixInv'
  BY DEF PrefixInv
<1> DEFINE P == PendingCount
           c == sender.call
<1>1. /\ P \in Nat /\ P \in mined .. Size /\ mined \in 0 .. Size
      /\ \A k \in Nonces : k < P => slot[k] # NoCall
      /\ P \in Nonces => slot[P] = NoCall
      /\ slot \in [Nonces -> Calls \cup {NoCall}]
      /\ outcome \in [Calls -> {"none", "returned", "thrown"}]
  BY PendingFacts DEF IInv, TypeOK, Size
<1>2. /\ ~skipped /\ sender.nonce = P /\ P \in Nonces
      /\ c \in Calls /\ c # NoCall /\ outcome[c] = "none"
      /\ \A k \in Nonces : slot[k] # NoCall => k < P
      /\ Holds(cached, Ahead)
      /\ \A x \in Calls : outcome[x] = "returned" => \E k \in Nonces : slot[k] = x
  BY Constants DEF Sending, IInv, PrefixInv, SenderInv
<1>3. Ahead = P + 1
  BY DEF Ahead
<1> HIDE DEF P
<1>4. CASE slot' = Sent
  <2>1. slot' = [slot EXCEPT ![P] = c]
    BY <1>2, <1>4 DEF Sent
  <2>2. PendingCount' = P + 1
    BY <1>2, <1>4, SentCount DEF Sending, P
  <2>3. Ahead' = P + 1
    BY <2>2 DEF Ahead, Sending
  <2>4. \A k \in Nonces : slot'[k] # NoCall => k < PendingCount'
    BY <1>1, <1>2, <2>1, <2>2, Constants
  <2>5. Holds(cached', Ahead') /\ Holds(sender'.own, Ahead')
    BY <1>1, <1>2, <1>3, <2>3, EmptyManagers DEF Sending
  <2>6. ASSUME NEW x \in Calls, outcome'[x] = "returned"
        PROVE  \E k \in Nonces : slot'[k] = x
    <3>1. CASE x = c
      BY <1>1, <1>2, <2>1, <3>1
    <3>2. CASE x # c
      <4>1. PICK k \in Nonces : slot[k] = x
        BY <1>2, <2>6, <3>2 DEF Sending
      <4>2. k # P
        BY <1>1, <1>2, <4>1, Constants
      <4> QED
        BY <1>1, <2>1, <4>1, <4>2
    <3> QED
      BY <3>1, <3>2
  <2> QED
    BY <2>4, <2>5, <2>6 DEF PrefixInv, Sending
<1>5. CASE slot' = slot /\ cached' = NoManager
  <2>1. PendingCount' = P
    BY <1>5, PendingKept DEF Sending, P
  <2>2. Ahead' = P
    BY <2>1 DEF Ahead, Sending
  <2>3. Holds(cached', Ahead') /\ Holds(sender'.own, Ahead')
    BY <1>1, <1>5, <2>2, EmptyManagers DEF Sending
  <2>4. ASSUME NEW x \in Calls, outcome'[x] = "returned"
        PROVE  \E k \in Nonces : slot'[k] = x
    <3>1. CASE x = c
      <4>1. slot' = Sent
        BY <2>4, <3>1 DEF Sending
      <4> QED
        BY <1>1, <1>2, <4>1, <3>1 DEF Sent
    <3>2. CASE x # c
      BY <1>2, <1>5, <2>4, <3>2 DEF Sending
    <3> QED
      BY <3>1, <3>2
  <2> QED
    BY <1>2, <1>5, <2>1, <2>3, <2>4 DEF PrefixInv, Sending
<1> QED
  BY <1>4, <1>5 DEF Sending

LEMMA SendingKeepsInv ==
    ASSUME IInv, sender.at = "broadcast", Sending
    PROVE  IInv'
BY SendingCount, SendingPrefix DEF IInv, Sending

LEMMA BroadcastInv ==
    ASSUME IInv, NEW reply \in Answers, Broadcast(reply)
    PROVE  IInv'
<1> DEFINE c == sender.call
           n == sender.nonce
<1>1. /\ sender.at = "broadcast" /\ reply \in Replies(n)
      /\ reply \in {"lost", "known", "refused"} => Fault
      /\ reply \notin {"lost", "known", "refused"} => UNCHANGED faults
      /\ slot' = IF reply \in {"taken", "lost", "known"} THEN Sent ELSE slot
      /\ known' = IF reply = "known" THEN [known EXCEPT ![c] = known[c] + 1] ELSE known
      /\ skipped' = (skipped \/ reply = "refused")
      /\ UNCHANGED <<mined, crashes, cached, lock>>
  BY DEF Broadcast, BeyondSender, process, Sent
<1>2. \/ /\ reply = "taken" /\ sender' = Idle
         /\ outcome' = [outcome EXCEPT ![c] = "returned"]
      \/ /\ IsNonceRelatedError(reply) /\ MayRetry
         /\ sender' = [sender EXCEPT !.at = "reset", !.nonce = Unset]
         /\ UNCHANGED outcome
      \/ /\ reply # "taken" /\ ~(IsNonceRelatedError(reply) /\ MayRetry)
         /\ sender' = Idle
         /\ outcome' = [outcome EXCEPT ![c] = "thrown"]
  BY DEF Broadcast, Throw
<1>3. /\ n \in Nonces /\ c \in Calls /\ outcome[c] = "none" /\ sender.own = NoManager
      /\ lock # "sender" /\ known[c] \in 0 .. MaxFaults /\ known[c] <= faults
      /\ faults \in 0 .. MaxFaults /\ crashes \in 0 .. MaxCrashes
      /\ known \in [Calls -> 0 .. MaxFaults]
      /\ outcome \in [Calls -> {"none", "returned", "thrown"}]
      /\ slot \in [Nonces -> Calls \cup {NoCall}]
      /\ sender.attempt \in 0 .. MaxRetries
  BY <1>1 DEF IInv, SenderInv, TypeOK, CopiesInv
<1>4. /\ faults' \in 0 .. MaxFaults /\ faults' >= faults
      /\ reply = "known" => faults' = faults + 1
  BY <1>1, <1>3, FaultFacts, Constants DEF Fault
<1>5. /\ known' \in [Calls -> 0 .. MaxFaults] /\ known'[c] \in {known[c], known[c] + 1}
      /\ known'[c] <= faults'
      /\ \A x \in Calls : x # c => known'[x] = known[x]
      /\ reply = "known" => known'[c] = known[c] + 1
  <2>1. CASE reply = "known"
    <3>1. known[c] + 1 \in 0 .. MaxFaults /\ known[c] + 1 <= faults'
      BY <1>3, <1>4, <2>1, Constants
    <3>2. known' = [known EXCEPT ![c] = known[c] + 1]
      BY <1>1, <2>1
    <3> QED
      BY <1>3, <3>1, <3>2
  <2>2. CASE reply # "known"
    BY <1>1, <1>3, <1>4, <2>2, Constants
  <2> QED
    BY <2>1, <2>2
<1>6. slot' \in [Nonces -> Calls \cup {NoCall}] /\ slot' \in {slot, Sent}
  BY <1>1, <1>3 DEF Sent
<1>7. skipped' \in BOOLEAN
  BY <1>1 DEF IInv, TypeOK
<1>8. ~skipped' => ~skipped /\ slot' = Sent
  <2> SUFFICES ASSUME ~skipped' PROVE ~skipped /\ slot' = Sent
    OBVIOUS
  <2>1. ~skipped /\ reply # "refused"
    BY <1>1
  <2>2. n = PendingCount /\ slot[n] = NoCall
    BY <1>1, <1>3, <2>1, PendingFacts DEF IInv, PrefixInv
  <2>3. reply \in {"taken", "lost", "known"}
    BY <1>1, <2>1, <2>2 DEF Replies
  <2> QED
    BY <1>1, <2>1, <2>3
<1>9. reply \in {"taken", "lost", "known"} \/ slot' = slot
  BY <1>1
<1>10. CASE IsNonceRelatedError(reply) /\ MayRetry
  <2>1. /\ sender' = [sender EXCEPT !.at = "reset", !.nonce = Unset] /\ UNCHANGED outcome
        /\ reply \in {"low", "known", "underpriced"}
    BY <1>2, <1>10 DEF IsNonceRelatedError
  <2>2. /\ sender'.at = "reset" /\ sender'.nonce = Unset /\ sender'.own = NoManager
        /\ sender'.attempt = sender.attempt /\ sender'.call = c
    BY <1>3, <2>1 DEF IInv, TypeOK
  <2>3. sender.attempt < MaxRetries
    BY <1>10 DEF MayRetry
  <2>4. TypeOK'
    BY <1>1, <1>3, <1>4, <1>5, <1>6, <1>7, <2>1, <2>2 DEF IInv, TypeOK
  <2>5. SenderInv'
    BY <1>3, <2>1, <2>2, <2>3 DEF SenderInv
  <2>6. Tries' = Tries + 1 /\ Tries \in Nat
    <3>1. Spent = sender.attempt /\ Spent' = sender.attempt + 1
      BY <1>1, <1>3, <2>2 DEF Spent
    <3>2. Done' = Done
      BY <2>1 DEF Done
    <3>3. Cardinality(Done) * (MaxRetries + 1) \in Nat
      BY DoneFacts, Products, Constants DEF IInv
    <3> HIDE DEF c, n
    <3> QED
      BY <1>3, <3>1, <3>2, <3>3 DEF Tries
  <2>7. Sending
    BY <1>1, <1>4, <1>5, <1>6, <1>8, <1>9, <2>1, <2>2, <2>4, <2>5, <2>6, <1>3 DEF Sending
  <2> QED
    BY <1>1, <2>7, SendingKeepsInv
<1>11. CASE ~(IsNonceRelatedError(reply) /\ MayRetry)
  <2>1. PICK o \in {"returned", "thrown"} : outcome' = [outcome EXCEPT ![c] = o]
    BY <1>2, <1>11
  <2>2. sender' = Idle /\ (outcome'[c] = "returned" => reply = "taken")
    BY <1>2, <1>3, <1>11
  <2>3. /\ sender'.at = "idle" /\ sender'.own = NoManager /\ Idle.at = "idle"
        /\ outcome' \in [Calls -> {"none", "returned", "thrown"}]
        /\ outcome'[c] # "none"
        /\ \A x \in Calls : x # c => outcome'[x] = outcome[x]
    BY <1>3, <2>1, <2>2 DEF Idle
  <2>4. TypeOK'
    BY <1>1, <1>3, <1>4, <1>5, <1>6, <1>7, <2>2, <2>3, Constants DEF IInv, TypeOK, Idle
  <2>5. SenderInv'
    BY <2>2 DEF SenderInv, Idle
  <2>6. Tries' \in Nat /\ Tries' >= Tries + 1
    BY <1>1, <2>1, <2>2, TriesAtEnd DEF IInv
  <2>7. outcome'[c] = "returned" => slot' = Sent
    BY <1>1, <2>2
  <2>8. Sending
    BY <1>1, <1>4, <1>5, <1>6, <1>8, <2>3, <2>4, <2>5, <2>6, <2>7 DEF Sending
  <2> QED
    BY <1>1, <2>8, SendingKeepsInv
<1> QED
  BY <1>10, <1>11

LEMMA CrashInv ==
    ASSUME IInv, Crash
    PROVE  IInv'
<1>1. /\ crashes' = crashes + 1 /\ crashes' \in 0 .. MaxCrashes
      /\ cached' = NoManager /\ lock' = "free"
      /\ \/ UNCHANGED slot
         \/ sender.at = "broadcast" /\ slot' = Sent
      /\ IF sender.at = "idle" THEN UNCHANGED <<sender, outcome>> ELSE Throw
      /\ UNCHANGED <<mined, known, skipped, faults>>
  BY Constants DEF Crash, Sent, history, IInv, TypeOK
<1>2. sender' = Idle
  BY <1>1 DEF Throw, IInv, SenderInv
<1>3. /\ sender'.at = "idle" /\ sender'.own = NoManager /\ Idle.at = "idle"
  BY <1>2 DEF Idle
<1>4. /\ outcome' \in [Calls -> {"none", "returned", "thrown"}]
      /\ slot' \in [Nonces -> Calls \cup {NoCall}]
      /\ \A x \in Calls : \/ outcome'[x] = outcome[x]
                          \/ outcome[x] = "none" /\ outcome'[x] = "thrown"
  BY <1>1 DEF Throw, Sent, IInv, TypeOK, SenderInv
<1>5. TypeOK'
  BY <1>1, <1>2, <1>3, <1>4, Constants DEF IInv, TypeOK, Idle
<1>6. SenderInv'
  BY <1>2 DEF SenderInv, Idle
<1>7. /\ PendingCount \in Int /\ Tries \in Nat /\ faults \in Nat
  BY ManagerFacts
<1>8. CASE sender.at = "broadcast"
  <2> DEFINE c == sender.call
  <2>1. /\ c \in Calls /\ known[c] <= faults /\ outcome \in [Calls -> {"none", "returned", "thrown"}]
        /\ outcome' = [outcome EXCEPT ![c] = "thrown"]
    BY <1>1, <1>8 DEF Throw, IInv, SenderInv, CopiesInv, TypeOK
  <2>2. Tries' \in Nat /\ Tries' >= Tries + 1
    BY <1>2, <1>8, <2>1, TriesAtEnd DEF IInv
  <2>3. /\ outcome'[c] = "thrown" /\ \A x \in Calls : x # c => outcome'[x] = outcome[x]
    BY <2>1
  <2>4. Sending
    BY <1>1, <1>3, <1>5, <1>6, <1>7, <2>1, <2>2, <2>3 DEF Sending
  <2> QED
    BY <1>8, <2>4, SendingKeepsInv
<1>9. CASE sender.at # "broadcast"
  <2>1. Tries' \in Nat /\ Tries' >= Tries
    <3>1. CASE sender.at = "idle"
      <4>1. Spent' = Spent /\ UNCHANGED outcome
        BY <1>1, <3>1 DEF Spent
      <4> QED
        BY <4>1, TriesKept
    <3>2. CASE sender.at # "idle"
      <4>1. outcome' = [outcome EXCEPT ![sender.call] = "thrown"]
        BY <1>1, <3>2 DEF Throw
      <4> QED
        BY <1>2, <1>7, <3>2, <4>1, TriesAtEnd DEF IInv
    <3> QED
      BY <3>1, <3>2
  <2>2. /\ Within(cached', Tries') /\ Within(sender'.own, Tries')
        /\ Holds(cached', PendingCount) /\ Holds(sender'.own, PendingCount)
    BY <1>1, <1>3, <1>7, <2>1, EmptyManagers
  <2>3. Idly
    BY <1>1, <1>3, <1>4, <1>5, <1>6, <1>7, <1>9, <2>1, <2>2 DEF Idly
  <2> QED
    BY <2>3, IdlyKeepsInv
<1> QED
  BY <1>8, <1>9

LEMMA StutterInv ==
    ASSUME IInv, UNCHANGED vars
    PROVE  IInv'
<1>1. PendingCount' = PendingCount
  BY PendingKept DEF vars
<1>2. Tries' = Tries /\ Reach' = Reach /\ Ahead' = Ahead /\ Filled' = Filled
      /\ \A c \in Calls : Copies(c)' = Copies(c)
  BY <1>1 DEF vars, process, history, Tries, Done, Spent, Reach, Ahead, Filled, Copies
<1>3. TypeOK' /\ SenderInv' /\ MinedInv'
  BY DEF vars, process, history, IInv, TypeOK, SenderInv, MinedInv
<1>4. CountInv' /\ CopiesInv' /\ PrefixInv'
  BY <1>1, <1>2 DEF vars, process, history, IInv, CountInv, CopiesInv, PrefixInv
<1> QED
  BY <1>3, <1>4 DEF IInv

LEMMA InitInv == Init => IInv
<1> SUFFICES ASSUME Init PROVE IInv
  OBVIOUS
<1>1. TypeOK
  <2>1. /\ 0 \in 0 .. Cardinality(Nonces) /\ 0 \in 0 .. MaxRetries
        /\ 0 \in 0 .. MaxFaults /\ 0 \in 0 .. MaxCrashes
    BY Constants DEF Size
  <2>2. sender.at = "idle" /\ lock = "free"
    BY DEF Init, Idle
  <2> QED
    BY <2>1, <2>2 DEF Init, TypeOK, Idle
<1>2. SenderInv
  BY DEF Init, SenderInv, Idle
<1>3. MinedInv
  BY Constants DEF Init, MinedInv
<1>4. Tries \in Nat
  BY <1>1, <1>2, TriesFacts
<1>5. Reach \in Int /\ Ahead \in Int
  BY <1>1, <1>3, <1>4, PendingFacts DEF Reach, Ahead
<1>6. Filled = {} /\ \A c \in Calls : Copies(c) = {}
  BY Constants DEF Init, Filled, Copies
<1>7. cached = NoManager /\ sender.own = NoManager /\ sender.at = "idle"
  BY DEF Init, Idle
<1>8. CountInv
  BY <1>4, <1>5, <1>6, <1>7, FS_EmptySet, EmptyManagers DEF CountInv
<1>9. CopiesInv
  BY <1>6, FS_EmptySet DEF Init, CopiesInv
<1>10. PrefixInv
  BY <1>5, <1>7, EmptyManagers DEF Init, PrefixInv
<1> QED
  BY <1>1, <1>2, <1>3, <1>8, <1>9, <1>10 DEF IInv

-----------------------------------------------------------------------------
(* Theorems                                                                *)

(* No nonce is used but by an attempt, and whoever holds a nonce holds the *)
(* first that is free unless one was skipped, in every state.              *)
THEOREM InductiveInvariantWallet == Spec => []IInv
<1>1. ASSUME IInv, Next
      PROVE  IInv'
  <2>1. CASE \E c \in Calls : Begin(c)
    BY <1>1, <2>1, BeginInv
  <2>2. CASE SenderStep
    BY <1>1, <2>2, PrepareInv, PrepareFailsInv, TakeNonceInv, TakeNonceFailsInv,
       BroadcastInv, ResetInv, ResetDoneInv DEF SenderStep
  <2>3. CASE RefreshStart \/ RefreshEnd
    BY <1>1, <2>3, RefreshStartInv, RefreshEndInv
  <2>4. CASE Mine \/ Crash
    BY <1>1, <2>4, MineInv, CrashInv
  <2> QED
    BY <1>1, <2>1, <2>2, <2>3, <2>4 DEF Next
<1> QED
  BY <1>1, InitInv, StutterInv, PTL DEF Spec

(* Every reachable state of the wallet is well typed: in particular a      *)
(* nonce is never beyond what the attempts of all calls use up.            *)
THEOREM WalletTypeCorrect == Spec => []TypeOK
BY InductiveInvariantWallet, PTL DEF IInv

(* For any number of calls, retries, refreshes and crashes, a call has one *)
(* transaction and one more for each send called already known.            *)
THEOREM CopiesAreAccounted == Spec => []CopiesAccounted
<1>1. IInv => CopiesAccounted
  <2> SUFFICES ASSUME IInv, NEW c \in Calls
               PROVE  Cardinality(Copies(c)) <= 1 + known[c]
    BY DEF CopiesAccounted, Copies
  <2>1. IsFiniteSet(Copies(c)) /\ Cardinality(Copies(c)) \in Nat /\ known[c] \in Nat
    BY Constants, FS_Subset, FS_CardinalityType DEF Copies, IInv, TypeOK
  <2> QED
    BY <2>1 DEF IInv, CopiesInv
<1> QED
  BY <1>1, InductiveInvariantWallet, PTL

(* Whatever is reset or refreshed while a transaction is sent, one whose   *)
(* hash was returned keeps its nonce and waits behind no gap, unless a     *)
(* send has used up a nonce that the node did not get.                     *)
THEOREM ReturnedArePending == Spec => []ReturnedIsPending
<1>1. IInv => ReturnedIsPending
  BY Constants DEF IInv, PrefixInv, ReturnedIsPending, TypeOK
<1> QED
  BY <1>1, InductiveInvariantWallet, PTL
=============================================================================
