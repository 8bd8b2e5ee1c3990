------------------------ MODULE SettlementMonitorProofs ------------------------
(***************************************************************************)
(* Proofs about SettlementMonitor, for any trades, overlapping runs, batch *)
(* sizes and bounds.                                                       *)
(***************************************************************************)
EXTENDS SettlementMonitor, FiniteSetTheorems, TLAPS

-----------------------------------------------------------------------------
(* The inductive invariant                                                 *)

(* A run acts on what the chain has settled for good.                      *)
BranchInv ==
    \A m \in Runs :
        /\ run[m].at = "complete" =>
             /\ chain[run[m].trade] \in {"released", "confirmed"}
             /\ run[m].released <=> chain[run[m].trade] = "released"
        /\ run[m].at \in {"exists", "create"} => chain[run[m].trade] = "released"

CompletedInv ==
    /\ \A t \in completed : chain[t] \in {"released", "confirmed"}
    /\ IsFiniteSet(completed)

IInv ==
    /\ TypeOK
    /\ BranchInv
    /\ CompletedInv
    /\ RecordIsReleased
    /\ LostRecordsAccounted

-----------------------------------------------------------------------------
(* Sets                                                                    *)

LEMMA ConstantTypes ==
    /\ NoTrade \notin Trades /\ NoTrade \notin Lending /\ Lending \subseteq Trades
    /\ IsFiniteSet(Runs) /\ Cardinality(Runs) \in Nat /\ IsFiniteSet(Trades)
    /\ MaxTake \in Nat \ {0}
    /\ MaxQuotes \in Nat /\ MaxCrashes \in Nat /\ MaxFaults \in Nat
BY MonitorAssumption, FS_CardinalityType

LEMMA LostFinite ==
    ASSUME CompletedInv
    PROVE  IsFiniteSet(Lost) /\ Cardinality(Lost) \in Nat
<1>1. Lost \subseteq completed
  BY DEF Lost
<1> QED
  BY <1>1, FS_Subset, FS_CardinalityType DEF CompletedInv

(* Nothing that is accounted for anew.                                     *)
LEMMA LostKept ==
    ASSUME IInv, Lost' \subseteq Lost, faults' \in Nat, crashes' \in Nat,
           faults' >= faults, crashes' >= crashes
    PROVE  LostRecordsAccounted'
<1>1. IsFiniteSet(Lost) /\ Cardinality(Lost) \in Nat
  BY LostFinite DEF IInv
<1>2. Cardinality(Lost') \in Nat /\ Cardinality(Lost') <= Cardinality(Lost)
  BY <1>1, FS_Subset, FS_CardinalityType
<1>3. faults \in Nat /\ crashes \in Nat
  BY ConstantTypes DEF IInv, TypeOK
<1>4. Cardinality(Runs) * crashes <= Cardinality(Runs) * crashes'
  BY <1>3, ConstantTypes
<1>5. Cardinality(Runs) * crashes \in Nat /\ Cardinality(Runs) * crashes' \in Nat
  BY <1>3, ConstantTypes
<1>6. Cardinality(Lost) <= faults + Cardinality(Runs) * crashes
  BY DEF IInv, LostRecordsAccounted
<1>7. Cardinality(Lost') <= faults' + Cardinality(Runs) * crashes'
  BY <1>1, <1>2, <1>3, <1>4, <1>5, <1>6
<1> QED
  BY <1>7 DEF LostRecordsAccounted

(* A failing query loses at most the trade of its run.                     *)
LEMMA LostByFault ==
    ASSUME IInv, NEW t, Lost' \subseteq Lost \cup {t},
           faults' = faults + 1, crashes' = crashes
    PROVE  LostRecordsAccounted'
<1>1. IsFiniteSet(Lost) /\ Cardinality(Lost) \in Nat
  BY LostFinite DEF IInv
<1>2. /\ IsFiniteSet(Lost \cup {t})
      /\ Cardinality(Lost \cup {t}) \in Nat
      /\ Cardinality(Lost \cup {t}) <= Cardinality(Lost) + 1
  <2>1. /\ IsFiniteSet(Lost \cup {t})
        /\ Cardinality(Lost \cup {t}) =
             IF t \in Lost THEN Cardinality(Lost) ELSE Cardinality(Lost) + 1
    BY <1>1, FS_AddElement
  <2> QED
    BY <1>1, <2>1
<1>3. Cardinality(Lost') \in Nat /\ Cardinality(Lost') <= Cardinality(Lost \cup {t})
  BY <1>2, FS_Subset, FS_CardinalityType
<1>4. faults \in Nat /\ crashes \in Nat
  BY ConstantTypes DEF IInv, TypeOK
<1>5. Cardinality(Runs) * crashes \in Nat
  BY <1>4, ConstantTypes
<1>6. Cardinality(Lost) <= faults + Cardinality(Runs) * crashes
  BY DEF IInv, LostRecordsAccounted
<1>7. Cardinality(Lost') <= faults' + Cardinality(Runs) * crashes
  BY <1>1, <1>2, <1>3, <1>4, <1>5, <1>6
<1> QED
  BY <1>7 DEF LostRecordsAccounted

(* A crash loses at most the trades of all runs.                           *)
LEMMA LostByCrash ==
    ASSUME IInv, Lost' \subseteq Lost \cup {run[m].trade : m \in Runs},
           faults' = faults, crashes' = crashes + 1
    PROVE  LostRecordsAccounted'
<1> DEFINE Held == {run[m].trade : m \in Runs}
<1>1. IsFiniteSet(Lost) /\ Cardinality(Lost) \in Nat
  BY LostFinite DEF IInv
<1>2. IsFiniteSet(Held) /\ Cardinality(Held) <= Cardinality(Runs)
  <2> DEFINE f == [m \in Runs |-> run[m].trade]
  <2>1. f \in Surjection(Runs, Held)
    BY DEF Surjection
  <2> QED
    BY <2>1, ConstantTypes, FS_Surjection
<1>3. Cardinality(Held) \in Nat
  BY <1>2, FS_CardinalityType
<1> HIDE DEF Held
<1>4. /\ IsFiniteSet(Lost \cup Held)
      /\ Cardinality(Lost \cup Held) \in Nat
      /\ Cardinality(Lost \cup Held) <= Cardinality(Lost) + Cardinality(Held)
  <2>1. IsFiniteSet(Lost \cup Held) /\ IsFiniteSet(Lost \cap Held)
    BY <1>1, <1>2, FS_Union, FS_Intersection
  <2>2. Cardinality(Lost \cup Held)
            = Cardinality(Lost) + Cardinality(Held) - Cardinality(Lost \cap Held)
    BY <1>1, <1>2, FS_Union
  <2>3. Cardinality(Lost \cup Held) \in Nat /\ Cardinality(Lost \cap Held) \in Nat
    BY <2>1, FS_CardinalityType
  <2> QED
    BY <1>1, <1>3, <2>1, <2>2, <2>3
<1>5. Lost' \subseteq Lost \cup Held
  BY DEF Held
<1>6. Cardinality(Lost') \in Nat /\ Cardinality(Lost') <= Cardinality(Lost \cup Held)
  BY <1>4, <1>5, FS_Subset, FS_CardinalityType
<1>7. faults \in Nat /\ crashes \in Nat
  BY ConstantTypes DEF IInv, TypeOK
<1>8. /\ Cardinality(Runs) * crashes \in Nat
      /\ Cardinality(Runs) * (crashes + 1) = Cardinality(Runs) * crashes + Cardinality(Runs)
  BY <1>7, ConstantTypes
<1>9. Cardinality(Lost) <= faults + Cardinality(Runs) * crashes
  BY DEF IInv, LostRecordsAccounted
<1>10. Cardinality(Lost') <= faults + Cardinality(Runs) * (crashes + 1)
  BY <1>1, <1>2, <1>3, <1>4, <1>6, <1>7, <1>8, <1>9, ConstantTypes
<1> QED
  BY <1>10 DEF LostRecordsAccounted

-----------------------------------------------------------------------------
(* The surroundings: nothing that a run or a history holds changes, except *)
(* that the chain settles what was open.                                   *)

LEMMA SurroundingsKeepInv ==
    ASSUME IInv, TypeOK', UNCHANGED <<record, run, completed, bounds>>,
           \A t \in Trades : chain[t] # "open" => chain'[t] = chain[t]
    PROVE  IInv'
<1>1. /\ completed \subseteq Trades
      /\ \A m \in Runs : run[m].at \in {"complete", "exists", "create"}
                           => run[m].trade \in Trades
  BY ConstantTypes DEF IInv, TypeOK, RunState
<1>2. BranchInv'
  BY <1>1 DEF IInv, BranchInv
<1>3. CompletedInv'
  BY <1>1 DEF IInv, CompletedInv
<1>4. RecordIsReleased'
  BY DEF IInv, RecordIsReleased
<1>5. Lost' \subseteq Lost
  BY <1>1 DEF Lost, InHand, IInv, CompletedInv
<1>6. LostRecordsAccounted'
  <2>1. faults' = faults /\ crashes' = crashes /\ faults \in Nat /\ crashes \in Nat
    BY ConstantTypes DEF IInv, TypeOK, bounds
  <2> QED
    BY <1>5, <2>1, LostKept
<1> QED
  BY <1>2, <1>3, <1>4, <1>6 DEF IInv

Surroundings(t) ==
    \/ QuoteDeletes(t) \/ QuoteCreates(t) \/ Signal(t)
    \/ ThreeDaysPass(t) \/ ChainSettles(t)

LEMMA SurroundingsType ==
    ASSUME IInv, NEW t \in Trades, Surroundings(t)
    PROVE  TypeOK'
<1> USE ConstantTypes DEF IInv, TypeOK, rows, bounds
<1>1. CASE QuoteDeletes(t)
  BY <1>1 DEF QuoteDeletes, Rows
<1>2. CASE QuoteCreates(t)
  BY <1>2 DEF QuoteCreates, Rows
<1>3. CASE Signal(t)
  BY <1>3 DEF Signal, Rows
<1>4. CASE ThreeDaysPass(t)
  BY <1>4 DEF ThreeDaysPass
<1>5. CASE ChainSettles(t)
  BY <1>5 DEF ChainSettles, ChainStates
<1> QED
  BY <1>1, <1>2, <1>3, <1>4, <1>5 DEF Surroundings

LEMMA SurroundingsInv ==
    ASSUME IInv, NEW t \in Trades, Surroundings(t)
    PROVE  IInv'
<1>1. /\ UNCHANGED <<record, run, completed, bounds>>
      /\ \A u \in Trades : chain[u] # "open" => chain'[u] = chain[u]
  BY DEF Surroundings, QuoteDeletes, QuoteCreates, Signal, ThreeDaysPass, ChainSettles,
     IInv, TypeOK, rows
<1> QED
  BY <1>1, SurroundingsType, SurroundingsKeepInv

-----------------------------------------------------------------------------
(* The runs                                                                *)

LEMMA SnapshotType ==
    ASSUME TypeOK, NEW s \in Snapshots
    PROVE  s \in Seq(Lending)
<1> DEFINE n == IF Cardinality(Settling) < take THEN Cardinality(Settling) ELSE take
<1>1. Settling \subseteq Lending /\ IsFiniteSet(Settling)
  <2>1. Settling \subseteq Trades
    BY ConstantTypes DEF Settling
  <2> QED
    BY <2>1, ConstantTypes, FS_Subset DEF Settling
<1>2. n \in Nat
  BY <1>1, FS_CardinalityType, ConstantTypes DEF TypeOK
<1>3. s \in [1 .. n -> Settling]
  BY DEF Snapshots
<1> HIDE DEF n
<1> QED
  BY <1>1, <1>2, <1>3

(* A run that moves leaves the other runs alone.                           *)
LEMMA RunMoves ==
    ASSUME TypeOK, NEW m \in Runs, NEW r \in RunState,
           r.trade = NoTrade <=> r.at \in {"idle", "loop"},
           run' = [run EXCEPT ![m] = r]
    PROVE  /\ run' \in [Runs -> RunState] /\ run'[m] = r
           /\ \A x \in Runs : x # m => run'[x] = run[x]
           /\ \A x \in Runs : run'[x].trade = NoTrade <=> run'[x].at \in {"idle", "loop"}
BY DEF TypeOK

LEMMA IdleType ==
    ASSUME NEW s \in Seq(Lending)
    PROVE  [IdleRun EXCEPT !.at = "loop", !.rest = s] \in RunState
BY DEF IdleRun, RunState

(* What a step of run m makes of the run, with the chain as it is.         *)
Branched(r) ==
    /\ r \in RunState
    /\ r.trade = NoTrade <=> r.at \in {"idle", "loop"}
    /\ r.at = "complete" =>
         /\ chain[r.trade] \in {"released", "confirmed"}
         /\ r.released <=> chain[r.trade] = "released"
    /\ r.at \in {"exists", "create"} => chain[r.trade] = "released"

(* What a step of run m may do beside that.                                *)
Written(m) ==
    LET t == run[m].trade IN
    /\ Elsewhere /\ crashes' = crashes
    /\ row' \in [Trades -> Rows]
    /\ record' \in [Trades -> BOOLEAN]
    /\ \/ record' = record
       \/ t \in Lending /\ chain[t] = "released" /\ record' = [record EXCEPT ![t] = TRUE]
    /\ \/ completed' = completed
       \/ /\ t \in Lending /\ chain[t] \in {"released", "confirmed"}
          /\ completed' = completed \cup {t}

LEMMA RunKeepsInv ==
    ASSUME IInv, NEW m \in Runs, NEW r, Branched(r), Written(m),
           run' = [run EXCEPT ![m] = r],
           \/ faults' = faults /\ run[m].trade \notin Lost' \ Lost
           \/ faults' = faults + 1 /\ faults' \in 0 .. MaxFaults
    PROVE  IInv'
<1> DEFINE t == run[m].trade
<1>1. /\ run' \in [Runs -> RunState] /\ run'[m] = r
      /\ \A x \in Runs : x # m => run'[x] = run[x]
      /\ \A x \in Runs : run'[x].trade = NoTrade <=> run'[x].at \in {"idle", "loop"}
  BY RunMoves DEF Branched, IInv
<1>2. /\ chain' = chain /\ crashes' = crashes
      /\ completed' \subseteq Lending
      /\ \A u \in Trades : record[u] => record'[u]
  BY DEF Written, Elsewhere, IInv, TypeOK
<1>3. TypeOK'
  BY <1>1, <1>2 DEF Written, Elsewhere, IInv, TypeOK
<1>4. BranchInv'
  BY <1>1, <1>2 DEF IInv, BranchInv, Branched
<1>5. CompletedInv'
  BY <1>2, FS_AddElement DEF Written, IInv, CompletedInv
<1>6. RecordIsReleased'
  BY <1>2 DEF Written, IInv, RecordIsReleased, TypeOK
<1>7. Lost' \subseteq Lost \cup {t}
  <2> SUFFICES ASSUME NEW u \in Lost', u # t
               PROVE  u \in Lost
    OBVIOUS
  <2>1. u \in completed /\ u \in Trades /\ chain[u] = "released" /\ ~record[u]
    BY <1>2, ConstantTypes DEF Lost, Written
  <2>2. ~InHand(u)
    BY <1>1 DEF Lost, InHand
  <2> QED
    BY <2>1, <2>2 DEF Lost
<1>8. faults \in Nat /\ crashes \in Nat
  BY ConstantTypes DEF IInv, TypeOK
<1>9. LostRecordsAccounted'
  <2>1. CASE faults' = faults /\ t \notin Lost' \ Lost
    BY <1>2, <1>7, <1>8, <2>1, LostKept
  <2>2. CASE faults' = faults + 1
    BY <1>2, <1>7, <2>2, LostByFault
  <2> QED
    BY <2>1, <2>2
<1> QED
  BY <1>3, <1>4, <1>5, <1>6, <1>9 DEF IInv

(* A run without a trade in hand has none to lose.                         *)
LEMMA NothingInHand ==
    ASSUME IInv, NEW m \in Runs, run[m].at \in {"idle", "loop"}, completed' = completed
    PROVE  run[m].trade \notin Lost' \ Lost
BY ConstantTypes DEF IInv, TypeOK, Lost

(* A run that neither completes nor records holds back no loss.            *)
LEMMA NothingGained ==
    ASSUME IInv, NEW m \in Runs, run[m].at \notin {"exists", "create"},
           UNCHANGED <<completed, chain, record>>,
           \A x \in Runs : x # m => run'[x] = run[x]
    PROVE  run[m].trade \notin Lost' \ Lost
BY DEF IInv, TypeOK, Lost, InHand

LEMMA LoopType ==
    ASSUME IInv, NEW m \in Runs
    PROVE  Branched([IdleRun EXCEPT !.at = "loop", !.rest = run[m].rest])
<1>1. run[m].rest \in Seq(Lending)
  BY DEF IInv, TypeOK, RunState
<1> QED
  BY <1>1 DEF Branched, IdleRun, RunState

LEMMA StartInv ==
    ASSUME IInv, NEW m \in Runs, Start(m)
    PROVE  IInv'
<1>1. PICK s \in Snapshots :
        run' = [run EXCEPT ![m] = [IdleRun EXCEPT !.at = "loop", !.rest = s]]
  BY DEF Start
<1>2. s \in Seq(Lending)
  BY <1>1, SnapshotType DEF IInv
<1> DEFINE r == [IdleRun EXCEPT !.at = "loop", !.rest = s]
<1>3. Branched(r)
  BY <1>2 DEF Branched, IdleRun, RunState
<1>4. Written(m) /\ faults' = faults /\ run[m].trade \notin Lost' \ Lost
  BY NothingInHand DEF Start, Written, bounds, IInv, TypeOK
<1> HIDE DEF r
<1> QED
  BY <1>1, <1>3, <1>4, RunKeepsInv DEF r

LEMMA AskInv ==
    ASSUME IInv, NEW m \in Runs, Ask(m)
    PROVE  IInv'
<1> DEFINE t == Head(run[m].rest)
           r == [at |-> Branch(t), rest |-> Tail(run[m].rest),
                 trade |-> IF Branch(t) = "loop" THEN NoTrade ELSE t,
                 released |-> chain[t] = "released"]
<1>1. run' = [run EXCEPT ![m] = r]
  BY DEF Ask
<1>2. t \in Lending /\ Tail(run[m].rest) \in Seq(Lending)
  BY DEF Ask, IInv, TypeOK, RunState
<1>3. Branched(r)
  BY <1>2, ConstantTypes DEF Branched, Branch, RunState
<1>4. Written(m) /\ faults' = faults /\ run[m].trade \notin Lost' \ Lost
  BY NothingInHand DEF Ask, Written, bounds, IInv, TypeOK
<1> HIDE DEF r
<1> QED
  BY <1>1, <1>3, <1>4, RunKeepsInv

LEMMA AskFailsInv ==
    ASSUME IInv, NEW m \in Runs, AskFails(m)
    PROVE  IInv'
<1> DEFINE r == [run[m] EXCEPT !.rest = Tail(run[m].rest)]
<1>1. run' = [run EXCEPT ![m] = r]
  BY DEF AskFails, IInv, TypeOK
<1>2. run[m] \in RunState /\ Tail(run[m].rest) \in Seq(Lending)
  BY DEF AskFails, IInv, TypeOK, RunState
<1>3. Branched(r)
  BY <1>2 DEF Branched, AskFails, RunState, IInv, TypeOK
<1>4. Written(m) /\ faults' = faults + 1 /\ faults' \in 0 .. MaxFaults
  BY ConstantTypes DEF AskFails, Written, Fault, IInv, TypeOK
<1> HIDE DEF r
<1> QED
  BY <1>1, <1>3, <1>4, RunKeepsInv

LEMMA EndInv ==
    ASSUME IInv, NEW m \in Runs, End(m)
    PROVE  IInv'
<1>1. Branched(IdleRun)
  BY DEF Branched, IdleRun, RunState
<1>2. Written(m) /\ faults' = faults /\ run[m].trade \notin Lost' \ Lost
  BY NothingInHand DEF End, Written, bounds, IInv, TypeOK
<1> QED
  BY <1>1, <1>2, RunKeepsInv DEF End

(* The writes of a run, and the step back to the loop or on.               *)
LEMMA InHandType ==
    ASSUME IInv, NEW m \in Runs, run[m].at \notin {"idle", "loop"}
    PROVE  /\ run[m].trade \in Lending /\ run[m].trade \in Trades
           /\ run[m] \in RunState
BY ConstantTypes DEF IInv, TypeOK, RunState

LEMMA GoesToBranched ==
    ASSUME IInv, NEW m \in Runs, run[m].at \notin {"idle", "loop"},
           chain[run[m].trade] = "released", NEW at \in {"exists", "create"}
    PROVE  /\ Branched([run[m] EXCEPT !.at = at])
           /\ GoesTo(m, at) => run' = [run EXCEPT ![m] = [run[m] EXCEPT !.at = at]]
<1>1. run[m] \in RunState /\ run[m].trade # NoTrade
  BY DEF IInv, TypeOK
<1>2. run \in [Runs -> RunState]
  BY DEF IInv, TypeOK
<1> QED
  BY <1>1, <1>2 DEF Branched, RunState, GoesTo

LEMMA CompleteInv ==
    ASSUME IInv, NEW m \in Runs, Complete(m)
    PROVE  IInv'
<1> DEFINE t == run[m].trade
<1>1. /\ run[m].at = "complete" /\ t \in Lending /\ t \in Trades
      /\ chain[t] \in {"released", "confirmed"}
      /\ run[m].released <=> chain[t] = "released"
      /\ row \in [Trades -> Rows] /\ run \in [Runs -> RunState]
      /\ record \in [Trades -> BOOLEAN]
  BY InHandType DEF Complete, IInv, BranchInv, TypeOK
<1>2. Written(m) /\ faults' = faults
  BY <1>1 DEF Complete, Written, bounds, Rows
<1>3. CASE GoesOn(m)
  <2> DEFINE r == [IdleRun EXCEPT !.at = "loop", !.rest = run[m].rest]
  <2>1. Branched(r) /\ run' = [run EXCEPT ![m] = r]
    BY <1>3, LoopType DEF GoesOn
  <2>2. t \notin Lost' \ Lost
    <3>1. CASE row[t] = "absent"
      <4>1. UNCHANGED <<completed, chain, record>>
        BY <3>1 DEF Complete, Elsewhere
      <4>2. \A x \in Runs : x # m => run'[x] = run[x]
        BY <2>1, <1>1
      <4> QED
        BY <1>1, <4>1, <4>2, NothingGained
    <3>2. CASE row[t] # "absent"
      <4>1. chain'[t] # "released"
        <5>1. CASE run[m].released
          <6>1. run'[m].at = "exists"
            BY <1>1, <3>2, <5>1 DEF Complete, GoesTo, RunState
          <6>2. run'[m].at = "loop"
            BY <1>1, <2>1 DEF IdleRun
          <6> QED
            BY <6>1, <6>2
        <5>2. CASE ~run[m].released
          BY <1>1, <5>2 DEF Complete, Elsewhere
        <5> QED
          BY <5>1, <5>2
      <4> QED
        BY <4>1 DEF Lost
    <3> QED
      BY <3>1, <3>2
  <2> HIDE DEF r
  <2> QED
    BY <1>2, <2>1, <2>2, RunKeepsInv
<1>4. CASE ~GoesOn(m)
  <2> DEFINE r == [run[m] EXCEPT !.at = "exists"]
  <2>1. run[m].released /\ GoesTo(m, "exists")
    BY <1>4 DEF Complete
  <2>2. Branched(r) /\ run' = [run EXCEPT ![m] = r]
    BY <1>1, <2>1, GoesToBranched
  <2>3. run'[m].trade = t /\ run'[m].at = "exists"
    BY <1>1, <2>2 DEF RunState
  <2>4. t \notin Lost' \ Lost
    BY <2>3 DEF Lost, InHand
  <2> HIDE DEF r
  <2> QED
    BY <1>2, <2>2, <2>4, RunKeepsInv
<1> QED
  BY <1>3, <1>4

LEMMA FailInv ==
    ASSUME IInv, NEW m \in Runs, Fail(m)
    PROVE  IInv'
<1> DEFINE r == [IdleRun EXCEPT !.at = "loop", !.rest = run[m].rest]
<1>1. Branched(r) /\ run' = [run EXCEPT ![m] = r]
  BY LoopType DEF Fail, GoesOn
<1>2. Written(m) /\ faults' = faults
  BY DEF Fail, Written, bounds, Rows, IInv, TypeOK
<1>3. run[m].trade \notin Lost' \ Lost
  <2>1. \A x \in Runs : x # m => run'[x] = run[x]
    BY <1>1 DEF IInv, TypeOK
  <2>2. run[m].at = "fail" /\ UNCHANGED <<completed, chain, record>>
    BY DEF Fail, Elsewhere
  <2> QED
    BY <2>1, <2>2, NothingGained
<1> HIDE DEF r
<1> QED
  BY <1>1, <1>2, <1>3, RunKeepsInv

LEMMA ExistsInv ==
    ASSUME IInv, NEW m \in Runs, Exists(m)
    PROVE  IInv'
<1> DEFINE t == run[m].trade
<1>1. /\ run[m].at = "exists" /\ t \in Lending /\ chain[t] = "released"
      /\ run[m] \in RunState /\ run \in [Runs -> RunState]
  BY InHandType DEF Exists, IInv, BranchInv, TypeOK
<1>2. Written(m) /\ faults' = faults
  BY DEF Exists, Written, bounds, IInv, TypeOK
<1>3. CASE record[t]
  <2> DEFINE r == [IdleRun EXCEPT !.at = "loop", !.rest = run[m].rest]
  <2>1. Branched(r) /\ run' = [run EXCEPT ![m] = r]
    BY <1>3, LoopType DEF Exists, GoesOn
  <2>2. t \notin Lost' \ Lost
    BY <1>3 DEF Lost, Exists
  <2> HIDE DEF r
  <2> QED
    BY <1>2, <2>1, <2>2, RunKeepsInv
<1>4. CASE ~record[t]
  <2> DEFINE r == [run[m] EXCEPT !.at = "create"]
  <2>1. Branched(r) /\ run' = [run EXCEPT ![m] = r]
    BY <1>1, <1>4, GoesToBranched DEF Exists
  <2>2. run'[m].trade = t /\ run'[m].at = "create"
    BY <1>1, <2>1 DEF RunState
  <2>3. t \notin Lost' \ Lost
    BY <2>2 DEF Lost, InHand
  <2> HIDE DEF r
  <2> QED
    BY <1>2, <2>1, <2>3, RunKeepsInv
<1> QED
  BY <1>3, <1>4

LEMMA CreateInv ==
    ASSUME IInv, NEW m \in Runs, Create(m)
    PROVE  IInv'
<1> DEFINE t == run[m].trade
           r == [IdleRun EXCEPT !.at = "loop", !.rest = run[m].rest]
<1>1. /\ run[m].at = "create" /\ t \in Lending /\ t \in Trades /\ chain[t] = "released"
      /\ record \in [Trades -> BOOLEAN]
  BY InHandType DEF Create, IInv, BranchInv, TypeOK
<1>2. Branched(r) /\ run' = [run EXCEPT ![m] = r]
  BY LoopType DEF Create, GoesOn
<1>3. Written(m) /\ faults' = faults
  BY <1>1 DEF Create, Written, bounds, IInv, TypeOK
<1>4. t \notin Lost' \ Lost
  BY <1>1 DEF Create, Lost
<1> HIDE DEF r
<1> QED
  BY <1>2, <1>3, <1>4, RunKeepsInv

LEMMA QueryFailsInv ==
    ASSUME IInv, NEW m \in Runs, QueryFails(m)
    PROVE  IInv'
<1> DEFINE t == run[m].trade
           r == [IdleRun EXCEPT !.at = "loop", !.rest = run[m].rest]
<1>1. /\ t \in Lending /\ t \in Trades
      /\ run[m].at = "complete" => chain[t] \in {"released", "confirmed"}
      /\ run[m].at = "create" => chain[t] = "released"
      /\ record \in [Trades -> BOOLEAN] /\ row \in [Trades -> Rows]
  BY InHandType DEF QueryFails, IInv, BranchInv, TypeOK
<1>2. Branched(r) /\ run' = [run EXCEPT ![m] = r]
  BY LoopType DEF QueryFails, GoesOn
<1>3. Written(m)
  BY <1>1 DEF QueryFails, Written, Fault, Rows
<1>4. faults' = faults + 1 /\ faults' \in 0 .. MaxFaults
  BY ConstantTypes DEF QueryFails, Fault, IInv, TypeOK
<1> HIDE DEF r
<1> QED
  BY <1>2, <1>3, <1>4, RunKeepsInv

-----------------------------------------------------------------------------
(* The process                                                             *)

LEMMA CrashInv ==
    ASSUME IInv, Crash
    PROVE  IInv'
<1>1. /\ run' = [m \in Runs |-> IdleRun]
      /\ UNCHANGED <<take, rows, chain, record, completed, quotes, faults>>
      /\ crashes' = crashes + 1 /\ crashes' \in 0 .. MaxCrashes
  BY ConstantTypes DEF Crash, IInv, TypeOK
<1>2. IdleRun \in RunState
  BY DEF IdleRun, RunState
<1>3. TypeOK'
  BY <1>1, <1>2 DEF IInv, TypeOK, rows, IdleRun
<1>4. BranchInv' /\ CompletedInv' /\ RecordIsReleased'
  BY <1>1 DEF BranchInv, CompletedInv, RecordIsReleased, IInv, IdleRun
<1>5. Lost' \subseteq Lost \cup {run[m].trade : m \in Runs}
  BY <1>1 DEF Lost, InHand
<1>6. LostRecordsAccounted'
  BY <1>1, <1>5, LostByCrash
<1> QED
  BY <1>3, <1>4, <1>6 DEF IInv

LEMMA StutterInv ==
    ASSUME IInv, UNCHANGED vars
    PROVE  IInv'
BY DEF vars, rows, bounds, IInv, TypeOK, BranchInv, CompletedInv, RecordIsReleased,
   LostRecordsAccounted, Lost, InHand

LEMMA InitInv == Init => IInv
<1> SUFFICES ASSUME Init PROVE IInv
  OBVIOUS
<1>1. IdleRun \in RunState
  BY DEF IdleRun, RunState
<1>2. TypeOK
  <2>1. run \in [Runs -> RunState]
    BY <1>1 DEF Init
  <2>2. \A m \in Runs : run[m].trade = NoTrade <=> run[m].at \in {"idle", "loop"}
    BY DEF Init, IdleRun
  <2>3. /\ createdAt \in [Trades -> 0 .. MaxQuotes] /\ quotes \in 0 .. MaxQuotes
        /\ crashes \in 0 .. MaxCrashes /\ faults \in 0 .. MaxFaults
    BY ConstantTypes DEF Init
  <2> QED
    BY <2>1, <2>2, <2>3 DEF Init, TypeOK, Rows, ChainStates
<1>3. BranchInv /\ RecordIsReleased
  BY DEF Init, BranchInv, RecordIsReleased, IdleRun
<1>4. CompletedInv
  BY FS_EmptySet DEF Init, CompletedInv
<1>5. LostRecordsAccounted
  <2>1. Lost = {}
    BY DEF Init, Lost
  <2> QED
    BY <2>1, FS_EmptySet, ConstantTypes DEF LostRecordsAccounted, Init
<1> QED
  BY <1>2, <1>3, <1>4, <1>5 DEF IInv

-----------------------------------------------------------------------------
(* Theorems                                                                *)

(* A run only acts on a status of the chain that is final, records are of  *)
(* released trades, and every loss has its cause, in every state.          *)
THEOREM InductiveInvariantMonitor == Spec => []IInv
<1>1. ASSUME IInv, Next
      PROVE  IInv'
  <2>1. CASE \E t \in Trades : Surroundings(t)
    BY <1>1, <2>1, SurroundingsInv
  <2>2. CASE \E m \in Runs : RunStep(m)
    BY <1>1, <2>2, StartInv, AskInv, AskFailsInv, CompleteInv, FailInv, ExistsInv,
       CreateInv, QueryFailsInv, EndInv DEF RunStep
  <2>3. CASE Crash
    BY <1>1, <2>3, CrashInv
  <2> QED
    BY <1>1, <2>1, <2>2, <2>3 DEF Next, Surroundings
<1> QED
  BY <1>1, InitInv, StutterInv, PTL DEF Spec

(* Every reachable state of the monitor is well typed.                     *)
THEOREM MonitorTypeCorrect == Spec => []TypeOK
BY InductiveInvariantMonitor, PTL DEF IInv

(* Every record the monitor creates is of a lending trade that the chain   *)
(* confirmed with a release transaction, however many runs overlap and     *)
(* whatever became of the row.                                             *)
THEOREM RecordsAreReleased == Spec => []RecordIsReleased
BY InductiveInvariantMonitor, PTL DEF IInv

(* For any number of trades and of overlapping runs, no more records are   *)
(* lost than queries have failed and runs were under way at crashes.       *)
THEOREM LossesAreAccounted == Spec => []LostRecordsAccounted
BY InductiveInvariantMonitor, PTL DEF IInv
=============================================================================
