------------------------ MODULE KeviControllerProofs ------------------------
(***************************************************************************)
(* The Kevi controller never forgets a Kevi, for every instance of the    *)
(* constants: every Kevi deploy has applied is, while the controller      *)
(* watches, fully synced, in the work queue, or being reconciled, however *)
(* deploy's apply, Reconcile's errors and the manager's crashes and       *)
(* restarts interleave.                                                   *)
(***************************************************************************)
EXTENDS KeviPackProofs

(***************************************************************************)
(* NoKeviForgotten is not inductive: when Reconcile finishes a Kevi, the  *)
(* packages it went through must already be synced.  RecPrefixSynced     *)
(* says so of the Reconcile in progress.                                  *)
(***************************************************************************)
RecPrefixSynced ==
    rec # Idle => \A j \in 1..(rec.idx - 1) : <<rec.doc, j>> \in DOMAIN synced

FInv == NoKeviForgotten /\ RecPrefixSynced

\* The initial state satisfies FInv: nothing is applied, nothing reconciled.
LEMMA FInvInit == Init => FInv
BY DEF Init, FInv, NoKeviForgotten, RecPrefixSynced

\* Steps that leave the controller's state and the manager alone keep FInv.
LEMMA FInvUnchanged ==
    ASSUME FInv, UNCHANGED <<applied, queue, rec, synced, mgr>>
    PROVE  FInv'
BY DEF FInv, NoKeviForgotten, RecPrefixSynced, Watching

\* A step after which the controller does not watch keeps FInv, if it
\* leaves the Reconcile in progress and the synced packages alone.
LEMMA FInvStopped ==
    ASSUME FInv, ~Watching', UNCHANGED <<rec, synced>>
    PROVE  FInv'
BY DEF FInv, NoKeviForgotten, RecPrefixSynced

\* Every step of the system keeps FInv.
LEMMA FInvStep == IInv /\ FInv /\ [Next]_vars => FInv'
<1> SUFFICES ASSUME IInv, FInv, [Next]_vars PROVE FInv'
  OBVIOUS
<1>1. TypeOK
  BY DEF IInv
<1>2. CASE PackNext /\ UNCHANGED deployVars
  BY <1>2, FInvUnchanged DEF deployVars
<1>3. CASE DeployStart \/ DeployStartFail
  BY <1>3, FInvStopped DEF DeployStart, DeployStartFail, Watching
<1>4. CASE CopyOne \/ CopyFail \/ CopyDone \/ ScanSkip \/ ScanFail \/ ScanDone
  BY <1>4, FInvUnchanged DEF CopyOne, CopyFail, CopyDone, ScanSkip, ScanFail, ScanDone
<1>5. CASE ScanApply
  <2>1. PICK r \in DOMAIN store \ walked :
             /\ applied' = applied \cup {store[r].doc}
             /\ queue' = IF Watching THEN queue \cup {store[r].doc} ELSE queue
    BY <1>5 DEF ScanApply
  <2>2. UNCHANGED <<rec, synced, mgr>>
    BY <1>5 DEF ScanApply
  <2>3. CASE ~Watching
    BY <2>2, <2>3, FInvStopped DEF Watching
  <2>4. CASE Watching
    <3>1. queue' = queue \cup {store[r].doc}
      BY <2>1, <2>4
    <3> QED
      BY <2>1, <2>2, <3>1 DEF FInv, NoKeviForgotten, RecPrefixSynced, Watching
  <2> QED
    BY <2>3, <2>4
<1>6. CASE ReconcileStart
  <2>1. PICK k \in queue : rec' = [doc |-> k, idx |-> 1] /\ queue' = queue \ {k}
    BY <1>6 DEF ReconcileStart
  <2>2. UNCHANGED <<applied, synced, mgr>>
    BY <1>6 DEF ReconcileStart
  <2>3. rec = Idle /\ ~(rec.doc \in applied)
    BY <1>1, <1>6 DEF ReconcileStart, TypeOK, Idle
  <2>4. NoKeviForgotten'
    BY <2>1, <2>2, <2>3 DEF FInv, NoKeviForgotten, Watching
  <2>5. RecPrefixSynced'
    BY <2>1 DEF RecPrefixSynced
  <2> QED
    BY <2>4, <2>5 DEF FInv
<1>7. CASE ReconcileLoad
  <2>1. synced' = Put(synced, [x \in {<<rec.doc, rec.idx>>} |-> Deployed(Pkg(rec.doc, rec.idx))])
        /\ rec' = [rec EXCEPT !.idx = @ + 1]
        /\ rec # Idle
        /\ UNCHANGED <<applied, queue, mgr>>
    BY <1>7 DEF ReconcileLoad
  <2>2. DOMAIN synced' = DOMAIN synced \cup {<<rec.doc, rec.idx>>}
    BY <2>1 DEF Put
  <2>3. rec.idx \in Nat /\ rec' = [doc |-> rec.doc, idx |-> rec.idx + 1] /\ rec' # Idle
    BY <1>1, <2>1 DEF TypeOK, Idle
  <2>4. RecPrefixSynced'
    BY <2>1, <2>2, <2>3 DEF FInv, RecPrefixSynced
  <2>5. NoKeviForgotten'
    BY <2>1, <2>2, <2>3 DEF FInv, NoKeviForgotten, Watching
  <2> QED
    BY <2>4, <2>5 DEF FInv
<1>8. CASE ReconcileError
  <2>1. queue' = queue \cup {rec.doc} /\ rec' = Idle
        /\ UNCHANGED <<applied, synced, mgr>>
    BY <1>8 DEF ReconcileError
  <2>2. NoKeviForgotten'
    BY <2>1 DEF FInv, NoKeviForgotten, Watching
  <2>3. RecPrefixSynced'
    BY <2>1 DEF RecPrefixSynced
  <2> QED
    BY <2>2, <2>3 DEF FInv
<1>9. CASE ReconcileDone
  <2>1. rec # Idle /\ rec.idx > NPkgs(rec.doc) /\ rec' = Idle
        /\ UNCHANGED <<applied, queue, synced, mgr>>
    BY <1>9 DEF ReconcileDone
  <2>2. \A j \in 1..NPkgs(rec.doc) : <<rec.doc, j>> \in DOMAIN synced
    <3>1. rec.idx \in Nat /\ NPkgs(rec.doc) \in Nat
      BY <1>1, <2>1, DocFacts DEF TypeOK
    <3>2. \A j \in 1..(rec.idx - 1) : <<rec.doc, j>> \in DOMAIN synced
      BY <2>1 DEF FInv, RecPrefixSynced
    <3> QED
      BY <2>1, <3>1, <3>2
  <2>3. NoKeviForgotten'
    BY <2>1, <2>2 DEF FInv, NoKeviForgotten, Watching
  <2>4. RecPrefixSynced'
    BY <2>1 DEF RecPrefixSynced
  <2> QED
    BY <2>3, <2>4 DEF FInv
<1>10. CASE ManagerStart \/ ManagerCrash
  <2>1. ~Watching'
    BY <1>10 DEF ManagerStart, ManagerCrash, Watching
  <2>2. rec' = Idle \/ rec' = rec
    BY <1>10 DEF ManagerStart, ManagerCrash
  <2>3. UNCHANGED synced
    BY <1>10 DEF ManagerStart, ManagerCrash
  <2>4. NoKeviForgotten'
    BY <2>1 DEF NoKeviForgotten
  <2>5. RecPrefixSynced'
    BY <2>2, <2>3 DEF FInv, RecPrefixSynced
  <2> QED
    BY <2>4, <2>5 DEF FInv
<1>11. CASE InitControllers
  <2>1. queue' = applied /\ UNCHANGED <<applied, rec, synced>>
    BY <1>11 DEF InitControllers
  <2> QED
    BY <2>1 DEF FInv, NoKeviForgotten, RecPrefixSynced
<1>12. CASE Terminated \/ UNCHANGED vars
  BY <1>12, FInvUnchanged DEF Terminated, vars, deployVars
<1> QED
  BY <1>2, <1>3, <1>4, <1>5, <1>6, <1>7, <1>8, <1>9, <1>10, <1>11, <1>12
  DEF Next, DeployNext, ControllerNext, ManagerNext

(***************************************************************************)
(* Whatever the order of deploy's apply, the manager's start, crashes and *)
(* restarts (SetupWithManager's initial list) and Reconcile's errors and  *)
(* requeues, a watching controller has every applied Kevi synced, queued *)
(* or in hand.                                                            *)
(***************************************************************************)
THEOREM KeviNeverForgotten == Spec => []NoKeviForgotten
<1>1. Spec => []IInv
  BY IInvInvariant
<1>2. IInv /\ FInv /\ [Next]_vars => FInv'
  BY FInvStep
<1>3. Init => FInv
  BY FInvInit
<1> QED
  BY <1>1, <1>2, <1>3, PTL DEF Spec, FInv

\* The step SyncedInOrder constrains: what a step newly syncs has every
\* package before it synced.
InOrderStep ==
    \A x \in DOMAIN synced' \ DOMAIN synced :
        \A j \in 1..(x[2] - 1) : <<x[1], j>> \in DOMAIN synced

\* Only ReconcileLoad syncs a package; every other step leaves synced alone.
LEMMA OnlyLoadSyncs ==
    ASSUME [Next]_vars
    PROVE  ReconcileLoad \/ UNCHANGED synced
BY DEF Next, PackNext, PackPackage, PackSet, PackFail, PackSetFail, deployVars,
       DeployNext, DeployStart, DeployStartFail, CopyOne, CopyFail, CopyDone,
       ScanSkip, ScanApply, ScanFail, ScanDone, ControllerNext, ReconcileStart,
       ReconcileError, ReconcileDone, ManagerNext, ManagerStart, InitControllers,
       ManagerCrash, Terminated, vars

\* ReconcileLoad syncs the package Reconcile is at, whose predecessors in
\* the Kevi RecPrefixSynced says are synced.
LEMMA InOrderLoad ==
    ASSUME FInv, ReconcileLoad
    PROVE  InOrderStep
<1>1. DOMAIN synced' = DOMAIN synced \cup {<<rec.doc, rec.idx>>}
  BY DEF ReconcileLoad, Put
<1>2. \A j \in 1..(rec.idx - 1) : <<rec.doc, j>> \in DOMAIN synced
  BY DEF ReconcileLoad, FInv, RecPrefixSynced
<1> QED
  BY <1>1, <1>2 DEF InOrderStep

(***************************************************************************)
(* Reconcile syncs a Kevi's packages in the order of its package set:    *)
(* a package is synced for the first time only once the packages before *)
(* it are, whatever the errors, requeues, crashes and restarts (the loop *)
(* of Reconcile returns on the first error and starts from the first     *)
(* package on the next call).                                            *)
(***************************************************************************)
THEOREM KeviSyncedInOrder == Spec => SyncedInOrder
<1>1. Spec => []IInv
  BY IInvInvariant
<1>2. IInv /\ FInv /\ [Next]_vars => FInv'
  BY FInvStep
<1>3. Init => FInv
  BY FInvInit
<1>4. FInv /\ [Next]_vars => [InOrderStep]_vars
  BY OnlyLoadSyncs, InOrderLoad DEF InOrderStep
<1> QED
  BY <1>1, <1>2, <1>3, <1>4, PTL DEF Spec, SyncedInOrder, InOrderStep

=============================================================================
