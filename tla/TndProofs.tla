------------------------------ MODULE TndProofs ------------------------------
(***************************************************************************)
(* Proofs about Tnd, for every value of the constants that satisfies      *)
(* ConstAssumption and any number of threads: the type invariant, that a  *)
(* finished thread always reports a non-zero err, and that the racy       *)
(* all_done never counts more threads than have failed.                   *)
(***************************************************************************)
EXTENDS Tnd, FiniteSetTheorems, TLAPS

(* The program points at which a thread has failed: it has set done and    *)
(* err and is on its way through all_done++ to its return.                 *)
Failing == {"t_inc_load", "t_inc_store", "t_exit"}

(* The threads that have completed their all_done++ and returned, for a  *)
(* program counter f. *)
ExitedOf(f) == {t \in Threads : f[t] = "t_exit"}

Exited == ExitedOf(pc)

(***************************************************************************)
(* The inductive strengthening.  AllDoneBounded is not inductive: a store  *)
(* all_done = reg + 1 is only safe if reg was read when fewer threads had  *)
(* returned.  So all_done and every pending register are bounded by the   *)
(* threads that have returned, and returned threads have done = 1.  Main's *)
(* loop creates threads in index order, so no thread at or past created    *)
(* has started.                                                            *)
(***************************************************************************)
IInv ==
  /\ TypeOK
  /\ \A t \in Threads : t >= created => pc[t] = "t_none"
  /\ created <= nthreads
  /\ pc[Main] \in {"m_start", "m_init"} => created = 0
  /\ \A t \in Threads : pc[t] \in Failing => done[t] = 1 /\ err[t] # 0
  /\ \A t \in Threads : pc[t] \notin Failing => done[t] = 0
  /\ \A t \in Threads : pc[t] = "t_inc_store" => reg[t] <= Cardinality(Exited)
  /\ allDone <= Cardinality(Exited)

-----------------------------------------------------------------------------
(* The largest thread count exists (ConstAssumption) and bounds them all. *)
LEMMA MaxThreadsFacts ==
  /\ MaxThreads \in NThreadArgs
  /\ MaxThreads \in Nat
  /\ \A n \in NThreadArgs : n <= MaxThreads
<1>1. NThreadArgs # {}
  BY ConstAssumption
<1>2. QED
  BY <1>1, ConstAssumption DEF MaxThreads

(* threads[] is a finite array of MaxThreads entries. *)
LEMMA ThreadsFinite ==
  IsFiniteSet(Threads) /\ Cardinality(Threads) = MaxThreads
BY MaxThreadsFacts, FS_Interval DEF Threads

(* Main is not one of the threads. *)
LEMMA MainNotThread == Main \notin Threads /\ Procs = {Main} \cup Threads
BY MaxThreadsFacts DEF Main, Threads, Procs

(* Every answer of the kernel is one of the codes err may hold. *)
LEMMA ResultsErrors ==
  ASSUME NEW cur, NEW dest
  PROVE  MigrateResults(cur, dest) \subseteq Errors
BY DEF MigrateResults, Errors

(* migrate() moves a thread only to a node of the cluster. *)
LEMMA MigrateTarget ==
  ASSUME NEW cur, NEW dest, 0 \in MigrateResults(cur, dest)
  PROVE  dest \in Cluster /\ dest # cur
BY DEF MigrateResults, EINVAL, EBUSY, EAGAIN, EIO

-----------------------------------------------------------------------------
LEMMA TypeInit == Init => TypeOK
<1> SUFFICES ASSUME Init PROVE TypeOK
  OBVIOUS
<1> USE ConstAssumption, MaxThreadsFacts, MainNotThread DEF Init, TypeOK, NodeId
<1>1. pc \in [Procs -> Labels]
  BY DEF Labels
<1>2. nthreads \in NThreadArgs \cup {0} /\ created \in 0 .. MaxThreads
  OBVIOUS
<1>3. err \in [Threads -> Errors] /\ firstErr \in [Threads -> Errors]
  BY DEF Errors
<1>4. loc \in [Threads -> NodeId]
  OBVIOUS
<1>5. QED
  BY <1>1, <1>2, <1>3, <1>4 DEF ENOMEM, SEGV

(* A failure keeps err, done and pc within their types. *)
LEMMA FailType ==
  ASSUME TypeOK, NEW t \in Threads, NEW e \in Errors, ThreadFail(t, e)
  PROVE  /\ err' \in [Threads -> Errors] /\ done' \in [Threads -> {0, 1}]
         /\ pc' \in [Procs -> Labels]
BY DEF ThreadFail, Goto, TypeOK, Labels

(* Every thread step keeps the types; split per action because the goal  *)
(* is large.                                                             *)
LEMMA TypeThreadStep ==
  ASSUME TypeOK, NEW t \in Threads, ThreadStep(t)
  PROVE  TypeOK'
<1> USE ConstAssumption, MaxThreadsFacts, MainNotThread
        DEF TypeOK, Goto, ThreadKeep, Labels, NodeId
<1>1. CASE ThreadStart(t)
  <2>1. PICK tid \in Tids, r \in NodeSanityResults(loc[t], srcNode, snkNode) :
          IF tid = -1 THEN ThreadFail(t, -1) /\ UNCHANGED archIdx
          ELSE IF r # 0 THEN ThreadFail(t, r) /\ UNCHANGED archIdx
          ELSE /\ archIdx' = [archIdx EXCEPT ![t] = @ \cup {srcNode, snkNode}]
               /\ Goto(t, "t_migrate_out") /\ UNCHANGED <<done, err>>
    BY <1>1 DEF ThreadStart
  <2>2. UNCHANGED <<srcNode, snkNode, nthreads, created, bcount, allDone,
                    online, exitCode, reg, firstErr, loc>>
    BY <1>1 DEF ThreadStart
  <2>3. r \in {-1, 0}
    BY DEF NodeSanityResults
  <2>4. CASE tid = -1 \/ r # 0
    <3>1. \E e \in Errors : ThreadFail(t, e) /\ UNCHANGED archIdx
      BY <2>1, <2>3, <2>4 DEF Errors
    <3>2. QED
      BY <2>2, <3>1, FailType
  <2>5. CASE tid # -1 /\ r = 0
    <3>1. /\ archIdx' = [archIdx EXCEPT ![t] = @ \cup {srcNode, snkNode}]
          /\ pc' = [pc EXCEPT ![t] = "t_migrate_out"] /\ UNCHANGED <<done, err>>
      BY <2>1, <2>5
    <3>2. archIdx' \in [Threads -> SUBSET NodeId] /\ pc' \in [Procs -> Labels]
      BY <3>1
    <3>3. QED
      BY <2>2, <3>1, <3>2
  <2>6. QED
    BY <2>4, <2>5
<1>2. CASE ThreadMigrateOut(t)
  <2>1. PICK r \in MigrateResults(loc[t], snkNode) :
          /\ firstErr' = [firstErr EXCEPT ![t] = IF @ = 0 THEN r ELSE @]
          /\ IF r = 0
               THEN /\ loc' = [loc EXCEPT ![t] = snkNode]
                    /\ err' = [err EXCEPT ![t] = 0]
                    /\ Goto(t, "t_sinktid") /\ UNCHANGED done
               ELSE ThreadFail(t, r) /\ UNCHANGED loc
    BY <1>2 DEF ThreadMigrateOut
  <2>2. r \in Errors /\ (r = 0 => snkNode \in Cluster)
    BY ResultsErrors, MigrateTarget
  <2>3. UNCHANGED <<srcNode, snkNode, nthreads, created, bcount, allDone,
                    online, exitCode, reg, archIdx>>
    BY <1>2 DEF ThreadMigrateOut
  <2>4. firstErr' \in [Threads -> Errors]
    BY <2>1, <2>2
  <2>5. CASE r = 0
    <3>1. /\ loc' = [loc EXCEPT ![t] = snkNode] /\ err' = [err EXCEPT ![t] = 0]
          /\ pc' = [pc EXCEPT ![t] = "t_sinktid"] /\ UNCHANGED done
      BY <2>1, <2>5
    <3>2. snkNode \in NodeId
      BY <2>2, <2>5
    <3>3. /\ loc' \in [Threads -> NodeId] /\ err' \in [Threads -> Errors]
          /\ pc' \in [Procs -> Labels]
      BY <3>1, <3>2 DEF Errors
    <3>4. QED
      BY <2>3, <2>4, <3>1, <3>3
  <2>6. CASE r # 0
    BY <2>1, <2>2, <2>3, <2>4, <2>6, FailType
  <2>7. QED
    BY <2>5, <2>6
<1>3. CASE ThreadSinkTid(t)
  <2>1. PICK tid \in Tids :
          IF tid = -1 THEN ThreadFail(t, -1) /\ UNCHANGED archIdx
          ELSE /\ archIdx' = [archIdx EXCEPT ![t] = @ \cup {snkNode}]
               /\ Goto(t, "t_migrate_back") /\ UNCHANGED <<done, err>>
    BY <1>3 DEF ThreadSinkTid
  <2>2. UNCHANGED <<srcNode, snkNode, nthreads, created, bcount, allDone,
                    online, exitCode, reg, firstErr, loc>>
    BY <1>3 DEF ThreadSinkTid
  <2>3. CASE tid = -1
    BY <2>1, <2>2, <2>3, FailType DEF Errors
  <2>4. CASE tid # -1
    <3>1. /\ archIdx' = [archIdx EXCEPT ![t] = @ \cup {snkNode}]
          /\ pc' = [pc EXCEPT ![t] = "t_migrate_back"] /\ UNCHANGED <<done, err>>
      BY <2>1, <2>4
    <3>2. archIdx' \in [Threads -> SUBSET NodeId] /\ pc' \in [Procs -> Labels]
      BY <3>1
    <3>3. QED
      BY <2>2, <3>1, <3>2
  <2>5. QED
    BY <2>3, <2>4
<1>4. CASE ThreadMigrateBack(t)
  <2>1. PICK r \in MigrateResults(loc[t], srcNode) :
          /\ err' = [err EXCEPT ![t] = r]
          /\ firstErr' = [firstErr EXCEPT ![t] = IF @ = 0 THEN r ELSE @]
          /\ loc' = [loc EXCEPT ![t] = IF r = 0 THEN srcNode ELSE @]
    BY <1>4 DEF ThreadMigrateBack
  <2>2. r \in Errors /\ (r = 0 => srcNode \in Cluster)
    BY ResultsErrors, MigrateTarget
  <2>3. loc' \in [Threads -> NodeId]
    BY <2>1, <2>2
  <2>4. err' \in [Threads -> Errors] /\ firstErr' \in [Threads -> Errors]
    BY <2>1, <2>2
  <2>5. archIdx' \in [Threads -> SUBSET NodeId] /\ pc' \in [Procs -> Labels]
    BY <1>4 DEF ThreadMigrateBack
  <2>6. UNCHANGED <<srcNode, snkNode, nthreads, created, bcount, allDone,
                    online, exitCode, reg, done>>
    BY <1>4 DEF ThreadMigrateBack
  <2>7. QED
    BY <2>3, <2>4, <2>5, <2>6
<1>5. CASE ThreadIncLoad(t)
  BY <1>5 DEF ThreadIncLoad
<1>6. CASE ThreadIncStore(t)
  BY <1>6 DEF ThreadIncStore, ThreadVars
<1>7. QED
  BY <1>1, <1>2, <1>3, <1>4, <1>5, <1>6 DEF ThreadStep

LEMMA TypeStep == TypeOK /\ [Next]_vars => TypeOK'
<1> SUFFICES ASSUME TypeOK, [Next]_vars PROVE TypeOK'
  OBVIOUS
<1> USE ConstAssumption, MaxThreadsFacts, MainNotThread
        DEF TypeOK, Goto, MainExit, Labels, NodeId
<1>1. CASE MainStart
  BY <1>1 DEF MainStart, SEGV, ThreadVars
<1>2. CASE MainInit
  BY <1>2 DEF MainInit, ENOMEM, ThreadVars
<1>3. CASE MainCreate
  <2>0. created < nthreads => created' \in 0 .. MaxThreads
    <3>1. nthreads <= MaxThreads
      BY MaxThreadsFacts
    <3>2. QED
      BY <1>3, <3>1 DEF MainCreate
  <2>1. CASE created < nthreads /\ pc' = [pc EXCEPT ![created] = "t_start"]
    <3>1. pc' \in [Procs -> Labels]
      BY <2>1
    <3>2. QED
      BY <1>3, <2>0, <2>1, <3>1 DEF MainCreate, ThreadVars
  <2>2. CASE created < nthreads /\ UNCHANGED pc
    BY <1>3, <2>0, <2>2 DEF MainCreate, ThreadVars
  <2>3. CASE ~(created < nthreads)
    BY <1>3, <2>3 DEF MainCreate, ThreadVars
  <2>4. QED
    BY <1>3, <2>1, <2>2, <2>3 DEF MainCreate
<1>4. CASE MainBarrier
  BY <1>4 DEF MainBarrier, MainBarrierArrive, ThreadVars
<1>5. CASE MainSpin \/ MainJoin
  BY <1>5 DEF MainSpin, MainJoin, ThreadVars
<1>6. CASE \E t \in Threads : ThreadStep(t)
  BY <1>6, TypeThreadStep
<1>7. CASE NodeFlip \/ Terminated \/ UNCHANGED vars
  BY <1>7 DEF NodeFlip, Terminated, vars, ThreadVars
<1>8. QED
  BY <1>1, <1>2, <1>3, <1>4, <1>5, <1>6, <1>7 DEF Next, MainStep

(* Every reachable state of Tnd is well typed, for any thread count. *)
THEOREM TypeCorrect == Spec => []TypeOK
BY TypeInit, TypeStep, PTL DEF Spec

-----------------------------------------------------------------------------
(* However the threads stand, the returned ones form a finite set. *)
LEMMA ExitedFinite ==
  ASSUME NEW f
  PROVE  IsFiniteSet(ExitedOf(f)) /\ Cardinality(ExitedOf(f)) \in Nat
<1>1. ExitedOf(f) \subseteq Threads
  BY DEF ExitedOf
<1>2. QED
  BY <1>1, ThreadsFinite, FS_Subset, FS_CardinalityType

(* A step that moves no thread leaves the returned threads alone. *)
LEMMA ExitedSame ==
  ASSUME NEW f, NEW g, \A u \in Threads : f[u] = g[u]
  PROVE  ExitedOf(f) = ExitedOf(g)
BY DEF ExitedOf

(* A thread that returns adds one to the returned threads. *)
LEMMA ExitedAdd ==
  ASSUME NEW f, NEW g, NEW t \in Threads, f[t] # "t_exit", g[t] = "t_exit",
         \A u \in Threads \ {t} : f[u] = g[u]
  PROVE  Cardinality(ExitedOf(g)) = Cardinality(ExitedOf(f)) + 1
<1>1. ExitedOf(g) = ExitedOf(f) \cup {t} /\ t \notin ExitedOf(f)
  BY DEF ExitedOf
<1>2. QED
  BY <1>1, ExitedFinite, FS_AddElement

-----------------------------------------------------------------------------
LEMMA IInvInit == Init => IInv
<1> SUFFICES ASSUME Init PROVE IInv
  OBVIOUS
<1>1. TypeOK
  BY TypeInit
<1>2. Exited = {}
  BY MainNotThread DEF Init, Exited, ExitedOf
<1>3. QED
  BY <1>1, <1>2, MainNotThread, FS_EmptySet DEF Init, IInv, Failing

(* A step of main moves no thread. *)
LEMMA MainMovesAlone ==
  ASSUME TypeOK, NEW l, pc' = [pc EXCEPT ![Main] = l] \/ pc' = pc
  PROVE  \A u \in Threads : pc'[u] = pc[u]
BY MainNotThread DEF TypeOK, Procs

(* The steps of main other than MainCreate, of the cluster, and           *)
(* stuttering: no thread moves, and main leaves its first two labels for  *)
(* good.                                                                  *)
LEMMA IInvMainStep ==
  ASSUME IInv, TypeOK',
         MainStart \/ MainInit \/ MainBarrier \/ MainSpin \/ MainJoin
           \/ NodeFlip \/ Terminated \/ UNCHANGED vars
  PROVE  IInv'
<1> USE DEF Goto, MainExit, ThreadVars
<1>1. /\ UNCHANGED <<created, allDone, reg, done, err>>
      /\ \E l : pc' = [pc EXCEPT ![Main] = l] \/ pc' = pc
      /\ pc[Main] \notin {"m_start", "m_init"} => pc'[Main] \notin {"m_start", "m_init"}
  <2>1. CASE MainStart
    BY <2>1 DEF MainStart, IInv, TypeOK, Procs
  <2>2. CASE MainInit
    BY <2>2 DEF MainInit, IInv, TypeOK, Procs
  <2>3. CASE MainBarrier
    BY <2>3 DEF MainBarrier, MainBarrierArrive, IInv, TypeOK, Procs
  <2>4. CASE MainSpin
    BY <2>4 DEF MainSpin, IInv, TypeOK, Procs
  <2>5. CASE MainJoin
    BY <2>5 DEF MainJoin, IInv, TypeOK, Procs
  <2>6. CASE NodeFlip \/ Terminated \/ UNCHANGED vars
    BY <2>6 DEF NodeFlip, Terminated, vars
  <2>7. QED
    BY <2>1, <2>2, <2>3, <2>4, <2>5, <2>6
<1>2. \A u \in Threads : pc'[u] = pc[u]
  BY <1>1, MainMovesAlone DEF IInv
<1>3. created <= nthreads'
  <2>1. CASE MainStart
    BY <2>1, ConstAssumption DEF MainStart, IInv, TypeOK
  <2>2. CASE ~MainStart
    BY <2>2, <1>1 DEF MainInit, MainBarrier, MainSpin, MainJoin, NodeFlip,
                      Terminated, vars, IInv
  <2>3. QED
    BY <2>1, <2>2
<1>4. pc'[Main] \in {"m_start", "m_init"} => created' = 0
  BY <1>1 DEF IInv
<1>5. Exited' = Exited
  BY <1>2, ExitedSame DEF Exited
<1>6. QED
  BY <1>1, <1>2, <1>3, <1>4, <1>5 DEF IInv

(* main creates threads[created], which has not run yet; if              *)
(* pthread_create fails, the thread stays at "t_none".                    *)
LEMMA IInvCreate ==
  ASSUME IInv, TypeOK', MainCreate
  PROVE  IInv'
<1> USE MainNotThread DEF Goto, ThreadVars
<1>1. UNCHANGED <<nthreads, allDone, reg, done, err>>
  BY DEF MainCreate
<1>2. CASE created < nthreads
  <2>1. created \in Threads
    BY <1>2, MaxThreadsFacts DEF IInv, TypeOK, Threads
  <2>2. /\ pc' = [pc EXCEPT ![created] = pc'[created]]
        /\ pc'[created] \in {"t_start", "t_none"}
        /\ created' = created + 1
    <3>1. created' = created + 1
      BY <1>2 DEF MainCreate
    <3>2. CASE pc' = [pc EXCEPT ![created] = "t_start"]
      BY <2>1, <3>1, <3>2 DEF IInv, TypeOK
    <3>3. CASE UNCHANGED pc
      <4>1. pc[created] = "t_none"
        BY <2>1 DEF IInv, TypeOK
      <4>2. pc = [pc EXCEPT ![created] = pc[created]]
        BY <2>1 DEF IInv, TypeOK
      <4>3. QED
        BY <3>1, <3>3, <4>1, <4>2
    <3>4. QED
      BY <1>2, <3>1, <3>2, <3>3 DEF MainCreate
  <2>3. pc[created] = "t_none"
    BY <2>1 DEF IInv, TypeOK
  <2>4. \A u \in Threads : pc'[u] # "t_exit" <=> pc[u] # "t_exit"
    BY <2>1, <2>2, <2>3 DEF IInv, TypeOK
  <2>5. Exited' = Exited
    BY <2>4 DEF Exited, ExitedOf
  <2>6. \A u \in Threads : u >= created' => pc'[u] = "t_none"
    BY <2>1, <2>2 DEF IInv, TypeOK, Threads
  <2>7. \A u \in Threads : /\ pc'[u] \in Failing => done[u] = 1 /\ err[u] # 0
                           /\ pc'[u] \notin Failing => done[u] = 0
                           /\ pc'[u] = "t_inc_store" => reg[u] <= Cardinality(Exited)
    BY <2>1, <2>2, <2>3 DEF IInv, TypeOK, Failing
  <2>8. pc[Main] = "m_create"
    BY DEF MainCreate
  <2>9. pc'[Main] = "m_create"
    BY <2>2, <2>1, <2>8, MainNotThread DEF IInv, TypeOK, Procs
  <2>10. created' <= nthreads'
    BY <1>1, <1>2, <2>2, ConstAssumption DEF IInv, TypeOK
  <2>11. \A u \in Threads : /\ pc'[u] \in Failing => done'[u] = 1 /\ err'[u] # 0
                            /\ pc'[u] \notin Failing => done'[u] = 0
                            /\ pc'[u] = "t_inc_store" => reg'[u] <= Cardinality(Exited')
    BY <1>1, <2>5, <2>7
  <2>12. allDone' <= Cardinality(Exited')
    BY <1>1, <2>5 DEF IInv
  <2>13. pc'[Main] \in {"m_start", "m_init"} => created' = 0
    BY <2>9
  <2>14. QED
    BY <2>6, <2>10, <2>11, <2>12, <2>13 DEF IInv
<1>3. CASE ~(created < nthreads)
  <2>1. pc' = [pc EXCEPT ![Main] = "m_barrier1"] /\ UNCHANGED created
    BY <1>3 DEF MainCreate
  <2>2. \A u \in Threads : pc'[u] = pc[u]
    BY <2>1 DEF IInv, TypeOK
  <2>3. Exited' = Exited
    BY <2>2, ExitedSame DEF Exited
  <2>4. QED
    BY <1>1, <2>1, <2>2, <2>3 DEF IInv, TypeOK
<1>4. QED
  BY <1>2, <1>3

(* A thread step changes only thread t's entries.  IInv' follows from     *)
(* what the step does at t and from how it changes the returned threads.  *)
LEMMA IInvThreadFrame ==
  ASSUME IInv, TypeOK', NEW t \in Threads, pc[t] # "t_none",
         pc' = [pc EXCEPT ![t] = pc'[t]],
         done' = [done EXCEPT ![t] = done'[t]],
         err' = [err EXCEPT ![t] = err'[t]],
         reg' = [reg EXCEPT ![t] = reg'[t]],
         UNCHANGED <<created, nthreads>>,
         pc'[t] \in Failing => done'[t] = 1 /\ err'[t] # 0,
         pc'[t] \notin Failing => done'[t] = 0,
         pc'[t] = "t_inc_store" => reg'[t] <= Cardinality(ExitedOf(pc')),
         allDone' <= Cardinality(ExitedOf(pc')),
         Cardinality(Exited) <= Cardinality(ExitedOf(pc'))
  PROVE  IInv'
<1>1. Exited' = ExitedOf(pc')
  BY DEF Exited, ExitedOf
<1>2. /\ \A u \in Threads \ {t} : /\ pc'[u] = pc[u] /\ done'[u] = done[u]
                                  /\ err'[u] = err[u] /\ reg'[u] = reg[u]
      /\ pc'[Main] = pc[Main]
  BY MainNotThread DEF IInv, TypeOK, Procs
<1>3. t < created
  BY DEF IInv, TypeOK, Threads
<1>4. \A u \in Threads : u >= created' => pc'[u] = "t_none"
  BY <1>2, <1>3 DEF IInv, TypeOK, Threads
<1>5. \A u \in Threads : /\ pc'[u] \in Failing => done'[u] = 1 /\ err'[u] # 0
                         /\ pc'[u] \notin Failing => done'[u] = 0
  BY <1>2 DEF IInv
<1>6. \A u \in Threads : pc'[u] = "t_inc_store" => reg'[u] <= Cardinality(Exited')
  <2>1. Cardinality(Exited) \in Nat /\ Cardinality(ExitedOf(pc')) \in Nat
    BY ExitedFinite DEF Exited
  <2>2. QED
    BY <1>1, <1>2, <2>1 DEF IInv, TypeOK
<1>7. QED
  BY <1>1, <1>2, <1>4, <1>5, <1>6 DEF IInv

(* A step at t that neither starts nor ends at "t_exit" keeps the set of *)
(* returned threads.                                                      *)
LEMMA ExitedKeep ==
  ASSUME NEW f, NEW g, NEW t \in Threads, f[t] # "t_exit", g[t] # "t_exit",
         \A u \in Threads \ {t} : f[u] = g[u]
  PROVE  ExitedOf(g) = ExitedOf(f)
BY DEF ExitedOf

(* Every thread step keeps IInv: one case per action of child_thread. *)
LEMMA IInvThread ==
  ASSUME IInv, TypeOK', NEW t \in Threads, ThreadStep(t)
  PROVE  IInv'
<1> DEFINE PcTo(l) == pc' = [pc EXCEPT ![t] = l]
<1>1. /\ done = [done EXCEPT ![t] = done[t]]
      /\ err = [err EXCEPT ![t] = err[t]]
      /\ reg = [reg EXCEPT ![t] = reg[t]]
  BY DEF IInv, TypeOK
<1>2. Cardinality(Exited) \in Nat
  BY ExitedFinite DEF Exited
(* A step of t between two labels other than "t_exit". *)
<1>3. ASSUME pc'[t] # "t_exit", pc[t] # "t_exit", pc[t] # "t_none",
             pc' = [pc EXCEPT ![t] = pc'[t]],
             done' = [done EXCEPT ![t] = done'[t]],
             err' = [err EXCEPT ![t] = err'[t]],
             reg' = [reg EXCEPT ![t] = reg'[t]],
             UNCHANGED <<created, nthreads, allDone>>,
             pc'[t] \in Failing => done'[t] = 1 /\ err'[t] # 0,
             pc'[t] \notin Failing => done'[t] = 0,
             pc'[t] = "t_inc_store" => reg'[t] <= Cardinality(Exited)
      PROVE  IInv'
  <2>1. ExitedOf(pc') = Exited
    <3>1. \A u \in Threads \ {t} : pc'[u] = pc[u]
      BY <1>3 DEF IInv, TypeOK, Procs
    <3>2. QED
      BY <1>3, <3>1, ExitedKeep DEF Exited
  <2>2. /\ allDone' <= Cardinality(ExitedOf(pc'))
        /\ Cardinality(Exited) <= Cardinality(ExitedOf(pc'))
        /\ pc'[t] = "t_inc_store" => reg'[t] <= Cardinality(ExitedOf(pc'))
    BY <1>2, <1>3, <2>1 DEF IInv
  <2>3. QED
    BY <1>3, <2>2, IInvThreadFrame
(* A failure: done and a non-zero err are set together. *)
<1>4. ASSUME pc[t] \in {"t_start", "t_migrate_out", "t_sinktid"},
             NEW e, e # 0, ThreadFail(t, e),
             UNCHANGED <<created, nthreads, allDone, reg>>
      PROVE  IInv'
  <2>1. pc'[t] = "t_inc_load" /\ done'[t] = 1 /\ err'[t] = e
    BY <1>4 DEF ThreadFail, Goto, IInv, TypeOK, Procs
  <2>2. QED
    BY <1>1, <1>3, <1>4, <2>1 DEF ThreadFail, Goto, Failing
<1>5. CASE ThreadStart(t)
  <2>1. PICK tid \in Tids, r \in NodeSanityResults(loc[t], srcNode, snkNode) :
          IF tid = -1 THEN ThreadFail(t, -1) /\ UNCHANGED archIdx
          ELSE IF r # 0 THEN ThreadFail(t, r) /\ UNCHANGED archIdx
          ELSE /\ archIdx' = [archIdx EXCEPT ![t] = @ \cup {srcNode, snkNode}]
               /\ Goto(t, "t_migrate_out") /\ UNCHANGED <<done, err>>
    BY <1>5 DEF ThreadStart
  <2>2. UNCHANGED <<created, nthreads, allDone, reg>> /\ pc[t] = "t_start"
    BY <1>5 DEF ThreadStart, ThreadKeep
  <2>3. CASE tid = -1 \/ r # 0
    BY <2>1, <2>2, <2>3, <1>4
  <2>4. CASE tid # -1 /\ r = 0
    BY <2>1, <2>2, <2>4, <1>1, <1>3 DEF Goto, Failing, IInv, TypeOK, Procs
  <2>5. QED
    BY <2>3, <2>4
<1>6. CASE ThreadMigrateOut(t)
  <2>1. PICK r \in MigrateResults(loc[t], snkNode) :
          /\ firstErr' = [firstErr EXCEPT ![t] = IF @ = 0 THEN r ELSE @]
          /\ IF r = 0
               THEN /\ loc' = [loc EXCEPT ![t] = snkNode]
                    /\ err' = [err EXCEPT ![t] = 0]
                    /\ Goto(t, "t_sinktid") /\ UNCHANGED done
               ELSE ThreadFail(t, r) /\ UNCHANGED loc
    BY <1>6 DEF ThreadMigrateOut
  <2>2. UNCHANGED <<created, nthreads, allDone, reg>> /\ pc[t] = "t_migrate_out"
    BY <1>6 DEF ThreadMigrateOut, ThreadKeep
  <2>3. CASE r # 0
    BY <2>1, <2>2, <2>3, <1>4
  <2>4. CASE r = 0
    BY <2>1, <2>2, <2>4, <1>1, <1>3 DEF Goto, Failing, IInv, TypeOK, Procs
  <2>5. QED
    BY <2>3, <2>4
<1>7. CASE ThreadSinkTid(t)
  <2>1. PICK tid \in Tids :
          IF tid = -1 THEN ThreadFail(t, -1) /\ UNCHANGED archIdx
          ELSE /\ archIdx' = [archIdx EXCEPT ![t] = @ \cup {snkNode}]
               /\ Goto(t, "t_migrate_back") /\ UNCHANGED <<done, err>>
    BY <1>7 DEF ThreadSinkTid
  <2>2. UNCHANGED <<created, nthreads, allDone, reg>> /\ pc[t] = "t_sinktid"
    BY <1>7 DEF ThreadSinkTid, ThreadKeep
  <2>3. CASE tid = -1
    BY <2>1, <2>2, <2>3, <1>4
  <2>4. CASE tid # -1
    BY <2>1, <2>2, <2>4, <1>1, <1>3 DEF Goto, Failing, IInv, TypeOK, Procs
  <2>5. QED
    BY <2>3, <2>4
<1>8. CASE ThreadMigrateBack(t)
  <2>1. PICK r \in MigrateResults(loc[t], srcNode) : err' = [err EXCEPT ![t] = r]
    BY <1>8 DEF ThreadMigrateBack
  <2>2. /\ UNCHANGED <<created, nthreads, allDone, reg, done>>
        /\ pc[t] = "t_migrate_back" /\ PcTo("t_migrate_out")
    BY <1>8 DEF ThreadMigrateBack, ThreadKeep, Goto
  <2>3. QED
    BY <2>1, <2>2, <1>1, <1>3 DEF Failing, IInv, TypeOK, Procs
<1>9. CASE ThreadIncLoad(t)
  <2>1. /\ UNCHANGED <<created, nthreads, allDone, done, err>>
        /\ pc[t] = "t_inc_load" /\ PcTo("t_inc_store")
        /\ reg' = [reg EXCEPT ![t] = allDone]
    BY <1>9 DEF ThreadIncLoad, ThreadKeep, Goto
  <2>2. done[t] = 1 /\ err[t] # 0 /\ allDone <= Cardinality(Exited)
    BY <2>1 DEF IInv, Failing
  <2>3. QED
    BY <2>1, <2>2, <1>1, <1>3 DEF Failing, IInv, TypeOK, Procs
<1>10. CASE ThreadIncStore(t)
  <2>1. /\ UNCHANGED <<created, nthreads, done, err, reg>>
        /\ pc[t] = "t_inc_store" /\ PcTo("t_exit")
        /\ allDone' = reg[t] + 1
    BY <1>10 DEF ThreadIncStore, ThreadVars, Goto
  <2>2. Cardinality(ExitedOf(pc')) = Cardinality(Exited) + 1
    <3>1. pc'[t] = "t_exit" /\ \A u \in Threads \ {t} : pc[u] = pc'[u]
      BY <2>1 DEF IInv, TypeOK
    <3>2. QED
      BY <2>1, <3>1, ExitedAdd DEF Exited
  <2>3. reg[t] <= Cardinality(Exited) /\ reg[t] \in Nat
    BY <2>1 DEF IInv, TypeOK
  <2>4. /\ pc' = [pc EXCEPT ![t] = pc'[t]] /\ pc'[t] = "t_exit"
        /\ done'[t] = 1 /\ err'[t] # 0
    BY <2>1 DEF IInv, TypeOK, Procs, Failing
  <2>5. /\ allDone' <= Cardinality(ExitedOf(pc'))
        /\ Cardinality(Exited) <= Cardinality(ExitedOf(pc'))
    BY <2>1, <2>2, <2>3, <1>2
  <2>6. QED
    BY <2>1, <2>4, <2>5, <1>1, IInvThreadFrame DEF Failing
<1>11. QED
  BY <1>5, <1>6, <1>7, <1>8, <1>9, <1>10 DEF ThreadStep

LEMMA IInvStep == IInv /\ [Next]_vars => IInv'
<1> SUFFICES ASSUME IInv, [Next]_vars PROVE IInv'
  OBVIOUS
<1>1. TypeOK'
  BY TypeStep DEF IInv
<1>2. CASE MainCreate
  BY <1>1, <1>2, IInvCreate
<1>3. CASE \E t \in Threads : ThreadStep(t)
  BY <1>1, <1>3, IInvThread
<1>4. QED
  BY <1>1, <1>2, <1>3, IInvMainStep DEF Next, MainStep

(* IInv holds in every state of tnd. *)
THEOREM IInvAlways == Spec => []IInv
BY IInvInit, IInvStep, PTL DEF Spec

(* DoneCarriesError, the invariant of tnd_safety, for every node count,  *)
(* argument set and thread count: every exit path of child_thread that  *)
(* sets done (lines 213, 223, 265, 279) has stored a non-zero err first. *)
THEOREM DoneCarriesErrorThm == Spec => []DoneCarriesError
<1>1. IInv => DoneCarriesError
  BY DEF IInv, DoneCarriesError, TypeOK, Failing
<1>2. QED
  BY <1>1, IInvAlways, PTL

(* AllDoneBounded, the invariant of tnd_safety, for every instance: the   *)
(* racy all_done++ (the load and the store of lines 215, 225, 267, 281)  *)
(* never counts more threads than have set done.  A thread's loaded value *)
(* never exceeds the threads that have returned, whose done is 1.        *)
THEOREM AllDoneBoundedThm == Spec => []AllDoneBounded
<1>1. ASSUME IInv PROVE AllDoneBounded
  <2> DEFINE DoneSet == {u \in Threads : done[u] = 1}
  <2>1. Exited \subseteq DoneSet
    BY <1>1 DEF IInv, Exited, ExitedOf, Failing
  <2>2. IsFiniteSet(DoneSet)
    BY ThreadsFinite, FS_Subset
  <2>3. Cardinality(Exited) <= Cardinality(DoneSet)
    BY <2>1, <2>2, FS_Subset
  <2>4. Cardinality(Exited) \in Nat /\ Cardinality(DoneSet) \in Nat
    BY <2>2, ExitedFinite, FS_CardinalityType DEF Exited
  <2>5. QED
    BY <1>1, <2>3, <2>4 DEF IInv, TypeOK, AllDoneBounded
<1>2. QED
  BY <1>1, IInvAlways, PTL

-----------------------------------------------------------------------------
(* A step of thread u writes done and err of u alone. *)
LEMMA ThreadFrame ==
  ASSUME TypeOK, NEW u \in Threads, ThreadStep(u)
  PROVE  \A v \in Threads \ {u} : done'[v] = done[v] /\ err'[v] = err[v]
<1> USE DEF TypeOK, ThreadFail, ThreadKeep, ThreadVars
<1>1. CASE ThreadStart(u)
  BY <1>1 DEF ThreadStart
<1>2. CASE ThreadMigrateOut(u)
  BY <1>2 DEF ThreadMigrateOut
<1>3. CASE ThreadSinkTid(u)
  BY <1>3 DEF ThreadSinkTid
<1>4. CASE ThreadMigrateBack(u)
  BY <1>4 DEF ThreadMigrateBack
<1>5. CASE ThreadIncLoad(u) \/ ThreadIncStore(u)
  BY <1>5 DEF ThreadIncLoad, ThreadIncStore
<1>6. QED
  BY <1>1, <1>2, <1>3, <1>4, <1>5 DEF ThreadStep

(* A thread that has failed only runs its all_done++ and returns. *)
LEMMA FailedThreadStep ==
  ASSUME NEW t \in Threads, pc[t] \in Failing, ThreadStep(t)
  PROVE  done'[t] = done[t] /\ err'[t] = err[t]
<1>1. ThreadIncLoad(t) \/ ThreadIncStore(t)
  BY DEF ThreadStep, ThreadStart, ThreadMigrateOut, ThreadSinkTid,
         ThreadMigrateBack, Failing
<1>2. QED
  BY <1>1 DEF ThreadIncLoad, ThreadIncStore, ThreadVars

LEMMA VerdictStep ==
  IInv /\ [Next]_vars
    => [\A t \in Threads : done[t] = 1 => done'[t] = 1 /\ err'[t] = err[t]]_vars
<1> SUFFICES ASSUME IInv, [Next]_vars, NEW t \in Threads, done[t] = 1
             PROVE  done'[t] = 1 /\ err'[t] = err[t]
  OBVIOUS
<1>1. pc[t] \in Failing
  BY DEF IInv
<1>2. CASE \E u \in Threads : ThreadStep(u)
  <2>1. PICK u \in Threads : ThreadStep(u)
    BY <1>2
  <2>2. CASE u = t
    BY <2>1, <2>2, <1>1, FailedThreadStep
  <2>3. CASE u # t
    BY <2>1, <2>3, ThreadFrame DEF IInv
  <2>4. QED
    BY <2>2, <2>3
<1>3. CASE MainStep \/ NodeFlip \/ Terminated \/ UNCHANGED vars
  BY <1>3 DEF MainStep, MainStart, MainInit, MainCreate, MainBarrier, MainSpin,
              MainJoin, NodeFlip, Terminated, vars, ThreadVars
<1>4. QED
  BY <1>2, <1>3 DEF Next

(* VerdictFinal, the action property of tnd_safety, for every instance:  *)
(* once a thread has set done, done stays 1 and the err that main prints  *)
(* after the join is never overwritten, because every failure path of     *)
(* child_thread returns right after its all_done++.                       *)
THEOREM VerdictFinalThm == Spec => VerdictFinal
BY IInvAlways, VerdictStep, PTL DEF VerdictFinal, Spec

-----------------------------------------------------------------------------
(* A step of thread u moves no other thread and leaves the two nodes. *)
LEMMA ThreadFrameLoc ==
  ASSUME TypeOK, NEW u \in Threads, ThreadStep(u)
  PROVE  /\ \A v \in Threads \ {u} : pc'[v] = pc[v] /\ loc'[v] = loc[v]
         /\ UNCHANGED <<srcNode, snkNode>>
<1> USE MainNotThread DEF TypeOK, ThreadFail, ThreadKeep, ThreadVars, Goto, Procs
<1>1. CASE ThreadStart(u)
  BY <1>1 DEF ThreadStart
<1>2. CASE ThreadMigrateOut(u)
  BY <1>2 DEF ThreadMigrateOut
<1>3. CASE ThreadSinkTid(u)
  BY <1>3 DEF ThreadSinkTid
<1>4. CASE ThreadMigrateBack(u)
  BY <1>4 DEF ThreadMigrateBack
<1>5. CASE ThreadIncLoad(u) \/ ThreadIncStore(u)
  BY <1>5 DEF ThreadIncLoad, ThreadIncStore
<1>6. QED
  BY <1>1, <1>2, <1>3, <1>4, <1>5 DEF ThreadStep

(* The location facts of one thread t, as a predicate of the state. *)
WhereOf(t) ==
  /\ pc[t] \in {"t_sinktid", "t_migrate_back"} => loc[t] = snkNode
  /\ pc[t] = "t_migrate_out" => loc[t] \in {srcNode, snkNode}

(* A step of thread t itself keeps its location facts. *)
LEMMA WhereOwnStep ==
  ASSUME IInv, NEW t \in Threads, WhereOf(t), ThreadStep(t)
  PROVE  WhereOf(t)'
<1> USE MainNotThread DEF IInv, TypeOK, ThreadFail, ThreadKeep, ThreadVars,
                          Goto, Procs, WhereOf
<1>1. CASE ThreadStart(t)
  <2>1. PICK tid \in Tids, r \in NodeSanityResults(loc[t], srcNode, snkNode) :
          IF tid = -1 THEN ThreadFail(t, -1) /\ UNCHANGED archIdx
          ELSE IF r # 0 THEN ThreadFail(t, r) /\ UNCHANGED archIdx
          ELSE /\ archIdx' = [archIdx EXCEPT ![t] = @ \cup {srcNode, snkNode}]
               /\ Goto(t, "t_migrate_out") /\ UNCHANGED <<done, err>>
    BY <1>1 DEF ThreadStart
  <2>2. r = 0 => loc[t] = srcNode
    BY DEF NodeSanityResults
  <2>3. QED
    BY <1>1, <2>1, <2>2 DEF ThreadStart
<1>2. CASE ThreadMigrateOut(t)
  BY <1>2 DEF ThreadMigrateOut
<1>3. CASE ThreadSinkTid(t)
  BY <1>3 DEF ThreadSinkTid
<1>4. CASE ThreadMigrateBack(t)
  <2>1. PICK r \in MigrateResults(loc[t], srcNode) :
          loc' = [loc EXCEPT ![t] = IF r = 0 THEN srcNode ELSE @]
    BY <1>4 DEF ThreadMigrateBack
  <2>2. loc[t] = snkNode /\ pc'[t] = "t_migrate_out" /\ UNCHANGED <<srcNode, snkNode>>
    BY <1>4 DEF ThreadMigrateBack
  <2>3. QED
    BY <2>1, <2>2
<1>5. CASE ThreadIncLoad(t) \/ ThreadIncStore(t)
  BY <1>5 DEF ThreadIncLoad, ThreadIncStore
<1>6. QED
  BY <1>1, <1>2, <1>3, <1>4, <1>5 DEF ThreadStep

LEMMA WhereStep ==
  IInv /\ ThreadWhereExpected /\ [Next]_vars => ThreadWhereExpected'
<1> SUFFICES ASSUME IInv, ThreadWhereExpected, [Next]_vars, NEW t \in Threads
             PROVE  WhereOf(t)'
  BY DEF ThreadWhereExpected, WhereOf
<1>1. WhereOf(t)
  BY DEF ThreadWhereExpected, WhereOf
<1>2. CASE \E u \in Threads : ThreadStep(u)
  <2>1. PICK u \in Threads : ThreadStep(u)
    BY <1>2
  <2>2. CASE u = t
    BY <2>1, <2>2, <1>1, WhereOwnStep
  <2>3. CASE u # t
    BY <2>1, <2>3, <1>1, ThreadFrameLoc DEF IInv, WhereOf
  <2>4. QED
    BY <2>2, <2>3
(* main's first step sets the nodes while no thread has started. *)
<1>3. CASE MainStart
  <2>1. pc[t] = "t_none"
    BY <1>3 DEF MainStart, IInv, TypeOK, Threads
  <2>2. PICK l : pc' = [pc EXCEPT ![Main] = l]
    BY <1>3 DEF MainStart, MainExit, Goto
  <2>3. pc'[t] = pc[t]
    BY <2>2, MainMovesAlone DEF IInv
  <2>4. QED
    BY <2>1, <2>3 DEF WhereOf
<1>4. CASE MainCreate
  <2>1. /\ pc'[t] \in {pc[t], "t_start"}
        /\ UNCHANGED <<loc, srcNode, snkNode>>
    BY <1>4, MainNotThread DEF MainCreate, Goto, IInv, TypeOK, Procs, ThreadVars
  <2>2. QED
    BY <1>1, <2>1 DEF WhereOf
<1>5. CASE MainInit \/ MainBarrier \/ MainSpin \/ MainJoin \/ NodeFlip
           \/ Terminated \/ UNCHANGED vars
  <2>1. pc'[t] = pc[t] /\ UNCHANGED <<loc, srcNode, snkNode>>
    BY <1>5, MainNotThread
       DEF MainInit, MainBarrier, MainBarrierArrive, MainSpin, MainJoin,
           NodeFlip, Terminated, vars, MainExit, Goto, IInv, TypeOK, Procs,
           ThreadVars
  <2>2. QED
    BY <1>1, <2>1 DEF WhereOf
<1>6. QED
  BY <1>2, <1>3, <1>4, <1>5 DEF Next, MainStep

(* ThreadWhereExpected, an invariant of tnd_safety, for every instance:  *)
(* a thread is on the sink for its sink gettid and its return migrate,   *)
(* and starts every outbound migrate from the source or the sink.  It    *)
(* rests on IInv (no thread runs before main has fixed the two nodes)    *)
(* and on the node check and the migrate contract.                       *)
THEOREM ThreadWhereExpectedThm == Spec => []ThreadWhereExpected
<1>1. Init => ThreadWhereExpected
  BY MainNotThread DEF Init, ThreadWhereExpected
<1>2. QED
  BY <1>1, IInvAlways, WhereStep, PTL DEF Spec

=============================================================================
