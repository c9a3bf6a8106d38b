----------------------------- MODULE Ft2cProofs -----------------------------
(***************************************************************************)
(* Proofs about Ft2c, for every value of the constants that satisfies      *)
(* ConstAssumption: the type invariant, and that the child prints PASSED   *)
(* only after a completed round trip, that main leaves its spin on done   *)
(* only once the child's verdict is decided, and the refinement of         *)
(* TravelingTask.                                                          *)
(***************************************************************************)
EXTENDS Ft2c, SequenceTheorems, TLAPS

(* Where the child is in child_thread(), grouped by what it has done. *)
BeforeMigration ==
  {"c_none", "c_gettid", "c_bwait", "c_checktid", "c_threadsanity",
   "c_migrate_out"}

(***************************************************************************)
(* The inductive strengthening of RoundTripBeforePass and                 *)
(* SpinEndsAfterVerdict.                                                   *)
(* RoundTripBeforePass alone is not inductive: it says nothing about the   *)
(* state the child is in before it prints, so a step of ChildFinalCheck    *)
(* could start from a state where the return hop failed but loc was made   *)
(* equal to the source.  IInv pins trail and loc to the child's pc, keeps  *)
(* srcNode and snkNode distinct and fixed once the child exists, and ties  *)
(* done to a failed first hop.  For the spin, done = 1 is tied to the     *)
(* child's last two program points and main's join to done = 1.           *)
(***************************************************************************)
ChildExists == pc[Child] # "c_none"

MainBeforeCreate == pc[Main] \in {"m_start", "m_alloc"}

IInv ==
  /\ TypeOK
  /\ MainBeforeCreate => ~ChildExists
  /\ ChildExists => srcNode # snkNode
  /\ pc[Main] = "m_alloc" => srcNode # snkNode
  /\ pc[Child] \in BeforeMigration => trail = <<>> /\ done = 0
  /\ pc[Child] = "c_donecheck" =>
       \/ done = 1 /\ trail = <<>>
       \/ done = 0 /\ trail = <<snkNode>> /\ loc = snkNode
  /\ pc[Child] = "c_migrate_back" => trail = <<snkNode>> /\ loc = snkNode
  /\ pc[Child] = "c_temptid" =>
       \/ trail = <<snkNode>> /\ loc = snkNode
       \/ trail = <<snkNode, srcNode>> /\ loc = srcNode
  /\ childOut = "passed" => pc[Child] = "c_exit"
  /\ RoundTripBeforePass
  /\ freed => pc[Child] = "c_exit"
  /\ done = 1 => pc[Child] \in {"c_donecheck", "c_exit"}
  /\ pc[Main] = "m_join" => done = 1
-----------------------------------------------------------------------------
(* migrate() succeeds only towards a node of the cluster that is online    *)
(* and is not the one the caller runs on (the contract, lines 41-50).      *)
LEMMA MigrateSuccess ==
  ASSUME NEW cur, NEW dest, 0 \in MigrateResults(cur, dest)
  PROVE  dest \in Cluster /\ dest # cur /\ online[dest]
BY DEF MigrateResults, EINVAL, EBUSY, EAGAIN, EIO

(* The program counter values, once, for TypeOK. *)
LEMMA PcValues ==
  /\ Procs = {Main, Child}
  /\ Main # Child
BY DEF Procs, Main, Child

(* Every reachable state is well typed: the type invariant is inductive.  *)
(* It rests on ConstAssumption (node ids and Cluster bound by             *)
(* MAX_POPCORN_NODES) and on MigrateSuccess for the new value of loc.     *)
LEMMA TypeInit == Init => TypeOK
<1> SUFFICES ASSUME Init PROVE TypeOK
  OBVIOUS
<1> USE ConstAssumption DEF Init, Procs, Main, Child, NodeId
<1>1. pc \in [Procs -> {"m_start", "c_none"}]
  OBVIOUS
<1>2. srcNode \in NodeId /\ snkNode \in NodeId /\ loc \in Cluster
  OBVIOUS
<1>3. trail \in Seq(NodeId) /\ online \in [NodeId -> BOOLEAN]
  OBVIOUS
<1>4. QED
  BY <1>1, <1>2, <1>3 DEF TypeOK

LEMMA TypeStep == TypeOK /\ [Next]_vars => TypeOK'
<1> SUFFICES ASSUME TypeOK, [Next]_vars PROVE TypeOK'
  OBVIOUS
<1> USE ConstAssumption, PcValues DEF TypeOK, Goto, MainExit, NodeId, Main, Child
<1>1. CASE MainStart
  <2>1. PICK pid \in Tids, argc \in Argcs, a1, a2 \in Args :
          \/ pid = -1 /\ MainExit(-1) /\ UNCHANGED <<srcNode, snkNode>>
          \/ /\ pid # -1 /\ argc < 3
             /\ MainExit(SEGV) /\ UNCHANGED <<srcNode, snkNode>>
          \/ /\ pid # -1 /\ argc >= 3
             /\ \/ a1 = a2
                \/ a1 < 0 \/ a2 < 0
                \/ a1 >= MAX_POPCORN_NODES \/ a2 >= MAX_POPCORN_NODES
             /\ MainExit(-1) /\ UNCHANGED <<srcNode, snkNode>>
          \/ /\ pid # -1 /\ argc >= 3 /\ a1 # a2
             /\ a1 \in NodeId /\ a2 \in NodeId
             /\ srcNode' = a1 /\ snkNode' = a2
             /\ Goto(Main, "m_alloc") /\ UNCHANGED exitCode
    BY <1>1 DEF MainStart
  <2>2. UNCHANGED <<arrived, done, sourceTid, loc, online, freed, childOut, trail>>
    BY <1>1 DEF MainStart
  <2>3. QED
    BY <2>1, <2>2 DEF SEGV
<1>2. CASE MainCreate
  BY <1>2 DEF MainCreate, ENOMEM
<1>3. CASE MainBarrier
  BY <1>3 DEF MainBarrier, BarrierArrive, BarrierLeave
<1>4. CASE MainSpin
  BY <1>4 DEF MainSpin
<1>5. CASE MainJoin
  BY <1>5 DEF MainJoin
<1>6. CASE ChildGettid
  BY <1>6 DEF ChildGettid, BarrierArrive
<1>7. CASE ChildBarrier
  BY <1>7 DEF ChildBarrier, BarrierLeave
<1>8. CASE ChildNodeSanity
  BY <1>8 DEF ChildNodeSanity, ChildFail, ChildUnchanged
<1>9. CASE ChildThreadSanity
  BY <1>9 DEF ChildThreadSanity, ChildFail, ChildUnchanged
<1>10. CASE ChildMigrateOut
  <2>1. PICK r \in MigrateResults(loc, snkNode) :
          IF r = 0
            THEN /\ loc' = snkNode /\ trail' = Append(trail, snkNode)
                 /\ Goto(Child, "c_donecheck") /\ UNCHANGED done
            ELSE /\ done' = 1 /\ Goto(Child, "c_donecheck")
                 /\ UNCHANGED <<loc, trail>>
    BY <1>10 DEF ChildMigrateOut
  <2>2. CASE r = 0
    <3>1. 0 \in MigrateResults(loc, snkNode)
      BY <2>1, <2>2
    <3>2. snkNode \in Cluster
      BY <3>1, MigrateSuccess
    <3>3. loc' = snkNode /\ trail' = Append(trail, snkNode)
      BY <2>1, <2>2
    <3>7. loc' \in Cluster /\ trail' \in Seq(NodeId)
      BY <3>2, <3>3, AppendProperties
    <3>4. UNCHANGED <<srcNode, snkNode, arrived, freed, exitCode, sourceTid,
                      online, childOut>>
      BY <1>10 DEF ChildMigrateOut, ChildUnchanged
    <3>5. pc' = [pc EXCEPT ![Child] = "c_donecheck"] /\ done' \in {0, 1}
      BY <1>10, <2>1, <2>2 DEF ChildMigrateOut
    <3>6. QED
      BY <3>7, <3>4, <3>5
  <2>3. CASE r # 0
    BY <1>10, <2>1, <2>3 DEF ChildMigrateOut, ChildUnchanged
  <2>4. QED
    BY <2>2, <2>3
<1>11. CASE ChildDoneCheck
  BY <1>11 DEF ChildDoneCheck, ChildFail, ChildUnchanged
<1>12. CASE ChildMigrateBack
  <2>1. PICK r \in MigrateResults(loc, srcNode) :
          IF r = 0 THEN loc' = srcNode /\ trail' = Append(trail, srcNode)
                   ELSE UNCHANGED <<loc, trail>>
    BY <1>12 DEF ChildMigrateBack
  <2>2. CASE r = 0
    <3>1. 0 \in MigrateResults(loc, srcNode)
      BY <2>1, <2>2
    <3>2. srcNode \in Cluster
      BY <3>1, MigrateSuccess
    <3>8. loc' = srcNode /\ trail' = Append(trail, srcNode)
      BY <2>1, <2>2
    <3>3. loc' \in Cluster /\ trail' \in Seq(NodeId)
      BY <3>2, <3>8, AppendProperties
    <3>4. UNCHANGED <<srcNode, snkNode, arrived, freed, exitCode, sourceTid,
                      online, childOut>>
      BY <1>12 DEF ChildMigrateBack, ChildUnchanged
    <3>5. pc' = [pc EXCEPT ![Child] = "c_temptid"] /\ done' \in {0, 1}
      BY <1>12, <2>1, <2>2 DEF ChildMigrateBack
    <3>6. QED
      BY <3>3, <3>4, <3>5
  <2>3. CASE r # 0
    BY <1>12, <2>1, <2>3 DEF ChildMigrateBack, ChildUnchanged
  <2>4. QED
    BY <2>2, <2>3
<1>13. CASE ChildFinalCheck
  BY <1>13 DEF ChildFinalCheck, ChildFail, ChildUnchanged
<1>14. CASE NodeFlip
  BY <1>14 DEF NodeFlip
<1>15. CASE Terminated \/ UNCHANGED vars
  BY <1>15 DEF Terminated, vars
<1>16. QED
  BY <1>1, <1>2, <1>3, <1>4, <1>5, <1>6, <1>7, <1>8, <1>9, <1>10, <1>11,
     <1>12, <1>13, <1>14, <1>15 DEF Next, MainStep, ChildStep

(* Type correctness of ft2c: in every behaviour of the test every        *)
(* variable keeps its type, in particular the child only ever runs on a   *)
(* node of the cluster and the parsed node ids stay valid node ids.       *)
THEOREM TypeCorrect == Spec => []TypeOK
BY TypeInit, TypeStep, PTL DEF Spec

-----------------------------------------------------------------------------
LEMMA IInvInit == Init => IInv
<1> SUFFICES ASSUME Init PROVE IInv
  OBVIOUS
<1>1. TypeOK
  BY TypeInit
<1>2. QED
  BY <1>1 DEF Init, IInv, MainBeforeCreate, ChildExists, BeforeMigration,
             RoundTripBeforePass, Procs, Main, Child

LEMMA IInvStep == IInv /\ [Next]_vars => IInv'
<1> SUFFICES ASSUME IInv, [Next]_vars PROVE IInv'
  OBVIOUS
<1>0. TypeOK'
  BY TypeStep DEF IInv
<1> USE <1>0, PcValues DEF IInv, TypeOK, MainBeforeCreate, ChildExists,
        BeforeMigration, RoundTripBeforePass, Goto, MainExit, Main, Child
<1>1. CASE MainStart
  BY <1>1 DEF MainStart
<1>2. CASE MainCreate
  BY <1>2 DEF MainCreate
<1>3. CASE MainBarrier
  BY <1>3 DEF MainBarrier, BarrierArrive, BarrierLeave
<1>4. CASE MainSpin
  BY <1>4 DEF MainSpin
<1>5. CASE MainJoin
  BY <1>5 DEF MainJoin
<1>6. CASE ChildGettid
  BY <1>6 DEF ChildGettid, BarrierArrive
<1>7. CASE ChildBarrier
  BY <1>7 DEF ChildBarrier, BarrierLeave
<1>8. CASE ChildNodeSanity
  BY <1>8 DEF ChildNodeSanity, ChildFail, ChildUnchanged
<1>9. CASE ChildThreadSanity
  BY <1>9 DEF ChildThreadSanity, ChildFail, ChildUnchanged
<1>10. CASE ChildMigrateOut
  BY <1>10 DEF ChildMigrateOut, ChildUnchanged
<1>11. CASE ChildDoneCheck
  BY <1>11 DEF ChildDoneCheck, ChildFail, ChildUnchanged
<1>12. CASE ChildMigrateBack
  <2>1. PICK r \in MigrateResults(loc, srcNode) :
          IF r = 0 THEN loc' = srcNode /\ trail' = Append(trail, srcNode)
                   ELSE UNCHANGED <<loc, trail>>
    BY <1>12 DEF ChildMigrateBack
  <2>2. trail = <<snkNode>> /\ loc = snkNode
    BY <1>12 DEF ChildMigrateBack
  <2>3. \/ trail' = <<snkNode>> /\ loc' = snkNode
        \/ trail' = <<snkNode, srcNode>> /\ loc' = srcNode
    BY <2>1, <2>2
  <2>4. QED
    BY <1>12, <2>3 DEF ChildMigrateBack, ChildUnchanged
<1>13. CASE ChildFinalCheck
  <2>1. PICK t \in Tids, ok \in NodeSanityOutcomes(srcNode, snkNode) :
          IF t # -1 /\ t = sourceTid /\ ok
            THEN done' = 1 /\ childOut' = "passed" /\ Goto(Child, "c_exit")
            ELSE ChildFail
    BY <1>13 DEF ChildFinalCheck
  <2>2. UNCHANGED <<srcNode, snkNode, arrived, freed, exitCode, sourceTid,
                    loc, online, trail>>
    BY <1>13 DEF ChildFinalCheck, ChildUnchanged
  <2>3. CASE t # -1 /\ t = sourceTid /\ ok
    <3>1. loc = srcNode
      BY <2>3 DEF NodeSanityOutcomes
    <3>2. trail = <<snkNode, srcNode>>
      BY <1>13, <3>1 DEF ChildFinalCheck
    <3>3. QED
      BY <1>13, <2>1, <2>2, <2>3, <3>1, <3>2 DEF ChildFinalCheck
  <2>4. CASE ~(t # -1 /\ t = sourceTid /\ ok)
    BY <1>13, <2>1, <2>2, <2>4 DEF ChildFinalCheck, ChildFail
  <2>5. QED
    BY <2>3, <2>4
<1>14. CASE NodeFlip
  BY <1>14 DEF NodeFlip
<1>15. CASE Terminated \/ UNCHANGED vars
  BY <1>15 DEF Terminated, vars
<1>16. QED
  BY <1>1, <1>2, <1>3, <1>4, <1>5, <1>6, <1>7, <1>8, <1>9, <1>10, <1>11,
     <1>12, <1>13, <1>14, <1>15 DEF Next, MainStep, ChildStep

(* RoundTripBeforePass for every cluster, node range and gettid result: a *)
(* PASSED line of child_thread() implies both migrate() calls succeeded   *)
(* and the thread is back on the source, although the result of the       *)
(* return migrate() (ft2c.c line 273) is never looked at.                 *)
THEOREM RoundTrip == Spec => []RoundTripBeforePass
<1>1. IInv => RoundTripBeforePass
  BY DEF IInv
<1>2. QED
  BY IInvInit, IInvStep, <1>1, PTL DEF Spec

(* SpinEndsAfterVerdict for every value of the constants: when main has  *)
(* left its spin on done (line 367), and after it has freed the struct,   *)
(* the child's verdict is decided: done = 1 only at the reread of line    *)
(* 241 after a failed hop, or after the child has returned.               *)
THEOREM SpinEndsAfterVerdictThm == Spec => []SpinEndsAfterVerdict
<1>1. IInv => SpinEndsAfterVerdict
  BY DEF IInv, SpinEndsAfterVerdict, TaskState
<1>2. QED
  BY IInvInit, IInvStep, <1>1, PTL DEF Spec


-----------------------------------------------------------------------------
(* Refinement of spec.md's TravelingTask.  Every step of Ft2c is a step of *)
(* the abstract task under the mapping TaskState, or leaves the mapped     *)
(* state alone.  The facts a step needs are all in IInv: the child does    *)
(* not exist before main creates it (so MainStart is the abstract Assign), *)
(* the two nodes differ once it exists (Start), done is 0 before the first *)
(* hop, and the loc that MigrateSuccess and the final node check leave.    *)
LEMMA TaskInit == Init => Task!Init
BY ConstAssumption DEF Init, Task!Init, TaskState, Procs, Main, Child, NodeId

LEMMA TaskStep == IInv /\ [Next]_vars => [Task!Next]_Task!avars
<1> SUFFICES ASSUME IInv, [Next]_vars PROVE [Task!Next]_Task!avars
  OBVIOUS
<1>0. TypeOK'
  BY TypeStep DEF IInv
<1> USE PcValues DEF IInv, TypeOK, Goto, Main, Child, Task!avars, TaskState
<1>1. CASE MainStart \/ MainCreate
  <2>1. pc[Child] = "c_none" /\ pc'[Child] \in {"c_none", "c_gettid"}
    BY <1>1 DEF MainStart, MainCreate, MainExit, MainBeforeCreate, ChildExists
  <2>2. UNCHANGED <<loc, trail, childOut>> /\ srcNode' \in NodeId /\ snkNode' \in NodeId
    BY <1>0, <1>1 DEF MainStart, MainCreate, MainExit
  <2>3. QED
    BY <2>1, <2>2 DEF Task!Next, Task!Assign
<1>2. CASE MainBarrier \/ MainSpin \/ MainJoin \/ ChildGettid \/ NodeFlip
           \/ Terminated \/ UNCHANGED vars
  BY <1>2 DEF MainBarrier, BarrierArrive, BarrierLeave, MainSpin, MainJoin,
              MainExit, ChildGettid, NodeFlip, Terminated, vars
<1>3. CASE ChildBarrier
  BY <1>3 DEF ChildBarrier, BarrierLeave, ChildExists, Task!Next, Task!Start,
              Task!Move
<1>4. CASE ChildNodeSanity \/ ChildThreadSanity
  BY <1>4 DEF ChildNodeSanity, ChildThreadSanity, ChildFail, ChildUnchanged,
              Task!Next, Task!Verified, Task!Fail, Task!Move, Task!Final
<1>5. CASE ChildMigrateOut
  <2>1. PICK r \in MigrateResults(loc, snkNode) :
          IF r = 0
            THEN /\ loc' = snkNode /\ trail' = Append(trail, snkNode)
                 /\ Goto(Child, "c_donecheck") /\ UNCHANGED done
            ELSE /\ done' = 1 /\ Goto(Child, "c_donecheck")
                 /\ UNCHANGED <<loc, trail>>
    BY <1>5 DEF ChildMigrateOut
  <2>2. done = 0 /\ pc[Child] = "c_migrate_out"
    BY <1>5 DEF ChildMigrateOut, BeforeMigration
  <2>3. CASE r = 0
    <3>1. loc # snkNode
      BY <2>3, MigrateSuccess
    <3>2. QED
      BY <1>5, <2>1, <2>2, <2>3, <3>1 DEF ChildMigrateOut, ChildUnchanged,
         Task!Next, Task!HopOut, Task!Move
  <2>4. CASE r # 0
    BY <1>5, <2>1, <2>2, <2>4 DEF ChildMigrateOut, ChildUnchanged,
       Task!Next, Task!Fail, Task!Move, Task!Final
  <2>5. QED
    BY <2>3, <2>4
<1>6. CASE ChildDoneCheck
  BY <1>6 DEF ChildDoneCheck, ChildFail, ChildUnchanged, Task!Next,
              Task!IdentityKept, Task!Fail, Task!Move, Task!Final
<1>7. CASE ChildMigrateBack
  <2>1. PICK r \in MigrateResults(loc, srcNode) :
          IF r = 0 THEN loc' = srcNode /\ trail' = Append(trail, srcNode)
                   ELSE UNCHANGED <<loc, trail>>
    BY <1>7 DEF ChildMigrateBack
  <2>2. r = 0 => loc # srcNode
    BY MigrateSuccess
  <2>3. QED
    BY <1>7, <2>1, <2>2 DEF ChildMigrateBack, ChildUnchanged, Task!Next,
       Task!HopBack, Task!Move
<1>8. CASE ChildFinalCheck
  <2>1. PICK t \in Tids, ok \in NodeSanityOutcomes(srcNode, snkNode) :
          IF t # -1 /\ t = sourceTid /\ ok
            THEN done' = 1 /\ childOut' = "passed" /\ Goto(Child, "c_exit")
            ELSE ChildFail
    BY <1>8 DEF ChildFinalCheck
  <2>2. ok => loc = srcNode
    BY DEF NodeSanityOutcomes
  <2>3. QED
    BY <1>8, <2>1, <2>2 DEF ChildFinalCheck, ChildFail, ChildUnchanged,
       Task!Next, Task!Pass, Task!Fail, Task!Move, Task!Final
<1>9. QED
  BY <1>1, <1>2, <1>3, <1>4, <1>5, <1>6, <1>7, <1>8 DEF Next, MainStep,
     ChildStep

(* ft2c's child implements spec.md's traveling task, for every value of    *)
(* the constants: TaskRefinement, which TLC checks on MC_Ft2c.             *)
THEOREM Refinement == Spec => TaskRefinement
<1>1. Spec => []IInv
  BY IInvInit, IInvStep, PTL DEF Spec
<1>2. QED
  BY <1>1, TaskInit, TaskStep, PTL DEF Spec, TaskRefinement, Task!Spec

=============================================================================
