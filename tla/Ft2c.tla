-------------------------------- MODULE Ft2c --------------------------------
(***************************************************************************)
(* ft2c.c: the two-node functional migration test.  The main thread parses *)
(* a source and a sink node id, allocates the shared struct thread, starts *)
(* one "traveling" child thread and meets it at a two-party barrier.  The  *)
(* child checks where it runs, migrates to the sink, migrates back, checks *)
(* its tid and its node again and sets pcn_thread->done.  Main spins on    *)
(* done, joins the child, frees the struct and returns ft2c_errno.         *)
(*                                                                         *)
(* The Popcorn kernel (migrate, popcorn_getnodeinfo, popcorn_getthreadinfo, *)
(* gettid) is the environment: its results are nondeterministic choices   *)
(* constrained by what the migrate() contract in ft2c.c promises, and the  *)
(* liveness of cluster nodes changes while the child runs.                 *)
(***************************************************************************)
EXTENDS Integers, Sequences

CONSTANTS
  MAX_POPCORN_NODES, \* node ids accepted by main are 0 .. MAX_POPCORN_NODES-1
  Cluster,           \* the node ids that really exist in the cluster
  Args,              \* the integers atoi may return for argv[1] and argv[2]
  Argcs,             \* the argument counts the program may be started with
  Tids,              \* the values gettid() may return (-1 among them)
  CreateMayFail,     \* whether pthread_create may fail (its result is ignored)
  SpinHoisted        \* whether the build reads done once before the spin

ASSUME ConstAssumption ==
  /\ MAX_POPCORN_NODES \in Nat \ {0}
  /\ Cluster \subseteq 0 .. MAX_POPCORN_NODES - 1
  /\ Args \subseteq Int
  /\ Argcs \subseteq Nat \ {0}
  /\ Tids \subseteq Int
  /\ CreateMayFail \in BOOLEAN
  /\ SpinHoisted \in BOOLEAN

NodeId == 0 .. MAX_POPCORN_NODES - 1

(* The two threads of the process. *)
Main == "main"
Child == "child"
Procs == {Main, Child}

(* Error codes of migrate() (errno.h values, negated by the kernel) and    *)
(* the errno posix_memalign returns.  EIO stands for any other code from   *)
(* process_server_do_migration.                                            *)
EINVAL == -22
EBUSY  == -16
EAGAIN == -11
EIO    == -5
ENOMEM == 12
(* Exit status of a process killed by SIGSEGV, as the shell reports it. *)
SEGV   == 139

VARIABLES
  pc,        \* program counter of each thread
  srcNode,   \* source_node / pcn_thread->source_nid
  snkNode,   \* sink_node / pcn_thread->sink_nid
  arrived,   \* the threads that have reached barrier_start
  done,      \* pcn_thread->done
  sourceTid, \* the child's source_tid
  loc,       \* the node the child thread executes on (kernel state)
  online,    \* liveness of every node id (kernel state)
  freed,     \* free(pcn_thread) has run
  exitCode,  \* the value main returns
  childOut,  \* the child's verdict line: "none", "passed" or "failed"
  trail      \* the destinations of the successful migrate() calls

vars == <<pc, srcNode, snkNode, arrived, done, sourceTid, loc, online,
          freed, exitCode, childOut, trail>>

-----------------------------------------------------------------------------
(* Kernel services, from the migrate() contract (ft2c.c lines 41-50) and   *)
(* the node and thread information queries.                                *)

(* The results migrate(dest) may return when the caller runs on cur. *)
MigrateResults(cur, dest) ==
  IF dest \notin Cluster THEN {EINVAL}
  ELSE IF dest = cur THEN {EBUSY}
  ELSE IF ~online[dest] THEN {EAGAIN}
  ELSE {0, EIO}

(* node_sanity_check(local, remote) returns 0: popcorn_getnodeinfo         *)
(* succeeded, the caller runs on local and both nodes are online.  The     *)
(* query itself may fail, so a FALSE outcome is always possible.           *)
NodeSanityOutcomes(local, remote) ==
  {FALSE, loc = local /\ online[local] /\ online[remote]}

(* thread_sanity_check(nid) returns 0: popcorn_getthreadinfo succeeded and *)
(* reports the caller on nid.                                              *)
ThreadSanityOutcomes(nid) == {FALSE, loc = nid}

-----------------------------------------------------------------------------
Init ==
  /\ pc = [p \in Procs |-> IF p = Main THEN "m_start" ELSE "c_none"]
  /\ srcNode = 0
  /\ snkNode = 0
  /\ arrived = {}
  /\ done = 0
  /\ sourceTid = 0
  /\ loc \in Cluster
  /\ online \in [NodeId -> BOOLEAN]
  /\ \A n \in NodeId \ Cluster : ~online[n]
  /\ freed = FALSE
  /\ exitCode = 0
  /\ childOut = "none"
  /\ trail = <<>>

Goto(p, to) == pc' = [pc EXCEPT ![p] = to]

MainExit(code) == Goto(Main, "m_exit") /\ exitCode' = code

(* Mutant: the upper range check written with > instead of >=. *)
MainStartOffByOne ==
  /\ pc[Main] = "m_start"
  /\ \E pid \in Tids, argc \in Argcs, a1, a2 \in Args :
       \/ pid = -1 /\ MainExit(-1) /\ UNCHANGED <<srcNode, snkNode>>
       \/ /\ pid # -1 /\ argc < 3
          /\ MainExit(SEGV) /\ UNCHANGED <<srcNode, snkNode>>
       \/ /\ pid # -1 /\ argc >= 3
          /\ \/ a1 = a2
             \/ a1 < 0 \/ a2 < 0
             \/ a1 > MAX_POPCORN_NODES \/ a2 > MAX_POPCORN_NODES
          /\ MainExit(-1) /\ UNCHANGED <<srcNode, snkNode>>
       \/ /\ pid # -1 /\ argc >= 3 /\ a1 # a2
          /\ a1 \in 0 .. MAX_POPCORN_NODES /\ a2 \in 0 .. MAX_POPCORN_NODES
          /\ srcNode' = a1 /\ snkNode' = a2
          /\ Goto(Main, "m_alloc") /\ UNCHANGED exitCode
  /\ UNCHANGED <<arrived, done, sourceTid, loc, online, freed, childOut, trail>>

(* main, lines 316-347: gettid check, argc check (only a message), atoi of *)
(* argv[1] and argv[2] (a NULL argv entry crashes atoi), then the two      *)
(* validity checks.  (source | sink) < 0 holds iff one of them is negative.*)
MainStart ==
  /\ pc[Main] = "m_start"
  /\ \E pid \in Tids, argc \in Argcs, a1, a2 \in Args :
       \/ pid = -1 /\ MainExit(-1) /\ UNCHANGED <<srcNode, snkNode>>
       \/ /\ pid # -1 /\ argc < 3
          /\ MainExit(SEGV) /\ UNCHANGED <<srcNode, snkNode>>
       \/ /\ pid # -1 /\ argc >= 3
          /\ \/ a1 = a2
             \/ a1 < 0 \/ a2 < 0
             \/ a1 >= MAX_POPCORN_NODES \/ a2 >= MAX_POPCORN_NODES
          /\ MainExit(-1) /\ UNCHANGED <<srcNode, snkNode>>
       \/ /\ pid # -1 /\ argc >= 3 /\ a1 # a2
          /\ a1 \in NodeId /\ a2 \in NodeId
          /\ srcNode' = a1 /\ snkNode' = a2
          /\ Goto(Main, "m_alloc") /\ UNCHANGED exitCode
  /\ UNCHANGED <<arrived, done, sourceTid, loc, online, freed, childOut, trail>>

(* main, lines 350-362: posix_memalign (its failure ends the run), the     *)
(* barrier for two, the fields, and pthread_create, whose result is never  *)
(* checked: when it fails no child exists.                                 *)
MainCreate ==
  /\ pc[Main] = "m_alloc"
  /\ \/ MainExit(ENOMEM) /\ UNCHANGED done
     \/ /\ done' = 0
        /\ \/ pc' = [pc EXCEPT ![Main] = "m_barrier", ![Child] = "c_gettid"]
           \/ CreateMayFail /\ Goto(Main, "m_barrier")
        /\ UNCHANGED exitCode
  /\ UNCHANGED <<srcNode, snkNode, arrived, sourceTid, loc, online, freed,
                 childOut, trail>>

(* pthread_barrier_wait(&barrier_start), lines 190 and 364: arrive, then   *)
(* leave once both threads have arrived.                                   *)
BarrierArrive(p, from, to) ==
  /\ pc[p] = from
  /\ arrived' = arrived \cup {p}
  /\ Goto(p, to)

BarrierLeave(p, from, to) ==
  /\ pc[p] = from
  /\ arrived = Procs
  /\ Goto(p, to)
  /\ UNCHANGED arrived

MainBarrier ==
  /\ \/ BarrierArrive(Main, "m_barrier", "m_bwait")
     \/ BarrierLeave(Main, "m_bwait", "m_spin")
  /\ UNCHANGED <<srcNode, snkNode, done, sourceTid, loc, online, freed,
                 exitCode, childOut, trail>>

(* Mutant: the loop condition inverted, while(pcn_thread->done); so main *)
(* leaves as soon as it reads done = 0.                                   *)
MainSpinInverted ==
  /\ pc[Main] \in {"m_spin", "m_hang"}
  /\ IF pc[Main] = "m_spin" /\ done = 0 THEN Goto(Main, "m_join")
     ELSE IF pc[Main] = "m_spin" /\ SpinHoisted THEN Goto(Main, "m_hang")
     ELSE UNCHANGED pc
  /\ UNCHANGED <<srcNode, snkNode, arrived, done, sourceTid, loc, online,
                 freed, exitCode, childOut, trail>>

(* main, line 367: while(!pcn_thread->done); a busy loop, not a block:   *)
(* main keeps running, and the loop is left once it reads done = 1.  done *)
(* is a plain int written by the child without synchronisation (a data    *)
(* race), so the compiler may load it once and test the register for      *)
(* ever: with SpinHoisted, a first read of 0 leaves main looping at       *)
(* "m_hang".                                                              *)
MainSpin ==
  /\ pc[Main] \in {"m_spin", "m_hang"}
  /\ IF pc[Main] = "m_spin" /\ done = 1 THEN Goto(Main, "m_join")
     ELSE IF pc[Main] = "m_spin" /\ SpinHoisted THEN Goto(Main, "m_hang")
     ELSE UNCHANGED pc
  /\ UNCHANGED <<srcNode, snkNode, arrived, done, sourceTid, loc, online,
                 freed, exitCode, childOut, trail>>

(* Mutant: main frees the struct without pthread_join. *)
MainJoinNoWait ==
  /\ pc[Main] = "m_join"
  /\ freed' = TRUE
  /\ MainExit(0)
  /\ UNCHANGED <<srcNode, snkNode, arrived, done, sourceTid, loc, online,
                 childOut, trail>>

(* main, lines 368-375: pthread_join stores the child's NULL result in     *)
(* errno_ptr, not in ft2c_errno, so main returns ft2c_errno = 0.           *)
MainJoin ==
  /\ pc[Main] = "m_join"
  /\ pc[Child] = "c_exit"
  /\ freed' = TRUE
  /\ MainExit(0)
  /\ UNCHANGED <<srcNode, snkNode, arrived, done, sourceTid, loc, online,
                 childOut, trail>>

-----------------------------------------------------------------------------
(* The child thread, child_thread() lines 184-307. *)

(* A failing check: set pcn_thread->done and return NULL. *)
ChildFail ==
  /\ done' = 1
  /\ childOut' = "failed"
  /\ Goto(Child, "c_exit")

ChildUnchanged == UNCHANGED <<srcNode, snkNode, arrived, freed, exitCode>>

(* Lines 187-190: source_tid = gettid(), then the barrier. *)
ChildGettid ==
  /\ \E t \in Tids : sourceTid' = t
  /\ BarrierArrive(Child, "c_gettid", "c_bwait")
  /\ UNCHANGED <<srcNode, snkNode, done, loc, online, freed, exitCode,
                 childOut, trail>>

ChildBarrier ==
  /\ BarrierLeave(Child, "c_bwait", "c_checktid")
  /\ UNCHANGED <<srcNode, snkNode, done, sourceTid, loc, online, freed,
                 exitCode, childOut, trail>>

(* Lines 192-208: the tid check and node_sanity_check(source, sink). *)
ChildNodeSanity ==
  /\ pc[Child] = "c_checktid"
  /\ \E ok \in NodeSanityOutcomes(srcNode, snkNode) :
       IF sourceTid # -1 /\ ok
         THEN Goto(Child, "c_threadsanity") /\ UNCHANGED <<done, childOut>>
         ELSE ChildFail
  /\ ChildUnchanged /\ UNCHANGED <<sourceTid, loc, online, trail>>

(* Lines 211-215: thread_sanity_check(source). *)
ChildThreadSanity ==
  /\ pc[Child] = "c_threadsanity"
  /\ \E ok \in ThreadSanityOutcomes(srcNode) :
       IF ok THEN Goto(Child, "c_migrate_out") /\ UNCHANGED <<done, childOut>>
             ELSE ChildFail
  /\ ChildUnchanged /\ UNCHANGED <<sourceTid, loc, online, trail>>

(* Lines 218-238: migrate(sink).  Every error branch of the switch sets    *)
(* done; the thread then rereads pcn_thread->done at line 241.             *)
ChildMigrateOut ==
  /\ pc[Child] = "c_migrate_out"
  /\ \E r \in MigrateResults(loc, snkNode) :
       IF r = 0
         THEN /\ loc' = snkNode /\ trail' = Append(trail, snkNode)
              /\ Goto(Child, "c_donecheck") /\ UNCHANGED done
         ELSE /\ done' = 1 /\ Goto(Child, "c_donecheck")
              /\ UNCHANGED <<loc, trail>>
  /\ ChildUnchanged /\ UNCHANGED <<sourceTid, online, childOut>>

(* Mutant: the "if(pcn_thread->done) return" at line 241 is lost, so a   *)
(* thread whose outbound migrate failed carries on at the sink step.      *)
ChildDoneCheckNoReturn ==
  /\ pc[Child] = "c_donecheck"
  /\ \E t \in Tids :
       IF t = -1 THEN ChildFail
                 ELSE Goto(Child, "c_migrate_back") /\ UNCHANGED <<done, childOut>>
  /\ ChildUnchanged /\ UNCHANGED <<sourceTid, loc, online, trail>>

(* Lines 241-259: if(pcn_thread->done) return; then sink_tid = gettid(), *)
(* which must not be -1.                                                   *)
ChildDoneCheck ==
  /\ pc[Child] = "c_donecheck"
  /\ \/ /\ done = 1
        /\ Goto(Child, "c_exit") /\ childOut' = "failed" /\ UNCHANGED done
     \/ /\ done = 0
        /\ \E t \in Tids :
             IF t = -1 THEN ChildFail
                       ELSE Goto(Child, "c_migrate_back") /\ UNCHANGED <<done, childOut>>
  /\ ChildUnchanged /\ UNCHANGED <<sourceTid, loc, online, trail>>

(* Line 273: migrate(source); its result is assigned and never examined. *)
ChildMigrateBack ==
  /\ pc[Child] = "c_migrate_back"
  /\ \E r \in MigrateResults(loc, srcNode) :
       IF r = 0 THEN loc' = srcNode /\ trail' = Append(trail, srcNode)
                ELSE UNCHANGED <<loc, trail>>
  /\ Goto(Child, "c_temptid")
  /\ ChildUnchanged /\ UNCHANGED <<done, sourceTid, online, childOut>>

(* Mutant: the final node_sanity_check is left out. *)
ChildFinalCheckNoNode ==
  /\ pc[Child] = "c_temptid"
  /\ \E t \in Tids :
       IF t # -1 /\ t = sourceTid
         THEN done' = 1 /\ childOut' = "passed" /\ Goto(Child, "c_exit")
         ELSE ChildFail
  /\ ChildUnchanged /\ UNCHANGED <<sourceTid, loc, online, trail>>

(* Mutant: the passing path returns without setting pcn_thread->done. *)
ChildFinalCheckNoDone ==
  /\ pc[Child] = "c_temptid"
  /\ \E t \in Tids, ok \in NodeSanityOutcomes(srcNode, snkNode) :
       IF t # -1 /\ t = sourceTid /\ ok
         THEN childOut' = "passed" /\ Goto(Child, "c_exit") /\ UNCHANGED done
         ELSE ChildFail
  /\ ChildUnchanged /\ UNCHANGED <<sourceTid, loc, online, trail>>

(* Lines 278-306: temp_tid must be valid and equal source_tid, then        *)
(* node_sanity_check(source, sink) again; PASSED and done on success.      *)
ChildFinalCheck ==
  /\ pc[Child] = "c_temptid"
  /\ \E t \in Tids, ok \in NodeSanityOutcomes(srcNode, snkNode) :
       IF t # -1 /\ t = sourceTid /\ ok
         THEN done' = 1 /\ childOut' = "passed" /\ Goto(Child, "c_exit")
         ELSE ChildFail
  /\ ChildUnchanged /\ UNCHANGED <<sourceTid, loc, online, trail>>

-----------------------------------------------------------------------------
(* The cluster: a node goes offline or comes back while the child runs. *)
NodeFlip ==
  /\ pc[Child] \notin {"c_none", "c_exit"}
  /\ \E n \in Cluster : online' = [online EXCEPT ![n] = ~@]
  /\ UNCHANGED <<pc, srcNode, snkNode, arrived, done, sourceTid, loc, freed,
                 exitCode, childOut, trail>>

(* The process has returned from main; nothing happens any more. *)
Terminated ==
  /\ pc[Main] = "m_exit"
  /\ UNCHANGED vars

MainStep == MainStart \/ MainCreate \/ MainBarrier \/ MainSpin \/ MainJoin

ChildStep ==
  \/ ChildGettid \/ ChildBarrier \/ ChildNodeSanity \/ ChildThreadSanity
  \/ ChildMigrateOut \/ ChildDoneCheck \/ ChildMigrateBack \/ ChildFinalCheck

Next == MainStep \/ ChildStep \/ NodeFlip \/ Terminated

(* Both threads are scheduled by the kernel: each one that can run will.   *)
(* Node liveness is the environment's and gets no fairness.                *)
Spec == Init /\ [][Next]_vars /\ WF_vars(MainStep) /\ WF_vars(ChildStep)

-----------------------------------------------------------------------------
(* Every variable holds a value of the kind the program gives it. *)
TypeOK ==
  /\ pc \in [Procs -> {"m_start", "m_alloc", "m_barrier", "m_bwait", "m_spin",
                       "m_hang", "m_join", "m_exit", "c_none", "c_gettid", "c_bwait",
                       "c_checktid", "c_threadsanity", "c_migrate_out",
                       "c_donecheck", "c_migrate_back", "c_temptid", "c_exit"}]
  /\ srcNode \in NodeId /\ snkNode \in NodeId
  /\ arrived \subseteq Procs
  /\ done \in {0, 1}
  /\ sourceTid \in Tids \cup {0}
  /\ loc \in Cluster
  /\ online \in [NodeId -> BOOLEAN]
  /\ freed \in BOOLEAN
  /\ exitCode \in {-1, 0, ENOMEM, SEGV}
  /\ childOut \in {"none", "passed", "failed"}
  /\ trail \in Seq(NodeId)

(* The child prints PASSED only after a real round trip: its migrate to    *)
(* the sink and its migrate back to the source both succeeded and it runs  *)
(* on the source again.  The result of the return migrate() (line 273) is  *)
(* ignored, so only the final node_sanity_check stands between a failed    *)
(* return hop and a PASSED line.                                           *)
RoundTripBeforePass ==
  childOut = "passed" => trail = <<snkNode, srcNode>> /\ loc = srcNode

(* The process exits with status 0 only if the traveling thread passed     *)
(* (the pass criterion of ft2c.c and the exit code convention of the spec).*)
ExitZeroOnlyIfPassed ==
  pc[Main] = "m_exit" /\ exitCode = 0 => childOut = "passed"

(* The tid main prints after the join (line 370) was written by the child *)
(* (line 201 stores source_tid, and only when gettid did not return -1):   *)
(* otherwise main reads an uninitialised field of posix_memalign'd memory. *)
TidWrittenBeforeRead == freed => sourceTid # -1

(* The test terminates: main returns whatever the kernel answers. *)
Termination == <>(pc[Main] = "m_exit")

-----------------------------------------------------------------------------
(* The refinement mapping: the child's program point (with done and its    *)
(* verdict) names the state of spec.md's TravelingTask.  A failed outbound *)
(* migrate has already doomed the thread at c_donecheck, before it reads   *)
(* done again.                                                             *)
TaskState ==
  LET c == pc[Child] IN
  IF c \in {"c_none", "c_gettid", "c_bwait"} THEN "Created"
  ELSE IF c \in {"c_checktid", "c_threadsanity"} THEN "Verifying"
  ELSE IF c = "c_migrate_out" THEN "MigratingOut"
  ELSE IF c = "c_donecheck" THEN (IF done = 1 THEN "Failed" ELSE "VerifyingRemote")
  ELSE IF c = "c_migrate_back" THEN "MigratingBack"
  ELSE IF c = "c_temptid" THEN "VerifyingBack"
  ELSE IF childOut = "passed" THEN "Passed" ELSE "Failed"

(* main leaves its spin on done (line 367), and later frees the struct,   *)
(* only once the child's verdict is decided.  The spin is the only thing  *)
(* that holds main back, so every path of child_thread() must set done    *)
(* only after its verdict is fixed: the failed outbound migrate sets done *)
(* in the switch and only rereads it at line 241, which already counts as *)
(* a failure.                                                             *)
SpinEndsAfterVerdict ==
  pc[Main] = "m_join" \/ freed => TaskState \in {"Passed", "Failed"}

Task == INSTANCE TravelingTask
          WITH Nodes <- NodeId, tstate <- TaskState, src <- srcNode,
               snk <- snkNode, tloc <- loc, hops <- trail

(* ft2c's child behaves as spec.md's traveling task: it starts only with   *)
(* two distinct nodes, passes only back on its source node after a hop to  *)
(* the sink, and its verdict, once reached, never changes.                 *)
TaskRefinement == Task!Spec

=============================================================================
