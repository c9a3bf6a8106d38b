--------------------------------- MODULE Tnd ---------------------------------
(***************************************************************************)
(* tnd.c: "threads never die".  main parses a source node, a sink node and *)
(* a thread count, allocates one struct thread per thread, creates the     *)
(* threads one by one and waits at a barrier for nthreads + 1, then spins  *)
(* on gcount and, after a second barrier, on all_done before joining.      *)
(* Each thread checks its node once and then hops sink -> source forever,  *)
(* sleeping between round trips; on any failure it sets done, increments  *)
(* the shared all_done without synchronisation and returns.                *)
(*                                                                         *)
(* The kernel is the environment, as in Ft2c: migrate() and the node and   *)
(* thread queries answer nondeterministically within their contract.       *)
(***************************************************************************)
EXTENDS Integers, FiniteSets

CONSTANTS
  MAX_POPCORN_NODES, \* node ids accepted by main are 0 .. MAX_POPCORN_NODES-1
  Cluster,           \* the node ids that really exist in the cluster
  Args,              \* the integers atoi may return for argv[1] and argv[2]
  NThreadArgs,       \* the integers atoi may return for argv[3]
  Tids               \* the values gettid() may return (-1 among them)

ASSUME ConstAssumption ==
  /\ MAX_POPCORN_NODES \in Nat \ {0}
  /\ Cluster \subseteq 0 .. MAX_POPCORN_NODES - 1
  /\ Args \subseteq Int
  /\ NThreadArgs \subseteq Nat
  /\ \E n \in NThreadArgs : \A m \in NThreadArgs : m <= n  \* atoi returns an int
  /\ Tids \subseteq Int

NodeId == 0 .. MAX_POPCORN_NODES - 1

(* The threads main may create: threads[0 .. nthreads-1]. *)
MaxThreads == IF NThreadArgs = {} THEN 0
              ELSE CHOOSE n \in NThreadArgs : \A m \in NThreadArgs : m <= n
Threads == 0 .. MaxThreads - 1
Main == -1   \* not an index of threads[]
Procs == {Main} \cup Threads

(* arch_types is declared int arch_types[2] (tnd.c line 117). *)
ArchSlots == 0 .. 1

(* gcount is set to 0 at line 318 and never written again. *)
gcount == 0

EINVAL == -22
EBUSY  == -16
EAGAIN == -11
EIO    == -5
ENOMEM == 12
SEGV   == 139

VARIABLES
  pc,        \* program counter of main and of every thread
  srcNode,   \* source_node, copied to every thread's source_nid
  snkNode,   \* sink_node, copied to every thread's sink_nid
  nthreads,  \* the global nthreads
  created,   \* how many threads main's loop has created so far
  bcount,    \* callers waiting in barrier_start in its current round
  allDone,   \* the global all_done
  reg,       \* each thread's register copy of all_done during all_done++
  done,      \* threads[i]->done
  err,       \* threads[i]->err
  firstErr,  \* the first non-zero migrate() result of each thread (history)
  archIdx,   \* the indices of threads[i]->arch_types each thread touched
  loc,       \* the node each thread executes on (kernel state)
  online,    \* liveness of every node id (kernel state)
  exitCode   \* the value main returns

vars == <<pc, srcNode, snkNode, nthreads, created, bcount,
          allDone, reg, done, err, firstErr, archIdx, loc, online, exitCode>>

-----------------------------------------------------------------------------
(* The kernel, as in Ft2c: the migrate() contract (lines 40-49) and the   *)
(* node and thread queries, for a thread running on cur.                  *)
MigrateResults(cur, dest) ==
  IF dest \notin Cluster THEN {EINVAL}
  ELSE IF dest = cur THEN {EBUSY}
  ELSE IF ~online[dest] THEN {EAGAIN}
  ELSE {0, EIO}

(* node_sanity_check, lines 144-180: 0 or the error; -1 stands for every  *)
(* non-zero code (a failed query or one of the three checks).             *)
NodeSanityResults(cur, local, remote) ==
  {-1} \cup (IF cur = local /\ online[local] /\ online[remote] THEN {0} ELSE {})

-----------------------------------------------------------------------------
Init ==
  /\ pc = [p \in Procs |-> IF p = Main THEN "m_start" ELSE "t_none"]
  /\ srcNode = 0 /\ snkNode = 0
  /\ nthreads = 0 /\ created = 0
  /\ bcount = 0
  /\ allDone = 0
  /\ reg = [t \in Threads |-> 0]
  /\ done = [t \in Threads |-> 0]
  /\ err = [t \in Threads |-> 0]
  /\ firstErr = [t \in Threads |-> 0]
  /\ archIdx = [t \in Threads |-> {}]
  /\ \E n \in Cluster : loc = [t \in Threads |-> n]
  /\ online \in [NodeId -> BOOLEAN]
  /\ \A n \in NodeId \ Cluster : ~online[n]
  /\ exitCode = 0

Goto(p, to) == pc' = [pc EXCEPT ![p] = to]

MainExit(code) == Goto(Main, "m_exit") /\ exitCode' = code

ThreadVars == <<reg, done, err, firstErr, archIdx, loc>>

(* main, lines 315-345: gettid check, argc check (only a message), atoi   *)
(* of argv[1..3] (a NULL argv entry crashes atoi), the node id checks.    *)
(* nthreads itself is never checked.                                      *)
(* Mutant: the upper bound checked with > instead of >=. *)
MainStartOffByOne ==
  /\ pc[Main] = "m_start"
  /\ \E pid \in Tids, argc \in {3, 4}, a1, a2 \in Args, n \in NThreadArgs :
       \/ pid = -1 /\ MainExit(-1) /\ UNCHANGED <<srcNode, snkNode, nthreads>>
       \/ /\ pid # -1 /\ argc < 4
          /\ MainExit(SEGV) /\ UNCHANGED <<srcNode, snkNode, nthreads>>
       \/ /\ pid # -1 /\ argc = 4
          /\ \/ a1 = a2
             \/ a1 < 0 \/ a2 < 0
             \/ a1 > MAX_POPCORN_NODES \/ a2 > MAX_POPCORN_NODES
          /\ MainExit(-1) /\ UNCHANGED <<srcNode, snkNode, nthreads>>
       \/ /\ pid # -1 /\ argc = 4 /\ a1 # a2
          /\ a1 \in 0 .. MAX_POPCORN_NODES /\ a2 \in 0 .. MAX_POPCORN_NODES
          /\ srcNode' = a1 /\ snkNode' = a2 /\ nthreads' = n
          /\ Goto(Main, "m_init") /\ UNCHANGED exitCode
  /\ UNCHANGED <<created, bcount, allDone, ThreadVars, online>>

MainStart ==
  /\ pc[Main] = "m_start"
  /\ \E pid \in Tids, argc \in {3, 4}, a1, a2 \in Args, n \in NThreadArgs :
       \/ pid = -1 /\ MainExit(-1) /\ UNCHANGED <<srcNode, snkNode, nthreads>>
       \/ /\ pid # -1 /\ argc < 4
          /\ MainExit(SEGV) /\ UNCHANGED <<srcNode, snkNode, nthreads>>
       \/ /\ pid # -1 /\ argc = 4
          /\ \/ a1 = a2
             \/ a1 < 0 \/ a2 < 0
             \/ a1 >= MAX_POPCORN_NODES \/ a2 >= MAX_POPCORN_NODES
          /\ MainExit(-1) /\ UNCHANGED <<srcNode, snkNode, nthreads>>
       \/ /\ pid # -1 /\ argc = 4 /\ a1 # a2
          /\ a1 \in NodeId /\ a2 \in NodeId
          /\ srcNode' = a1 /\ snkNode' = a2 /\ nthreads' = n
          /\ Goto(Main, "m_init") /\ UNCHANGED exitCode
  /\ UNCHANGED <<created, bcount, allDone, ThreadVars, online>>

(* __init_thread_params, lines 126-141, called at line 348.  The malloc  *)
(* of the array is unchecked: when it returns NULL, the first             *)
(* posix_memalign stores through threads[0] and the process crashes.  A   *)
(* failed posix_memalign ends the run with its error; both need a thread. *)
(* pthread_barrier_init for nthreads + 1 is assumed to succeed.           *)
MainInit ==
  /\ pc[Main] = "m_init"
  /\ \/ nthreads > 0 /\ MainExit(SEGV)
     \/ nthreads > 0 /\ MainExit(ENOMEM)
     \/ Goto(Main, "m_create") /\ UNCHANGED exitCode
  /\ UNCHANGED <<srcNode, snkNode, nthreads, created, bcount,
                 allDone, ThreadVars, online>>

(* main's loop, lines 352-364: initialise threads[i] and create it; the   *)
(* new thread runs at once, while main goes on creating the others.  The  *)
(* result of pthread_create (line 363) is never checked: when it fails,   *)
(* threads[i] never runs and main carries on with the next one.           *)
MainCreate ==
  /\ pc[Main] = "m_create"
  /\ IF created < nthreads
       THEN /\ \/ pc' = [pc EXCEPT ![created] = "t_start"]
               \/ UNCHANGED pc
            /\ created' = created + 1
       ELSE /\ Goto(Main, "m_barrier1") /\ UNCHANGED created
  /\ UNCHANGED <<srcNode, snkNode, nthreads, bcount, allDone,
                 ThreadVars, online, exitCode>>

(* pthread_barrier_wait(&barrier_start) with count nthreads + 1 (lines    *)
(* 366 and 370): the last of nthreads + 1 callers opens the round.  main  *)
(* is the only caller, so a round that it does not complete never opens:  *)
(* main then waits at "m_bwait" for ever.                                 *)
MainBarrierArrive(from, to) ==
  /\ pc[Main] = from
  /\ IF bcount + 1 = nthreads + 1
       THEN bcount' = 0 /\ Goto(Main, to)
       ELSE bcount' = bcount + 1 /\ Goto(Main, "m_bwait")

MainBarrier ==
  /\ \/ MainBarrierArrive("m_barrier1", "m_spin_gcount")
     \/ MainBarrierArrive("m_barrier2", "m_spin_alldone")
  /\ UNCHANGED <<srcNode, snkNode, nthreads, created, allDone, ThreadVars,
                 online, exitCode>>

(* Lines 368 and 372: busy loops on gcount and on all_done. *)
MainSpin ==
  /\ \/ /\ pc[Main] = "m_spin_gcount"
        /\ IF gcount < nthreads THEN UNCHANGED pc ELSE Goto(Main, "m_barrier2")
     \/ /\ pc[Main] = "m_spin_alldone"
        /\ IF allDone < nthreads THEN UNCHANGED pc ELSE Goto(Main, "m_join")
  /\ UNCHANGED <<srcNode, snkNode, nthreads, created, bcount,
                 allDone, ThreadVars, online, exitCode>>

(* Lines 374-383: pthread_join every thread, then return tnd_errno (0).   *)
MainJoin ==
  /\ pc[Main] = "m_join"
  /\ \A t \in 0 .. nthreads - 1 : pc[t] = "t_exit"
  /\ MainExit(0)
  /\ UNCHANGED <<srcNode, snkNode, nthreads, created, bcount,
                 allDone, ThreadVars, online>>

-----------------------------------------------------------------------------
(* child_thread(), lines 203-305, for thread t. *)

(* A failure: err is set, done = 1, then all_done++ (the load first). *)
(* Mutant: done is not set on the failure path. *)
ThreadFailNoDone(t, e) ==
  /\ err' = [err EXCEPT ![t] = e]
  /\ UNCHANGED done
  /\ Goto(t, "t_inc_load")

ThreadFail(t, e) ==
  /\ err' = [err EXCEPT ![t] = e]
  /\ done' = [done EXCEPT ![t] = 1]
  /\ Goto(t, "t_inc_load")

ThreadKeep == UNCHANGED <<srcNode, snkNode, nthreads, created, bcount,
                          allDone, online, exitCode>>

(* Lines 206-227: source_tid = gettid(), then node_sanity_check(snode,    *)
(* rnode), which writes arch_types[snode] and arch_types[rnode].          *)
(* Mutant: the result of node_sanity_check (line 221) is not examined. *)
ThreadStartNoNodeCheck(t) ==
  /\ pc[t] = "t_start"
  /\ \E tid \in Tids :
       IF tid = -1 THEN ThreadFail(t, -1) /\ UNCHANGED archIdx
       ELSE /\ archIdx' = [archIdx EXCEPT ![t] = @ \cup {srcNode, snkNode}]
            /\ Goto(t, "t_migrate_out") /\ UNCHANGED <<done, err>>
  /\ ThreadKeep /\ UNCHANGED <<reg, firstErr, loc>>

ThreadStart(t) ==
  /\ pc[t] = "t_start"
  /\ \E tid \in Tids, r \in NodeSanityResults(loc[t], srcNode, snkNode) :
       IF tid = -1 THEN ThreadFail(t, -1) /\ UNCHANGED archIdx
       ELSE IF r # 0 THEN ThreadFail(t, r) /\ UNCHANGED archIdx
       ELSE /\ archIdx' = [archIdx EXCEPT ![t] = @ \cup {srcNode, snkNode}]
            /\ Goto(t, "t_migrate_out") /\ UNCHANGED <<done, err>>
  /\ ThreadKeep /\ UNCHANGED <<reg, firstErr, loc>>

(* Lines 240-269: err = migrate(rnode); any error sets done and leaves. *)
(* Mutant: -EAGAIN taken for a transient error and the migration retried *)
(* on the spot until the node comes back.                                  *)
ThreadMigrateOutRetry(t) ==
  /\ pc[t] = "t_migrate_out"
  /\ \E r \in MigrateResults(loc[t], snkNode) :
       /\ firstErr' = [firstErr EXCEPT ![t] = IF @ = 0 THEN r ELSE @]
       /\ IF r = 0
            THEN /\ loc' = [loc EXCEPT ![t] = snkNode]
                 /\ err' = [err EXCEPT ![t] = 0]
                 /\ Goto(t, "t_sinktid") /\ UNCHANGED done
            ELSE IF r = EAGAIN
            THEN err' = [err EXCEPT ![t] = r] /\ UNCHANGED <<pc, done, loc>>
            ELSE ThreadFail(t, r) /\ UNCHANGED loc
  /\ ThreadKeep /\ UNCHANGED <<reg, archIdx>>

(* Mutant: the "if (current_thread->done)" check of line 265 is lost: a   *)
(* thread whose outbound migrate failed carries on at the sink step.      *)
ThreadMigrateOutNoReturn(t) ==
  /\ pc[t] = "t_migrate_out"
  /\ \E r \in MigrateResults(loc[t], snkNode) :
       /\ firstErr' = [firstErr EXCEPT ![t] = IF @ = 0 THEN r ELSE @]
       /\ IF r = 0
            THEN /\ loc' = [loc EXCEPT ![t] = snkNode]
                 /\ err' = [err EXCEPT ![t] = 0]
                 /\ Goto(t, "t_sinktid") /\ UNCHANGED done
            ELSE /\ err' = [err EXCEPT ![t] = r]
                 /\ done' = [done EXCEPT ![t] = 1]
                 /\ Goto(t, "t_sinktid") /\ UNCHANGED loc
  /\ ThreadKeep /\ UNCHANGED <<reg, archIdx>>

ThreadMigrateOut(t) ==
  /\ pc[t] = "t_migrate_out"
  /\ \E r \in MigrateResults(loc[t], snkNode) :
       /\ firstErr' = [firstErr EXCEPT ![t] = IF @ = 0 THEN r ELSE @]
       /\ IF r = 0
            THEN /\ loc' = [loc EXCEPT ![t] = snkNode]
                 /\ err' = [err EXCEPT ![t] = 0]
                 /\ Goto(t, "t_sinktid") /\ UNCHANGED done
            ELSE ThreadFail(t, r) /\ UNCHANGED loc
  /\ ThreadKeep /\ UNCHANGED <<reg, archIdx>>

(* Lines 274-286: sink_tid = gettid() must not be -1; the message reads   *)
(* arch_types[rnode].                                                     *)
(* Mutant: the sink gettid() failure leaves err at the 0 of the migration. *)
ThreadSinkTidNoErr(t) ==
  /\ pc[t] = "t_sinktid"
  /\ \E tid \in Tids :
       IF tid = -1 THEN ThreadFail(t, err[t]) /\ UNCHANGED archIdx
       ELSE /\ archIdx' = [archIdx EXCEPT ![t] = @ \cup {snkNode}]
            /\ Goto(t, "t_migrate_back") /\ UNCHANGED <<done, err>>
  /\ ThreadKeep /\ UNCHANGED <<reg, firstErr, loc>>

ThreadSinkTid(t) ==
  /\ pc[t] = "t_sinktid"
  /\ \E tid \in Tids :
       IF tid = -1 THEN ThreadFail(t, -1) /\ UNCHANGED archIdx
       ELSE /\ archIdx' = [archIdx EXCEPT ![t] = @ \cup {snkNode}]
            /\ Goto(t, "t_migrate_back") /\ UNCHANGED <<done, err>>
  /\ ThreadKeep /\ UNCHANGED <<reg, firstErr, loc>>

(* Lines 296-302: err = migrate(source_nid), never examined; the message  *)
(* reads arch_types[snode]; sleep(1) and the next round trip.             *)
ThreadMigrateBack(t) ==
  /\ pc[t] = "t_migrate_back"
  /\ \E r \in MigrateResults(loc[t], srcNode) :
       /\ err' = [err EXCEPT ![t] = r]
       /\ firstErr' = [firstErr EXCEPT ![t] = IF @ = 0 THEN r ELSE @]
       /\ loc' = [loc EXCEPT ![t] = IF r = 0 THEN srcNode ELSE @]
  /\ archIdx' = [archIdx EXCEPT ![t] = @ \cup {srcNode}]
  /\ Goto(t, "t_migrate_out")
  /\ ThreadKeep /\ UNCHANGED <<reg, done>>

(* all_done++ (lines 215, 225, 267, 281): a load and a store that other   *)
(* threads may interleave with.                                           *)
ThreadIncLoad(t) ==
  /\ pc[t] = "t_inc_load"
  /\ reg' = [reg EXCEPT ![t] = allDone]
  /\ Goto(t, "t_inc_store")
  /\ ThreadKeep /\ UNCHANGED <<done, err, firstErr, archIdx, loc>>

ThreadIncStore(t) ==
  /\ pc[t] = "t_inc_store"
  /\ allDone' = reg[t] + 1
  /\ Goto(t, "t_exit")
  /\ UNCHANGED <<srcNode, snkNode, nthreads, created, bcount,
                 online, exitCode, ThreadVars>>

-----------------------------------------------------------------------------
(* The cluster: a node goes offline or comes back while a thread runs. *)
NodeFlip ==
  /\ \E t \in Threads : pc[t] \notin {"t_none", "t_exit"}
  /\ \E n \in Cluster : online' = [online EXCEPT ![n] = ~@]
  /\ UNCHANGED <<pc, srcNode, snkNode, nthreads, created, bcount,
                 allDone, ThreadVars, exitCode>>

(* main has returned: the process is gone. *)
Terminated == pc[Main] = "m_exit" /\ UNCHANGED vars

MainStep == MainStart \/ MainInit \/ MainCreate \/ MainBarrier \/ MainSpin
            \/ MainJoin

ThreadStep(t) ==
  \/ ThreadStart(t) \/ ThreadMigrateOut(t) \/ ThreadSinkTid(t)
  \/ ThreadMigrateBack(t) \/ ThreadIncLoad(t) \/ ThreadIncStore(t)

Next == MainStep \/ (\E t \in Threads : ThreadStep(t)) \/ NodeFlip
        \/ Terminated

(* Every thread the kernel runs makes progress; node liveness is the     *)
(* environment's and gets no fairness.                                   *)
Spec == Init /\ [][Next]_vars /\ WF_vars(MainStep)
        /\ \A t \in Threads : WF_vars(ThreadStep(t))

-----------------------------------------------------------------------------
(* Properties *)

Labels == {"m_start", "m_init", "m_create", "m_barrier1", "m_bwait",
           "m_spin_gcount", "m_barrier2", "m_spin_alldone", "m_join",
           "m_exit", "t_none", "t_start", "t_migrate_out", "t_sinktid",
           "t_migrate_back", "t_inc_load", "t_inc_store", "t_exit"}

Errors == {0, -1, EINVAL, EBUSY, EAGAIN, EIO}

TypeOK ==
  /\ pc \in [Procs -> Labels]
  /\ srcNode \in NodeId /\ snkNode \in NodeId
  /\ nthreads \in NThreadArgs \cup {0}
  /\ created \in 0 .. MaxThreads /\ bcount \in Nat
  /\ allDone \in Nat
  /\ reg \in [Threads -> Nat]
  /\ done \in [Threads -> {0, 1}]
  /\ err \in [Threads -> Errors] /\ firstErr \in [Threads -> Errors]
  /\ archIdx \in [Threads -> SUBSET NodeId]
  /\ loc \in [Threads -> NodeId]
  /\ online \in [NodeId -> BOOLEAN]
  /\ exitCode \in {-1, 0, ENOMEM, SEGV}

(* spec.md section 6: an allocation failure is a ResourceError, reported  *)
(* before any task starts and never a crash.  A step of main from          *)
(* __init_thread_params (tnd.c lines 126-141) never ends in a segfault.    *)
InitFailureReported == [][pc[Main] = "m_init" => exitCode' # SEGV]_vars

(* Whatever path ends a thread (gettid at the source or the sink, the     *)
(* node check, a failed outbound migrate), the thread it leaves behind    *)
(* has done = 1 only together with a non-zero err: main prints err as the *)
(* thread's exit code, and 0 would read as a success.                     *)
DoneCarriesError == \A t \in Threads : done[t] = 1 => err[t] # 0

(* The unsynchronised all_done++ may lose increments, but never invents   *)
(* one: all_done never exceeds the threads that have set done, so main's  *)
(* spin on all_done cannot end before that many threads have failed.      *)
AllDoneBounded == allDone <= Cardinality({t \in Threads : done[t] = 1})

(* A thread runs where its messages say it does: past the node check of   *)
(* line 221 it starts from the source; after a successful migrate(sink) it *)
(* is on the sink for its gettid and its "Touched" message (lines 274-285) *)
(* and for the return migrate; and each new outbound migrate (line 240)    *)
(* starts from the source or, after an ignored failed return, the sink.    *)
ThreadWhereExpected ==
  \A t \in Threads :
    /\ pc[t] \in {"t_sinktid", "t_migrate_back"} => loc[t] = snkNode
    /\ pc[t] = "t_migrate_out" => loc[t] \in {srcNode, snkNode}

(* Once a thread has set done, the err that main prints after the join is *)
(* final: every failure path returns right after all_done++ (lines 215,   *)
(* 225, 267, 281), so no later migrate overwrites err and done stays 1.   *)
VerdictFinal ==
  [][\A t \in Threads : done[t] = 1 => done'[t] = 1 /\ err'[t] = err[t]]_vars

(* A thread that has started either ends or completes the outbound hop to *)
(* the sink and reaches the return migrate: no check loops or blocks it,  *)
(* whatever the nodes do.                                                 *)
ThreadProgress ==
  \A t \in Threads : pc[t] = "t_start" ~> pc[t] \in {"t_exit", "t_migrate_back"}

(* Once every thread has stopped, all_done counts them: each failure path *)
(* increments it exactly once (lines 215, 225, 267, 281), which main's    *)
(* spin at line 372 relies on.                                            *)
AllDoneCounts ==
  (\A t \in Threads : pc[t] \notin {"t_inc_load", "t_inc_store"})
    => allDone = Cardinality({t \in Threads : done[t] = 1})

(* node_sanity_check and the messages only index arch_types[2] with 0 or  *)
(* 1 (the comment at line 117 assumes the two nodes are 0 and 1).         *)
ArchIndexInBounds == \A t \in Threads : archIdx[t] \subseteq ArchSlots

(* The err a failed thread reports is the first migration failure it met *)
(* (the header: pass means migrate returns without errors both ways).    *)
FailureReported ==
  \A t \in Threads : done[t] = 1 /\ firstErr[t] # 0 => err[t] = firstErr[t]

(* No thread gets past its start (gettid and the node check) before main *)
(* has created every thread and reached barrier_start (spec.md section 5: *)
(* the startup barrier is what keeps a task from migrating while others   *)
(* are still being constructed).                                          *)
StartBarrierRespected ==
  \A t \in Threads :
    pc[t] \notin {"t_none", "t_start"}
      => pc[Main] \notin {"m_start", "m_init", "m_create", "m_barrier1"}

(* Once main has created the threads and they have all ended, main         *)
(* returns and reports them (lines 366-383).                               *)
ThreadsFinished ==
  /\ pc[Main] \notin {"m_start", "m_init", "m_create", "m_exit"}
  /\ \A t \in 0 .. nthreads - 1 : pc[t] = "t_exit"

MainReports == ThreadsFinished ~> pc[Main] = "m_exit"

=============================================================================
