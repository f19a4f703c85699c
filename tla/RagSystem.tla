----------------------------- MODULE RagSystem -----------------------------
(***************************************************************************)
(* The graph on its own.  Between detections the processes of the kernel   *)
(* move the edges; recovery is reduced to what it does to the graph.  The  *)
(* guards say what lock.c guarantees of its callers: a process asks for    *)
(* one lock at a time and a lock is allocated to one process at a time.    *)
(* MaxTrail bounds the entries deadlocks may hold when a detection starts: *)
(* 0 is the first detection that finds something after boot.  With as many *)
(* as the array holds, a later one may store past its end: it ends there.  *)
(***************************************************************************)
EXTENDS Rag

CONSTANT MaxTrail

Requests(p) == {l \in Lock : <<Proc(p), l>> \in RAG}
Owners(l)   == {p \in Pid : <<l, Proc(p)>> \in RAG}

Request(p, l) ==
  /\ dphase = "idle" /\ Requests(p) = {}
  /\ RAG' = rag_request(RAG, p, l) /\ UNCHANGED detectVars

Allocate(p, l) ==
  /\ dphase = "idle" /\ l \in Requests(p) /\ Owners(l) = {}
  /\ RAG' = rag_alloc(RAG, p, l) /\ UNCHANGED detectVars

Deallocate(p, l) ==
  /\ dphase = "idle" /\ p \in Owners(l) /\ Requests(p) = {}
  /\ RAG' = rag_dealloc(RAG, p, l) /\ UNCHANGED detectVars

Detect == dphase = "idle" /\ Len(deadlocks) <= MaxTrail /\ DetectEntry /\ UNCHANGED RAG

\* deadlock_recover, as far as the graph goes; a victim that is no process or
\* a lock that is none indexes outside proctab or locktab.
Recover ==
  /\ dphase = "recover"
  /\ \/ /\ VictimOK /\ RecoverReturn
        /\ RAG' = rag_dealloc(RAG, victim, lockid)
        /\ UNCHANGED <<deadlocks, stack, visited, recur, reported, kept>>
     \/ /\ ~VictimOK /\ dphase' = "fault"
        /\ UNCHANGED <<RAG, deadlocks, root, stack, visited, recur, reported, kept>>

RagInit == init_mat /\ DetectInit

Change == \E p \in Pid, l \in Lock : Request(p, l) \/ Allocate(p, l) \/ Deallocate(p, l)
Searching == DfsStep \/ Recover \/ DetectReturn
RagNext == Change \/ Detect \/ Searching

\* The search runs with interrupts disabled, so nothing can hold it up.
RagSpec == RagInit /\ [][RagNext]_ragVars /\ WF_ragVars(Searching)

----------------------------------------------------------------------------
\* The first cycle that a call of deadlock_detect reports is one: the path that
\* dfs stores follows edges of the graph backwards, and from its first entry an
\* edge leads back to some entry of it (comment deadlock.c:81).
FirstReportIsCycle == [][~reported /\ reported' => PathCloses(stack) /\ HasCycle(RAG)]_ragVars

\* A call of deadlock_detect that reports nothing has missed nothing: there is no
\* cycle in the graph when it returns.
SilentMeansAcyclic == [][DetectReturn /\ ~reported => ~HasCycle(RAG)]_ragVars

\* deadlock_detect ends, whatever the graph (resched waits for it).
DetectEnds == (dphase = "scan") ~> (dphase \in {"idle", "fault"})
=============================================================================
