-------------------------------- MODULE Rag --------------------------------
(***************************************************************************)
(* The resource allocation graph of the kernel (system/deadlock.c): the    *)
(* edges that acquire and release maintain, and the depth first search by  *)
(* which deadlock_detect looks for a cycle and picks a victim.             *)
(*                                                                         *)
(* A vertex is a lock (0 .. NLOCK-1) or a process (NLOCK + pid), and the   *)
(* matrix RAG is the set of pairs whose entry is 1.  The recursion of dfs  *)
(* is an explicit stack of vertices, so that one action is one iteration   *)
(* of one activation and no operator of the module is recursive.  The      *)
(* C code runs the whole search with interrupts disabled: the graph cannot *)
(* change under a scan, only between two recoveries of a scan.             *)
(***************************************************************************)
EXTENDS Integers, Sequences, SequencesExt

CONSTANTS NLOCK, NPROC

ASSUME SizeAssumption == NLOCK \in Nat \ {0} /\ NPROC \in Nat \ {0}

SIZE   == NLOCK + NPROC
Vertex == 0 .. (SIZE - 1)
Lock   == 0 .. (NLOCK - 1)
Pid    == 0 .. (NPROC - 1)

Proc(p)   == NLOCK + p                      \* the row of process p in the matrix
ProcVertex == NLOCK .. (SIZE - 1)

VARIABLES
  RAG,         \* the edges of the graph
  deadlocks,   \* deadlocks[0 .. n_cycles-1], in the order dfs stores it
  root,        \* i of the loop of deadlock_detect
  stack,       \* the activations of dfs, the innermost last
  visited, recur,
  dphase,      \* "idle", "scan", "recover", or "fault": outside the arrays
  reported,    \* history: this call of deadlock_detect has reported a cycle
  kept         \* history: the entries of deadlocks that calls which have ended left there

detectVars == <<deadlocks, root, stack, visited, recur, dphase, reported, kept>>
ragVars    == <<RAG, detectVars>>

----------------------------------------------------------------------------
\* The edges that the lock operations add and remove.

rag_request(g, p, l) == g \union {<<Proc(p), l>>}

\* Faulty variant: the request edge stays.
rag_alloc_kept(g, p, l) == g \union {<<l, Proc(p)>>}

rag_alloc(g, p, l) == (g \union {<<l, Proc(p)>>}) \ {<<Proc(p), l>>}

rag_dealloc(g, p, l) == g \ {<<Proc(p), l>>, <<l, Proc(p)>>}

----------------------------------------------------------------------------
\* deadlock_detect and dfs.

init_mat == RAG = {}

DetectInit ==
  /\ deadlocks = <<>> /\ root = 0 /\ stack = <<>>
  /\ visited = {} /\ recur = {}
  /\ dphase = "idle" /\ reported = FALSE /\ kept = 0

\* deadlock_detect is called: its two arrays are cleared, deadlocks is not.
DetectEntry ==
  /\ root' = 0 /\ stack' = <<>> /\ visited' = {} /\ recur' = {}
  /\ dphase' = "scan" /\ reported' = FALSE
  /\ UNCHANGED <<deadlocks, kept>>

Top == stack[Len(stack)]

\* Faulty variant: dfs looks at unvisited neighbours only.
PendingUnvisited(v) == {w \in Vertex : <<v, w>> \in RAG /\ w \notin visited}

\* The neighbours of v that the loop of dfs stops at: one it has to descend
\* into, or one that is still marked in recur.
Pending(v) == {w \in Vertex : <<v, w>> \in RAG /\ (w \notin visited \/ w \in recur)}

IsNext(w) == w \in Pending(Top) /\ \A u \in Pending(Top) : w <= u

InScan   == dphase = "scan" /\ root < SIZE
AtRoot   == InScan /\ stack = <<>>
InSearch == InScan /\ stack # <<>>

DfsEnter(v) ==
  /\ visited' = visited \union {v} /\ recur' = recur \union {v}
  /\ stack' = Append(stack, v)
  /\ UNCHANGED <<RAG, deadlocks, root, dphase, reported, kept>>

\* Faulty variant: the loop of deadlock_detect does not move on.
DfsSkipStuck ==
  /\ AtRoot /\ root \in visited /\ recur' = recur \ {root}
  /\ UNCHANGED <<RAG, deadlocks, root, stack, visited, dphase, reported, kept>>

\* dfs(root) finds its root visited: it only clears recur[root].
DfsSkip ==
  /\ AtRoot /\ root \in visited
  /\ recur' = recur \ {root} /\ root' = root + 1
  /\ UNCHANGED <<RAG, deadlocks, stack, visited, dphase, reported, kept>>

DfsRoot == AtRoot /\ root \notin visited /\ DfsEnter(root)

DfsDescend == InSearch /\ \E w \in Vertex : IsNext(w) /\ w \notin visited /\ DfsEnter(w)

\* Faulty variant: dfs leaves its mark in recur when it returns 0.
DfsReturnMarked ==
  /\ InSearch /\ Pending(Top) = {}
  /\ stack' = Front(stack) /\ root' = IF Len(stack) = 1 THEN root + 1 ELSE root
  /\ UNCHANGED <<RAG, deadlocks, visited, recur, dphase, reported, kept>>

\* An activation runs out of neighbours: it clears its mark and returns 0.
DfsReturn ==
  /\ InSearch /\ Pending(Top) = {}
  /\ recur' = recur \ {Top} /\ stack' = Front(stack)
  /\ root' = IF Len(stack) = 1 THEN root + 1 ELSE root
  /\ UNCHANGED <<RAG, deadlocks, visited, dphase, reported, kept>>

Closes == InSearch /\ \E w \in recur \intersect visited : IsNext(w)

\* Every activation stores its vertex and returns 1, and none clears its mark.
\* The stores are not bounded: past the end of the array the kernel is lost.
Store ==
  /\ deadlocks' = deadlocks \o Reverse(stack) /\ stack' = <<>>
  /\ dphase' = IF Len(deadlocks) + Len(stack) > SIZE THEN "fault" ELSE "recover"

\* Faulty variant: the scan starts afresh after a report.
DfsReportAfresh ==
  /\ Closes /\ Store /\ reported' = TRUE /\ visited' = {}
  /\ UNCHANGED <<RAG, root, recur, kept>>

\* A marked neighbour: the cycle is reported.
DfsReport ==
  /\ Closes /\ Store /\ reported' = TRUE
  /\ UNCHANGED <<RAG, root, visited, recur, kept>>

\* What a call leaves in deadlocks stays there: n_cycles is never reset.
DetectReturn ==
  /\ dphase = "scan" /\ root = SIZE
  /\ dphase' = "idle" /\ root' = 0 /\ visited' = {} /\ recur' = {}
  /\ kept' = Len(deadlocks)
  /\ UNCHANGED <<RAG, deadlocks, stack, reported>>

DfsStep == DfsSkip \/ DfsRoot \/ DfsDescend \/ DfsReturn \/ DfsReport

----------------------------------------------------------------------------
\* What deadlock_detect passes to deadlock_recover: the first two entries.

VictimOK == deadlocks[1] \in ProcVertex /\ deadlocks[2] \in Lock
victim   == deadlocks[1] - NLOCK

\* Faulty variant: the lock the victim waits for, at the other end of the path.
lockid_waited == deadlocks[Len(deadlocks)]

lockid   == deadlocks[2]

\* deadlock_recover returns to the loop of deadlock_detect.
RecoverReturn == dphase' = "scan" /\ root' = root + 1

----------------------------------------------------------------------------
\* The shape of the state: the loop of deadlock_detect stays inside the graph, and
\* the stack and the trail hold vertices.  The trail may be longer than the array.
RagTypeOK ==
  /\ RAG \subseteq Vertex \X Vertex
  /\ deadlocks \in Seq(Vertex) /\ kept \in Nat
  /\ root \in 0 .. SIZE /\ stack \in Seq(Vertex)
  /\ visited \subseteq Vertex /\ recur \subseteq Vertex
  /\ dphase \in {"idle", "scan", "recover", "fault"} /\ reported \in BOOLEAN

\* However many cycles a call reports, recoveries and marks that earlier reports left
\* included, it stores no vertex twice: what one call stores never exceeds the array,
\* and only entries that earlier calls left can make it do so (deadlock.c:95, 100).
StoredOnce ==
  \A j, k \in (kept + 1) .. Len(deadlocks) : deadlocks[j] = deadlocks[k] => j = k

\* A cycle, without induction: a nonempty set each of whose vertices has a
\* successor in the set.
CycleIn(g, C) == C # {} /\ \A v \in C : \E w \in C : <<v, w>> \in g
HasCycle(g)   == \E C \in SUBSET Vertex : CycleIn(g, C)

\* A path of the graph whose last vertex has an edge back to one of the path.
PathCloses(path) ==
  /\ \A k \in 1 .. (Len(path) - 1) : <<path[k], path[k + 1]>> \in RAG
  /\ \E k \in 1 .. Len(path) : <<path[Len(path)], path[k]>> \in RAG
=============================================================================
