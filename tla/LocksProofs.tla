---------------------------- MODULE LocksProofs ----------------------------
(***************************************************************************)
(* Proofs about Locks, for every number of locks and processes, every      *)
(* period of the detection and every set of client behaviours: mutual      *)
(* exclusion, the agreement of the graph with the locks, that the first    *)
(* report is of a real deadlock and its victim fit to be recovered, that   *)
(* a deadlock does not go away by itself, and that the queues count right. *)
(***************************************************************************)
EXTENDS Locks, RagProofs, FiniteSetTheorems

PrState == {"FREE", "CURR", "READY"}

OwnTypes ==
  /\ currpid \in Pid /\ DOMAIN readyqueue.n = Pid
  /\ prstate \in [Pid -> PrState]
  /\ lstate \in [Lock -> {"FREE", "USED"}] /\ lock \in [Lock -> BOOLEAN]
  /\ pc \in [Pid -> {"run", "spin", "got", "dead"}] /\ target \in [Pid -> Lock]
  /\ held \in [Pid -> SUBSET Lock] /\ torn \in BOOLEAN

\* A report leaves its trail behind.
ReportInv == dphase = "recover" \/ reported => deadlocks # <<>>

OneOwner == \A l \in Lock, p, q \in Pid : Owns(p, l) /\ Owns(q, l) => p = q

WordIsOwner == \A l \in Lock : lock[l] <=> \E p \in Pid : Owns(p, l)

\* A process that has just taken a lock did not hold it before.
GotIsNew == \A p \in Pid : pc[p] = "got" => target[p] \notin held[p]

UsersUseUsed == \A p \in Pid, l \in Lock : l \in held[p] \/ Waits(p, l) => lstate[l] = "USED"

NullNeverWaits == pc[NULLPROC] = "run"

\* Every edge runs between a lock and a process.
Bipartite(g) == \A e \in g : \E l \in Lock, p \in Pid : e = <<l, Proc(p)>> \/ e = <<Proc(p), l>>

\* RagExact, edge by edge.
EdgeByEdge ==
  /\ \A l \in Lock, p \in Pid : <<l, Proc(p)>> \in RAG <=> l \in held[p]
  /\ \A l \in Lock, p \in Pid : <<Proc(p), l>> \in RAG <=> Waits(p, l)
  /\ Bipartite(RAG)

Clean ==
  OneOwner /\ WordIsOwner /\ GotIsNew /\ UsersUseUsed /\ NullNeverWaits /\ EdgeByEdge

LocksInv == RagInv /\ OwnTypes /\ ReportInv /\ OnlyCurrentIsCurr /\ (Intact => Clean)

----------------------------------------------------------------------------
\* A lock is not a process, and a vertex is the process of one pid at most.
LEMMA ProcFacts ==
  /\ \A p \in Pid : Proc(p) \notin Lock
  /\ \A p, q \in Pid : Proc(p) = Proc(q) => p = q
  /\ NULLPROC \in Pid /\ NULLPROC \notin User /\ User \subseteq Pid /\ 0 \in Lock
BY SizeAssumption, LocksAssumption DEF Pid, Lock, Proc, NULLPROC, User

\* No operation on a queue forgets a pid it has a place for, and the head of a
\* queue is one of those pids.
LEMMA QueueDomains ==
  ASSUME NEW q, NEW p, DOMAIN q.n = Pid
  PROVE  /\ DOMAIN Enqueue(q, p, NPROC).n = Pid
         /\ DOMAIN Dequeued(q, p).n = Pid
         /\ DOMAIN Removed(q, p).n = Pid
         /\ Heads(q) \subseteq Pid
BY DEF Enqueue, Dequeued, Removed, Heads, Entries

\* Switch from a table in which nobody but currpid is marked as running marks
\* the process it switches to, and no other.
LEMMA SwitchFacts ==
  ASSUME NEW st \in [Pid -> PrState], NEW rq, DOMAIN rq.n = Pid, currpid \in Pid,
         \A p \in Pid : st[p] = "CURR" => p = currpid,
         Switch(st, rq)
  PROVE  /\ currpid' \in Pid /\ DOMAIN readyqueue'.n = Pid /\ prstate' \in [Pid -> PrState]
         /\ OnlyCurrentIsCurr'
<1> DEFINE st1 == IF st[currpid] = "CURR" THEN [st EXCEPT ![currpid] = "READY"] ELSE st
           rq1 == IF st[currpid] = "CURR" THEN Ready(rq, currpid) ELSE rq
<1>1. DOMAIN rq1.n = Pid
  BY QueueDomains DEF Ready
<1>2. PICK p \in Heads(rq1) :
        currpid' = p /\ prstate' = [st1 EXCEPT ![p] = "CURR"] /\ readyqueue' = Dequeued(rq1, p)
  BY DEF Switch
<1>3. p \in Pid
  BY <1>1, <1>2, QueueDomains
<1>4. DOMAIN readyqueue'.n = Pid
  BY <1>1, <1>2, QueueDomains
<1>5. st1 \in [Pid -> PrState] /\ \A q \in Pid : st1[q] # "CURR"
  BY DEF PrState
<1>6. prstate' \in [Pid -> PrState]
  BY <1>2, <1>5 DEF PrState
<1>7. OnlyCurrentIsCurr'
  BY <1>2, <1>3, <1>5 DEF OnlyCurrentIsCurr
<1>8. QED
  BY <1>2, <1>3, <1>4, <1>6, <1>7

\* The same of a whole resched, which may stop short at a detection.
LEMMA ReschedFacts ==
  ASSUME NEW st \in [Pid -> PrState], NEW rq, DOMAIN rq.n = Pid, currpid \in Pid,
         \A p \in Pid : st[p] = "CURR" => p = currpid,
         Resched(st, rq)
  PROVE  /\ currpid' \in Pid /\ DOMAIN readyqueue'.n = Pid /\ prstate' \in [Pid -> PrState]
         /\ OnlyCurrentIsCurr'
         /\ DetectEntry \/ UNCHANGED detectVars
<1>1. CASE DetectEntry /\ prstate' = st /\ readyqueue' = rq /\ UNCHANGED currpid
  BY <1>1 DEF OnlyCurrentIsCurr
<1>2. CASE Switch(st, rq) /\ UNCHANGED detectVars
  BY <1>2, SwitchFacts
<1>3. QED
  BY <1>1, <1>2 DEF Resched

----------------------------------------------------------------------------
\* The steps of the processes themselves, the clock's included: outside a
\* detection, and at most entering one.
OutsideStep == LockStep \/ Preempt

\* They keep the shape of the state, and nothing but an entry into the detection touches its
\* variables.
LEMMA OutsideStepFacts ==
  ASSUME LocksInv, OutsideStep
  PROVE  /\ OwnTypes' /\ OnlyCurrentIsCurr'
         /\ dphase = "idle" /\ RAG' \in SUBSET (Vertex \X Vertex)
         /\ DetectEntry \/ UNCHANGED detectVars
<1> USE DEF LocksInv, OwnTypes, Me, Running
<1>1. RAG \in SUBSET (Vertex \X Vertex) /\ target[currpid] \in Lock
  BY DEF RagInv, RagTypeOK
<1>2. ASSUME NEW l \in Lock, AcquireRequest(l)
      PROVE  /\ OwnTypes' /\ OnlyCurrentIsCurr' /\ dphase = "idle"
             /\ RAG' \in SUBSET (Vertex \X Vertex) /\ UNCHANGED detectVars
  BY <1>1, <1>2, EdgeTypes DEF AcquireRequest, procVars, OnlyCurrentIsCurr
<1>3. ASSUME NEW l \in Lock, Release(l)
      PROVE  /\ OwnTypes' /\ OnlyCurrentIsCurr' /\ dphase = "idle"
             /\ RAG' \in SUBSET (Vertex \X Vertex) /\ UNCHANGED detectVars
  BY <1>1, <1>3, EdgeTypes DEF Release, procVars, OnlyCurrentIsCurr
<1>4. ASSUME NEW l \in Lock, LockCreate(l)
      PROVE  /\ OwnTypes' /\ OnlyCurrentIsCurr' /\ dphase = "idle"
             /\ RAG' = RAG /\ UNCHANGED detectVars
  BY <1>4 DEF LockCreate, procVars, ragVars, ownVars, OnlyCurrentIsCurr
<1>5. CASE TestAndSet
  BY <1>1, <1>5 DEF TestAndSet, procVars, ragVars, OnlyCurrentIsCurr
<1>6. CASE AcquireReturn
  <2>1. RAG' \in SUBSET (Vertex \X Vertex)
    BY <1>1, <1>6, EdgeTypes DEF AcquireReturn
  <2>2. held' \in [Pid -> SUBSET Lock] /\ target' \in [Pid -> Lock]
    BY <1>1, <1>6, ProcFacts DEF AcquireReturn
  <2>3. pc' \in [Pid -> {"run", "spin", "got", "dead"}]
    BY <1>6 DEF AcquireReturn
  <2>4. UNCHANGED <<detectVars, procVars, tableVars, torn>> /\ dphase = "idle"
    BY <1>6 DEF AcquireReturn
  <2>5. QED
    BY <2>1, <2>2, <2>3, <2>4 DEF procVars, tableVars, OnlyCurrentIsCurr
<1>7. ASSUME NEW st \in [Pid -> PrState], NEW rq, DOMAIN rq.n = Pid,
             \A p \in Pid : st[p] = "CURR" => p = currpid, Resched(st, rq)
      PROVE  /\ currpid' \in Pid /\ DOMAIN readyqueue'.n = Pid /\ prstate' \in [Pid -> PrState]
             /\ OnlyCurrentIsCurr' /\ (DetectEntry \/ UNCHANGED detectVars)
  BY <1>7, ReschedFacts
<1>8. CASE Preempt
  BY <1>1, <1>7, <1>8 DEF Preempt, tableVars, ownVars, OnlyCurrentIsCurr
<1>9. CASE Exit
  <2>1. CASE LastProcess
    BY <1>1, <1>9, <2>1 DEF Exit, tableVars, OnlyCurrentIsCurr
  <2>2. CASE ~LastProcess
    <3> DEFINE st == [prstate EXCEPT ![currpid] = "FREE"]
    <3>1. st \in [Pid -> PrState] /\ \A p \in Pid : st[p] = "CURR" => p = currpid
      BY DEF OnlyCurrentIsCurr, PrState
    <3>2. Resched(st, readyqueue)
      BY <1>9, <2>2 DEF Exit
    <3>3. /\ currpid' \in Pid /\ DOMAIN readyqueue'.n = Pid /\ prstate' \in [Pid -> PrState]
          /\ OnlyCurrentIsCurr' /\ (DetectEntry \/ UNCHANGED detectVars)
      BY <1>7, <3>1, <3>2
    <3>4. pc' \in [Pid -> {"run", "spin", "got", "dead"}]
      BY <1>9, <2>2 DEF Exit
    <3>5. QED
      BY <1>1, <1>9, <3>3, <3>4 DEF Exit, tableVars
  <2>3. QED
    BY <2>1, <2>2
<1>10. ASSUME NEW l \in Lock, LockDelete(l)
       PROVE  /\ OwnTypes' /\ OnlyCurrentIsCurr' /\ dphase = "idle"
              /\ RAG' \in SUBSET (Vertex \X Vertex)
              /\ DetectEntry \/ UNCHANGED detectVars
  <2>1. RAG' \in SUBSET (Vertex \X Vertex)
    BY <1>1, <1>10 DEF LockDelete, DeletedEdges
  <2>2. PICK rq : DOMAIN rq.n = Pid /\ Resched(prstate, rq)
    BY <1>10 DEF LockDelete, EnqueuedAll
  <2>3. /\ currpid' \in Pid /\ DOMAIN readyqueue'.n = Pid /\ prstate' \in [Pid -> PrState]
        /\ OnlyCurrentIsCurr' /\ (DetectEntry \/ UNCHANGED detectVars)
    BY <1>7, <2>2 DEF OnlyCurrentIsCurr
  <2>4. torn' \in BOOLEAN
    BY <1>10 DEF LockDelete, InUse
  <2>5. QED
    BY <1>10, <2>1, <2>3, <2>4 DEF LockDelete
<1>11. QED
  <2> HIDE DEF LocksInv, OwnTypes, Me, Running
  <2>1. CASE \E l \in Lock : AcquireRequest(l) \/ Release(l) \/ LockCreate(l) \/ LockDelete(l)
    BY <1>1, <1>2, <1>3, <1>4, <1>10, <2>1
  <2>2. QED
    BY <1>5, <1>6, <1>8, <1>9, <2>1 DEF OutsideStep, LockStep

\* The steps of the detection and of the recovery keep the shape of the state.
LEMMA DetectWorkFacts ==
  ASSUME LocksInv, DetectWork
  PROVE  OwnTypes' /\ OnlyCurrentIsCurr' /\ RagInv'
<1> USE DEF LocksInv, OwnTypes
<1>1. RAG \in SUBSET (Vertex \X Vertex) /\ RAG \subseteq Vertex \X Vertex
  BY DEF RagInv, RagTypeOK
<1>2. CASE DetectStep
  BY <1>2, DfsPreserves DEF DetectStep, procVars, tableVars, ownVars, OnlyCurrentIsCurr
<1>3. CASE DetectEnd
  <2>1. /\ currpid' \in Pid /\ DOMAIN readyqueue'.n = Pid /\ prstate' \in [Pid -> PrState]
        /\ OnlyCurrentIsCurr'
    BY <1>3, SwitchFacts DEF DetectEnd, OnlyCurrentIsCurr
  <2>2. RagInv'
    BY <1>1, <1>3, QuietPreserves DEF DetectEnd, DetectReturn
  <2>3. QED
    BY <1>3, <2>1, <2>2 DEF DetectEnd, tableVars, ownVars
<1>4. CASE RecoverDrain
  <2>1. DOMAIN readyqueue'.n = Pid
    BY <1>4, QueueDomains DEF RecoverDrain, Ready
  <2>2. RagInv'
    BY <1>1, <1>4, QuietPreserves DEF RecoverDrain, ragVars
  <2>3. QED
    BY <1>4, <2>1, <2>2 DEF RecoverDrain, ownVars, OnlyCurrentIsCurr
<1>5. CASE RecoverNobody
  <2>1. RagInv'
    BY <1>1, <1>5, QuietPreserves DEF RecoverNobody
  <2>2. QED
    BY <1>5, <2>1 DEF RecoverNobody, procVars, tableVars, ownVars, OnlyCurrentIsCurr
<1>6. ASSUME dphase = "recover", RecoverRest
      PROVE  /\ RagInv' /\ lock' \in [Lock -> BOOLEAN] /\ held' \in [Pid -> SUBSET Lock]
             /\ UNCHANGED <<currpid, lstate, target, torn>>
  <2>1. RAG' \in SUBSET (Vertex \X Vertex)
    BY <1>1, <1>6 DEF RecoverRest, rag_dealloc
  <2>2. RagInv'
    BY <1>6, <2>1, QuietPreserves DEF RecoverRest
  <2>3. QED
    BY <1>6, <2>2 DEF RecoverRest
<1>7. CASE RecoverAgain
  BY <1>6, <1>7 DEF RecoverAgain, Drained, OnlyCurrentIsCurr
<1>8. CASE RecoverLast
  <2>1. RagInv'
    BY <1>1, <1>8, QuietPreserves DEF RecoverLast, Drained, ragVars
  <2>2. QED
    BY <1>8, <2>1 DEF RecoverLast, tableVars, ownVars, OnlyCurrentIsCurr
<1>9. CASE RecoverReady
  <2>1. DOMAIN readyqueue'.n = Pid
    BY <1>9, QueueDomains DEF RecoverReady
  <2>2. prstate' \in [Pid -> PrState] /\ OnlyCurrentIsCurr'
    BY <1>6, <1>9 DEF RecoverReady, Drained, OnlyCurrentIsCurr, PrState
  <2>3. QED
    BY <1>6, <1>9, <2>1, <2>2 DEF RecoverReady, Drained
<1>10. CASE RecoverCurrent
  <2> DEFINE st == [prstate EXCEPT ![victim] = "FREE"]
  <2>1. st \in [Pid -> PrState] /\ \A p \in Pid : st[p] = "CURR" => p = currpid
    BY DEF PrState, OnlyCurrentIsCurr
  <2>2. Switch(st, readyqueue)
    BY <1>10 DEF RecoverCurrent
  <2>3. /\ currpid' \in Pid /\ DOMAIN readyqueue'.n = Pid /\ prstate' \in [Pid -> PrState]
        /\ OnlyCurrentIsCurr'
    BY <2>1, <2>2, SwitchFacts
  <2>4. RagInv'
    BY <1>1, <1>10, QuietPreserves DEF RecoverCurrent, Drained
  <2>5. QED
    BY <1>10, <2>3, <2>4 DEF RecoverCurrent, tableVars
<1>11. QED
  BY <1>2, <1>3, <1>4, <1>5, <1>7, <1>8, <1>9, <1>10 DEF DetectWork, RecoverStep

\* The trail is what a report leaves, and nothing takes it away.
LEMMA ReportPreserved ==
  ASSUME LocksInv, OutsideStep \/ DetectWork
  PROVE  ReportInv' /\ (deadlocks' = <<>> => deadlocks = <<>>)
<1>1. CASE OutsideStep
  <2>1. DetectEntry \/ UNCHANGED detectVars
    BY <1>1, OutsideStepFacts
  <2>2. QED
    BY <2>1 DEF LocksInv, ReportInv, DetectEntry, detectVars
<1>2. CASE DfsReport
  <2>1. deadlocks \in Seq(Vertex) /\ stack \in Seq(Vertex) /\ stack # <<>>
    BY <1>2 DEF LocksInv, RagInv, RagTypeOK, DfsReport, Store, Closes, InSearch
  <2>2. deadlocks' = deadlocks \o Reverse(stack)
    BY <1>2 DEF DfsReport, Store
  <2>3. Len(deadlocks') > 0 /\ deadlocks' # <<>>
    BY <2>1, <2>2, TrailTypes
  <2>4. QED
    BY <2>3 DEF ReportInv
<1>3. CASE DfsStep /\ ~DfsReport
  <2>1. UNCHANGED <<deadlocks, reported>> /\ dphase' # "recover"
    BY <1>3 DEF DfsStep, DfsSkip, DfsRoot, DfsDescend, DfsEnter, DfsReturn,
       AtRoot, InSearch, InScan
  <2>2. QED
    BY <2>1 DEF LocksInv, ReportInv
<1>4. CASE DetectEnd
  BY <1>4 DEF DetectEnd, DetectReturn, LocksInv, ReportInv
<1>5. CASE RecoverStep
  <2>1. dphase = "recover" /\ UNCHANGED deadlocks
    BY <1>5 DEF RecoverStep, RecoverDrain, RecoverNobody, RecoverAgain, RecoverLast,
       RecoverReady, RecoverCurrent, RecoverRest, Drained, ragVars, detectVars
  <2>2. QED
    BY <2>1 DEF LocksInv, ReportInv
<1>6. QED
  BY <1>1, <1>2, <1>3, <1>4, <1>5 DEF DetectWork, DetectStep

\* A step of the detection after which there still is no report has looked at the
\* locks and the graph and touched neither.
LEMMA QuietDetection ==
  ASSUME LocksInv, DetectWork, Intact'
  PROVE  Intact /\ UNCHANGED <<RAG, lstate, lock, pc, target, held, torn>>
<1>1. deadlocks = <<>> /\ dphase # "recover"
  BY ReportPreserved DEF LocksInv, ReportInv, Intact
<1>2. CASE DetectStep
  BY <1>1, <1>2, DfsPreserves DEF DetectStep, LocksInv, tableVars, ownVars, Intact
<1>3. CASE DetectEnd
  BY <1>1, <1>3 DEF DetectEnd, DetectReturn, tableVars, ownVars, Intact
<1>4. CASE RecoverStep
  BY <1>1, <1>4 DEF RecoverStep, RecoverDrain, RecoverNobody, RecoverAgain, RecoverLast,
     RecoverReady, RecoverCurrent, Drained
<1>5. QED
  BY <1>2, <1>3, <1>4 DEF DetectWork

----------------------------------------------------------------------------
\* An edge is told by the process, the lock and the direction.
LEMMA PairFacts ==
  \A p, q \in Pid, l, k \in Lock :
    /\ <<Proc(q), k>> # <<l, Proc(p)>> /\ <<k, Proc(q)>> # <<Proc(p), l>>
    /\ <<Proc(q), k>> = <<Proc(p), l>> <=> q = p /\ k = l
    /\ <<k, Proc(q)>> = <<l, Proc(p)>> <=> q = p /\ k = l
BY ProcFacts

\* What the three operations of the graph do to it, edge by edge.
LEMMA RequestEdges ==
  ASSUME NEW g, NEW p \in Pid, NEW l \in Lock
  PROVE  \A k \in Lock, q \in Pid :
           /\ <<Proc(q), k>> \in rag_request(g, p, l) <=> <<Proc(q), k>> \in g \/ (q = p /\ k = l)
           /\ <<k, Proc(q)>> \in rag_request(g, p, l) <=> <<k, Proc(q)>> \in g
BY PairFacts DEF rag_request

\* The request becomes an allocation.
LEMMA AllocEdges ==
  ASSUME NEW g, NEW p \in Pid, NEW l \in Lock
  PROVE  \A k \in Lock, q \in Pid :
           /\ <<Proc(q), k>> \in rag_alloc(g, p, l) <=> <<Proc(q), k>> \in g /\ ~(q = p /\ k = l)
           /\ <<k, Proc(q)>> \in rag_alloc(g, p, l) <=> <<k, Proc(q)>> \in g \/ (q = p /\ k = l)
BY PairFacts DEF rag_alloc

\* Both edges go.
LEMMA DeallocEdges ==
  ASSUME NEW g, NEW p \in Pid, NEW l \in Lock
  PROVE  \A k \in Lock, q \in Pid :
           /\ <<Proc(q), k>> \in rag_dealloc(g, p, l) <=> <<Proc(q), k>> \in g /\ ~(q = p /\ k = l)
           /\ <<k, Proc(q)>> \in rag_dealloc(g, p, l) <=> <<k, Proc(q)>> \in g /\ ~(q = p /\ k = l)
BY PairFacts DEF rag_dealloc

\* The edges they add run between the process and the lock they are about.
LEMMA EdgeShapes ==
  ASSUME NEW g, NEW p \in Pid, NEW l \in Lock, Bipartite(g)
  PROVE  /\ Bipartite(rag_request(g, p, l))
         /\ Bipartite(rag_alloc(g, p, l))
         /\ Bipartite(rag_dealloc(g, p, l))
<1>1. ASSUME NEW h, \A e \in h : e \in g \/ e = <<l, Proc(p)>> \/ e = <<Proc(p), l>>
      PROVE  Bipartite(h)
  BY <1>1 DEF Bipartite
<1>2. QED
  BY <1>1 DEF rag_request, rag_alloc, rag_dealloc

----------------------------------------------------------------------------
\* A request adds an edge and changes no owner.
LEMMA RequestKeepsClean ==
  ASSUME OwnTypes, Clean, NEW l \in Lock, AcquireRequest(l)
  PROVE  Clean'
<1>1. \A p \in Pid, k \in Lock :
        /\ held'[p] = held[p]
        /\ Owns(p, k)' <=> Owns(p, k)
        /\ Waits(p, k)' <=> Waits(p, k) \/ (p = currpid /\ k = l)
  BY DEF AcquireRequest, Me, OwnTypes, Owns, Waits
<1>2. OneOwner' /\ WordIsOwner'
  BY <1>1 DEF Clean, OneOwner, WordIsOwner, AcquireRequest
<1>3. GotIsNew' /\ NullNeverWaits'
  BY DEF Clean, GotIsNew, NullNeverWaits, AcquireRequest, OwnTypes
<1>4. UsersUseUsed'
  BY <1>1 DEF Clean, UsersUseUsed, AcquireRequest
<1>5. EdgeByEdge'
  <2>1. RAG' = rag_request(RAG, currpid, l) /\ currpid \in Pid
    BY DEF AcquireRequest, OwnTypes
  <2>2. Bipartite(RAG')
    BY <2>1, EdgeShapes DEF Clean, EdgeByEdge
  <2>3. \A k \in Lock, q \in Pid :
          /\ <<Proc(q), k>> \in RAG' <=> <<Proc(q), k>> \in RAG \/ (q = currpid /\ k = l)
          /\ <<k, Proc(q)>> \in RAG' <=> <<k, Proc(q)>> \in RAG
    BY <2>1, RequestEdges
  <2>4. QED
    BY <1>1, <2>2, <2>3 DEF Clean, EdgeByEdge
<1>6. QED
  BY <1>2, <1>3, <1>4, <1>5 DEF Clean

\* The test_and_set that succeeds makes the process the owner, before the graph says so.
LEMMA TestAndSetKeepsClean ==
  ASSUME OwnTypes, Clean, TestAndSet
  PROVE  Clean'
<1> DEFINE t == target[currpid]
<1>1. t \in Lock /\ currpid \in Pid /\ ~lock[t]
  BY DEF OwnTypes, TestAndSet
<1>2. \A p \in Pid : ~Owns(p, t)
  BY <1>1 DEF Clean, WordIsOwner
<1>3. \A p \in Pid, k \in Lock :
        /\ held'[p] = held[p]
        /\ Owns(p, k)' <=> Owns(p, k) \/ (p = currpid /\ k = t)
        /\ Waits(p, k)' <=> Waits(p, k)
  BY DEF TestAndSet, Me, OwnTypes, Owns, Waits
<1>4. OneOwner'
  BY <1>1, <1>2, <1>3 DEF Clean, OneOwner
<1>5. \A k \in Lock : lock'[k] <=> lock[k] \/ k = t
  BY <1>1 DEF TestAndSet, OwnTypes
<1>6. WordIsOwner'
  BY <1>1, <1>3, <1>5 DEF Clean, WordIsOwner
<1>7. GotIsNew'
  BY <1>1, <1>2 DEF Clean, GotIsNew, TestAndSet, OwnTypes, Owns
<1>8. NullNeverWaits' /\ UsersUseUsed'
  BY <1>3 DEF Clean, NullNeverWaits, UsersUseUsed, TestAndSet, Me, OwnTypes
<1>9. EdgeByEdge'
  BY <1>3 DEF Clean, EdgeByEdge, TestAndSet, ragVars
<1>10. QED
  BY <1>4, <1>6, <1>7, <1>8, <1>9 DEF Clean

\* acquire returns: the request edge becomes the allocation edge.
LEMMA ReturnKeepsClean ==
  ASSUME OwnTypes, Clean, AcquireReturn
  PROVE  Clean'
<1> DEFINE t == target[currpid]
<1>1. t \in Lock /\ currpid \in Pid
  BY DEF OwnTypes
<1>2. \A p \in Pid, k \in Lock :
        /\ k \in held'[p] <=> k \in held[p] \/ (p = currpid /\ k = t)
        /\ Owns(p, k)' <=> Owns(p, k)
        /\ Waits(p, k)' <=> Waits(p, k) /\ ~(p = currpid /\ k = t)
  BY DEF AcquireReturn, Me, OwnTypes, Owns, Waits
<1>3. OneOwner' /\ WordIsOwner'
  BY <1>2 DEF Clean, OneOwner, WordIsOwner, AcquireReturn, tableVars
<1>4. GotIsNew' /\ NullNeverWaits'
  BY DEF Clean, GotIsNew, NullNeverWaits, AcquireReturn, OwnTypes, Me
<1>5. UsersUseUsed'
  BY <1>1, <1>2 DEF Clean, UsersUseUsed, AcquireReturn, tableVars, Me, Waits
<1>6. EdgeByEdge'
  <2>1. RAG' = rag_alloc(RAG, currpid, t)
    BY DEF AcquireReturn
  <2>2. Bipartite(RAG')
    BY <1>1, <2>1, EdgeShapes DEF Clean, EdgeByEdge
  <2>3. \A k \in Lock, q \in Pid :
          /\ <<Proc(q), k>> \in RAG' <=> <<Proc(q), k>> \in RAG /\ ~(q = currpid /\ k = t)
          /\ <<k, Proc(q)>> \in RAG' <=> <<k, Proc(q)>> \in RAG \/ (q = currpid /\ k = t)
    BY <1>1, <2>1, AllocEdges
  <2>4. \A k \in Lock, q \in Pid : <<k, Proc(q)>> \in RAG' <=> k \in held'[q]
    <3>1. TAKE k \in Lock, q \in Pid
    <3>2. <<k, Proc(q)>> \in RAG <=> k \in held[q]
      BY DEF Clean, EdgeByEdge
    <3>3. QED
      BY <1>2, <2>3, <3>2
  <2>5. \A k \in Lock, q \in Pid : <<Proc(q), k>> \in RAG' <=> Waits(q, k)'
    <3>1. TAKE k \in Lock, q \in Pid
    <3>2. <<Proc(q), k>> \in RAG <=> Waits(q, k)
      BY DEF Clean, EdgeByEdge
    <3>3. QED
      BY <1>2, <2>3, <3>2
  <2>6. QED
    BY <2>2, <2>4, <2>5 DEF EdgeByEdge
<1>7. QED
  BY <1>3, <1>4, <1>5, <1>6 DEF Clean

\* release takes the lock from its owner and the edge out of the graph.
LEMMA ReleaseKeepsClean ==
  ASSUME OwnTypes, Clean, NEW l \in Lock, Release(l)
  PROVE  Clean'
<1>1. currpid \in Pid /\ Owns(currpid, l)
  BY DEF Release, OwnTypes, Owns
<1>2. \A p \in Pid, k \in Lock :
        /\ k \in held'[p] <=> k \in held[p] /\ ~(p = currpid /\ k = l)
        /\ Owns(p, k)' <=> Owns(p, k) /\ ~(p = currpid /\ k = l)
        /\ Waits(p, k)' <=> Waits(p, k)
  BY DEF Release, Me, OwnTypes, Owns, Waits
<1>3. OneOwner'
  BY <1>2 DEF Clean, OneOwner
<1>4. \A k \in Lock : lock'[k] <=> lock[k] /\ k # l
  BY DEF Release, OwnTypes
<1>5. WordIsOwner'
  <2>1. \A p \in Pid : ~Owns(p, l)'
    BY <1>1, <1>2 DEF Clean, OneOwner
  <2>2. QED
    BY <1>2, <1>4, <2>1 DEF Clean, WordIsOwner
<1>6. GotIsNew' /\ NullNeverWaits'
  BY <1>1, <1>2 DEF Clean, GotIsNew, NullNeverWaits, Release, OwnTypes
<1>7. UsersUseUsed'
  BY <1>2 DEF Clean, UsersUseUsed, Release
<1>8. EdgeByEdge'
  <2>1. RAG' = rag_dealloc(RAG, currpid, l)
    BY DEF Release
  <2>2. Bipartite(RAG')
    BY <1>1, <2>1, EdgeShapes DEF Clean, EdgeByEdge
  <2>3. ~Waits(currpid, l)
    BY DEF Release, Me, Waits
  <2>4. \A k \in Lock, q \in Pid :
          /\ <<Proc(q), k>> \in RAG' <=> <<Proc(q), k>> \in RAG /\ ~(q = currpid /\ k = l)
          /\ <<k, Proc(q)>> \in RAG' <=> <<k, Proc(q)>> \in RAG /\ ~(q = currpid /\ k = l)
    BY <1>1, <2>1, DeallocEdges
  <2>5. \A k \in Lock, q \in Pid : <<k, Proc(q)>> \in RAG' <=> k \in held'[q]
    <3>1. TAKE k \in Lock, q \in Pid
    <3>2. <<k, Proc(q)>> \in RAG <=> k \in held[q]
      BY DEF Clean, EdgeByEdge
    <3>3. QED
      BY <1>2, <2>4, <3>2
  <2>6. \A k \in Lock, q \in Pid : <<Proc(q), k>> \in RAG' <=> Waits(q, k)'
    <3>1. TAKE k \in Lock, q \in Pid
    <3>2. <<Proc(q), k>> \in RAG <=> Waits(q, k)
      BY DEF Clean, EdgeByEdge
    <3>3. QED
      BY <1>2, <2>3, <2>4, <3>2
  <2>7. QED
    BY <2>2, <2>5, <2>6 DEF EdgeByEdge
<1>9. QED
  BY <1>3, <1>5, <1>6, <1>7, <1>8 DEF Clean

\* A new lock has no owner and no edge.
LEMMA CreateKeepsClean ==
  ASSUME OwnTypes, Clean, NEW l \in Lock, LockCreate(l)
  PROVE  Clean'
<1>1. UNCHANGED <<RAG, pc, target, held>> /\ lstate[l] = "FREE"
  BY DEF LockCreate, ragVars, ownVars
<1>2. \A p \in Pid, k \in Lock : (Owns(p, k)' <=> Owns(p, k)) /\ (Waits(p, k)' <=> Waits(p, k))
  BY <1>1 DEF Owns, Waits
<1>3. OneOwner' /\ GotIsNew' /\ NullNeverWaits' /\ EdgeByEdge'
  BY <1>1, <1>2 DEF Clean, OneOwner, GotIsNew, NullNeverWaits, EdgeByEdge
<1>4. UsersUseUsed'
  BY <1>1, <1>2 DEF Clean, UsersUseUsed, LockCreate, OwnTypes
<1>5. \A p \in Pid : ~Owns(p, l)
  BY <1>1 DEF Clean, UsersUseUsed, Owns, Waits
<1>6. \A k \in Lock : lock'[k] <=> lock[k] /\ k # l
  BY DEF LockCreate, OwnTypes
<1>7. WordIsOwner'
  BY <1>2, <1>5, <1>6 DEF Clean, WordIsOwner
<1>8. QED
  BY <1>3, <1>4, <1>7 DEF Clean

\* A lock that nobody holds or waits for has no edge that lock_delete could leave.
LEMMA DeleteKeepsClean ==
  ASSUME OwnTypes, Clean, NEW l \in Lock, LockDelete(l), torn' = FALSE
  PROVE  Clean'
<1>1. UNCHANGED <<pc, target, held>> /\ ~InUse(l)
  BY DEF LockDelete
<1>2. \A p \in Pid : l \notin held[p] /\ ~Waits(p, l)
  BY <1>1 DEF InUse, Waits
<1>3. \A p \in Pid, k \in Lock : (Owns(p, k)' <=> Owns(p, k)) /\ (Waits(p, k)' <=> Waits(p, k))
  BY <1>1 DEF Owns, Waits
<1>4. RAG' = RAG
  <2>1. ASSUME NEW last
        PROVE  DeletedEdges(l, last) = RAG
    <3> DEFINE gone == Entries(Dequeued(wait_queue[l], last))
               lost == {<<Proc(p), l>> : p \in gone} \union {<<l, Proc(p)>> : p \in gone}
    <3>1. \A e \in lost : \E p \in gone : e = <<Proc(p), l>> \/ e = <<l, Proc(p)>>
      OBVIOUS
    <3>2. \A e \in RAG : e \notin lost
      <4>1. SUFFICES ASSUME NEW e \in RAG, e \in lost
                     PROVE  FALSE
        OBVIOUS
      <4>2. PICK r \in gone : e = <<Proc(r), l>> \/ e = <<l, Proc(r)>>
        BY <3>1, <4>1
      <4>3. PICK k \in Lock, q \in Pid : e = <<k, Proc(q)>> \/ e = <<Proc(q), k>>
        BY <4>1 DEF Clean, EdgeByEdge, Bipartite
      <4>4. k = l
        BY <4>2, <4>3, ProcFacts
      <4>5. QED
        BY <1>2, <4>1, <4>3, <4>4 DEF Clean, EdgeByEdge
    <3>3. DeletedEdges(l, last) = RAG \ lost
      BY DEF DeletedEdges
    <3>4. QED
      BY <3>2, <3>3
  <2>2. QED
    BY <2>1 DEF LockDelete
<1>5. OneOwner' /\ GotIsNew' /\ NullNeverWaits' /\ EdgeByEdge'
  BY <1>1, <1>3, <1>4 DEF Clean, OneOwner, GotIsNew, NullNeverWaits, EdgeByEdge
<1>6. UsersUseUsed'
  BY <1>1, <1>2, <1>3 DEF Clean, UsersUseUsed, LockDelete, OwnTypes
<1>7. \A k \in Lock : lock'[k] <=> lock[k] /\ k # l
  BY DEF LockDelete, OwnTypes
<1>8. \A p \in Pid : ~Owns(p, l)
  BY <1>2 DEF Owns, Waits
<1>9. WordIsOwner'
  BY <1>3, <1>7, <1>8 DEF Clean, WordIsOwner
<1>10. QED
  BY <1>5, <1>6, <1>9 DEF Clean

\* A process that exits, between its calls, leaves its locks as they are.
LEMMA ExitKeepsClean ==
  ASSUME OwnTypes, Clean, Exit
  PROVE  Clean'
<1>1. /\ UNCHANGED <<RAG, lstate, lock, target, held>> /\ currpid \in Pid \ {NULLPROC}
      /\ pc[currpid] = "run"
      /\ pc' = pc \/ pc' = [pc EXCEPT ![currpid] = "dead"]
  BY DEF Exit, Me, OwnTypes, tableVars
<1>2. \A p \in Pid : pc'[p] = pc[p] \/ (pc[p] = "run" /\ pc'[p] = "dead" /\ p # NULLPROC)
  BY <1>1 DEF OwnTypes
<1>3. \A p \in Pid, k \in Lock : (Owns(p, k)' <=> Owns(p, k)) /\ (Waits(p, k)' <=> Waits(p, k))
  BY <1>1, <1>2 DEF Owns, Waits
<1>4. GotIsNew' /\ NullNeverWaits'
  BY <1>1, <1>2, ProcFacts DEF Clean, GotIsNew, NullNeverWaits
<1>5. OneOwner' /\ WordIsOwner' /\ UsersUseUsed' /\ EdgeByEdge'
  BY <1>1, <1>3 DEF Clean, OneOwner, WordIsOwner, UsersUseUsed, EdgeByEdge
<1>6. QED
  BY <1>4, <1>5 DEF Clean

\* A state in which what Clean speaks of has not changed is as clean as before.
LEMMA CleanFrame ==
  ASSUME Clean, UNCHANGED <<RAG, lstate, lock, pc, target, held>>
  PROVE  Clean'
<1>1. \A p \in Pid, k \in Lock : (Owns(p, k)' <=> Owns(p, k)) /\ (Waits(p, k)' <=> Waits(p, k))
  BY DEF Owns, Waits
<1>2. QED
  BY <1>1 DEF Clean, OneOwner, WordIsOwner, GotIsNew, UsersUseUsed, NullNeverWaits, EdgeByEdge

----------------------------------------------------------------------------
\* While nothing has been reported and no lock in use deleted, the processes'
\* own steps keep locks and graph in agreement.
LEMMA OutsideKeepsClean ==
  ASSUME LocksInv, OutsideStep, Intact'
  PROVE  Clean'
<1>1. deadlocks = <<>> /\ torn' = FALSE
  BY ReportPreserved, OutsideStepFacts DEF Intact, OwnTypes
<1>2. torn = FALSE
  BY <1>1 DEF OutsideStep, LockStep, AcquireRequest, Release, LockCreate, LockDelete, TestAndSet,
     AcquireReturn, Exit, Preempt, ownVars, LocksInv, OwnTypes
<1>3. OwnTypes /\ Clean
  BY <1>1, <1>2 DEF LocksInv, Intact
<1>4. CASE \E l \in Lock : AcquireRequest(l) \/ Release(l) \/ LockCreate(l) \/ LockDelete(l)
  BY <1>1, <1>3, <1>4, RequestKeepsClean, ReleaseKeepsClean, CreateKeepsClean, DeleteKeepsClean
<1>5. CASE Preempt
  BY <1>3, <1>5, CleanFrame DEF Preempt, tableVars, ownVars
<1>6. QED
  BY <1>3, <1>4, <1>5, TestAndSetKeepsClean, ReturnKeepsClean, ExitKeepsClean
     DEF OutsideStep, LockStep

\* Every step preserves the invariant.
LEMMA LocksStepPreserves ==
  ASSUME LocksInv, [Next]_vars
  PROVE  LocksInv'
<1>1. CASE OutsideStep
  <2>1. /\ OwnTypes' /\ OnlyCurrentIsCurr' /\ dphase = "idle"
        /\ RAG' \in SUBSET (Vertex \X Vertex)
        /\ DetectEntry \/ UNCHANGED detectVars
    BY <1>1, OutsideStepFacts
  <2>2. RagInv'
    BY <2>1, EntryEstablishes, QuietPreserves DEF LocksInv, RagInv
  <2>3. QED
    BY <1>1, <2>1, <2>2, ReportPreserved, OutsideKeepsClean DEF LocksInv
<1>2. CASE DetectWork
  <2>1. OwnTypes' /\ OnlyCurrentIsCurr' /\ RagInv' /\ ReportInv'
    BY <1>2, DetectWorkFacts, ReportPreserved
  <2>2. Intact' => Clean'
    <3>1. Intact' => Intact /\ UNCHANGED <<RAG, lstate, lock, pc, target, held, torn>>
      BY <1>2, QuietDetection
    <3>2. QED
      BY <3>1, CleanFrame DEF LocksInv
  <2>3. QED
    BY <2>1, <2>2 DEF LocksInv
<1>3. CASE UNCHANGED vars
  <2>1. RagInv'
    BY <1>3, QuietPreserves DEF vars, ragVars, LocksInv, RagInv, RagTypeOK
  <2>2. OwnTypes' /\ ReportInv' /\ OnlyCurrentIsCurr'
    BY <1>3 DEF vars, ragVars, detectVars, procVars, tableVars, ownVars, LocksInv, OwnTypes,
       ReportInv, OnlyCurrentIsCurr
  <2>3. Intact' => Clean'
    BY <1>3, CleanFrame DEF vars, ragVars, detectVars, procVars, tableVars, ownVars, LocksInv, Intact
  <2>4. QED
    BY <2>1, <2>2, <2>3 DEF LocksInv
<1>4. QED
  BY <1>1, <1>2, <1>3 DEF Next, OutsideStep, Stopped

\* The invariant holds when main has returned.
LEMMA InitEstablishes ==
  ASSUME Init
  PROVE  LocksInv
<1>1. RagTypeOK
  <2>1. deadlocks \in Seq(Vertex) /\ stack \in Seq(Vertex) /\ kept = 0
    BY DEF Init, DetectInit
  <2>2. kept \in Nat /\ 0 \in 0 .. SIZE
    BY <2>1, VertexFacts
  <2>3. QED
    BY <2>1, <2>2 DEF Init, DetectInit, init_mat, RagTypeOK
<1>2. PhaseInv /\ SearchInv /\ ReportInv
  BY DEF Init, DetectInit, PhaseInv, SearchInv, ReportInv
<1>3. OwnTypes
  BY ProcFacts DEF Init, OwnTypes, PrState, EmptyQueue
<1>4. OnlyCurrentIsCurr
  BY DEF Init, OnlyCurrentIsCurr
<1>5. \A p \in Pid, l \in Lock : ~Owns(p, l) /\ ~Waits(p, l) /\ l \notin held[p] /\ ~lock[l]
  BY DEF Init, Owns, Waits
<1>6. OneOwner /\ WordIsOwner /\ UsersUseUsed
  <2>1. WordIsOwner
    BY <1>3, <1>5 DEF WordIsOwner, OwnTypes
  <2>2. QED
    BY <1>5, <2>1 DEF OneOwner, UsersUseUsed
<1>7. GotIsNew /\ NullNeverWaits
  BY ProcFacts DEF Init, GotIsNew, NullNeverWaits
<1>8. EdgeByEdge
  BY <1>5 DEF Init, init_mat, EdgeByEdge, Bipartite
<1>9. QED
  BY <1>1, <1>2, <1>3, <1>4, <1>6, <1>7, <1>8 DEF LocksInv, RagInv, Clean

\* The invariant holds of every behaviour.
LEMMA LocksInvariant == Spec => []LocksInv
<1>1. LocksInv /\ [Next]_vars => LocksInv'
  BY LocksStepPreserves
<1>2. QED
  BY <1>1, InitEstablishes, PTL DEF Spec

----------------------------------------------------------------------------
\* One process at most is marked as running, in every behaviour, recoveries and
\* deletions of locks in use included.
THEOREM OneProcessIsCurrent == Spec => []OnlyCurrentIsCurr
<1>1. LocksInv => OnlyCurrentIsCurr
  BY DEF LocksInv
<1>2. QED
  BY <1>1, LocksInvariant, PTL

\* No two processes own a lock, from test_and_set to mutex_unlock, and the lock
\* word says whether one does.
THEOREM LocksExclude == Spec => []MutualExclusion
<1>1. LocksInv => MutualExclusion
  BY DEF LocksInv, Clean, OneOwner, WordIsOwner, MutualExclusion, OwnersOf
<1>2. QED
  BY <1>1, LocksInvariant, PTL

\* The graph that deadlock_detect searches is the one the locks are in.
THEOREM GraphIsExact == Spec => []RagExact
<1>1. ASSUME LocksInv
      PROVE  RagExact
  <2>1. SUFFICES ASSUME Intact
                 PROVE  RAG = {e \in Vertex \X Vertex : \E l \in Lock, p \in Pid :
                          (e = <<l, Proc(p)>> /\ l \in held[p]) \/ (e = <<Proc(p), l>> /\ Waits(p, l))}
    BY DEF RagExact
  <2>2. EdgeByEdge /\ RAG \subseteq Vertex \X Vertex
    BY <1>1, <2>1 DEF LocksInv, Clean, RagInv, RagTypeOK
  <2>3. ASSUME NEW e \in RAG
        PROVE  \E l \in Lock, p \in Pid :
                 (e = <<l, Proc(p)>> /\ l \in held[p]) \/ (e = <<Proc(p), l>> /\ Waits(p, l))
    BY <2>2, <2>3 DEF EdgeByEdge, Bipartite
  <2>4. ASSUME NEW l \in Lock, NEW p \in Pid
        PROVE  /\ l \in held[p] => <<l, Proc(p)>> \in RAG
               /\ Waits(p, l) => <<Proc(p), l>> \in RAG
    BY <2>2 DEF EdgeByEdge
  <2>5. ASSUME NEW e \in Vertex \X Vertex,
               \E l \in Lock, p \in Pid :
                 (e = <<l, Proc(p)>> /\ l \in held[p]) \/ (e = <<Proc(p), l>> /\ Waits(p, l))
        PROVE  e \in RAG
    BY <2>4, <2>5
  <2>6. QED
    BY <2>2, <2>3, <2>5
<1>2. LocksInv => RagExact
  BY <1>1
<1>3. QED
  BY <1>2, LocksInvariant, PTL

\* In an exact graph, a process that waits for a lock that somebody has in the
\* graph spins: it is not the one that has just taken it.
LEMMA WaiterSpins ==
  ASSUME OwnTypes, Clean, NEW p \in Pid, NEW q \in Pid, NEW l \in Lock,
         <<Proc(p), l>> \in RAG, <<l, Proc(q)>> \in RAG
  PROVE  p \in User /\ pc[p] = "spin" /\ target[p] = l /\ l \in held[q]
<1>1. Waits(p, l) /\ l \in held[q]
  BY DEF Clean, EdgeByEdge
<1>2. pc[p] # "got"
  <2>1. SUFFICES ASSUME pc[p] = "got"
                 PROVE  FALSE
    OBVIOUS
  <2>2. Owns(p, l) /\ Owns(q, l)
    BY <1>1, <2>1 DEF Owns, Waits
  <2>3. p = q
    BY <2>2 DEF Clean, OneOwner
  <2>4. QED
    BY <1>1, <2>1, <2>3 DEF Clean, GotIsNew, Waits
<1>3. p # NULLPROC
  BY <1>1 DEF Clean, NullNeverWaits, Waits
<1>4. QED
  BY <1>1, <1>2, <1>3 DEF Waits, User

\* A cycle of an exact graph is a circle of processes that spin.
LEMMA CycleIsCircularWait ==
  ASSUME OwnTypes, Clean, HasCycle(RAG)
  PROVE  CircularWait
<1>1. PICK C \in SUBSET Vertex : CycleIn(RAG, C)
  BY DEF HasCycle
<1> DEFINE P == {p \in Pid : Proc(p) \in C}
<1>2. EdgeByEdge
  BY DEF Clean
<1>3. ASSUME NEW v \in C, v \in Lock
      PROVE  \E q \in P : <<v, Proc(q)>> \in RAG
  <2>1. PICK w \in C : <<v, w>> \in RAG
    BY <1>1 DEF CycleIn
  <2>2. PICK l \in Lock, q \in Pid : <<v, w>> = <<l, Proc(q)>> \/ <<v, w>> = <<Proc(q), l>>
    BY <1>2, <2>1 DEF EdgeByEdge, Bipartite
  <2>3. w = Proc(q)
    BY <1>3, <2>2, ProcFacts
  <2>4. QED
    BY <2>1, <2>3
<1>4. ASSUME NEW p \in P
      PROVE  \E l \in C \intersect Lock : <<Proc(p), l>> \in RAG
  <2>1. PICK w \in C : <<Proc(p), w>> \in RAG
    BY <1>1 DEF CycleIn
  <2>2. PICK l \in Lock, q \in Pid :
          <<Proc(p), w>> = <<l, Proc(q)>> \/ <<Proc(p), w>> = <<Proc(q), l>>
    BY <1>2, <2>1 DEF EdgeByEdge, Bipartite
  <2>3. w = l
    BY <2>2, ProcFacts
  <2>4. QED
    BY <2>1, <2>3
<1>5. ASSUME NEW p \in P
      PROVE  p \in User /\ pc[p] = "spin" /\ \E q \in P : target[p] \in held[q]
  <2>1. PICK l \in C \intersect Lock : <<Proc(p), l>> \in RAG
    BY <1>4
  <2>2. PICK q \in P : <<l, Proc(q)>> \in RAG
    BY <1>3
  <2>3. QED
    BY <2>1, <2>2, WaiterSpins
<1>6. P # {}
  <2>1. PICK v \in C, w \in C : <<v, w>> \in RAG
    BY <1>1 DEF CycleIn
  <2>2. \E p \in Pid : v = Proc(p) \/ w = Proc(p)
    BY <1>2, <2>1 DEF EdgeByEdge, Bipartite
  <2>3. QED
    BY <2>1, <2>2
<1>7. P \in SUBSET User
  BY <1>5
<1>8. QED
  BY <1>5, <1>6, <1>7 DEF CircularWait

\* A step that begins the trail is the report of a scan that had reported nothing.
LEMMA FirstReportStep ==
  ASSUME LocksInv, Next, Intact, deadlocks' # <<>>
  PROVE  DfsReport /\ ~reported /\ OwnTypes /\ Clean
<1>1. deadlocks = <<>> /\ ~reported /\ dphase # "recover" /\ OwnTypes /\ Clean
  BY DEF LocksInv, ReportInv, Intact
<1>2. ~OutsideStep
  <2>1. SUFFICES ASSUME OutsideStep
                 PROVE  deadlocks' = deadlocks
    BY <1>1
  <2>2. QED
    BY OutsideStepFacts, <2>1 DEF DetectEntry, detectVars
<1>3. DetectWork
  BY <1>1, <1>2 DEF Next, OutsideStep, Stopped, vars, ragVars, detectVars
<1>4. ~DetectEnd /\ ~RecoverStep
  BY <1>1 DEF DetectEnd, DetectReturn, RecoverStep, RecoverDrain, RecoverNobody, RecoverAgain,
     RecoverLast, RecoverReady, RecoverCurrent, Drained
<1>5. DfsReport
  BY <1>1, <1>3, <1>4 DEF DetectWork, DetectStep, DfsStep, DfsSkip, DfsRoot, DfsDescend, DfsEnter,
     DfsReturn
<1>6. QED
  BY <1>1, <1>5

\* The first report since boot is of processes that wait for one another.
THEOREM FirstReportIsReal == Spec => FirstReportIsDeadlock
<1>1. ASSUME LocksInv, Next, Intact, deadlocks' # <<>>
      PROVE  CircularWait
  <2>1. DfsReport /\ ~reported /\ OwnTypes /\ Clean
    BY <1>1, FirstReportStep
  <2>2. HasCycle(RAG)
    BY <1>1, <2>1, ReportIsCyclic DEF LocksInv
  <2>3. QED
    BY <2>1, <2>2, CycleIsCircularWait
<1>2. LocksInv /\ [Next]_vars => [Intact /\ deadlocks' # <<>> => CircularWait]_vars
  BY <1>1
<1>3. QED
  BY <1>2, LocksInvariant, PTL DEF Spec, FirstReportIsDeadlock

\* When the first report gives a process and a lock, the process holds the lock
\* and spins for another.
THEOREM FirstVictimIsFit == Spec => FirstVictimHoldsLock
<1>1. ASSUME LocksInv, Next, Intact, deadlocks' # <<>>, VictimOK'
      PROVE  lockid' \in held[victim'] /\ pc[victim'] = "spin"
  <2> DEFINE n == Len(stack)
  <2>1. DfsReport /\ ~reported /\ OwnTypes /\ Clean
    BY <1>1, FirstReportStep
  <2>2. /\ stack \in Seq(Vertex) /\ stack # <<>> /\ n \in Nat \ {0}
        /\ StackIsPath /\ deadlocks = <<>> /\ dphase = "scan"
    BY <1>1, <2>1 DEF LocksInv, RagInv, RagTypeOK, SearchInv, DfsReport, Store, Closes, InSearch, InScan, Intact
  <2>3. deadlocks' = Reverse(stack)
    BY <2>1, <2>2 DEF DfsReport, Store, Closes, Reverse
  <2>4. PICK w \in recur : <<stack[n], w>> \in RAG
    BY <2>1 DEF DfsReport, Store, Closes, IsNext, Pending, Top
  <2>5. PICK k \in 1 .. n : w = stack[k]
    BY <2>2, <2>4 DEF StackIsPath
  <2>6. Reverse(stack)[1] = stack[n] /\ (n > 1 => Reverse(stack)[2] = stack[n - 1])
    BY <2>2 DEF Reverse
  <2>7. victim' \in Pid /\ lockid' \in Lock /\ Proc(victim') = stack[n]
    <3>1. stack[n] \in ProcVertex /\ deadlocks'[2] \in Lock
      BY <1>1, <2>3, <2>6 DEF VictimOK
    <3>2. victim' = stack[n] - NLOCK /\ lockid' = deadlocks'[2]
      BY <2>3, <2>6 DEF victim, lockid
    <3>3. QED
      BY <3>1, <3>2, SizeAssumption DEF ProcVertex, SIZE, Pid, Proc
  <2>8. PICK l \in Lock : w = l /\ <<Proc(victim'), l>> \in RAG
    <3>1. PICK l \in Lock, q \in Pid :
            <<stack[n], w>> = <<l, Proc(q)>> \/ <<stack[n], w>> = <<Proc(q), l>>
      BY <2>1, <2>4 DEF Clean, EdgeByEdge, Bipartite
    <3>2. w = l
      BY <2>7, <3>1, ProcFacts
    <3>3. QED
      BY <2>4, <2>7, <3>2
  <2>9. k \in 1 .. (n - 1) /\ n > 1
    <3>1. stack[k] # stack[n]
      BY <2>5, <2>7, <2>8, ProcFacts
    <3>2. k # n
      BY <3>1
    <3>3. QED
      BY <2>2, <2>5, <3>2
  <2>10. PICK q \in Pid : <<l, Proc(q)>> \in RAG
    <3>1. <<l, stack[k + 1]>> \in RAG
      <4>1. <<stack[k], stack[k + 1]>> \in RAG
        BY <2>2, <2>9 DEF StackIsPath
      <4>2. QED
        BY <2>5, <2>8, <4>1
    <3>2. PICK m \in Lock, q \in Pid :
            <<l, stack[k + 1]>> = <<m, Proc(q)>> \/ <<l, stack[k + 1]>> = <<Proc(q), m>>
      BY <2>1, <3>1 DEF Clean, EdgeByEdge, Bipartite
    <3>3. stack[k + 1] = Proc(q)
      BY <3>2, ProcFacts
    <3>4. QED
      BY <3>1, <3>3
  <2>11. pc[victim'] = "spin"
    BY <2>1, <2>7, <2>8, <2>10, WaiterSpins
  <2>12. lockid' \in held[victim']
    <3>1. lockid' = stack[n - 1]
      BY <2>3, <2>6, <2>9 DEF lockid
    <3>2. <<lockid', Proc(victim')>> \in RAG
      BY <2>2, <2>7, <2>9, <3>1 DEF StackIsPath
    <3>3. QED
      BY <2>1, <2>7, <3>2 DEF Clean, EdgeByEdge
  <2>13. QED
    BY <2>11, <2>12
<1>2. LocksInv /\ [Next]_vars
        => [Intact /\ deadlocks' # <<>> /\ VictimOK'
              => lockid' \in held[victim'] /\ pc[victim'] = "spin"]_vars
  BY <1>1
<1>3. QED
  BY <1>2, LocksInvariant, PTL DEF Spec, FirstVictimHoldsLock

\* No step of any process ends a deadlock: the processes of the circle only spin,
\* and the others have none of its locks.
THEOREM DeadlockStays == Spec => DeadlockIsStable
<1>1. ASSUME LocksInv, Next, CircularWait, Intact'
      PROVE  CircularWait'
  <2>1. PICK C \in SUBSET User : C # {} /\ \A p \in C :
          pc[p] = "spin" /\ \E q \in C : target[p] \in held[q]
    BY <1>1 DEF CircularWait
  <2>2. SUFFICES \A p \in C : /\ pc'[p] = "spin" /\ target'[p] = target[p]
                              /\ held[p] \subseteq held'[p]
    BY <2>1 DEF CircularWait
  <2>3. OwnTypes /\ C \subseteq Pid
    BY <1>1, <2>1 DEF LocksInv, User
  <2>4. CASE pc[currpid] # "spin" /\ OutsideStep
    <3>1. currpid \notin C
      BY <2>1, <2>4
    <3>2. QED
      BY <2>1, <2>3, <2>4, <3>1 DEF OwnTypes, OutsideStep, LockStep, AcquireRequest, Release,
         LockCreate, LockDelete, TestAndSet, AcquireReturn, Exit, Preempt, ownVars
  <2>5. CASE pc[currpid] = "spin" /\ Preempt
    BY <2>1, <2>5 DEF Preempt, ownVars
  <2>6. CASE TestAndSet
    <3>1. deadlocks = <<>> /\ torn = FALSE
      BY <1>1, <2>6 DEF TestAndSet, Intact, ragVars, detectVars, LocksInv, OwnTypes
    <3>2. Clean
      BY <1>1, <3>1 DEF LocksInv, Intact
    <3>3. \A p \in C : lock[target[p]]
      BY <2>1, <2>3, <3>2 DEF Clean, WordIsOwner, Owns, OwnTypes
    <3>4. currpid \notin C
      BY <2>6, <3>3 DEF TestAndSet
    <3>5. QED
      BY <2>1, <2>3, <2>6, <3>4 DEF TestAndSet, OwnTypes
  <2>7. CASE DetectWork
    BY <1>1, <2>1, <2>7, QuietDetection
  <2>8. CASE Stopped
    BY <2>1, <2>8 DEF Stopped, vars, ownVars
  <2>9. pc[currpid] = "spin" /\ OutsideStep => Preempt \/ TestAndSet
    BY DEF OutsideStep, LockStep, AcquireRequest, Release, LockCreate, LockDelete, AcquireReturn,
       Exit, Me
  <2>10. QED
    BY <1>1, <2>4, <2>5, <2>6, <2>7, <2>8, <2>9 DEF Next, OutsideStep
<1>2. LocksInv /\ [Next]_vars => [CircularWait /\ Intact' => CircularWait']_vars
  BY <1>1
<1>3. QED
  BY <1>2, LocksInvariant, PTL DEF Spec, DeadlockIsStable
----------------------------------------------------------------------------
\* The queues.

\* A queue that is as long as it says, and has room for its entries.
Sound(q) ==
  /\ q \in QueueType
  /\ IsFiniteSet(EntriesOf(q.n)) /\ Cardinality(EntriesOf(q.n)) = q.size

\* What the entries are.
LEMMA EntryFacts ==
  ASSUME NEW n, DOMAIN n = Pid
  PROVE  /\ \A t \in EntriesOf(n) : t[1] \in Pid /\ t[2] \in 1 .. n[t[1]] /\ t = <<t[1], t[2]>>
         /\ \A p \in Pid : \A i \in 1 .. n[p] : <<p, i>> \in EntriesOf(n)
<1>1. ASSUME NEW t \in EntriesOf(n)
      PROVE  t[1] \in Pid /\ t[2] \in 1 .. n[t[1]] /\ t = <<t[1], t[2]>>
  <2>1. PICK p \in Pid : t \in {p} \X (1 .. n[p])
    BY DEF EntriesOf
  <2> QED BY <2>1
<1>2. ASSUME NEW p \in Pid, NEW i \in 1 .. n[p] PROVE <<p, i>> \in EntriesOf(n)
  BY DEF EntriesOf
<1> QED BY <1>1, <1>2

\* Two counts of the same entries are as many.
LEMMA EntriesEqual ==
  ASSUME NEW n \in [Pid -> Nat], NEW T,
         \A t \in T : t[1] \in Pid /\ t[2] \in 1 .. n[t[1]] /\ t = <<t[1], t[2]>>,
         \A p \in Pid : \A i \in 1 .. n[p] : <<p, i>> \in T
  PROVE  EntriesOf(n) = T
<1>1. ASSUME NEW t \in EntriesOf(n) PROVE t \in T
  BY EntryFacts
<1>2. ASSUME NEW t \in T PROVE t \in EntriesOf(n)
  BY EntryFacts
<1> QED BY <1>1, <1>2

\* An entry more, or one less.
LEMMA EntryAdded ==
  ASSUME NEW n \in [Pid -> Nat], NEW p \in Pid, IsFiniteSet(EntriesOf(n)),
         NEW m, m = [n EXCEPT ![p] = n[p] + 1]
  PROVE  IsFiniteSet(EntriesOf(m)) /\ Cardinality(EntriesOf(m)) = Cardinality(EntriesOf(n)) + 1
<1> PICK e : e = <<p, n[p] + 1>>
  OBVIOUS
<1> DEFINE T == EntriesOf(n) \union {e}
<1>1. m \in [Pid -> Nat] /\ DOMAIN n = Pid /\ n[p] \in Nat
  OBVIOUS
<1>2. e \notin EntriesOf(n)
  BY <1>1, EntryFacts
<1>3. \A t \in T : t[1] \in Pid /\ t[2] \in 1 .. m[t[1]] /\ t = <<t[1], t[2]>>
  <2> TAKE t \in T
  <2>1. CASE t = e
    BY <1>1, <2>1
  <2>2. CASE t \in EntriesOf(n)
    <3>1. t[1] \in Pid /\ t[2] \in 1 .. n[t[1]] /\ t = <<t[1], t[2]>>
      BY <1>1, <2>2, EntryFacts
    <3>2. m[t[1]] = n[t[1]] \/ m[t[1]] = n[t[1]] + 1
      BY <3>1
    <3>3. n[t[1]] \in Nat
      BY <3>1
    <3> QED BY <3>1, <3>2, <3>3
  <2> QED BY <2>1, <2>2
<1>4. \A q \in Pid : \A i \in 1 .. m[q] : <<q, i>> \in T
  <2> TAKE q \in Pid
  <2> TAKE i \in 1 .. m[q]
  <2>1. CASE i \in 1 .. n[q]
    BY <1>1, <2>1, EntryFacts
  <2>2. CASE i \notin 1 .. n[q]
    <3>1. q = p /\ i = n[p] + 1
      BY <1>1, <2>2
    <3> QED BY <3>1
  <2> QED BY <2>1, <2>2
<1>5. EntriesOf(m) = T
  BY <1>1, <1>3, <1>4, EntriesEqual
<1>6. /\ IsFiniteSet(T)
      /\ Cardinality(T) = IF e \in EntriesOf(n) THEN Cardinality(EntriesOf(n))
                          ELSE Cardinality(EntriesOf(n)) + 1
  BY FS_AddElement
<1> QED BY <1>2, <1>5, <1>6

\* One entry less, of a process that has one.
LEMMA EntryTaken ==
  ASSUME NEW n \in [Pid -> Nat], NEW p \in Pid, n[p] > 0, IsFiniteSet(EntriesOf(n)),
         NEW m, m = [n EXCEPT ![p] = n[p] - 1]
  PROVE  /\ IsFiniteSet(EntriesOf(m)) /\ Cardinality(EntriesOf(m)) = Cardinality(EntriesOf(n)) - 1
         /\ Cardinality(EntriesOf(n)) > 0
<1>1. m \in [Pid -> Nat] /\ m[p] = n[p] - 1 /\ n = [m EXCEPT ![p] = m[p] + 1]
  <2>1. n[p] - 1 \in Nat
    OBVIOUS
  <2>2. m \in [Pid -> Nat] /\ m[p] = n[p] - 1 /\ \A q \in Pid : q # p => m[q] = n[q]
    BY <2>1
  <2>3. m[p] + 1 = n[p]
    BY <2>2
  <2> QED BY <2>2, <2>3
<1>2. IsFiniteSet(EntriesOf(m))
  <2>1. EntriesOf(m) \subseteq EntriesOf(n)
    <3> SUFFICES ASSUME NEW t \in EntriesOf(m) PROVE t \in EntriesOf(n)
      OBVIOUS
    <3>1. t[1] \in Pid /\ t[2] \in 1 .. m[t[1]] /\ t = <<t[1], t[2]>>
      BY <1>1, EntryFacts
    <3>2. n[t[1]] \in Nat /\ (m[t[1]] = n[t[1]] \/ m[t[1]] = n[t[1]] - 1)
      BY <3>1
    <3>3. t[2] \in 1 .. n[t[1]]
      BY <3>1, <3>2
    <3> QED BY <3>1, <3>3, EntryFacts
  <2> QED BY <2>1, FS_Subset
<1>3. Cardinality(EntriesOf(n)) = Cardinality(EntriesOf(m)) + 1 /\ Cardinality(EntriesOf(m)) \in Nat
  BY <1>1, <1>2, EntryAdded, FS_CardinalityType
<1> QED BY <1>2, <1>3

\* Nobody has more entries than there are.
LEMMA EntriesBound ==
  ASSUME NEW n \in [Pid -> Nat], NEW p \in Pid, IsFiniteSet(EntriesOf(n))
  PROVE  n[p] <= Cardinality(EntriesOf(n)) /\ Cardinality(EntriesOf(n)) \in Nat
<1> PICK k : k = n[p]
  OBVIOUS
<1> PICK E : E = EntriesOf(n)
  OBVIOUS
<1> DEFINE f == [i \in 1 .. k |-> <<p, i>>]
<1>1. k \in Nat /\ IsFiniteSet(1 .. k) /\ Cardinality(1 .. k) = k
  BY FS_Interval
<1>2. \A i \in 1 .. k : <<p, i>> \in E
  BY EntryFacts
<1>3. f \in [1 .. k -> E] /\ \A i, j \in 1 .. k : f[i] = f[j] => i = j
  BY <1>2
<1>5. f \in Injection(1 .. k, E)
  BY <1>3 DEF Injection, IsInjective
<1>4. Cardinality(1 .. k) <= Cardinality(E)
  BY <1>5, FS_Injection
<1> QED BY <1>1, <1>4, FS_CardinalityType
\* A sound queue is a record of entries and a length.
LEMMA SoundFacts ==
  ASSUME NEW q, Sound(q)
  PROVE  /\ q.n \in [Pid -> Nat] /\ DOMAIN q.n = Pid /\ q.size \in 0 .. NPROC /\ NPROC \in Nat
         /\ IsFiniteSet(EntriesOf(q.n)) /\ Cardinality(EntriesOf(q.n)) = q.size
BY SizeAssumption DEF Sound, QueueType

\* And the other way round: entries and a length that agree make a sound queue.
LEMMA SoundRecord ==
  ASSUME NEW n \in [Pid -> Nat], NEW k \in 0 .. NPROC,
         IsFiniteSet(EntriesOf(n)), Cardinality(EntriesOf(n)) = k,
         NEW q, q = [n |-> n, size |-> k]
  PROVE  Sound(q)
<1>1. NPROC \in Nat
  BY SizeAssumption
<1>2. \A p \in Pid : n[p] \in 0 .. NPROC
  BY <1>1, EntriesBound
<1>3. q.n = n /\ q.size = k /\ n \in [Pid -> 0 .. NPROC]
  BY <1>2
<1> QED BY <1>3 DEF Sound, QueueType

\* enqueue into a queue that is full changes nothing; no operation loses count.
LEMMA EnqueueSound ==
  ASSUME NEW q, Sound(q), NEW p \in Pid
  PROVE  Sound(Enqueue(q, p, NPROC))
<1>1. /\ q.n \in [Pid -> Nat] /\ q.size \in 0 .. NPROC /\ NPROC \in Nat
      /\ IsFiniteSet(EntriesOf(q.n)) /\ Cardinality(EntriesOf(q.n)) = q.size
  BY SoundFacts
<1>2. CASE q.size >= NPROC
  BY <1>2 DEF Enqueue
<1>3. CASE ~(q.size >= NPROC)
  <2> PICK m, k, r : m = [q.n EXCEPT ![p] = q.n[p] + 1] /\ k = q.size + 1 /\ r = [n |-> m, size |-> k]
    OBVIOUS
  <2>1. Enqueue(q, p, NPROC) = r
    BY <1>3 DEF Enqueue
  <2>2. m \in [Pid -> Nat] /\ k \in 0 .. NPROC
    BY <1>1, <1>3
  <2>3. IsFiniteSet(EntriesOf(m)) /\ Cardinality(EntriesOf(m)) = k
    BY <1>1, EntryAdded
  <2>4. Sound(r)
    BY ONLY <2>2, <2>3, r = [n |-> m, size |-> k], SoundRecord
  <2> QED BY <2>1, <2>4
<1> QED BY <1>2, <1>3

\* dequeue of an entry that is there.
LEMMA DequeuedSound ==
  ASSUME NEW q, Sound(q), NEW p \in Pid, q.n[p] > 0
  PROVE  Sound(Dequeued(q, p)) /\ q.size > 0
<1>1. /\ q.n \in [Pid -> Nat] /\ q.size \in 0 .. NPROC /\ NPROC \in Nat
      /\ IsFiniteSet(EntriesOf(q.n)) /\ Cardinality(EntriesOf(q.n)) = q.size
  BY SoundFacts
<1> PICK m, k, r : m = [q.n EXCEPT ![p] = q.n[p] - 1] /\ k = q.size - 1 /\ r = [n |-> m, size |-> k]
  OBVIOUS
<1>2. Dequeued(q, p) = r
  BY DEF Dequeued
<1>3. IsFiniteSet(EntriesOf(m)) /\ Cardinality(EntriesOf(m)) = k /\ q.size > 0
  BY <1>1, EntryTaken
<1>4. m \in [Pid -> Nat] /\ k \in 0 .. NPROC
  BY <1>1, <1>3
<1>5. Sound(r)
  BY ONLY <1>3, <1>4, r = [n |-> m, size |-> k], SoundRecord
<1> QED BY <1>2, <1>3, <1>5

\* remove of one that may not be.
LEMMA RemovedSound ==
  ASSUME NEW q, Sound(q), NEW p \in Pid
  PROVE  Sound(Removed(q, p))
BY DequeuedSound DEF Removed

\* newqueue.
LEMMA EmptySound == Sound(EmptyQueue(Pid))
<1> PICK n : n = [p \in Pid |-> 0]
  OBVIOUS
<1>1. n \in [Pid -> Nat] /\ 0 \in 0 .. NPROC
  BY SizeAssumption
<1>2. EntriesOf(n) = {}
  BY EntryFacts
<1>3. IsFiniteSet(EntriesOf(n)) /\ Cardinality(EntriesOf(n)) = 0
  BY <1>2, FS_EmptySet
<1> QED BY <1>1, <1>3, SoundRecord DEF EmptyQueue

\* The entries of two queues together are as many as those of each.
LEMMA EntriesTogether ==
  ASSUME NEW a \in [Pid -> Nat], NEW b \in [Pid -> Nat],
         IsFiniteSet(EntriesOf(a)), IsFiniteSet(EntriesOf(b)),
         NEW m, m = [p \in Pid |-> a[p] + b[p]]
  PROVE  /\ IsFiniteSet(EntriesOf(m))
         /\ Cardinality(EntriesOf(m)) = Cardinality(EntriesOf(a)) + Cardinality(EntriesOf(b))
<1> PICK A, B, M : A = EntriesOf(a) /\ B = EntriesOf(b) /\ M = EntriesOf(m)
  OBVIOUS
<1> PICK f : f = [t \in B |-> <<t[1], a[t[1]] + t[2]>>]
  OBVIOUS
<1> PICK C : C = M \ A
  OBVIOUS
<1>0. m \in [Pid -> Nat] /\ \A p \in Pid : a[p] \in Nat /\ b[p] \in Nat /\ m[p] = a[p] + b[p]
  OBVIOUS
<1>1. A \subseteq M
  <2> SUFFICES ASSUME NEW t \in A PROVE t \in M
    OBVIOUS
  <2>1. t[1] \in Pid /\ t[2] \in 1 .. a[t[1]] /\ t = <<t[1], t[2]>>
    BY EntryFacts
  <2>2. t[2] \in 1 .. m[t[1]]
    BY <1>0, <2>1
  <2> QED BY <1>0, <2>1, <2>2, EntryFacts
<1>2. \A t \in B : f[t] \in C
  <2> TAKE t \in B
  <2>1. t[1] \in Pid /\ t[2] \in 1 .. b[t[1]]
    BY EntryFacts
  <2> PICK p, i : p = t[1] /\ i = a[t[1]] + t[2]
    OBVIOUS
  <2>2. p \in Pid /\ i \in 1 .. m[p] /\ i \notin 1 .. a[p] /\ f[t] = <<p, i>>
    BY <1>0, <2>1
  <2>3. <<p, i>> \in M
    BY <1>0, <2>2, EntryFacts
  <2>4. <<p, i>> \notin A
    BY <1>0, <2>2, EntryFacts
  <2> QED BY <2>2, <2>3, <2>4
<1>3. \A t, u \in B : f[t] = f[u] => t = u
  <2> SUFFICES ASSUME NEW t \in B, NEW u \in B, f[t] = f[u] PROVE t = u
    OBVIOUS
  <2>1. /\ t[1] \in Pid /\ t[2] \in 1 .. b[t[1]] /\ t = <<t[1], t[2]>>
        /\ u[1] \in Pid /\ u[2] \in 1 .. b[u[1]] /\ u = <<u[1], u[2]>>
    BY EntryFacts
  <2>2. t[1] = u[1] /\ a[t[1]] + t[2] = a[u[1]] + u[2]
    OBVIOUS
  <2>3. t[2] = u[2]
    <3> PICK x, i, j : x = a[t[1]] /\ i = t[2] /\ j = u[2]
      OBVIOUS
    <3>1. x \in Nat /\ i \in Int /\ j \in Int /\ x + i = x + j
      <4>1. a[t[1]] \in Nat /\ b[t[1]] \in Nat /\ b[u[1]] \in Nat
        BY <1>0, <2>1
      <4>2. t[2] \in Int /\ u[2] \in Int
        BY <2>1, <4>1
      <4> QED BY <2>2, <4>1, <4>2
    <3>2. i = j
      BY ONLY <3>1
    <3> QED BY <3>2
  <2> QED BY <2>1, <2>2, <2>3
<1>4. \A u \in C : \E t \in B : f[t] = u
  <2> TAKE u \in C
  <2>1. u[1] \in Pid /\ u[2] \in 1 .. m[u[1]] /\ u = <<u[1], u[2]>> /\ u \notin A
    BY <1>0, EntryFacts
  <2>2. u[2] \notin 1 .. a[u[1]]
    BY <1>0, <2>1, EntryFacts
  <2> PICK p, i : p = u[1] /\ i = u[2] - a[u[1]]
    OBVIOUS
  <2>3. p \in Pid /\ i \in 1 .. b[p] /\ u[2] = a[p] + i
    BY <1>0, <2>1, <2>2
  <2>4. <<p, i>> \in B
    BY <2>3, EntryFacts
  <2>5. f[<<p, i>>] = u
    BY <2>1, <2>3, <2>4
  <2> QED BY <2>4, <2>5
<1>5. f \in Bijection(B, C)
  <2>1. f \in [B -> C]
    BY <1>2
  <2> QED BY ZenonT(60), <1>3, <1>4, <2>1 DEF Bijection, Injection, Surjection, IsInjective
<1>6. IsFiniteSet(C) /\ Cardinality(C) = Cardinality(B)
  <2>1. ExistsBijection(B, C)
    BY <1>5 DEF ExistsBijection
  <2> QED BY <2>1, FS_Bijection
<1>7. M = A \union C /\ A \intersect C = {}
  BY <1>1
<1>8. /\ IsFiniteSet(A \union C)
      /\ Cardinality(A \union C) = Cardinality(A) + Cardinality(C) - Cardinality(A \intersect C)
  BY <1>6, FS_Union
<1>9. Cardinality(A) \in Nat /\ Cardinality(C) \in Nat /\ Cardinality({}) = 0
  BY <1>6, FS_CardinalityType, FS_EmptySet
<1>10. IsFiniteSet(M) /\ Cardinality(M) = Cardinality(A) + Cardinality(B)
  <2>1. Cardinality(M) = Cardinality(A) + Cardinality(C) - 0
    BY <1>7, <1>8, <1>9
  <2>2. IsFiniteSet(M)
    BY <1>7, <1>8
  <2> QED BY <1>6, <1>9, <2>1, <2>2
<1> QED BY <1>10

\* Moving a queue into another keeps that one sound.
LEMMA EnqueuedAllSound ==
  ASSUME NEW q, Sound(q), NEW more, Sound(more), NEW r \in EnqueuedAll(q, more, NPROC)
  PROVE  Sound(r)
<1>1. /\ q.n \in [Pid -> Nat] /\ DOMAIN q.n = Pid /\ q.size \in 0 .. NPROC /\ NPROC \in Nat
      /\ IsFiniteSet(EntriesOf(q.n)) /\ Cardinality(EntriesOf(q.n)) = q.size
      /\ more.n \in [Pid -> Nat] /\ more.size \in 0 .. NPROC
      /\ IsFiniteSet(EntriesOf(more.n))
  BY SoundFacts
<1> PICK taken : taken = IF more.size <= NPROC - q.size THEN more.size ELSE NPROC - q.size
  OBVIOUS
<1>2. PICK b \in [Pid -> 0 .. more.size] :
        /\ \A p \in Pid : b[p] <= more.n[p]
        /\ Cardinality(EntriesOf(b)) = taken
        /\ r = [n |-> [p \in Pid |-> q.n[p] + b[p]], size |-> q.size + taken]
  BY <1>1 DEF EnqueuedAll
<1>3. b \in [Pid -> Nat] /\ taken \in Nat /\ q.size + taken \in 0 .. NPROC
  BY <1>1
<1>4. IsFiniteSet(EntriesOf(b))
  <2>1. EntriesOf(b) \subseteq EntriesOf(more.n)
    <3> SUFFICES ASSUME NEW t \in EntriesOf(b) PROVE t \in EntriesOf(more.n)
      OBVIOUS
    <3>1. t[1] \in Pid /\ t[2] \in 1 .. b[t[1]] /\ t = <<t[1], t[2]>>
      BY <1>3, EntryFacts
    <3>2. b[t[1]] <= more.n[t[1]] /\ b[t[1]] \in Nat /\ more.n[t[1]] \in Nat
      BY <1>1, <1>2, <1>3, <3>1
    <3>3. t[2] \in 1 .. more.n[t[1]]
      BY <3>1, <3>2
    <3> QED BY <1>1, <3>1, <3>3, EntryFacts
  <2> QED BY <1>1, <2>1, FS_Subset
<1> PICK m, k : m = [p \in Pid |-> q.n[p] + b[p]] /\ k = q.size + taken
  OBVIOUS
<1>5. IsFiniteSet(EntriesOf(m)) /\ Cardinality(EntriesOf(m)) = k
  <2> PICK a : a = q.n
    OBVIOUS
  <2>1. a \in [Pid -> Nat] /\ IsFiniteSet(EntriesOf(a)) /\ m = [p \in Pid |-> a[p] + b[p]]
    BY <1>1
  <2>2. /\ IsFiniteSet(EntriesOf(m))
        /\ Cardinality(EntriesOf(m)) = Cardinality(EntriesOf(a)) + Cardinality(EntriesOf(b))
    BY ONLY <1>3, <1>4, <2>1, EntriesTogether
  <2> QED BY <1>1, <1>2, <2>2
<1>6. m \in [Pid -> Nat] /\ k \in 0 .. NPROC /\ r = [n |-> m, size |-> k]
  BY <1>1, <1>2, <1>3
<1> QED BY ONLY <1>5, <1>6, SoundRecord
----------------------------------------------------------------------------
\* The processes in the state READY are those on the queue rq, once each.
Exact(st, rq) == \A p \in Pid : rq.n[p] = IF st[p] = "READY" THEN 1 ELSE 0

ReadyOnes(st) == {p \in Pid : st[p] = "READY"}

\* So that their number is the length of the queue.
LEMMA ExactLength ==
  ASSUME NEW st, NEW rq, Sound(rq), Exact(st, rq)
  PROVE  rq.size = Cardinality(ReadyOnes(st)) /\ IsFiniteSet(ReadyOnes(st))
<1> PICK n, E, R : n = rq.n /\ E = EntriesOf(n) /\ R = ReadyOnes(st)
  OBVIOUS
<1>1. /\ n \in [Pid -> Nat] /\ DOMAIN n = Pid /\ IsFiniteSet(E) /\ Cardinality(E) = rq.size
  BY SoundFacts
<1>2. \A p \in Pid : n[p] = IF p \in R THEN 1 ELSE 0
  BY DEF Exact, ReadyOnes
<1>3. R \subseteq Pid
  BY DEF ReadyOnes
<1> PICK f : f = [t \in E |-> t[1]]
  OBVIOUS
<1>4. \A t \in E : t[1] \in R /\ t = <<t[1], 1>>
  <2> TAKE t \in E
  <2>1. t[1] \in Pid /\ t[2] \in 1 .. n[t[1]] /\ t = <<t[1], t[2]>>
    BY <1>1, EntryFacts
  <2>2. t[1] \in R
    BY <1>2, <2>1
  <2>3. t[2] \in 1 .. 1
    BY <1>2, <2>1, <2>2
  <2>4. t[2] = 1
    BY <2>3
  <2> QED BY <2>1, <2>2, <2>4
<1>5. \A p \in R : <<p, 1>> \in E
  <2> TAKE p \in R
  <2>1. p \in Pid /\ 1 \in 1 .. n[p]
    BY <1>2, <1>3
  <2> QED BY <1>1, <2>1, EntryFacts
<1>6. f \in Bijection(E, R)
  <2>1. f \in [E -> R]
    BY <1>4
  <2>2. \A t, u \in E : f[t] = f[u] => t = u
    BY <1>4
  <2>3. \A p \in R : \E t \in E : f[t] = p
    <3> TAKE p \in R
    <3>1. <<p, 1>> \in E /\ f[<<p, 1>>] = p
      BY <1>5
    <3> QED BY <3>1
  <2> QED BY <2>1, <2>2, <2>3 DEF Bijection, Injection, Surjection, IsInjective
<1>7. ExistsBijection(E, R)
  BY <1>6 DEF ExistsBijection
<1> QED BY <1>1, <1>7, FS_Bijection

\* The number of processes.
LEMMA PidCount == IsFiniteSet(Pid) /\ Cardinality(Pid) = NPROC
<1>1. NPROC \in Nat \ {0} /\ Pid = 0 .. NPROC - 1
  BY SizeAssumption DEF Pid
<1> QED BY <1>1, FS_Interval

\* The context switch keeps the ready queue sound, and exact if it was.
LEMMA SwitchQueue ==
  ASSUME NEW st \in [Pid -> PrState], NEW rq, Sound(rq), currpid \in Pid,
         \A p \in Pid : st[p] = "CURR" => p = currpid, Switch(st, rq)
  PROVE  /\ Sound(readyqueue') /\ (Exact(st, rq) => Exact(prstate', readyqueue'))
         /\ prstate'[currpid'] = "CURR"
<1> PICK st1, rq1 :
      /\ st1 = IF st[currpid] = "CURR" THEN [st EXCEPT ![currpid] = "READY"] ELSE st
      /\ rq1 = IF st[currpid] = "CURR" THEN Ready(rq, currpid) ELSE rq
  OBVIOUS
<1>1. Sound(rq1)
  BY EnqueueSound DEF Ready
<1>2. PICK p \in Heads(rq1) :
        /\ prstate' = [st1 EXCEPT ![p] = "CURR"] /\ readyqueue' = Dequeued(rq1, p)
        /\ currpid' = p
  BY DEF Switch
<1>3. p \in Pid /\ rq1.n[p] > 0 /\ rq1.n \in [Pid -> Nat]
  BY <1>1, <1>2, SoundFacts DEF Heads, Entries
<1>4. Sound(readyqueue')
  BY <1>1, <1>2, <1>3, DequeuedSound
<1>5. ASSUME Exact(st, rq) PROVE Exact(st1, rq1)
  <2>1. CASE st[currpid] # "CURR"
    BY <1>5, <2>1
  <2>2. CASE st[currpid] = "CURR"
    <3>1. rq.size < NPROC
      <4>1. /\ rq.size = Cardinality(ReadyOnes(st)) /\ rq.size \in 0 .. NPROC /\ NPROC \in Nat
        BY <1>5, ExactLength, SoundFacts
      <4>2. ReadyOnes(st) \subseteq Pid /\ currpid \notin ReadyOnes(st)
        BY <2>2 DEF ReadyOnes
      <4>3. Cardinality(ReadyOnes(st)) <= Cardinality(Pid)
            /\ (Cardinality(Pid) = Cardinality(ReadyOnes(st)) => Pid = ReadyOnes(st))
        BY <4>2, PidCount, FS_Subset
      <4>4. Cardinality(ReadyOnes(st)) # NPROC
        BY <4>2, <4>3, PidCount
      <4> QED BY <4>1, <4>4
    <3>2. rq1.n = [rq.n EXCEPT ![currpid] = rq.n[currpid] + 1]
      <4>1. ~(rq.size >= NPROC)
        BY <3>1, SoundFacts
      <4> QED BY <2>2, <4>1 DEF Ready, Enqueue
    <3>3. rq.n[currpid] = 0 /\ rq.n \in [Pid -> Nat]
      BY <1>5, <2>2, SoundFacts DEF Exact
    <3>4. \A q \in Pid : rq1.n[q] = IF q = currpid THEN 1 ELSE rq.n[q]
      BY <3>2, <3>3
    <3>5. \A q \in Pid : st1[q] = IF q = currpid THEN "READY" ELSE st[q]
      BY <2>2
    <3> QED BY <1>5, <3>4, <3>5 DEF Exact
  <2> QED BY <2>1, <2>2
<1>6. ASSUME Exact(st, rq) PROVE Exact(prstate', readyqueue')
  <2>1. Exact(st1, rq1)
    BY <1>5, <1>6
  <2>2. rq1.n[p] = 1
    BY <1>3, <2>1 DEF Exact
  <2>3. readyqueue'.n = [rq1.n EXCEPT ![p] = rq1.n[p] - 1]
    BY <1>2 DEF Dequeued
  <2>4. \A q \in Pid : readyqueue'.n[q] = IF q = p THEN 0 ELSE rq1.n[q]
    BY <1>3, <2>2, <2>3
  <2>5. \A q \in Pid : prstate'[q] = IF q = p THEN "CURR" ELSE st1[q]
    <3>1. DOMAIN st1 = Pid
      OBVIOUS
    <3> QED BY <1>2, <1>3, <3>1
  <2> QED BY <2>1, <2>4, <2>5 DEF Exact
<1>7. prstate'[currpid'] = "CURR"
  <2>1. DOMAIN st1 = Pid
    OBVIOUS
  <2> QED BY <1>2, <1>3, <2>1
<1> QED BY <1>4, <1>6, <1>7

\* So does resched, with or without a detection.
LEMMA ReschedQueue ==
  ASSUME NEW st \in [Pid -> PrState], NEW rq, Sound(rq), currpid \in Pid,
         \A p \in Pid : st[p] = "CURR" => p = currpid, Resched(st, rq)
  PROVE  /\ Sound(readyqueue') /\ (Exact(st, rq) => Exact(prstate', readyqueue')) /\ CountCall
         /\ prstate'[currpid'] = "CURR" \/ (prstate' = st /\ currpid' = currpid)
<1>1. CASE prstate' = st /\ readyqueue' = rq /\ currpid' = currpid
  BY <1>1 DEF Resched
<1>2. CASE Switch(st, rq)
  BY <1>2, SwitchQueue DEF Resched
<1> QED BY <1>1, <1>2 DEF Resched
----------------------------------------------------------------------------
\* What TypeOK has beyond LocksInv: the counters, and queues that are sound.  The
\* processor stops when one process is left.
Counters ==
  /\ prcount \in 1 .. NPROC /\ halted \in BOOLEAN /\ (~halted => prcount > 1)
  /\ calls \in 0 .. (PERIOD + 1)

SoundQueues ==
  /\ Sound(readyqueue)
  /\ wait_queue \in [Lock -> QueueType] /\ \A l \in Lock : Sound(wait_queue[l])

\* A counted call stays in range.
LEMMA CallCounted ==
  ASSUME calls \in 0 .. (PERIOD + 1), CountCall
  PROVE  calls' \in 0 .. (PERIOD + 1)
<1>1. PERIOD \in Nat
  BY LocksAssumption
<1> QED BY <1>1 DEF CountCall

\* The counters count down to one process and no further.
LEMMA CountersHold ==
  ASSUME Counters, [Next]_vars
  PROVE  Counters'
<1>0. PERIOD \in Nat /\ NPROC \in Nat
  BY LocksAssumption, SizeAssumption
<1>1. ASSUME UNCHANGED <<prcount, halted>>, calls' = calls \/ CountCall \/ calls' = 0
      PROVE  Counters'
  BY <1>0, <1>1, CallCounted DEF Counters
<1>2. ASSUME ~halted, prcount' = prcount - 1, LastProcess => halted' = TRUE,
             ~LastProcess => halted' = halted, calls' = calls \/ CountCall
      PROVE  Counters'
  <2>1. prcount \in 1 .. NPROC /\ prcount > 1
    BY <1>2 DEF Counters
  <2>2. prcount' \in 1 .. NPROC /\ (~LastProcess => prcount' > 1)
    BY <1>0, <1>2, <2>1 DEF LastProcess
  <2>3. calls' \in 0 .. (PERIOD + 1)
    BY <1>2, CallCounted DEF Counters
  <2>4. halted' \in BOOLEAN
    BY <1>2 DEF Counters
  <2> QED BY <1>2, <2>2, <2>3, <2>4 DEF Counters
<1>3. ASSUME NEW l \in Lock, AcquireRequest(l) \/ Release(l) \/ LockCreate(l)
      PROVE  Counters'
  BY <1>1, <1>3 DEF AcquireRequest, Release, LockCreate, procVars
<1>4. ASSUME NEW l \in Lock, LockDelete(l)
      PROVE  Counters'
  <2>1. CountCall /\ UNCHANGED <<prcount, halted>>
    BY <1>4 DEF LockDelete, Resched
  <2> QED BY <1>1, <2>1
<1>5. CASE TestAndSet \/ AcquireReturn
  BY <1>1, <1>5 DEF TestAndSet, AcquireReturn, procVars
<1>6. CASE Exit
  BY <1>2, <1>6 DEF Exit, Me, Running, Resched
<1>7. CASE Preempt
  BY <1>1, <1>7 DEF Preempt, Resched
<1>8. CASE DetectStep \/ DetectEnd
  BY <1>1, <1>8 DEF DetectStep, DetectEnd, procVars
<1>9. CASE RecoverDrain \/ RecoverNobody \/ RecoverAgain
  BY <1>1, <1>9 DEF RecoverDrain, RecoverNobody, RecoverAgain, RecoverRest, procVars
<1>10. CASE RecoverLast \/ RecoverReady \/ RecoverCurrent
  BY <1>2, <1>10 DEF RecoverLast, RecoverReady, RecoverCurrent, RecoverRest, Drained
<1>11. CASE UNCHANGED vars
  BY <1>1, <1>11 DEF vars, procVars
<1> QED BY <1>3, <1>4, <1>5, <1>6, <1>7, <1>8, <1>9, <1>10, <1>11
        DEF Next, LockStep, DetectWork, RecoverStep, Stopped

\* No enqueue, dequeue or removal miscounts a queue, whatever recovery and deletion do.
LEMMA QueuesStaySound ==
  ASSUME LocksInv, SoundQueues, [Next]_vars
  PROVE  SoundQueues'
<1>0. /\ OwnTypes /\ OnlyCurrentIsCurr /\ currpid \in Pid /\ prstate \in [Pid -> PrState]
      /\ \A p \in Pid : prstate[p] = "CURR" => p = currpid
  BY DEF LocksInv, OwnTypes, OnlyCurrentIsCurr
<1>1. ASSUME NEW l \in Lock, NEW q, Sound(q), wait_queue' = [wait_queue EXCEPT ![l] = q],
             Sound(readyqueue')
      PROVE  SoundQueues'
  BY <1>1 DEF SoundQueues, Sound
<1>2. ASSUME UNCHANGED wait_queue, Sound(readyqueue')
      PROVE  SoundQueues'
  BY <1>2 DEF SoundQueues
<1>3. ASSUME NEW l \in Lock, AcquireRequest(l)
      PROVE  SoundQueues'
  BY <1>0, <1>1, <1>3, EnqueueSound DEF AcquireRequest, procVars, SoundQueues
<1>4. ASSUME NEW l \in Lock, Release(l)
      PROVE  SoundQueues'
  BY <1>0, <1>1, <1>4, RemovedSound DEF Release, procVars, SoundQueues
<1>5. ASSUME NEW l \in Lock, LockDelete(l)
      PROVE  SoundQueues'
  <2>1. wait_queue' = [wait_queue EXCEPT ![l] = EmptyQueue(Pid)]
    BY <1>5 DEF LockDelete
  <2>2. PICK rq : Sound(rq) /\ Resched(prstate, rq)
    <3>1. CASE Resched(prstate, readyqueue)
      BY <3>1 DEF SoundQueues
    <3>2. ASSUME NEW first \in Entries(wait_queue[l]),
                 NEW rq \in EnqueuedAll(readyqueue, Dequeued(wait_queue[l], first), NPROC)
          PROVE  Sound(rq)
      <4>1. Sound(wait_queue[l]) /\ Sound(readyqueue)
        BY DEF SoundQueues
      <4>2. first \in Pid /\ wait_queue[l].n[first] > 0
        BY <4>1, SoundFacts DEF Entries
      <4>3. Sound(Dequeued(wait_queue[l], first))
        BY <4>1, <4>2, DequeuedSound
      <4> QED BY <4>1, <4>3, EnqueuedAllSound
    <3> QED BY <1>5, <3>1, <3>2 DEF LockDelete
  <2> QED BY <1>0, <1>1, <2>1, <2>2, ReschedQueue, EmptySound
<1>6. CASE \E l \in Lock : LockCreate(l)
  BY <1>2, <1>6 DEF LockCreate, procVars, SoundQueues
<1>7. CASE TestAndSet \/ AcquireReturn
  BY <1>2, <1>7 DEF TestAndSet, AcquireReturn, procVars, tableVars, SoundQueues
<1>8. CASE Exit
  <2>1. CASE LastProcess
    BY <1>2, <1>8, <2>1 DEF Exit, tableVars, SoundQueues
  <2>2. CASE ~LastProcess
    <3> PICK st : st = [prstate EXCEPT ![currpid] = "FREE"]
      OBVIOUS
    <3>1. st \in [Pid -> PrState] /\ \A p \in Pid : st[p] = "CURR" => p = currpid
      BY <1>0 DEF PrState
    <3>2. Resched(st, readyqueue) /\ UNCHANGED wait_queue
      BY <1>8, <2>2 DEF Exit, tableVars
    <3> QED BY <1>0, <1>2, <3>1, <3>2, ReschedQueue DEF SoundQueues
  <2> QED BY <2>1, <2>2
<1>9. CASE Preempt
  BY <1>0, <1>2, <1>9, ReschedQueue DEF Preempt, tableVars, SoundQueues
<1>10. CASE DetectStep
  BY <1>2, <1>10 DEF DetectStep, procVars, tableVars, SoundQueues
<1>11. CASE DetectEnd
  BY <1>0, <1>2, <1>11, SwitchQueue DEF DetectEnd, tableVars, SoundQueues
<1>12. ASSUME VictimOK PROVE victim \in Pid /\ lockid \in Lock
  BY <1>12, SizeAssumption DEF VictimOK, ProcVertex, SIZE, Pid, victim, lockid
<1>13. CASE RecoverDrain
  <2>1. PICK p \in Heads(wait_queue[lockid]) :
          /\ wait_queue' = [wait_queue EXCEPT ![lockid] = Dequeued(wait_queue[lockid], p)]
          /\ readyqueue' = Enqueue(readyqueue, p, NPROC)
    BY <1>13 DEF RecoverDrain, Ready
  <2>2. lockid \in Lock /\ Sound(wait_queue[lockid])
    BY <1>12, <1>13 DEF RecoverDrain, SoundQueues
  <2>3. p \in Pid /\ wait_queue[lockid].n[p] > 0
    BY <2>2, SoundFacts DEF Heads, Entries
  <2>4. Sound(Dequeued(wait_queue[lockid], p)) /\ Sound(readyqueue')
    BY <2>1, <2>2, <2>3, DequeuedSound, EnqueueSound DEF SoundQueues
  <2> QED BY <1>1, <2>1, <2>2, <2>4
<1>14. CASE RecoverNobody
  BY <1>2, <1>14 DEF RecoverNobody, procVars, tableVars, SoundQueues
<1>15. ASSUME VictimOK, RecoverRest, Sound(readyqueue')
       PROVE  SoundQueues'
  <2>1. wait_queue' = [l \in Lock |-> Removed(wait_queue[l], victim)]
    BY <1>15 DEF RecoverRest
  <2>2. \A l \in Lock : Sound(Removed(wait_queue[l], victim))
    BY <1>12, <1>15, RemovedSound DEF SoundQueues
  <2> QED BY <1>15, <2>1, <2>2 DEF SoundQueues, Sound
<1>16. CASE RecoverAgain
  BY <1>15, <1>16 DEF RecoverAgain, Drained, SoundQueues
<1>17. CASE RecoverLast
  BY <1>2, <1>17 DEF RecoverLast, tableVars, SoundQueues
<1>18. CASE RecoverReady
  <2>1. Sound(readyqueue')
    BY <1>12, <1>18, RemovedSound DEF RecoverReady, Drained, SoundQueues
  <2> QED BY <1>15, <1>18, <2>1 DEF RecoverReady, Drained
<1>19. CASE RecoverCurrent
  <2> PICK st : st = [prstate EXCEPT ![victim] = "FREE"]
    OBVIOUS
  <2>1. st \in [Pid -> PrState] /\ \A p \in Pid : st[p] = "CURR" => p = currpid
    BY <1>0 DEF PrState
  <2>2. Switch(st, readyqueue) /\ UNCHANGED wait_queue
    BY <1>19 DEF RecoverCurrent, tableVars
  <2> QED BY <1>0, <1>2, <2>1, <2>2, SwitchQueue DEF SoundQueues
<1>20. CASE UNCHANGED vars
  BY <1>2, <1>20 DEF vars, procVars, tableVars, SoundQueues
<1> QED BY <1>3, <1>4, <1>5, <1>6, <1>7, <1>8, <1>9, <1>10, <1>11, <1>13, <1>14, <1>16, <1>17,
           <1>18, <1>19, <1>20
        DEF Next, LockStep, DetectWork, RecoverStep, Stopped
\* Of the locks' queues: once for holding and once for waiting.
WaitExact ==
  \A l \in Lock, p \in Pid :
    wait_queue[l].n[p] = (IF l \in held[p] THEN 1 ELSE 0) + (IF Waits(p, l) THEN 1 ELSE 0)

\* A process that executes is marked as doing so, which kill relies on: it takes
\* a current process off no queue.
CurrentIsMarked == prstate[currpid] = "CURR" \/ pc[currpid] = "dead"

Exactly == Exact(prstate, readyqueue) /\ WaitExact /\ CurrentIsMarked

QueuesInv == Counters /\ SoundQueues /\ (Intact => Exactly)

\* While one process at most holds the lock, its queue has a place for another that
\* asks for it: the null process never does.
LEMMA RoomToWait ==
  ASSUME NEW q, Sound(q), NEW H \in SUBSET Pid, NEW W \in SUBSET Pid, NEW c \in Pid \ W,
         c # NULLPROC, NULLPROC \notin W, \A h, k \in H : h = k,
         \A p \in Pid : q.n[p] = (IF p \in H THEN 1 ELSE 0) + (IF p \in W THEN 1 ELSE 0)
  PROVE  q.size < NPROC
<1> PICK n, E : n = q.n /\ E = EntriesOf(n)
  OBVIOUS
<1>1. /\ n \in [Pid -> Nat] /\ DOMAIN n = Pid /\ IsFiniteSet(E) /\ Cardinality(E) = q.size
      /\ q.size \in 0 .. NPROC /\ NPROC \in Nat
  BY SoundFacts
<1>2. \A t \in E : t[1] \in Pid /\ t[2] \in 1 .. n[t[1]] /\ t = <<t[1], t[2]>>
  BY <1>1, EntryFacts
<1>3. \A p \in Pid : n[p] = (IF p \in H THEN 1 ELSE 0) + (IF p \in W THEN 1 ELSE 0)
  OBVIOUS
<1>4. NULLPROC \in Pid /\ IsFiniteSet(Pid) /\ Cardinality(Pid) = NPROC
  BY PidCount, ProcFacts
\* Nobody both holds and waits: the entries are of different processes, and one of the
\* null process and c has none.
<1>5. CASE H \intersect W = {}
  <2> PICK z \in Pid : z \notin H \union W
    BY <1>4
  <2> PICK f : f = [t \in E |-> t[1]]
    OBVIOUS
  <2>1. \A t \in E : t[1] \in Pid \ {z} /\ t = <<t[1], 1>>
    <3> TAKE t \in E
    <3>1. t[1] \in Pid /\ t[2] \in 1 .. n[t[1]] /\ t = <<t[1], t[2]>>
      BY <1>2
    <3>2. n[t[1]] \in {0, 1} /\ n[z] = 0
      BY <1>3, <1>5, <3>1
    <3>3. t[2] = 1 /\ t[1] # z
      BY <3>1, <3>2
    <3> QED BY <3>1, <3>3
  <2>2. f \in [E -> Pid \ {z}] /\ \A t, u \in E : f[t] = f[u] => t = u
    BY <2>1
  <2>3. f \in Injection(E, Pid \ {z})
    BY <2>2 DEF Injection, IsInjective
  <2>4. IsFiniteSet(Pid \ {z}) /\ Cardinality(Pid \ {z}) = NPROC - 1
    BY <1>4, FS_RemoveElement
  <2>5. Cardinality(E) <= NPROC - 1
    BY <2>3, <2>4, FS_Injection
  <2> QED BY <1>1, <2>5
\* The holder h waits: send its second entry to the null process, and c has none.
<1>6. CASE H \intersect W # {}
  <2> PICK h : h \in H \intersect W
    BY <1>6
  <2>1. H = {h} /\ h # NULLPROC /\ h # c /\ c \notin H /\ NULLPROC \notin H
    OBVIOUS
  <2> PICK f : f = [t \in E |-> IF t[2] = 1 THEN t[1] ELSE NULLPROC]
    OBVIOUS
  <2>2. \A t \in E : /\ t[1] \in Pid \ {c, NULLPROC} /\ t = <<t[1], t[2]>>
                     /\ t[2] = 1 \/ (t[2] = 2 /\ t[1] = h)
    <3> TAKE t \in E
    <3>1. t[1] \in Pid /\ t[2] \in 1 .. n[t[1]] /\ t = <<t[1], t[2]>>
      BY <1>2
    <3>2. n[c] = 0 /\ n[NULLPROC] = 0 /\ n[t[1]] \in {0, 1, 2} /\ (t[1] # h => n[t[1]] \in {0, 1})
      BY <1>3, <1>4, <2>1, <3>1
    <3>3. t[1] # c /\ t[1] # NULLPROC
      BY <3>1, <3>2
    <3>4. t[2] = 1 \/ (t[2] = 2 /\ t[1] = h)
      BY <3>1, <3>2
    <3> QED BY <3>1, <3>3, <3>4
  <2>3. f \in [E -> Pid \ {c}]
    BY <1>4, <2>2
  <2>4. \A t, u \in E : f[t] = f[u] => t = u
    BY <2>2
  <2>5. f \in Injection(E, Pid \ {c})
    BY <2>3, <2>4 DEF Injection, IsInjective
  <2>6. IsFiniteSet(Pid \ {c}) /\ Cardinality(Pid \ {c}) = NPROC - 1
    BY <1>4, FS_RemoveElement
  <2>7. Cardinality(E) <= NPROC - 1
    BY <2>5, <2>6, FS_Injection
  <2> QED BY <1>1, <2>7
<1> QED BY <1>5, <1>6
\* A process that asks for a lock is entered once more in its queue, and is not refused.
LEMMA RequestKeepsExact ==
  ASSUME OwnTypes, Clean, SoundQueues, WaitExact, NEW l \in Lock, AcquireRequest(l)
  PROVE  WaitExact'
<1> PICK q : q = wait_queue[l]
  OBVIOUS
<1>1. currpid \in Pid /\ currpid # NULLPROC /\ pc[currpid] = "run" /\ Sound(q)
  BY DEF AcquireRequest, Me, OwnTypes, SoundQueues
<1>2. \A p \in Pid, k \in Lock :
        /\ held'[p] = held[p]
        /\ Waits(p, k)' <=> Waits(p, k) \/ (p = currpid /\ k = l)
  BY DEF AcquireRequest, Me, OwnTypes, Waits
<1>3. q.size < NPROC
  <2> PICK H, W : H = {p \in Pid : l \in held[p]} /\ W = {p \in Pid : Waits(p, l)}
    OBVIOUS
  <2>1. H \in SUBSET Pid /\ W \in SUBSET Pid
    OBVIOUS
  <2>2. currpid \in Pid \ W /\ NULLPROC \notin W
    BY <1>1 DEF Clean, NullNeverWaits, Waits
  <2>3. \A h, k \in H : h = k
    BY DEF Clean, OneOwner, Owns
  <2>4. \A p \in Pid : q.n[p] = (IF p \in H THEN 1 ELSE 0) + (IF p \in W THEN 1 ELSE 0)
    BY DEF WaitExact
  <2> QED BY ONLY <1>1, <2>1, <2>2, <2>3, <2>4, RoomToWait
<1>4. wait_queue' = [wait_queue EXCEPT ![l] = Enqueue(q, currpid, NPROC)] /\ DOMAIN wait_queue = Lock
  BY DEF AcquireRequest, SoundQueues
<1>5. q.n \in [Pid -> Nat] /\ Enqueue(q, currpid, NPROC).n = [q.n EXCEPT ![currpid] = q.n[currpid] + 1]
  BY <1>1, <1>3, SoundFacts DEF Enqueue
<1>6. \A p \in Pid, k \in Lock :
        wait_queue'[k].n[p] = IF p = currpid /\ k = l THEN wait_queue[k].n[p] + 1 ELSE wait_queue[k].n[p]
  BY <1>4, <1>5
<1>7. ~Waits(currpid, l)
  BY <1>1 DEF Waits
<1> QED BY <1>2, <1>6, <1>7 DEF WaitExact

\* release takes the entry out that the holder has.
LEMMA ReleaseKeepsExact ==
  ASSUME OwnTypes, SoundQueues, WaitExact, NEW l \in Lock, Release(l)
  PROVE  WaitExact'
<1> PICK q : q = wait_queue[l]
  OBVIOUS
<1>1. currpid \in Pid /\ pc[currpid] = "run" /\ l \in held[currpid] /\ Sound(q)
  BY DEF Release, Me, OwnTypes, SoundQueues
<1>2. \A p \in Pid, k \in Lock :
        /\ k \in held'[p] <=> k \in held[p] /\ ~(p = currpid /\ k = l)
        /\ Waits(p, k)' <=> Waits(p, k)
  BY DEF Release, Me, OwnTypes, Waits
<1>3. q.n[currpid] = 1
  BY <1>1 DEF WaitExact, Waits
<1>4. q.n \in [Pid -> Nat] /\ Removed(q, currpid).n = [q.n EXCEPT ![currpid] = q.n[currpid] - 1]
  BY <1>1, <1>3, SoundFacts DEF Removed, Dequeued
<1>5. wait_queue' = [wait_queue EXCEPT ![l] = Removed(q, currpid)] /\ DOMAIN wait_queue = Lock
  BY DEF Release, SoundQueues
<1>6. \A p \in Pid, k \in Lock :
        wait_queue'[k].n[p] = IF p = currpid /\ k = l THEN 0 ELSE wait_queue[k].n[p]
  BY <1>3, <1>4, <1>5
<1>7. ~Waits(currpid, l)
  BY <1>1 DEF Waits
<1> QED BY <1>2, <1>6, <1>7 DEF WaitExact

\* Until the first report and the first deletion of a lock in use, every step keeps
\* the queues exact.
LEMMA ExactlyPreserved ==
  ASSUME LocksInv, QueuesInv, [Next]_vars, Intact'
  PROVE  Exactly'
<1>0. /\ SoundQueues /\ OwnTypes /\ currpid \in Pid /\ prstate \in [Pid -> PrState]
      /\ \A p \in Pid : prstate[p] = "CURR" => p = currpid
  BY DEF LocksInv, QueuesInv, OwnTypes, OnlyCurrentIsCurr
<1>1. ASSUME WaitExact, UNCHANGED <<wait_queue, pc, target, held>>
      PROVE  WaitExact'
  BY <1>1 DEF WaitExact, Waits
<1>2. ASSUME Exact(prstate, readyqueue), UNCHANGED <<prstate, readyqueue>>
      PROVE  Exact(prstate, readyqueue)'
  BY <1>2 DEF Exact
<1>r. ASSUME CurrentIsMarked, Resched(prstate, readyqueue), UNCHANGED pc
      PROVE  CurrentIsMarked'
  BY <1>0, <1>r, ReschedQueue DEF SoundQueues, CurrentIsMarked
<1>c. ASSUME CurrentIsMarked, Running, UNCHANGED <<prstate, currpid>>
      PROVE  CurrentIsMarked'
  BY <1>c DEF CurrentIsMarked, Running
<1>3. ASSUME OutsideStep
      PROVE  Exactly'
  <2>1. deadlocks = <<>> /\ torn' = FALSE
    BY <1>3, ReportPreserved, OutsideStepFacts DEF Intact, OwnTypes
  <2>2. torn = FALSE
    BY <1>3, <2>1 DEF OutsideStep, LockStep, AcquireRequest, Release, LockCreate, LockDelete,
       TestAndSet, AcquireReturn, Exit, Preempt, ownVars, LocksInv, OwnTypes
  <2>3. Clean /\ Exact(prstate, readyqueue) /\ WaitExact /\ CurrentIsMarked
    BY <2>1, <2>2 DEF LocksInv, QueuesInv, Exactly, Intact
  <2>4. ASSUME NEW l \in Lock, AcquireRequest(l) \/ Release(l) PROVE Exactly'
    <3>1. UNCHANGED <<prstate, readyqueue, currpid>> /\ Running
      BY <2>4 DEF AcquireRequest, Release, procVars, Me
    <3>2. CurrentIsMarked'
      BY <1>c, <2>3, <3>1
    <3> QED BY <1>0, <1>2, <2>3, <2>4, <3>1, <3>2, RequestKeepsExact, ReleaseKeepsExact DEF Exactly
  <2>5. ASSUME NEW l \in Lock, LockCreate(l) PROVE Exactly'
    BY <1>1, <1>2, <1>c, <2>3, <2>5 DEF LockCreate, procVars, ownVars, Exactly, Me
  <2>6. ASSUME NEW l \in Lock, LockDelete(l) PROVE Exactly'
    <3>1. UNCHANGED <<pc, target, held>> /\ \A p \in Pid : l \notin held[p] /\ ~Waits(p, l)
      BY <2>1, <2>6 DEF LockDelete, InUse, Waits
    <3>2. \A p \in Pid : wait_queue[l].n[p] = 0
      BY <2>3, <3>1 DEF WaitExact
    <3>3. Entries(wait_queue[l]) = {}
      BY <1>0, <3>2, SoundFacts DEF Entries, SoundQueues
    <3>4. Resched(prstate, readyqueue) /\ wait_queue' = [wait_queue EXCEPT ![l] = EmptyQueue(Pid)]
      BY <2>6, <3>3 DEF LockDelete
    <3>5. Exact(prstate, readyqueue)'
      BY <1>0, <2>3, <3>4, ReschedQueue DEF SoundQueues
    <3>6. \A k \in Lock, p \in Pid : wait_queue'[k].n[p] = wait_queue[k].n[p]
      BY <1>0, <3>2, <3>4 DEF EmptyQueue, SoundQueues
    <3>7. WaitExact'
      BY <2>3, <3>1, <3>6 DEF WaitExact, Waits
    <3>8. CurrentIsMarked'
      BY <1>r, <2>3, <3>1, <3>4
    <3> QED BY <3>5, <3>7, <3>8 DEF Exactly
  <2>7. ASSUME TestAndSet PROVE Exactly'
    <3>1. \A p \in Pid, k \in Lock : held'[p] = held[p] /\ (Waits(p, k)' <=> Waits(p, k))
      BY <1>0, <2>7 DEF TestAndSet, Me, OwnTypes, Waits
    <3>2. WaitExact'
      BY <2>3, <2>7, <3>1 DEF TestAndSet, WaitExact
    <3> QED BY <1>2, <1>c, <2>3, <2>7, <3>2 DEF TestAndSet, procVars, Exactly, Me
  <2>8. ASSUME AcquireReturn PROVE Exactly'
    <3> PICK t : t = target[currpid]
      OBVIOUS
    <3>1. \A p \in Pid, k \in Lock :
            /\ k \in held'[p] <=> k \in held[p] \/ (p = currpid /\ k = t)
            /\ Waits(p, k)' <=> Waits(p, k) /\ ~(p = currpid /\ k = t)
      BY <1>0, <2>8 DEF AcquireReturn, Me, OwnTypes, Waits
    <3>2. t \notin held[currpid] /\ Waits(currpid, t)
      BY <1>0, <2>3, <2>8 DEF AcquireReturn, Me, Clean, GotIsNew, Waits
    <3>3. WaitExact'
      BY <2>3, <2>8, <3>1, <3>2 DEF AcquireReturn, tableVars, WaitExact
    <3> QED BY <1>2, <1>c, <2>3, <2>8, <3>3 DEF AcquireReturn, procVars, Exactly, Me
  <2>9. ASSUME Exit PROVE Exactly'
    <3>1. pc[currpid] = "run" /\ (pc' = pc \/ pc' = [pc EXCEPT ![currpid] = "dead"])
          /\ UNCHANGED <<wait_queue, target, held>>
      BY <2>9 DEF Exit, Me, tableVars
    <3>2. \A p \in Pid, k \in Lock : Waits(p, k)' <=> Waits(p, k)
      BY <1>0, <3>1 DEF OwnTypes, Waits
    <3>3. WaitExact'
      BY <2>3, <3>1, <3>2 DEF WaitExact
    <3>4. CASE LastProcess
      BY <1>2, <1>c, <2>3, <2>9, <3>3, <3>4 DEF Exit, Exactly, Me
    <3>5. CASE ~LastProcess
      <4> PICK st : st = [prstate EXCEPT ![currpid] = "FREE"]
        OBVIOUS
      <4>1. st \in [Pid -> PrState] /\ \A p \in Pid : st[p] = "CURR" => p = currpid
        BY <1>0 DEF PrState
      <4>2. Resched(st, readyqueue)
        BY <2>9, <3>5 DEF Exit
      <4>3. prstate[currpid] # "READY"
        BY <2>3, <3>1 DEF CurrentIsMarked
      <4>4. Exact(st, readyqueue)
        BY <1>0, <2>3, <4>3 DEF Exact
      <4>5. Exact(prstate, readyqueue)'
        BY <1>0, <4>1, <4>2, <4>4, ReschedQueue DEF SoundQueues
      <4>6. pc' = [pc EXCEPT ![currpid] = "dead"] /\ currpid \in DOMAIN pc
        BY <1>0, <2>9, <3>5 DEF Exit, OwnTypes
      <4>7. prstate'[currpid'] = "CURR" \/ currpid' = currpid
        BY <1>0, <4>1, <4>2, ReschedQueue DEF SoundQueues
      <4>8. CurrentIsMarked'
        BY <4>6, <4>7 DEF CurrentIsMarked
      <4> QED BY <3>3, <4>5, <4>8 DEF Exactly
    <3> QED BY <3>4, <3>5
  <2>10. ASSUME Preempt PROVE Exactly'
    BY <1>0, <1>1, <1>r, <2>3, <2>10, ReschedQueue DEF Preempt, tableVars, ownVars, SoundQueues,
       Exactly
  <2> QED BY <1>3, <2>4, <2>5, <2>6, <2>7, <2>8, <2>9, <2>10 DEF OutsideStep, LockStep
<1>4. ASSUME DetectWork
      PROVE  Exactly'
  <2>1. Intact /\ UNCHANGED <<pc, target, held>>
    BY <1>4, QuietDetection
  <2>2. Exact(prstate, readyqueue) /\ WaitExact /\ CurrentIsMarked
    BY <2>1 DEF QueuesInv, Exactly
  <2>3. CASE DetectStep
    BY <1>1, <1>2, <2>1, <2>2, <2>3 DEF DetectStep, procVars, tableVars, Exactly, CurrentIsMarked
  <2>4. CASE DetectEnd
    BY <1>0, <1>1, <2>1, <2>2, <2>4, SwitchQueue DEF DetectEnd, tableVars, SoundQueues, Exactly,
       CurrentIsMarked
  <2>5. CASE RecoverStep
    <3>1. dphase # "recover"
      BY <2>1 DEF LocksInv, ReportInv, Intact
    <3> QED BY <2>5, <3>1 DEF RecoverStep, RecoverDrain, RecoverNobody, RecoverAgain, RecoverLast,
           RecoverReady, RecoverCurrent, Drained
  <2> QED BY <1>4, <2>3, <2>4, <2>5 DEF DetectWork
<1>5. ASSUME UNCHANGED vars
      PROVE  Exactly'
  <2>1. Exact(prstate, readyqueue) /\ WaitExact /\ CurrentIsMarked
    BY <1>5 DEF QueuesInv, Exactly, Intact, vars, ragVars, detectVars, ownVars
  <2> QED BY <1>1, <1>2, <1>5, <2>1 DEF vars, procVars, tableVars, ownVars, Exactly, CurrentIsMarked
<1> QED BY <1>3, <1>4, <1>5 DEF Next, OutsideStep, Stopped
\* The queues when main has returned: everybody but the current process is ready.
LEMMA InitQueues ==
  ASSUME Init
  PROVE  QueuesInv
<1>0. /\ NPROC \in Nat /\ NPROC > 1 /\ PERIOD \in Nat /\ currpid \in Pid
      /\ IsFiniteSet(Pid) /\ Cardinality(Pid) = NPROC
  BY SizeAssumption, LocksAssumption, PidCount, ProcFacts DEF Init
<1>1. Counters
  <2>1. prcount = NPROC /\ calls = 0 /\ halted = FALSE
    BY DEF Init
  <2>2. prcount \in 1 .. NPROC /\ prcount > 1 /\ calls \in 0 .. (PERIOD + 1)
    BY <1>0, <2>1
  <2> QED BY <2>1, <2>2 DEF Counters
<1> PICK n, R : n = [p \in Pid |-> IF p = currpid THEN 0 ELSE 1] /\ R = Pid \ {currpid}
  OBVIOUS
<1>2. n \in [Pid -> Nat] /\ readyqueue = [n |-> n, size |-> NPROC - 1] /\ NPROC - 1 \in 0 .. NPROC
  BY <1>0 DEF Init
<1>3. IsFiniteSet(R) /\ Cardinality(R) = NPROC - 1
  BY <1>0, FS_RemoveElement
<1>4. IsFiniteSet(EntriesOf(n)) /\ Cardinality(EntriesOf(n)) = NPROC - 1
  <2> PICK E, f : E = EntriesOf(n) /\ f = [p \in R |-> <<p, 1>>]
    OBVIOUS
  <2>1. \A p \in R : <<p, 1>> \in E
    <3> TAKE p \in R
    <3>1. p \in Pid /\ 1 \in 1 .. n[p]
      OBVIOUS
    <3> QED BY <1>2, <3>1, EntryFacts
  <2>2. \A t \in E : t[1] \in R /\ t = <<t[1], 1>>
    <3> TAKE t \in E
    <3>1. t[1] \in Pid /\ t[2] \in 1 .. n[t[1]] /\ t = <<t[1], t[2]>>
      BY <1>2, EntryFacts
    <3>2. n[t[1]] \in {0, 1} /\ (t[1] = currpid => n[t[1]] = 0)
      BY <3>1
    <3>3. t[2] = 1 /\ t[1] # currpid
      BY <3>1, <3>2
    <3> QED BY <3>1, <3>3
  <2>3. f \in [R -> E]
    BY <2>1
  <2>4. \A p, q \in R : f[p] = f[q] => p = q
    OBVIOUS
  <2>5. \A t \in E : \E p \in R : f[p] = t
    <3> TAKE t \in E
    <3>1. t[1] \in R /\ f[t[1]] = t
      BY <2>2
    <3> QED BY <3>1
  <2>6. f \in Bijection(R, E)
    BY <2>3, <2>4, <2>5 DEF Bijection, Injection, Surjection, IsInjective
  <2>7. ExistsBijection(R, E)
    BY <2>6 DEF ExistsBijection
  <2> QED BY <1>3, <2>7, FS_Bijection
<1>5. Sound(readyqueue)
  <2> PICK k : k = NPROC - 1
    OBVIOUS
  <2>1. /\ n \in [Pid -> Nat] /\ k \in 0 .. NPROC /\ readyqueue = [n |-> n, size |-> k]
        /\ IsFiniteSet(EntriesOf(n)) /\ Cardinality(EntriesOf(n)) = k
    BY <1>2, <1>4
  <2> QED BY ONLY <2>1, SoundRecord
<1>6. SoundQueues
  <2>1. wait_queue = [l \in Lock |-> EmptyQueue(Pid)] /\ EmptyQueue(Pid) \in QueueType
    BY EmptySound DEF Init, Sound
  <2> QED BY <1>5, <2>1, EmptySound DEF SoundQueues
<1>7. Exact(prstate, readyqueue)
  BY <1>2 DEF Init, Exact
<1>8. WaitExact
  BY DEF Init, WaitExact, Waits, EmptyQueue
<1>9. CurrentIsMarked
  BY <1>0 DEF Init, CurrentIsMarked
<1> QED BY <1>1, <1>6, <1>7, <1>8, <1>9 DEF QueuesInv, Exactly

\* Both invariants, of every behaviour.
LEMMA QueuesInvariant == Spec => [](LocksInv /\ QueuesInv)
<1>1. LocksInv /\ QueuesInv /\ [Next]_vars => (LocksInv /\ QueuesInv)'
  BY LocksStepPreserves, CountersHold, QueuesStaySound, ExactlyPreserved DEF QueuesInv
<1> QED BY <1>1, InitEstablishes, InitQueues, PTL DEF Spec

\* The tables of the lock system stay in range: no queue counts below zero or past the
\* number of processes, though recovery and lock_delete put processes on the ready queue
\* twice, and the process count and the reschedule counter stop where the code stops them.
THEOREM LocksTypeCorrect == Spec => []TypeOK
<1>1. ASSUME LocksInv, QueuesInv PROVE TypeOK
  <2>1. RagTypeOK
    BY <1>1 DEF LocksInv, RagInv
  <2>2. readyqueue \in QueueType /\ wait_queue \in [Lock -> QueueType]
    BY <1>1 DEF QueuesInv, SoundQueues, Sound
  <2>3. prcount \in 0 .. NPROC /\ calls \in 0 .. (PERIOD + 1) /\ halted \in BOOLEAN
    <3>1. NPROC \in Nat
      BY SizeAssumption
    <3> QED BY <1>1, <3>1 DEF QueuesInv, Counters
  <2> QED BY <1>1, <2>1, <2>2, <2>3 DEF LocksInv, OwnTypes, PrState, TypeOK
<1>2. LocksInv /\ QueuesInv => TypeOK
  BY <1>1
<1> QED BY <1>2, QueuesInvariant, PTL

\* Until the first report, and the first deletion of a lock in use, the queues say
\* what is so: who is READY, and who holds and waits for each lock.
THEOREM QueuesAreExact == Spec => []QueuesExact
<1>1. ASSUME LocksInv, QueuesInv PROVE QueuesExact
  <2>1. ASSUME Intact PROVE readyqueue.size = Cardinality({p \in Pid : prstate[p] = "READY"})
    BY <1>1, <2>1, ExactLength DEF QueuesInv, Exactly, SoundQueues, ReadyOnes
  <2> QED BY <1>1, <2>1 DEF QueuesInv, Exactly, Exact, WaitExact, QueuesExact
<1>2. LocksInv /\ QueuesInv => QueuesExact
  BY <1>1
<1> QED BY <1>2, QueuesInvariant, PTL
----------------------------------------------------------------------------
\* How much a detection has still to do: each report may have a full wait queue to be
\* emptied before the search goes on.
ToDrain == IF dphase = "recover" /\ VictimOK THEN wait_queue[lockid].size ELSE 0

DetectionLeft == StepsLeft * (NPROC + 1) + ToDrain

\* Every step of the detection and of the recovery gets on, unless it is their last.
DetectionGetsOn ==
  [][DetectWork /\ dphase' \in {"scan", "recover"} /\ ~halted'
       => DetectionLeft' < DetectionLeft]_vars

\* A step of the search outweighs a queue.
LEMMA Outweighs ==
  ASSUME NEW n \in Nat, NEW s \in Int, NEW t \in Int, NEW v \in 0 .. n, NEW w \in 0 .. n
  PROVE  /\ t < s => t * (n + 1) + w < s * (n + 1) + v
         /\ t <= s => t * (n + 1) <= s * (n + 1) + v
         /\ t * (n + 1) \in Int
<1> PICK d : d = s - t
  OBVIOUS
<1>1. d \in Int /\ s = t + d
  OBVIOUS
<1>2. t * (n + 1) \in Int /\ s * (n + 1) = t * (n + 1) + d * (n + 1) /\ d * (n + 1) \in Int
  BY <1>1
<1>3. /\ d > 0 => d * (n + 1) >= n + 1
      /\ d >= 0 => d * (n + 1) >= 0
  BY <1>1
<1> QED BY <1>1, <1>2, <1>3

LEMMA DrainTypes ==
  /\ RagTypeOK /\ TypeOK => ToDrain \in 0 .. NPROC
  /\ (RagTypeOK /\ TypeOK)' => ToDrain' \in 0 .. NPROC
  /\ NPROC \in Nat
<1>1. RagTypeOK /\ TypeOK => ToDrain \in 0 .. NPROC
  BY VictimTypes, SizeAssumption DEF TypeOK, QueueType, ToDrain
<1>2. (RagTypeOK /\ TypeOK => ToDrain \in 0 .. NPROC)'
  BY <1>1, PTL
<1> QED BY <1>1, <1>2, SizeAssumption

LEMMA LeftTypes ==
  /\ RagTypeOK /\ TypeOK => DetectionLeft \in Nat
  /\ (RagTypeOK /\ TypeOK)' => DetectionLeft' \in Nat
<1>1. ASSUME RagTypeOK, TypeOK PROVE DetectionLeft \in Nat
  <2>1. StepsLeft \in Nat /\ ToDrain \in Nat /\ NPROC \in Nat
    BY <1>1, StepsLeftParts, DrainTypes
  <2> QED BY <2>1 DEF DetectionLeft
<1>2. RagTypeOK /\ TypeOK => DetectionLeft \in Nat
  BY <1>1
<1>3. (RagTypeOK /\ TypeOK => DetectionLeft \in Nat)'
  BY <1>2, PTL
<1> QED BY <1>2, <1>3

\* The tables are in range before a step and after it.
InRange == LocksInv /\ RagTypeOK /\ TypeOK /\ (RagTypeOK /\ TypeOK)'

\* A detection begins with all of its steps to do, and with no queue to empty.
DetectionBound == 3 * SIZE * (NPROC + 1)

LEMMA AtEntry ==
  ASSUME InRange, StepsLeft' = 3 * SIZE, dphase' # "recover"
  PROVE  DetectionLeft' = DetectionBound
<1>1. ToDrain' = 0
  BY DEF ToDrain
<1>2. SIZE \in Nat /\ NPROC \in Nat
  BY VertexFacts, SizeAssumption
<1>3. 3 * SIZE * (NPROC + 1) + 0 = 3 * SIZE * (NPROC + 1)
  BY <1>2
<1> QED BY <1>1, <1>3 DEF DetectionLeft, DetectionBound

\* A step of the search pays for any queue there is to empty after it, and a step that
\* leaves the search where it is adds nothing when no queue is left.
LEMMA SearchPays ==
  ASSUME InRange, StepsLeft' \in Int
  PROVE  /\ StepsLeft' < StepsLeft => DetectionLeft' < DetectionLeft
         /\ StepsLeft' <= StepsLeft /\ ToDrain' = 0 => DetectionLeft' <= DetectionLeft
<1> PICK s, t, v, w : s = StepsLeft /\ t = StepsLeft' /\ v = ToDrain /\ w = ToDrain'
  OBVIOUS
<1>1. NPROC \in Nat /\ v \in 0 .. NPROC /\ w \in 0 .. NPROC
  BY DrainTypes DEF InRange
<1>2. s \in Int /\ t \in Int
  BY StepsLeftParts DEF InRange
<1>3. DetectionLeft = s * (NPROC + 1) + v /\ DetectionLeft' = t * (NPROC + 1) + w
  BY DEF DetectionLeft
<1>4. /\ t < s => t * (NPROC + 1) + w < s * (NPROC + 1) + v
      /\ t <= s => t * (NPROC + 1) <= s * (NPROC + 1) + v
  BY ONLY <1>1, <1>2, Outweighs
<1>5. CASE t <= s /\ w = 0
  <2>1. t * (NPROC + 1) \in Int
    BY ONLY <1>1, <1>2
  <2>2. DetectionLeft' = t * (NPROC + 1)
    BY ONLY <1>3, <1>5, <2>1
  <2> QED BY <1>3, <1>4, <1>5, <2>2
<1> QED BY <1>3, <1>4, <1>5

\* Emptying a queue does not wait for the search.
LEMMA DrainPays ==
  ASSUME InRange, StepsLeft' = StepsLeft
  PROVE  /\ ToDrain' < ToDrain => DetectionLeft' < DetectionLeft
         /\ ToDrain' <= ToDrain => DetectionLeft' <= DetectionLeft
<1>0. PICK s, v, w : s = StepsLeft * (NPROC + 1) /\ v = ToDrain /\ w = ToDrain'
  OBVIOUS
<1>1. v \in Int /\ w \in Int /\ NPROC \in Nat
  BY <1>0, DrainTypes DEF InRange
<1>2. s \in Int
  BY <1>0, <1>1, StepsLeftParts DEF InRange
<1>3. DetectionLeft = s + v /\ DetectionLeft' = s + w
  BY <1>0 DEF DetectionLeft
<1> QED BY ONLY <1>0, <1>1, <1>2, <1>3

\* Every step of the detection brings its end nearer, or is the end.
LEMMA DetectionAdvances ==
  ASSUME InRange, DetectWork
  PROVE  \/ DetectionLeft' < DetectionLeft
         \/ /\ dphase' \notin {"scan", "recover"} \/ halted'
            /\ DetectionLeft' <= DetectionLeft \/ DetectionLeft' = DetectionBound
<1>0. RagInv /\ RagTypeOK
  BY DEF InRange, LocksInv
<1>1. CASE DetectStep
  <2>1. DfsStep
    BY <1>1 DEF DetectStep
  <2>2. StepsLeft' \in Int /\ StepsLeft' < StepsLeft
    BY <1>0, <2>1, DfsAdvances
  <2> QED BY <2>2, SearchPays
<1>2. CASE DetectEnd
  <2>1. DetectReturn /\ dphase' = "idle"
    BY <1>2 DEF DetectEnd, DetectReturn
  <2> QED BY <1>0, <2>1, IdleSteps, AtEntry
<1>3. CASE RecoverDrain
  <2>1. UNCHANGED ragVars /\ dphase = "recover" /\ VictimOK
    BY <1>3 DEF RecoverDrain
  <2>2. StepsLeft' = StepsLeft /\ lockid' = lockid /\ VictimOK' /\ dphase' = "recover"
    BY <2>1 DEF ragVars, detectVars, StepsLeft, lockid, VictimOK
  <2>3. lockid \in Lock /\ wait_queue \in [Lock -> QueueType]
    BY <2>1, VictimTypes DEF InRange, TypeOK
  <2>4. wait_queue'[lockid].size = wait_queue[lockid].size - 1
    BY <1>3, <2>3 DEF RecoverDrain, Dequeued
  <2>5. ToDrain' = wait_queue[lockid].size - 1 /\ ToDrain = wait_queue[lockid].size
    BY <2>1, <2>2, <2>4 DEF ToDrain
  <2>6. wait_queue[lockid].size \in Int
    BY <2>3, SizeAssumption DEF QueueType
  <2> QED BY <2>2, <2>5, <2>6, DrainPays
<1>4. CASE RecoverNobody
  <2>1. ToDrain' = 0 /\ ToDrain = 0 /\ dphase' = "fault"
    BY <1>4 DEF RecoverNobody, ToDrain
  <2>2. StepsLeft' = StepsLeft
    BY <1>4 DEF RecoverNobody, StepsLeft
  <2> QED BY <2>1, <2>2, DrainPays
<1>5. CASE RecoverAgain \/ RecoverReady
  <2>1. dphase = "recover" /\ RecoverReturn /\ UNCHANGED <<stack, visited>>
    BY <1>5 DEF RecoverAgain, RecoverReady, Drained, RecoverRest
  <2> QED BY <1>0, <2>1, RecoveryAdvances, SearchPays
<1>6. CASE RecoverLast
  <2>1. UNCHANGED <<ragVars, tableVars>> /\ halted'
    BY <1>6 DEF RecoverLast
  <2>2. StepsLeft' = StepsLeft /\ ToDrain' = ToDrain
    BY <2>1 DEF ragVars, detectVars, tableVars, StepsLeft, ToDrain, VictimOK, lockid
  <2>3. ToDrain \in Int
    BY DrainTypes DEF InRange
  <2> QED BY <2>1, <2>2, <2>3, DrainPays
<1>7. CASE RecoverCurrent
  <2>1. stack' = <<>> /\ visited' = {} /\ root' = 0 /\ dphase' = "idle"
    BY <1>0, <1>7 DEF RecoverCurrent, Drained, RagInv, PhaseInv
  <2> QED BY <2>1, StepsAtEntry, AtEntry
<1> QED BY <1>1, <1>2, <1>3, <1>4, <1>5, <1>6, <1>7 DEF DetectWork, RecoverStep

\* The other steps leave it at the start.
LEMMA OutsideRests ==
  ASSUME InRange, OutsideStep \/ UNCHANGED vars
  PROVE  DetectionLeft' <= DetectionLeft \/ DetectionLeft' = DetectionBound
<1>1. CASE UNCHANGED vars
  <2>1. StepsLeft' = StepsLeft /\ ToDrain' = ToDrain
    BY <1>1 DEF vars, ragVars, detectVars, tableVars, StepsLeft, ToDrain, VictimOK, lockid
  <2>2. ToDrain \in Int
    BY DrainTypes DEF InRange
  <2> QED BY <2>1, <2>2, DrainPays
<1>2. CASE OutsideStep
  <2>1. dphase = "idle" /\ (DetectEntry \/ UNCHANGED detectVars)
    BY <1>2, OutsideStepFacts DEF InRange
  <2>2. CASE DetectEntry
    <3>1. stack' = <<>> /\ visited' = {} /\ root' = 0 /\ dphase' = "scan"
      BY <2>2 DEF DetectEntry
    <3> QED BY <3>1, StepsAtEntry, AtEntry
  <2>3. CASE UNCHANGED detectVars
    <3>1. StepsLeft' = StepsLeft /\ ToDrain' = 0 /\ ToDrain = 0
      BY <2>1, <2>3 DEF detectVars, StepsLeft, ToDrain
    <3> QED BY <3>1, DrainPays
  <2> QED BY <2>1, <2>2, <2>3
<1> QED BY <1>1, <1>2

\* A detection with its recoveries is over after a number of steps that the sizes of the
\* tables bound: what is left of it never exceeds the bound, and no step of it, the one in
\* which it ends or the processor stops excepted, leaves as much as it found.
THEOREM DetectionIsShort == Spec => [](DetectionLeft \in 0 .. DetectionBound) /\ DetectionGetsOn
<1> DEFINE Short == DetectionLeft <= DetectionBound
           Good  == LocksInv /\ RagTypeOK /\ TypeOK
           Gets  == DetectWork /\ dphase' \in {"scan", "recover"} /\ ~halted'
                      => DetectionLeft' < DetectionLeft
<1>1. DetectionBound \in Int
  BY VertexFacts, SizeAssumption DEF DetectionBound
<1>2. ASSUME Good, Short PROVE DetectionLeft \in 0 .. DetectionBound
  BY <1>1, <1>2, LeftTypes
<1>3. Good /\ Short => DetectionLeft \in 0 .. DetectionBound
  BY <1>2
<1>4. ASSUME Init, Good PROVE Short
  <2>1. stack = <<>> /\ visited = {} /\ root = 0 /\ dphase = "idle"
    BY <1>4 DEF Init, DetectInit
  <2>2. StepsLeft = 3 * SIZE /\ ToDrain = 0
    BY <2>1, StepsAtEntry DEF ToDrain
  <2> QED BY <2>2, <1>1, VertexFacts, SizeAssumption DEF DetectionLeft, DetectionBound
<1>5. Init /\ Good => Short
  BY <1>4
<1>6. ASSUME InRange, Short, [Next]_vars PROVE Short' /\ [Gets]_vars
  <2>1. DetectionLeft \in Nat /\ DetectionLeft' \in Nat /\ DetectionBound' = DetectionBound
    BY <1>6, LeftTypes DEF InRange, DetectionBound
  <2>4. CASE DetectWork
    BY <1>1, <1>6, <2>1, <2>4, DetectionAdvances
  <2>5. CASE (OutsideStep \/ UNCHANGED vars) /\ ~DetectWork
    BY <1>1, <1>6, <2>1, <2>5, OutsideRests
  <2> QED BY <1>6, <2>4, <2>5 DEF Next, OutsideStep, Stopped
<1>7. Good /\ Good' /\ Short /\ [Next]_vars => Short' /\ [Gets]_vars
  BY <1>6 DEF InRange
<1>8. LocksInv => RagTypeOK
  BY DEF LocksInv, RagInv
<1>9. Spec => []Good
  BY <1>8, LocksInvariant, LocksTypeCorrect, PTL
<1> QED BY <1>3, <1>5, <1>7, <1>9, PTL DEF Spec, DetectionGetsOn
=============================================================================
