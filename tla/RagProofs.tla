----------------------------- MODULE RagProofs -----------------------------
(***************************************************************************)
(* Proofs about the search of deadlock_detect, for every number of locks   *)
(* and processes.  The lemmas of the first part are about the steps of Rag *)
(* alone, and LocksProofs cites them of the same search in the lock        *)
(* system; the second part proves RagSystem from them: the search keeps    *)
(* its data in range, the first cycle it reports is a cycle, and when it   *)
(* reports none there is none.                                             *)
(*                                                                         *)
(* While nothing has been reported the marks in recur are exactly the      *)
(* vertices on the stack, the stack is a path of the graph, and the        *)
(* vertices that are visited and unmarked ("finished") are closed under    *)
(* the edges, carry no cycle and include every vertex the scan has passed. *)
(* A report leaves marks behind, which is why nothing is claimed for the   *)
(* rest of that scan.                                                      *)
(***************************************************************************)
EXTENDS RagSystem, FiniteSetTheorems, SequenceTheorems, TLAPS

Finished == visited \ recur

StackIsPath ==
  /\ \A k \in 1 .. (Len(stack) - 1) : <<stack[k], stack[k + 1]>> \in RAG
  /\ \A j, k \in 1 .. Len(stack) : stack[j] = stack[k] => j = k
  /\ stack # <<>> => stack[1] = root
  /\ recur = {stack[k] : k \in 1 .. Len(stack)}
  /\ recur \subseteq visited

FinishedClosed == \A v \in Finished : \A w \in Vertex : <<v, w>> \in RAG => w \in Finished

FinishedAcyclic == \A C \in SUBSET Finished : ~CycleIn(RAG, C)

SearchInv ==
  dphase = "scan" /\ ~reported =>
    /\ StackIsPath
    /\ FinishedClosed
    /\ FinishedAcyclic
    /\ \A v \in Vertex : v < root => v \in Finished

PhaseInv ==
  /\ dphase = "recover" => root < SIZE /\ stack = <<>> /\ reported
  /\ stack # <<>> => root < SIZE /\ dphase = "scan"
  /\ recur \subseteq visited

RagInv == RagTypeOK /\ PhaseInv /\ SearchInv

----------------------------------------------------------------------------
\* The arithmetic of the vertices.
LEMMA VertexFacts ==
  /\ SIZE \in Nat /\ SIZE > 0
  /\ Lock \subseteq Vertex
  /\ \A p \in Pid : Proc(p) \in Vertex
  /\ Vertex \subseteq Int
BY SizeAssumption DEF SIZE, Lock, Pid, Proc, Vertex

\* The edges that the lock operations add are edges between vertices.
LEMMA EdgeTypes ==
  ASSUME NEW g \in SUBSET (Vertex \X Vertex), NEW p \in Pid, NEW l \in Lock
  PROVE  /\ rag_request(g, p, l) \in SUBSET (Vertex \X Vertex)
         /\ rag_alloc(g, p, l) \in SUBSET (Vertex \X Vertex)
         /\ rag_dealloc(g, p, l) \in SUBSET (Vertex \X Vertex)
<1>1. l \in Vertex /\ Proc(p) \in Vertex
  BY VertexFacts
<1>2. QED
  BY <1>1 DEF rag_request, rag_alloc, rag_dealloc

\* What detect passes to recover, when it is a process and a lock.
LEMMA VictimTypes ==
  ASSUME VictimOK
  PROVE  victim \in Pid /\ lockid \in Lock /\ Proc(victim) = deadlocks[1]
BY SizeAssumption DEF VictimOK, victim, lockid, ProcVertex, Pid, SIZE, Proc

\* The stack as dfs stores it: the same vertices, as many of them.
LEMMA TrailTypes ==
  ASSUME stack \in Seq(Vertex), deadlocks \in Seq(Vertex)
  PROVE  /\ deadlocks \o Reverse(stack) \in Seq(Vertex)
         /\ Len(deadlocks \o Reverse(stack)) = Len(deadlocks) + Len(stack)
<1>1. Reverse(stack) \in Seq(Vertex) /\ Len(Reverse(stack)) = Len(stack)
  BY DEF Reverse
<1>2. QED
  BY <1>1

\* The top of a nonempty stack, and what is left when it is popped.
LEMMA StackFacts ==
  ASSUME stack \in Seq(Vertex), stack # <<>>
  PROVE  /\ Len(stack) \in Nat \ {0}
         /\ Top \in Vertex
         /\ Front(stack) \in Seq(Vertex)
         /\ Len(Front(stack)) = Len(stack) - 1
         /\ \A k \in 1 .. (Len(stack) - 1) : Front(stack)[k] = stack[k]
<1> DEFINE n == Len(stack) - 1
<1>1. Len(stack) \in Nat \ {0} /\ n \in Nat /\ \A i \in 1 .. n : stack[i] \in Vertex
  OBVIOUS
<1>2. /\ SubSeq(stack, 1, n) \in Seq(Vertex)
      /\ Len(SubSeq(stack, 1, n)) = n
      /\ \A k \in 1 .. n : SubSeq(stack, 1, n)[k] = stack[k]
  <2> HIDE DEF n
  <2>1. /\ SubSeq(stack, 1, n) \in Seq(Vertex)
        /\ Len(SubSeq(stack, 1, n)) = IF 1 <= n THEN n - 1 + 1 ELSE 0
        /\ \A i \in 1 .. n - 1 + 1 : SubSeq(stack, 1, n)[i] = stack[1 + i - 1]
    BY <1>1, SubSeqProperties
  <2>2. QED
    BY <1>1, <2>1
<1>3. QED
  BY <1>1, <1>2 DEF Top, Front

----------------------------------------------------------------------------
\* The call of deadlock_detect establishes the invariant.
LEMMA EntryEstablishes ==
  ASSUME RagTypeOK, DetectEntry, RAG' \in SUBSET (Vertex \X Vertex)
  PROVE  RagInv'
<1>1. stack' = <<>> /\ visited' = {} /\ recur' = {} /\ root' = 0
  BY DEF DetectEntry
<1>2. stack' \in Seq(Vertex) /\ 0 \in 0 .. SIZE
  BY <1>1, VertexFacts
<1>3. RagTypeOK' /\ PhaseInv'
  BY <1>1, <1>2 DEF DetectEntry, RagTypeOK, PhaseInv
<1>4. StackIsPath' /\ Finished' = {}
  BY <1>1 DEF StackIsPath, Finished
<1>5. FinishedClosed' /\ FinishedAcyclic'
  BY <1>4 DEF FinishedClosed, FinishedAcyclic, CycleIn
<1>6. \A v \in Vertex : ~(v < root')
  BY <1>1 DEF Vertex
<1>7. QED
  BY <1>3, <1>4, <1>5, <1>6 DEF RagInv, SearchInv

\* The steps of the search keep the state in range: the loop of deadlock_detect
\* stops at SIZE, and a report stores vertices.
LEMMA DfsTypes ==
  ASSUME RagTypeOK, PhaseInv, DfsStep
  PROVE  RagTypeOK' /\ PhaseInv'
<1> USE VertexFacts DEF RagTypeOK, PhaseInv
<1>3. CASE DfsSkip
  BY <1>3 DEF DfsSkip, AtRoot, InScan
<1>4. ASSUME NEW v \in Vertex, InScan, DfsEnter(v)
      PROVE  RagTypeOK' /\ PhaseInv'
  <2>1. Append(stack, v) \in Seq(Vertex) /\ Append(stack, v) # <<>>
    OBVIOUS
  <2>2. QED
    BY <2>1, <1>4 DEF DfsEnter, InScan
<1>5. CASE DfsRoot
  <2>1. root \in Vertex
    BY <1>5 DEF DfsRoot, AtRoot, InScan, Vertex
  <2>2. QED
    BY <1>4, <1>5, <2>1 DEF DfsRoot, AtRoot
<1>6. CASE DfsDescend
  <2>1. InScan /\ \E w \in Vertex : DfsEnter(w)
    BY <1>6 DEF DfsDescend, InSearch
  <2>2. QED
    BY <1>4, <2>1
<1>7. CASE DfsReturn
  <2>1. /\ Front(stack) \in Seq(Vertex) /\ Len(Front(stack)) = Len(stack) - 1
        /\ Len(stack) \in Nat \ {0}
    BY <1>7, StackFacts DEF DfsReturn, InSearch
  <2>2. Front(stack) # <<>> => Len(stack) # 1
    BY ONLY <2>1, EmptySeq
  <2>3. root' \in 0 .. SIZE /\ (Len(stack) # 1 => root' < SIZE)
    BY <1>7, <2>1 DEF DfsReturn, InSearch, InScan
  <2>4. RagTypeOK'
    BY <1>7, <2>1, <2>3 DEF DfsReturn, InSearch, InScan
  <2>5. PhaseInv'
    BY <1>7, <2>2, <2>3 DEF DfsReturn, InSearch, InScan
  <2>6. QED
    BY <2>4, <2>5
<1>8. CASE DfsReport
  <2>1. deadlocks' \in Seq(Vertex) /\ Len(deadlocks') = Len(deadlocks) + Len(stack)
    BY <1>8, TrailTypes DEF DfsReport, Store
  <2>2. QED
    BY <1>8, <2>1 DEF DfsReport, Store, Closes, InSearch, InScan
<1>10. QED
  BY <1>3, <1>5, <1>6, <1>7, <1>8 DEF DfsStep

\* An activation that has run out of neighbours may join the finished vertices:
\* its successors are all finished, so no cycle goes through it.
LEMMA FinishTop ==
  ASSUME RagTypeOK, FinishedClosed, FinishedAcyclic,
         NEW v \in Vertex, v \in visited, v \in recur,
         \A w \in Vertex : <<v, w>> \in RAG => w \in Finished
  PROVE  /\ \A u \in Finished \union {v} : \A w \in Vertex :
               <<u, w>> \in RAG => w \in Finished \union {v}
         /\ \A C \in SUBSET (Finished \union {v}) : ~CycleIn(RAG, C)
<1>1. \A u \in Finished \union {v} : \A w \in Vertex : <<u, w>> \in RAG => w \in Finished
  BY DEF FinishedClosed
<1>2. ASSUME NEW C \in SUBSET (Finished \union {v}), CycleIn(RAG, C)
      PROVE  FALSE
  <2>1. v \notin Finished
    BY DEF Finished
  <2>2. \A u \in C : \E w \in C \ {v} : <<u, w>> \in RAG
    BY <1>1, <1>2, <2>1 DEF CycleIn, RagTypeOK, Finished
  <2>3. CycleIn(RAG, C \ {v})
    BY <1>2, <2>2 DEF CycleIn
  <2>4. C \ {v} \in SUBSET Finished
    OBVIOUS
  <2>5. QED
    BY <2>3, <2>4 DEF FinishedAcyclic
<1>3. QED
  BY <1>1, <1>2

\* Entering a vertex that was not visited extends the path and leaves the
\* finished vertices as they are.
LEMMA EnterPreserves ==
  ASSUME RagTypeOK, StackIsPath, FinishedClosed, FinishedAcyclic,
         NEW v \in Vertex, v \notin visited, DfsEnter(v),
         stack = <<>> => v = root,
         stack # <<>> => <<Top, v>> \in RAG
  PROVE  (StackIsPath /\ FinishedClosed /\ FinishedAcyclic)' /\ Finished' = Finished
<1>1. Finished' = Finished
  BY DEF DfsEnter, Finished, StackIsPath
<1>2. (FinishedClosed /\ FinishedAcyclic)'
  BY <1>1 DEF FinishedClosed, FinishedAcyclic, DfsEnter, CycleIn
<1>3. /\ Len(stack') = Len(stack) + 1 /\ Len(stack) \in Nat
      /\ \A k \in 1 .. Len(stack) : stack'[k] = stack[k]
      /\ stack'[Len(stack) + 1] = v /\ stack' # <<>>
  BY DEF DfsEnter, RagTypeOK
<1>4. \A k \in 1 .. (Len(stack') - 1) : <<stack'[k], stack'[k + 1]>> \in RAG'
  <2>1. TAKE k \in 1 .. (Len(stack') - 1)
  <2>2. CASE k < Len(stack)
    BY <1>3, <2>2 DEF StackIsPath, DfsEnter
  <2>3. CASE k = Len(stack)
    <3>1. stack # <<>>
      BY <2>1, <2>3
    <3>2. <<stack[k], v>> \in RAG
      BY <3>1, <2>3 DEF Top
    <3>3. QED
      BY SMTT(40), <1>3, <2>1, <2>3, <3>2 DEF DfsEnter
  <2>4. QED
    BY <1>3, <2>1, <2>2, <2>3
<1>5. \A k \in 1 .. Len(stack) : stack[k] # v
  BY DEF StackIsPath
<1>6. \A j, k \in 1 .. Len(stack') : stack'[j] = stack'[k] => j = k
  BY <1>3, <1>5 DEF StackIsPath
<1>7. stack'[1] = root'
  BY <1>3 DEF StackIsPath, DfsEnter
<1>8. recur' = {stack'[k] : k \in 1 .. Len(stack')}
  <2>1. {stack'[k] : k \in 1 .. Len(stack')} = {stack[k] : k \in 1 .. Len(stack)} \union {v}
    BY <1>3
  <2>2. QED
    BY <2>1 DEF StackIsPath, DfsEnter
<1>9. recur' \subseteq visited'
  BY DEF StackIsPath, DfsEnter
<1>10. QED
  BY <1>1, <1>2, <1>4, <1>6, <1>7, <1>8, <1>9 DEF StackIsPath

\* An activation that returns 0 leaves the path and joins the finished vertices.
LEMMA ReturnPreserves ==
  ASSUME RagTypeOK, StackIsPath, FinishedClosed, FinishedAcyclic, DfsReturn
  PROVE  (StackIsPath /\ FinishedClosed /\ FinishedAcyclic)' /\ Finished' = Finished \union {Top}
<1>1. stack # <<>>
  BY DEF DfsReturn, InSearch
<1>2. /\ Len(stack) \in Nat \ {0} /\ Top \in Vertex
      /\ stack' \in Seq(Vertex) /\ Len(stack') = Len(stack) - 1
      /\ \A k \in 1 .. (Len(stack) - 1) : stack'[k] = stack[k]
  BY <1>1, StackFacts DEF RagTypeOK, DfsReturn
<1>3. Top = stack[Len(stack)] /\ Top \in recur /\ Top \in visited
  BY <1>2 DEF Top, StackIsPath
<1>4. \A w \in Vertex : <<Top, w>> \in RAG => w \in Finished
  BY DEF DfsReturn, Pending, Finished
<1>5. Finished' = Finished \union {Top}
  BY <1>3 DEF Finished, DfsReturn
<1>6. (FinishedClosed /\ FinishedAcyclic)'
  BY <1>2, <1>3, <1>4, <1>5, FinishTop DEF FinishedClosed, FinishedAcyclic, DfsReturn
<1>7. recur' = {stack'[k] : k \in 1 .. Len(stack')}
  <2>1. \A k \in 1 .. (Len(stack) - 1) : stack[k] # Top
    BY <1>2, <1>3 DEF StackIsPath
  <2>2. {stack[k] : k \in 1 .. Len(stack)} \ {Top} = {stack'[k] : k \in 1 .. Len(stack')}
    BY <1>2, <1>3, <2>1
  <2>3. QED
    BY <2>2 DEF StackIsPath, DfsReturn
<1>8. \A k \in 1 .. (Len(stack') - 1) : <<stack'[k], stack'[k + 1]>> \in RAG'
  BY SMTT(40), <1>2 DEF StackIsPath, DfsReturn
<1>9. \A j, k \in 1 .. Len(stack') : stack'[j] = stack'[k] => j = k
  BY <1>2 DEF StackIsPath
<1>10. stack' # <<>> => stack'[1] = root'
  <2>1. stack' # <<>> => Len(stack) # 1
    BY <1>2
  <2>2. QED
    BY <1>1, <1>2, <2>1 DEF StackIsPath, DfsReturn
<1>11. recur' \subseteq visited'
  BY DEF StackIsPath, DfsReturn
<1>12. QED
  BY <1>5, <1>6, <1>7, <1>8, <1>9, <1>10, <1>11 DEF StackIsPath

\* The steps of the search preserve its invariant.
LEMMA DfsSearch ==
  ASSUME RagInv, DfsStep
  PROVE  SearchInv'
<1> SUFFICES ASSUME dphase' = "scan", ~reported'
             PROVE  /\ StackIsPath' /\ FinishedClosed' /\ FinishedAcyclic'
                    /\ \A v \in Vertex : v < root' => v \in Finished'
  BY DEF SearchInv
<1> USE DEF RagInv
<1>3. ASSUME InScan, ~reported
      PROVE  /\ StackIsPath /\ FinishedClosed /\ FinishedAcyclic
             /\ \A v \in Vertex : v < root => v \in Finished
  BY <1>3 DEF SearchInv, InScan
<1>4. CASE DfsSkip
  <2>1. stack = <<>> /\ recur = {} /\ ~reported /\ InScan
    BY <1>3, <1>4 DEF DfsSkip, AtRoot, StackIsPath
  <2>2. recur' = {} /\ UNCHANGED <<RAG, stack, visited>> /\ root' = root + 1 /\ root \in visited
    BY <1>4, <2>1 DEF DfsSkip
  <2>3. Finished' = Finished
    BY <2>1, <2>2 DEF Finished
  <2>4. FinishedClosed' /\ FinishedAcyclic'
    BY <1>3, <2>1, <2>2, <2>3 DEF FinishedClosed, FinishedAcyclic, CycleIn
  <2>5. StackIsPath'
    BY <1>3, <2>1, <2>2 DEF StackIsPath
  <2>6. \A v \in Vertex : v < root' => v \in Finished'
    BY <1>3, <2>1, <2>2, <2>3, VertexFacts DEF RagTypeOK, Finished
  <2>7. QED
    BY <2>4, <2>5, <2>6
<1>5. ASSUME NEW v \in Vertex, v \notin visited, InScan, DfsEnter(v),
             stack = <<>> => v = root, stack # <<>> => <<Top, v>> \in RAG
      PROVE  /\ StackIsPath' /\ FinishedClosed' /\ FinishedAcyclic'
             /\ \A u \in Vertex : u < root' => u \in Finished'
  <2>1. ~reported
    BY <1>5 DEF DfsEnter
  <2>2. (StackIsPath /\ FinishedClosed /\ FinishedAcyclic)' /\ Finished' = Finished
    BY <1>3, <1>5, <2>1, EnterPreserves
  <2>3. QED
    BY <1>3, <1>5, <2>1, <2>2 DEF DfsEnter
<1>6. CASE DfsRoot
  <2>1. root \in Vertex /\ root \notin visited /\ InScan /\ DfsEnter(root) /\ stack = <<>>
    BY <1>6, VertexFacts DEF DfsRoot, AtRoot, InScan, Vertex, RagTypeOK
  <2>2. QED
    BY <1>5, <2>1
<1>7. CASE DfsDescend
  <2>1. PICK w \in Vertex : IsNext(w) /\ w \notin visited /\ DfsEnter(w)
    BY <1>7 DEF DfsDescend
  <2>2. <<Top, w>> \in RAG /\ InScan /\ stack # <<>>
    BY <1>7, <2>1 DEF DfsDescend, InSearch, IsNext, Pending
  <2>3. QED
    BY <1>5, <2>1, <2>2
<1>8. CASE DfsReturn
  <2>1. ~reported /\ InScan
    BY <1>8 DEF DfsReturn, InSearch
  <2>2. (StackIsPath /\ FinishedClosed /\ FinishedAcyclic)' /\ Finished' = Finished \union {Top}
    BY <1>3, <1>8, <2>1, ReturnPreserves
  <2>3. \A v \in Vertex : v < root' => v \in Finished'
    <3>1. Len(stack) \in Nat \ {0} /\ stack # <<>>
      BY <1>8, StackFacts DEF RagTypeOK, DfsReturn, InSearch
    <3>2. root' = root \/ (root' = root + 1 /\ Top = root)
      BY <1>3, <1>8, <2>1, <3>1 DEF DfsReturn, Top, StackIsPath
    <3>3. QED
      BY <1>3, <2>1, <2>2, <3>2, VertexFacts DEF RagTypeOK
  <2>4. QED
    BY <2>2, <2>3
<1>9. CASE DfsReport
  BY <1>9 DEF DfsReport
<1>10. QED
  BY <1>4, <1>6, <1>7, <1>8, <1>9 DEF DfsStep

\* The types and the search together: a step of the search keeps all of RagInv.
LEMMA DfsPreserves ==
  ASSUME RagInv, DfsStep
  PROVE  RagInv' /\ RAG' = RAG
<1>1. RagInv'
  BY DfsTypes, DfsSearch DEF RagInv
<1>2. RAG' = RAG
  BY DEF DfsStep, DfsSkip, DfsRoot, DfsDescend, DfsEnter, DfsReturn, DfsReport
<1>3. QED
  BY <1>1, <1>2

\* Outside a scan, and after the first report of one, the invariant says no more
\* than the types: these steps keep it.
LEMMA QuietPreserves ==
  ASSUME RagInv, RAG' \in SUBSET (Vertex \X Vertex),
         \/ UNCHANGED detectVars /\ dphase # "scan"
         \/ UNCHANGED detectVars /\ RAG' = RAG
         \/ DetectReturn
         \/ /\ dphase = "recover" /\ RecoverReturn
            /\ UNCHANGED <<deadlocks, stack, visited, recur, reported, kept>>
         \/ /\ dphase = "recover" /\ dphase' = "fault"
            /\ UNCHANGED <<deadlocks, root, stack, visited, recur, reported, kept>>
         \/ /\ dphase = "recover" /\ dphase' = "idle" /\ root' = 0
            /\ visited' = {} /\ recur' = {} /\ kept' = Len(deadlocks)
            /\ UNCHANGED <<deadlocks, stack, reported>>
  PROVE  RagInv'
<1> USE VertexFacts DEF RagInv
<1>1. RagTypeOK' /\ PhaseInv'
  <2> USE DEF RagTypeOK, PhaseInv
  <2>1. CASE UNCHANGED detectVars
    BY <2>1 DEF detectVars
  <2>2. CASE DetectReturn
    BY <2>2 DEF DetectReturn
  <2>3. CASE /\ dphase = "recover" /\ RecoverReturn
             /\ UNCHANGED <<deadlocks, stack, visited, recur, reported, kept>>
    BY <2>3 DEF RecoverReturn
  <2>4. CASE /\ dphase = "recover" /\ dphase' = "fault"
             /\ UNCHANGED <<deadlocks, root, stack, visited, recur, reported, kept>>
    BY <2>4
  <2>5. CASE /\ dphase = "recover" /\ dphase' = "idle" /\ root' = 0
             /\ visited' = {} /\ recur' = {} /\ kept' = Len(deadlocks)
             /\ UNCHANGED <<deadlocks, stack, reported>>
    BY <2>5
  <2>6. QED
    BY <2>1, <2>2, <2>3, <2>4, <2>5
<1>2. CASE UNCHANGED detectVars /\ RAG' = RAG
  <2>1. UNCHANGED <<RAG, root, stack, visited, recur, dphase, reported, kept>>
    BY <1>2 DEF detectVars
  <2>2. Finished' = Finished /\ (StackIsPath => StackIsPath')
    BY <2>1 DEF Finished, StackIsPath
  <2>3. (FinishedClosed => FinishedClosed') /\ (FinishedAcyclic => FinishedAcyclic')
    BY <2>1, <2>2 DEF FinishedClosed, FinishedAcyclic, CycleIn
  <2>4. SearchInv'
    BY <2>1, <2>2, <2>3 DEF SearchInv
  <2>5. QED
    BY <1>1, <2>4
<1>3. dphase' = "scan" /\ ~reported' => UNCHANGED detectVars /\ RAG' = RAG
  BY DEF PhaseInv, detectVars, DetectReturn
<1>4. QED
  BY <1>1, <1>2, <1>3 DEF SearchInv

\* A report that is the first of its scan comes with a path that closes.
LEMMA ReportIsCyclic ==
  ASSUME RagInv, DfsReport, ~reported
  PROVE  PathCloses(stack) /\ HasCycle(RAG)
<1>1. StackIsPath /\ stack # <<>> /\ stack \in Seq(Vertex)
  BY DEF RagInv, RagTypeOK, SearchInv, DfsReport, Closes, InSearch, InScan
<1>2. PICK w \in recur : <<Top, w>> \in RAG
  BY DEF DfsReport, Closes, IsNext, Pending
<1>3. PICK k \in 1 .. Len(stack) : w = stack[k]
  BY <1>1, <1>2 DEF StackIsPath
<1>4. PathCloses(stack)
  BY <1>1, <1>2, <1>3 DEF PathCloses, StackIsPath, Top
<1> DEFINE C == {stack[j] : j \in k .. Len(stack)}
<1>5. C \in SUBSET Vertex /\ C # {}
  BY <1>1, <1>3
<1>6. \A v \in C : \E u \in C : <<v, u>> \in RAG
  <2>1. TAKE v \in C
  <2>2. PICK j \in k .. Len(stack) : v = stack[j]
    BY <2>1
  <2>3. CASE j = Len(stack)
    <3>1. stack[k] \in C /\ <<v, stack[k]>> \in RAG
      BY <1>1, <1>2, <1>3, <2>2, <2>3 DEF Top
    <3>2. QED
      BY <3>1
  <2>4. CASE j < Len(stack)
    <3>1. stack[j + 1] \in C /\ <<stack[j], stack[j + 1]>> \in RAG
      BY <1>1, <1>3, <2>2, <2>4 DEF StackIsPath
    <3>2. QED
      BY <2>2, <3>1
  <2>5. j = Len(stack) \/ j < Len(stack)
    BY <1>1, <1>3, <2>2
  <2>6. QED
    BY <2>3, <2>4, <2>5
<1>7. QED
  BY <1>4, <1>5, <1>6 DEF HasCycle, CycleIn

\* A scan that returns without a report has finished every vertex.
LEMMA SilentIsAcyclic ==
  ASSUME RagInv, DetectReturn, ~reported
  PROVE  ~HasCycle(RAG)
<1>1. root = SIZE /\ stack = <<>>
  BY VertexFacts DEF RagInv, PhaseInv, DetectReturn
<1>2. FinishedAcyclic /\ \A v \in Vertex : v < root => v \in Finished
  BY DEF RagInv, SearchInv, DetectReturn
<1>3. Vertex \subseteq Finished
  BY <1>1, <1>2, VertexFacts DEF Vertex
<1>4. QED
  BY <1>2, <1>3 DEF FinishedAcyclic, HasCycle

----------------------------------------------------------------------------
\* How much a search has still to do: to enter the vertices it has not visited and to return
\* from them, to return from those it is in, and to pass what is left of its loop.
StepsLeft == 2 * Cardinality(Vertex \ visited) + Len(stack) + (SIZE - root)

\* A set of vertices is finite, and not larger than the graph.
LEMMA VertexCount ==
  ASSUME NEW S \in SUBSET Vertex
  PROVE  IsFiniteSet(S) /\ Cardinality(S) \in 0 .. SIZE
<1>1. IsFiniteSet(Vertex) /\ Cardinality(Vertex) = SIZE
  BY VertexFacts, FS_Interval DEF Vertex
<1>2. IsFiniteSet(S) /\ Cardinality(S) <= Cardinality(Vertex)
  BY <1>1, FS_Subset
<1> QED BY <1>1, <1>2, FS_CardinalityType, VertexFacts

\* What one call stores.  While it runs, the vertices it has stored and those on its
\* stack are visited and all different, so no later activation enters one of them.
TrailInv ==
  /\ kept <= Len(deadlocks)
  /\ dphase = "idle" => kept = Len(deadlocks)
  /\ StoredOnce
  /\ dphase \in {"scan", "recover"} =>
       /\ \A k \in (kept + 1) .. Len(deadlocks) : deadlocks[k] \in visited
       /\ \A j \in 1 .. Len(stack) : stack[j] \in visited
       /\ \A j, k \in 1 .. Len(stack) : stack[j] = stack[k] => j = k
       /\ \A j \in 1 .. Len(stack), k \in (kept + 1) .. Len(deadlocks) : stack[j] # deadlocks[k]

\* The trail after a report, entry by entry.
LEMMA TrailEntries ==
  ASSUME stack \in Seq(Vertex), deadlocks \in Seq(Vertex), NEW t, t = deadlocks \o Reverse(stack)
  PROVE  /\ Len(t) = Len(deadlocks) + Len(stack)
         /\ \A k \in 1 .. Len(deadlocks) : t[k] = deadlocks[k]
         /\ \A k \in (Len(deadlocks) + 1) .. Len(t) :
              /\ Len(deadlocks) + Len(stack) + 1 - k \in 1 .. Len(stack)
              /\ t[k] = stack[Len(deadlocks) + Len(stack) + 1 - k]
<1> PICK n, r : n = Len(stack) /\ r = Reverse(stack)
  OBVIOUS
<1>1. /\ r = [i \in 1 .. n |-> stack[n - i + 1]] /\ r \in Seq(Vertex)
      /\ n \in Nat /\ Len(deadlocks) \in Nat /\ Len(r) = n
  BY DEF Reverse
<1>2. /\ Len(t) = Len(deadlocks) + n
      /\ \A k \in 1 .. Len(t) :
           t[k] = IF k <= Len(deadlocks) THEN deadlocks[k] ELSE r[k - Len(deadlocks)]
  <2>1. /\ Len(deadlocks \o r) = Len(deadlocks) + n
        /\ \A k \in 1 .. Len(deadlocks) + n :
             (deadlocks \o r)[k] = IF k <= Len(deadlocks) THEN deadlocks[k] ELSE r[k - Len(deadlocks)]
    BY ONLY <1>1, deadlocks \in Seq(Vertex), ConcatProperties
  <2>2. t = deadlocks \o r
    OBVIOUS
  <2> QED BY ONLY <2>1, <2>2
<1>3. ASSUME NEW k \in (Len(deadlocks) + 1) .. Len(t)
      PROVE  /\ Len(deadlocks) + Len(stack) + 1 - k \in 1 .. Len(stack)
             /\ t[k] = stack[Len(deadlocks) + Len(stack) + 1 - k]
  <2>1. k \in 1 .. Len(t) /\ ~(k <= Len(deadlocks)) /\ k - Len(deadlocks) \in 1 .. n
    BY <1>1, <1>2, <1>3
  <2>2. t[k] = stack[n - (k - Len(deadlocks)) + 1]
    BY <1>1, <1>2, <2>1
  <2>3. n - (k - Len(deadlocks)) + 1 = Len(deadlocks) + Len(stack) + 1 - k
    BY <1>1, <2>1
  <2>4. t[k] = stack[Len(deadlocks) + Len(stack) + 1 - k]
    BY ONLY <2>2, <2>3
  <2>5. Len(deadlocks) + Len(stack) + 1 - k \in 1 .. Len(stack)
    BY <1>1, <2>1
  <2> QED BY ONLY <2>4, <2>5
<1> QED BY <1>1, <1>2, <1>3

\* A report moves the stack to the trail, where none of its vertices is.
LEMMA StorePreserves ==
  ASSUME RagTypeOK, TrailInv, DfsReport
  PROVE  TrailInv'
<1> PICK t, d, n, o : t = deadlocks' /\ d = Len(deadlocks) /\ n = Len(stack) /\ o = kept
  OBVIOUS
<1>1. /\ dphase = "scan" /\ t = deadlocks \o Reverse(stack) /\ stack' = <<>> /\ kept' = o
      /\ dphase' \in {"fault", "recover"} /\ visited' = visited
  BY DEF DfsReport, Store, Closes, InSearch, InScan
<1>2. d \in Nat /\ n \in Nat /\ o \in Nat /\ o <= d
  BY DEF RagTypeOK, TrailInv
<1>3. /\ Len(t) = d + n
      /\ \A k \in 1 .. d : t[k] = deadlocks[k]
      /\ \A k \in (d + 1) .. Len(t) : d + n + 1 - k \in 1 .. n /\ t[k] = stack[d + n + 1 - k]
  BY <1>1, TrailEntries DEF RagTypeOK
<1>4. /\ \A k \in (o + 1) .. d : deadlocks[k] \in visited
      /\ \A j \in 1 .. n : stack[j] \in visited
      /\ \A j, k \in 1 .. n : stack[j] = stack[k] => j = k
      /\ \A j \in 1 .. n, k \in (o + 1) .. d : stack[j] # deadlocks[k]
      /\ \A j, k \in (o + 1) .. d : deadlocks[j] = deadlocks[k] => j = k
  BY <1>1 DEF TrailInv, StoredOnce
<1>5. ASSUME NEW k \in (o + 1) .. Len(t)
      PROVE  \/ k \in (o + 1) .. d /\ t[k] = deadlocks[k]
             \/ d + n + 1 - k \in 1 .. n /\ t[k] = stack[d + n + 1 - k]
  BY <1>2, <1>3, <1>5
<1>6. \A k \in (o + 1) .. Len(t) : t[k] \in visited
  BY ONLY <1>4, <1>5
<1>7. ASSUME NEW j \in (o + 1) .. Len(t), NEW k \in (o + 1) .. Len(t), t[j] = t[k] PROVE j = k
  <2> PICK jj, kk : jj = d + n + 1 - j /\ kk = d + n + 1 - k
    OBVIOUS
  <2>1. (j \in (o + 1) .. d /\ t[j] = deadlocks[j]) \/ (jj \in 1 .. n /\ t[j] = stack[jj])
    BY <1>5
  <2>2. (k \in (o + 1) .. d /\ t[k] = deadlocks[k]) \/ (kk \in 1 .. n /\ t[k] = stack[kk])
    BY <1>5
  <2>3. t[j] = t[k]
    BY <1>7
  <2>4. j = k \/ jj = kk
    BY ONLY <1>4, <2>1, <2>2, <2>3
  <2>5. jj = kk => j = k
    BY <1>2, <1>3
  <2> QED BY <2>4, <2>5
<1>8. Len(stack') = 0
  BY <1>1
<1> QED BY <1>1, <1>2, <1>3, <1>6, <1>7, <1>8 DEF TrailInv, StoredOnce

\* Entering a vertex, and leaving it, keep it.
LEMMA SearchTrail ==
  ASSUME RagTypeOK, TrailInv, DfsStep
  PROVE  TrailInv'
<1> USE DEF RagTypeOK
<1>1. CASE DfsSkip
  BY <1>1 DEF DfsSkip, TrailInv, StoredOnce
<1>2. ASSUME NEW v \in Vertex, v \notin visited, InScan, DfsEnter(v) PROVE TrailInv'
  <2>1. /\ Len(stack') = Len(stack) + 1 /\ Len(stack) \in Nat /\ stack'[Len(stack) + 1] = v
        /\ \A k \in 1 .. Len(stack) : stack'[k] = stack[k]
    BY <1>2 DEF DfsEnter
  <2>2. /\ UNCHANGED <<deadlocks, kept, dphase>> /\ dphase = "scan"
        /\ visited' = visited \union {v}
    BY <1>2 DEF DfsEnter, InScan
  <2>3. \A j \in 1 .. Len(stack') : j \in 1 .. Len(stack) \/ j = Len(stack) + 1
    BY <2>1
  <2>4. /\ \A k \in (kept + 1) .. Len(deadlocks) : deadlocks[k] \in visited
        /\ \A j \in 1 .. Len(stack) : stack[j] \in visited
        /\ \A j, k \in 1 .. Len(stack) : stack[j] = stack[k] => j = k
        /\ \A j \in 1 .. Len(stack), k \in (kept + 1) .. Len(deadlocks) :
             stack[j] # deadlocks[k]
    BY <2>2 DEF TrailInv
  <2>5. \A j \in 1 .. Len(stack') : stack'[j] \in visited'
    BY ONLY <2>1, <2>2, <2>3, <2>4
  <2>6. \A j, k \in 1 .. Len(stack') : stack'[j] = stack'[k] => j = k
    BY ONLY <1>2, <2>1, <2>3, <2>4
  <2>7. \A j \in 1 .. Len(stack'), k \in (kept + 1) .. Len(deadlocks) : stack'[j] # deadlocks[k]
    BY ONLY <1>2, <2>1, <2>3, <2>4
  <2>8. \A k \in (kept + 1) .. Len(deadlocks) : deadlocks[k] \in visited'
    BY ONLY <2>2, <2>4
  <2>9. kept' <= Len(deadlocks') /\ StoredOnce'
    <3>1. kept <= Len(deadlocks) /\ StoredOnce
      BY DEF TrailInv
    <3> QED BY ONLY <2>2, <3>1 DEF StoredOnce
  <2> QED BY ONLY <2>2, <2>5, <2>6, <2>7, <2>8, <2>9 DEF TrailInv
<1>3. CASE DfsRoot
  BY <1>2, <1>3, VertexFacts DEF DfsRoot, AtRoot, InScan, Vertex
<1>4. CASE DfsDescend
  BY <1>2, <1>4 DEF DfsDescend, InSearch
<1>5. CASE DfsReturn
  <2>1. /\ Len(stack') = Len(stack) - 1 /\ Len(stack) \in Nat
        /\ \A k \in 1 .. (Len(stack) - 1) : stack'[k] = stack[k]
    BY <1>5, StackFacts DEF DfsReturn, InSearch
  <2>2. UNCHANGED <<deadlocks, kept, dphase, visited>> /\ dphase = "scan"
    BY <1>5 DEF DfsReturn, InSearch, InScan
  <2>3. 1 .. Len(stack') \subseteq 1 .. Len(stack) /\ 1 .. Len(stack') = 1 .. (Len(stack) - 1)
    BY <2>1
  <2>4. /\ \A k \in (kept + 1) .. Len(deadlocks) : deadlocks[k] \in visited
        /\ \A j \in 1 .. Len(stack) : stack[j] \in visited
        /\ \A j, k \in 1 .. Len(stack) : stack[j] = stack[k] => j = k
        /\ \A j \in 1 .. Len(stack), k \in (kept + 1) .. Len(deadlocks) :
             stack[j] # deadlocks[k]
    BY <2>2 DEF TrailInv
  <2>5. /\ \A j \in 1 .. Len(stack') : stack'[j] \in visited
        /\ \A j, k \in 1 .. Len(stack') : stack'[j] = stack'[k] => j = k
        /\ \A j \in 1 .. Len(stack'), k \in (kept + 1) .. Len(deadlocks) :
             stack'[j] # deadlocks[k]
    BY ONLY <2>1, <2>3, <2>4
  <2> QED BY <2>2, <2>4, <2>5 DEF TrailInv, StoredOnce
<1>6. CASE DfsReport
  BY <1>6, StorePreserves
<1> QED BY <1>1, <1>3, <1>4, <1>5, <1>6 DEF DfsStep

\* A sequence without repetitions from one place on is not longer than that by more than
\* there are vertices.
LEMMA StoredFits ==
  ASSUME RagTypeOK, StoredOnce, kept <= Len(deadlocks)
  PROVE  Len(deadlocks) <= kept + SIZE
<1> PICK d, o, m : d = Len(deadlocks) /\ o = kept /\ m = d - o
  OBVIOUS
<1>1. d \in Nat /\ o \in Nat /\ o <= d /\ SIZE \in Nat /\ m \in Nat
  BY VertexFacts DEF RagTypeOK
<1>2. IsFiniteSet(Vertex) /\ Cardinality(Vertex) <= SIZE /\ Cardinality(Vertex) \in Nat
  BY VertexCount, VertexFacts
<1>3. IsFiniteSet(1 .. m) /\ Cardinality(1 .. m) = m
  BY ONLY <1>1, FS_Interval, 1 \in Int, m \in Int, IF 1 > m THEN m = 0 ELSE m - 1 + 1 = m
<1> DEFINE f == [k \in 1 .. m |-> deadlocks[o + k]]
<1>4. f \in [1 .. m -> Vertex]
  BY <1>1 DEF RagTypeOK
<1>5. ASSUME SIZE < m PROVE FALSE
  <2>0. Cardinality(Vertex) < Cardinality(1 .. m)
    BY <1>1, <1>2, <1>3, <1>5
  <2>1. \E x, y \in 1 .. m : x # y /\ f[x] = f[y]
    <3> HIDE DEF f
    <3> QED BY ONLY <1>2, <1>3, <1>4, <2>0, FS_PigeonHole
  <2>2. PICK x, y \in 1 .. m : x # y /\ f[x] = f[y]
    BY <2>1
  <2>3. o + x \in (o + 1) .. d /\ o + y \in (o + 1) .. d /\ o + x # o + y
    BY <1>1, <2>2
  <2> QED BY <2>2, <2>3 DEF StoredOnce
<1> QED BY <1>1, <1>5

----------------------------------------------------------------------------
\* The parts of the measure.
LEMMA StepsLeftParts ==
  ASSUME RagTypeOK
  PROVE  /\ Cardinality(Vertex \ visited) \in 0 .. SIZE /\ Len(stack) \in Nat /\ root \in 0 .. SIZE
         /\ SIZE \in Nat /\ StepsLeft \in Nat
<1>1. Cardinality(Vertex \ visited) \in 0 .. SIZE
  BY VertexCount
<1> QED BY <1>1, VertexFacts DEF RagTypeOK, StepsLeft

\* A call of deadlock_detect has three steps for every vertex at most.
LEMMA StepsAtEntry ==
  /\ stack = <<>> /\ visited = {} /\ root = 0 => StepsLeft = 3 * SIZE
  /\ stack' = <<>> /\ visited' = {} /\ root' = 0 => StepsLeft' = 3 * SIZE
<1>1. Cardinality(Vertex \ {}) = SIZE
  BY VertexFacts, FS_Interval DEF Vertex
<1>2. Len(<<>>) = 0 /\ 2 * SIZE + 0 + (SIZE - 0) = 3 * SIZE
  BY VertexFacts
<1>3. stack = <<>> /\ visited = {} /\ root = 0 => StepsLeft = 3 * SIZE
  BY <1>1, <1>2 DEF StepsLeft
<1>4. stack' = <<>> /\ visited' = {} /\ root' = 0 => StepsLeft' = 3 * SIZE
  BY <1>1, <1>2 DEF StepsLeft
<1> QED BY <1>3, <1>4

\* Every step of dfs and of its loop has less to do than the one before.
LEMMA DfsAdvances ==
  ASSUME RagInv, DfsStep
  PROVE  StepsLeft' \in Int /\ StepsLeft' < StepsLeft
<1> PICK u, k, r : u = Cardinality(Vertex \ visited) /\ k = Len(stack) /\ r = SIZE - root
  OBVIOUS
<1>1. u \in Nat /\ k \in Nat /\ r \in Nat /\ StepsLeft = 2 * u + k + r
  BY StepsLeftParts DEF RagInv, StepsLeft
<1>2. CASE DfsSkip
  <2>1. UNCHANGED <<visited, stack>> /\ SIZE - root' = r - 1
    BY <1>2, VertexFacts DEF DfsSkip, RagInv, RagTypeOK
  <2>2. StepsLeft' = 2 * u + k + (r - 1)
    BY <2>1 DEF StepsLeft
  <2> QED BY ONLY <1>1, <2>2
<1>3. ASSUME NEW v \in Vertex, v \notin visited, DfsEnter(v)
      PROVE  StepsLeft' \in Int /\ StepsLeft' < StepsLeft
  <2>1. Vertex \ visited' = (Vertex \ visited) \ {v}
    BY <1>3 DEF DfsEnter
  <2>2. Cardinality(Vertex \ visited') = u - 1
    BY <1>3, <2>1, VertexCount, FS_RemoveElement
  <2>3. Len(stack') = k + 1 /\ root' = root
    BY <1>3 DEF DfsEnter, RagInv, RagTypeOK
  <2>4. StepsLeft' = 2 * (u - 1) + (k + 1) + r
    BY <2>2, <2>3 DEF StepsLeft
  <2> QED BY ONLY <1>1, <2>4
<1>4. CASE DfsRoot
  <2>1. root \in Vertex /\ root \notin visited /\ DfsEnter(root)
    BY <1>4, VertexFacts DEF DfsRoot, AtRoot, InScan, Vertex, RagInv, RagTypeOK
  <2> QED BY <1>3, <2>1
<1>5. CASE DfsDescend
  BY <1>3, <1>5 DEF DfsDescend
<1>6. CASE DfsReturn
  <2>1. Len(stack') = k - 1 /\ UNCHANGED visited
    BY <1>6, StackFacts DEF DfsReturn, InSearch, RagInv, RagTypeOK
  <2>2. root' = root \/ root' = root + 1
    BY <1>6 DEF DfsReturn
  <2>3. SIZE - root' \in {r, r - 1}
    BY <2>2, VertexFacts DEF RagInv, RagTypeOK
  <2>4. StepsLeft' = 2 * u + (k - 1) + r \/ StepsLeft' = 2 * u + (k - 1) + (r - 1)
    BY <2>1, <2>3 DEF StepsLeft
  <2> QED BY ONLY <1>1, <2>4
<1>7. CASE DfsReport
  <2>1. k > 0 /\ Len(stack') = 0 /\ UNCHANGED <<visited, root>>
    BY <1>7, StackFacts DEF DfsReport, Store, Closes, InSearch, RagInv, RagTypeOK
  <2>2. StepsLeft' = 2 * u + 0 + r
    BY <2>1 DEF StepsLeft
  <2> QED BY <1>1, <2>1, <2>2
<1> QED BY <1>2, <1>4, <1>5, <1>6, <1>7 DEF DfsStep

\* So has the loop when recovery has returned to it.
LEMMA RecoveryAdvances ==
  ASSUME RagInv, dphase = "recover", RecoverReturn, UNCHANGED <<stack, visited>>
  PROVE  StepsLeft' \in Int /\ StepsLeft' < StepsLeft
<1> PICK u, k, r : u = Cardinality(Vertex \ visited) /\ k = Len(stack) /\ r = SIZE - root
  OBVIOUS
<1>1. u \in Nat /\ k \in Nat /\ r \in Nat /\ StepsLeft = 2 * u + k + r
  BY StepsLeftParts DEF RagInv, StepsLeft
<1>2. SIZE - root' = r - 1
  BY VertexFacts DEF RecoverReturn, RagInv, RagTypeOK
<1>3. StepsLeft' = 2 * u + k + (r - 1)
  BY <1>2 DEF StepsLeft
<1> QED BY ONLY <1>1, <1>3

\* Between calls nothing has been done.
LEMMA IdleSteps ==
  ASSUME RagInv, DetectReturn
  PROVE  StepsLeft' = 3 * SIZE
<1>1. stack' = <<>> /\ visited' = {} /\ root' = 0
  BY VertexFacts DEF DetectReturn, RagInv, RagTypeOK, PhaseInv
<1> QED BY <1>1, StepsAtEntry

----------------------------------------------------------------------------

\* Every step preserves the invariant of the search.
LEMMA StepPreserves ==
  ASSUME RagInv, [RagNext]_ragVars
  PROVE  RagInv'
<1>1. CASE Change
  <2>1. PICK p \in Pid, l \in Lock : Request(p, l) \/ Allocate(p, l) \/ Deallocate(p, l)
    BY <1>1 DEF Change
  <2>2. RAG' \in SUBSET (Vertex \X Vertex)
    BY <2>1, EdgeTypes DEF Request, Allocate, Deallocate, RagInv, RagTypeOK
  <2>3. UNCHANGED detectVars /\ dphase # "scan"
    BY <2>1 DEF Request, Allocate, Deallocate
  <2>4. QED
    BY <2>2, <2>3, QuietPreserves
<1>2. CASE Detect
  BY <1>2, EntryEstablishes DEF Detect, RagInv, RagTypeOK
<1>3. CASE DfsStep
  BY <1>3, DfsPreserves
<1>4. CASE Recover
  <2>1. CASE VictimOK /\ RecoverReturn /\ RAG' = rag_dealloc(RAG, victim, lockid)
             /\ UNCHANGED <<deadlocks, stack, visited, recur, reported, kept>>
    <3>1. victim \in Pid /\ lockid \in Lock
      BY <2>1, VictimTypes
    <3>2. RAG' \in SUBSET (Vertex \X Vertex)
      BY <2>1, <3>1, EdgeTypes DEF RagInv, RagTypeOK
    <3>3. QED
      BY <1>4, <2>1, <3>2, QuietPreserves DEF Recover
  <2>2. CASE dphase' = "fault" /\ UNCHANGED <<RAG, deadlocks, root, stack, visited, recur, reported, kept>>
    BY <1>4, <2>2, QuietPreserves DEF Recover, RagInv, RagTypeOK
  <2>3. QED
    BY <1>4, <2>1, <2>2 DEF Recover
<1>5. CASE DetectReturn
  BY <1>5, QuietPreserves DEF DetectReturn, RagInv, RagTypeOK
<1>6. CASE UNCHANGED ragVars
  BY <1>6, QuietPreserves DEF ragVars, RagInv, RagTypeOK
<1>7. QED
  BY <1>1, <1>2, <1>3, <1>4, <1>5, <1>6 DEF RagNext, Searching

\* The invariant holds of every behaviour.
LEMMA RagInvariant == RagSpec => []RagInv
<1>1. RagInit => RagInv
  <2> SUFFICES ASSUME RagInit
               PROVE  RagInv
    OBVIOUS
  <2>1. RagTypeOK
    <3>1. deadlocks \in Seq(Vertex) /\ stack \in Seq(Vertex) /\ Len(deadlocks) = 0
      BY DEF RagInit, DetectInit
    <3>2. RAG = {} /\ root = 0 /\ visited = {} /\ recur = {} /\ dphase = "idle" /\ reported = FALSE /\ kept = 0
      BY DEF RagInit, DetectInit, init_mat
    <3>3. kept \in Nat /\ root \in 0 .. SIZE
      BY <3>1, <3>2, VertexFacts
    <3>4. RAG \subseteq Vertex \X Vertex /\ visited \subseteq Vertex /\ recur \subseteq Vertex
      BY <3>2
    <3>5. QED
      BY <3>1, <3>2, <3>3, <3>4 DEF RagTypeOK
  <2>2. PhaseInv /\ SearchInv
    BY DEF RagInit, DetectInit, PhaseInv, SearchInv
  <2>3. QED
    BY <2>1, <2>2 DEF RagInv
<1>2. RagInv /\ [RagNext]_ragVars => RagInv'
  BY StepPreserves
<1>3. QED
  BY <1>1, <1>2, PTL DEF RagSpec

\* The state of the search keeps its shape for any number of locks and processes:
\* deadlock_detect leaves its loop at SIZE, and dfs stores vertices.
LEMMA RagTypeCorrect == RagSpec => []RagTypeOK
<1>1. RagInv => RagTypeOK
  BY DEF RagInv
<1>2. QED
  BY <1>1, RagInvariant, PTL

\* The first cycle a call of deadlock_detect reports is a cycle of the graph,
\* whatever earlier calls have left in deadlocks.
THEOREM FirstReportSound == RagSpec => FirstReportIsCycle
<1>1. ASSUME RagInv, RagNext, ~reported, reported'
      PROVE  PathCloses(stack) /\ HasCycle(RAG)
  <2>1. DfsReport
    BY <1>1 DEF RagNext, Change, Request, Allocate, Deallocate, Detect, DetectEntry, Searching,
       DfsStep, DfsSkip, DfsRoot, DfsDescend, DfsEnter, DfsReturn, Recover,
       DetectReturn, detectVars
  <2>2. QED
    BY <1>1, <2>1, ReportIsCyclic
<1>2. RagInv /\ [RagNext]_ragVars
        => [~reported /\ reported' => PathCloses(stack) /\ HasCycle(RAG)]_ragVars
  BY <1>1
<1>3. QED
  BY <1>2, RagInvariant, PTL DEF RagSpec, FirstReportIsCycle

\* A call of deadlock_detect that has reported nothing returns only when there is
\* no cycle in the graph: no deadlock is overlooked.
THEOREM SilentScanComplete == RagSpec => SilentMeansAcyclic
<1>1. RagInv /\ [RagNext]_ragVars => [DetectReturn /\ ~reported => ~HasCycle(RAG)]_ragVars
  BY SilentIsAcyclic
<1>2. QED
  BY <1>1, RagInvariant, PTL DEF RagSpec, SilentMeansAcyclic
\* The search gets on with every step, also over recoveries.
SearchGetsOn ==
  [][(DfsStep \/ Recover) /\ dphase' # "fault" => StepsLeft' < StepsLeft]_ragVars

\* A call of deadlock_detect, for which the kernel waits with interrupts disabled, makes at
\* most three steps for every lock and process, whatever the graph and however many cycles
\* it reports: this is why it ends.
THEOREM SearchIsShort == RagSpec => [](StepsLeft \in 0 .. 3 * SIZE) /\ SearchGetsOn
<1>1. ASSUME RagInv, DfsStep \/ Recover, dphase' # "fault"
      PROVE  StepsLeft' \in Int /\ StepsLeft' < StepsLeft
  <2>1. CASE DfsStep
    BY <1>1, <2>1, DfsAdvances
  <2>2. CASE Recover
    BY <1>1, <2>2, RecoveryAdvances DEF Recover
  <2> QED BY <1>1, <2>1, <2>2
<1>2. RagInit => StepsLeft <= 3 * SIZE
  BY StepsAtEntry, VertexFacts DEF RagInit, DetectInit
<1>3. ASSUME RagInv, StepsLeft <= 3 * SIZE, [RagNext]_ragVars PROVE StepsLeft' <= 3 * SIZE
  <2>0. StepsLeft \in Nat /\ 3 * SIZE \in Nat
    BY <1>3, StepsLeftParts, VertexFacts DEF RagInv
  <2>1. CASE UNCHANGED <<stack, visited, root>>
    BY <1>3, <2>1 DEF StepsLeft
  <2>2. CASE Detect
    BY <2>0, <2>2, StepsAtEntry DEF Detect, DetectEntry
  <2>3. CASE DetectReturn
    BY <1>3, <2>0, <2>3, IdleSteps
  <2>4. CASE DfsStep
    BY <1>3, <2>0, <2>4, DfsAdvances
  <2>5. CASE Recover /\ dphase' # "fault"
    BY <1>1, <1>3, <2>0, <2>5
  <2>6. Change \/ (Recover /\ dphase' = "fault") \/ UNCHANGED ragVars
          => UNCHANGED <<stack, visited, root>>
    BY DEF Change, Request, Allocate, Deallocate, Recover, RecoverReturn, detectVars, ragVars
  <2> QED BY <1>3, <2>1, <2>2, <2>3, <2>4, <2>5, <2>6 DEF RagNext, Searching
<1>4. RagInv /\ StepsLeft <= 3 * SIZE => StepsLeft \in 0 .. 3 * SIZE
  BY StepsLeftParts DEF RagInv
<1>5. RagInv /\ [RagNext]_ragVars
        => [(DfsStep \/ Recover) /\ dphase' # "fault" => StepsLeft' < StepsLeft]_ragVars
  BY <1>1
<1>6. RagInv /\ StepsLeft <= 3 * SIZE /\ [RagNext]_ragVars => (StepsLeft <= 3 * SIZE)'
  BY <1>3
<1> QED BY <1>2, <1>4, <1>5, <1>6, RagInvariant, PTL DEF RagSpec, SearchGetsOn

\* One call of deadlock_detect stores no vertex twice, however many cycles it reports and
\* whatever marks its reports leave: it adds no more entries than deadlocks has room for,
\* and the first call that reports anything stays inside it.  The stores of dfs have no
\* bound of their own; after an earlier report they may run past the end.
THEOREM OneCallFits ==
  RagSpec => [](StoredOnce /\ Len(deadlocks) <= kept + SIZE)
<1>1. RagInit => TrailInv
  <2>1. ASSUME RagInit PROVE TrailInv
    <3>1. deadlocks = <<>> /\ stack = <<>> /\ kept = 0 /\ dphase = "idle"
      BY <2>1 DEF RagInit, DetectInit
    <3>2. Len(deadlocks) = 0
      BY <3>1
    <3> QED BY <3>1, <3>2 DEF TrailInv, StoredOnce
  <2> QED BY <2>1
<1>2. ASSUME RagInv, TrailInv, [RagNext]_ragVars PROVE TrailInv'
  <2>0. RagTypeOK /\ PhaseInv
    BY <1>2 DEF RagInv
  <2>1. CASE Change \/ UNCHANGED ragVars
    <3>1. UNCHANGED detectVars
      BY <2>1 DEF Change, Request, Allocate, Deallocate, ragVars
    <3> QED BY <1>2, <3>1 DEF detectVars, TrailInv, StoredOnce
  <2>2. CASE Detect
    <3>1. kept = Len(deadlocks) /\ Len(stack') = 0 /\ UNCHANGED <<deadlocks, kept>>
          /\ kept \in Nat /\ dphase' = "scan"
      BY <1>2, <2>0, <2>2 DEF Detect, DetectEntry, TrailInv, RagTypeOK
    <3> QED BY <1>2, <3>1 DEF TrailInv, StoredOnce
  <2>3. CASE DfsStep
    BY <1>2, <2>0, <2>3, SearchTrail
  <2>4. CASE Recover
    <3>1. UNCHANGED <<deadlocks, kept, stack, visited>> /\ dphase = "recover"
          /\ dphase' \in {"scan", "fault"}
      BY <2>4 DEF Recover, RecoverReturn
    <3> QED BY <1>2, <3>1 DEF TrailInv, StoredOnce
  <2>5. CASE DetectReturn
    <3>1. kept' = Len(deadlocks) /\ UNCHANGED deadlocks /\ Len(deadlocks) \in Nat
          /\ dphase' = "idle"
      BY <2>0, <2>5 DEF DetectReturn, RagTypeOK
    <3> QED BY <3>1 DEF TrailInv, StoredOnce
  <2> QED BY <1>2, <2>1, <2>2, <2>3, <2>4, <2>5 DEF RagNext, Searching
<1>3. RagInv /\ TrailInv => StoredOnce /\ Len(deadlocks) <= kept + SIZE
  BY StoredFits DEF RagInv, TrailInv
<1>4. RagInv /\ TrailInv /\ [RagNext]_ragVars => TrailInv'
  BY <1>2
<1> QED BY <1>1, <1>3, <1>4, RagInvariant, PTL DEF RagSpec
=============================================================================
