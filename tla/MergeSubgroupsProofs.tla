------------------------ MODULE MergeSubgroupsProofs ------------------------
(***************************************************************************)
(* Theorems about compile_task_graph<MergeSubgroups>: the search collects  *)
(* the tasks that exclude each other, directly or through others, every    *)
(* merge keeps what excludes what, groups come down to the limit of a mask *)
(* and not below it, the small ones end up packed, and what is written at  *)
(* the end is what the executor assumes of a compiled graph.               *)
(*                                                                         *)
(* Laid out as: the prebuilt graph, the search, one group and how merging  *)
(* and joining change it, the pairs, the small groups, the invariant of    *)
(* the whole strategy, the values that pairs are chosen by; then the order *)
(* in which tasks are written, what is written of them, the tasks that     *)
(* exclude no others, and the compiled graph.                              *)
(***************************************************************************)
EXTENDS PrebuiltOrderProofs

------------------------------------------------------------------------------
(***************************************************************************)
(* The prebuilt graph.                                                     *)
(***************************************************************************)
VerticesNumbered == \E n \in Nat : Vertices = 0 .. n - 1
ExclusionInRange == \A v \in Vertices : exclusionGraph[v] \subseteq Vertices
GraphInv == ExclusionMutual /\ VerticesNumbered /\ ExclusionInRange

LEMMA VerticesFinite ==
    ASSUME VerticesNumbered
    PROVE  Vertices \subseteq Nat /\ IsFiniteSet(Vertices)
<1>1. PICK n \in Nat : Vertices = 0 .. n - 1  BY DEF VerticesNumbered
<1> QED  BY <1>1, FS_Interval

LEMMA PrebuildKeepsRange ==
    ASSUME ExclusionMutual, VerticesNumbered, ExclusionInRange, PrebuildStep
    PROVE  VerticesNumbered' /\ ExclusionInRange'
<1>1. CASE StartPrebuild
  <2>1. PICK n \in Nat : DOMAIN taskGraph' = 0 .. n - 1 /\ exclusionGraph' = taskGraph'
    <3>1. ResolveSize[Root] \in Nat  BY <1>1 DEF StartPrebuild, Compilable
    <3>2. DOMAIN taskGraph' = 0 .. ResolveSize[Root] - 1 /\ exclusionGraph' = taskGraph'
        BY <1>1 DEF StartPrebuild
    <3> QED  BY <3>1, <3>2
  <2>2. \A v \in DOMAIN taskGraph' : exclusionGraph'[v] = {}  BY <1>1 DEF StartPrebuild
  <2> QED  BY <2>1, <2>2 DEF VerticesNumbered, ExclusionInRange, Vertices
<1>2. CASE CopyTasks
  <2>1. Vertices' = Vertices  BY <1>2 DEF CopyTasks, Vertices
  <2>2. \A v \in Vertices : exclusionGraph'[v] \subseteq exclusionGraph[v] \cup Vertices
      BY <1>2 DEF CopyTasks
  <2> QED  BY <2>1, <2>2 DEF VerticesNumbered, ExclusionInRange
<1>3. CASE ResolveSubGraph
  <2>1. Vertices' = Vertices  BY <1>3 DEF ResolveSubGraph, Wired, Vertices
  <2>2. PICK entry, exit :
        exclusionGraph' = [exclusionGraph EXCEPT ![entry] = @ \cup {entry}, ![exit] = @ \cup {exit}]
    BY <1>3 DEF ResolveSubGraph
  <2>3. \A v \in Vertices : exclusionGraph'[v] \subseteq exclusionGraph[v] \cup {v}
      BY <2>2 DEF ExclusionMutual
  <2> QED  BY <2>1, <2>3 DEF VerticesNumbered, ExclusionInRange
<1>4. CASE ReturnFromGraph \/ ValidateTask \/ Validated
    BY <1>4 DEF ReturnFromGraph, ValidateTask, Validated, prebuiltVars,
                VerticesNumbered, ExclusionInRange, Vertices
<1>5. CASE NormalizeLevel
  <2>1. Vertices' = Vertices  BY <1>5 DEF NormalizeLevel, Vertices
  <2>2. \A v \in Vertices : exclusionGraph'[v] \subseteq exclusionGraph[v]
      BY <1>5 DEF NormalizeLevel, ExclusionWithout
  <2> QED  BY <2>1, <2>2 DEF VerticesNumbered, ExclusionInRange
<1>6. CASE NormalizeEdges
    BY <1>6 DEF NormalizeEdges, VerticesNumbered, ExclusionInRange, Vertices
<1> QED  BY <1>1, <1>2, <1>3, <1>4, <1>5, <1>6 DEF PrebuildStep

\* The tasks are numbered from 0 on, and what excludes each other are tasks.
THEOREM GraphIsTyped == Spec => []GraphInv
<1>1. PrebuildInit => VerticesNumbered /\ ExclusionInRange
  <2> SUFFICES ASSUME PrebuildInit  PROVE VerticesNumbered /\ ExclusionInRange  OBVIOUS
  <2>1. Vertices = {}  BY DEF PrebuildInit, Vertices
  <2>2. 0 .. 0 - 1 = {}  OBVIOUS
  <2> QED  BY <2>1, <2>2 DEF VerticesNumbered, ExclusionInRange
<1>2. ExclusionMutual /\ VerticesNumbered /\ ExclusionInRange /\ [Next]_vars
        => VerticesNumbered' /\ ExclusionInRange'
  <2> SUFFICES ASSUME ExclusionMutual, VerticesNumbered, ExclusionInRange, [Next]_vars
               PROVE  VerticesNumbered' /\ ExclusionInRange'
      OBVIOUS
  <2>1. CASE UNCHANGED <<taskGraph, exclusionGraph>>
      BY <2>1 DEF VerticesNumbered, ExclusionInRange, Vertices
  <2>2. CASE PrebuildStep  BY <2>2, PrebuildKeepsRange
  <2>3. CASE phase = "user" /\ UserNext /\ UNCHANGED prebuildVars
      BY <2>3, <2>1 DEF prebuildVars, prebuiltVars
  <2>4. CASE MergeStep  BY <2>4, <2>1, MergeStepReads DEF prebuiltVars
  <2>5. CASE UNCHANGED vars  BY <2>5, <2>1 DEF vars, prebuildVars, prebuiltVars
  <2> QED  BY <2>2, <2>3, <2>4, <2>5 DEF Next, PrebuildNext
<1> QED  BY <1>1, <1>2, ExclusionIsMutual, PTL DEF Spec, GraphInv
------------------------------------------------------------------------------
(***************************************************************************)
(* The search.                                                             *)
(***************************************************************************)
GroupRecord == [subgroups : Seq(Seq(Nat)), excl : Seq(SUBSET Nat), cnt : Int]

InGroup(i, v) == \E s \in DOMAIN groups[i].subgroups : groups[i].subgroups[s] = <<v>>

\* While the groups are collected: every task that was visited has one place, a
\* task with neighbours that were not is on the stack, the stack is in the last
\* group, and the neighbours that were visited are in the group of the task.
Collecting ==
    /\ groups \in Seq(GroupRecord) /\ visited \subseteq Vertices /\ stack \in Seq(visited)
    /\ \A i \in DOMAIN groups :
        /\ groups[i].subgroups # <<>>
        /\ \A s \in DOMAIN groups[i].subgroups : \E v \in visited : groups[i].subgroups[s] = <<v>>
    /\ \A v \in visited : \E i \in DOMAIN groups : InGroup(i, v)
    /\ \A i, j \in DOMAIN groups :
        \A s \in DOMAIN groups[i].subgroups, r \in DOMAIN groups[j].subgroups :
            groups[i].subgroups[s] = groups[j].subgroups[r] => i = j /\ s = r
    /\ \A v \in visited : exclusionGraph[v] \subseteq visited \/ v \in ToSet(stack)
    /\ \A v \in ToSet(stack) : groups # <<>> /\ InGroup(Len(groups), v)
    /\ \A i \in DOMAIN groups : \A v \in visited :
        InGroup(i, v) => \A u \in exclusionGraph[v] \cap visited : InGroup(i, u)

\* The calls that are in progress have the vertices that still lead somewhere.
LEMMA SearchingOpen ==
    ASSUME NEW V, NEW graph \in [V -> SUBSET V], visited \subseteq V, stack \in Seq(visited)
    PROVE  /\ Searching(graph) \in Seq(visited)
           /\ ToSet(Searching(graph)) \subseteq ToSet(stack)
           /\ \A v \in ToSet(stack) : graph[v] \ visited # {} => v \in ToSet(Searching(graph))
           /\ Searching(graph) # <<>> =>
                /\ Last(Searching(graph)) \in visited
                /\ graph[Last(Searching(graph))] \ visited # {}
<1> DEFINE open == {i \in DOMAIN stack : graph[stack[i]] \ visited # {}}
           n == Len(stack)
<1>1. n \in Nat /\ DOMAIN stack = 1 .. n /\ \A i \in 1 .. n : stack[i] \in visited
    BY LenProperties
<1>2. CASE open = {}
  <2>1. Searching(graph) = <<>>  BY <1>2 DEF Searching
  <2>2. \A v \in ToSet(stack) : graph[v] \ visited = {}  BY <1>2 DEF ToSet
  <2> QED  BY <2>1, <2>2 DEF ToSet
<1>3. CASE open # {}
  <2> DEFINE m == Max(open)
             path == SubSeq(stack, 1, m)
  <2>1. Searching(graph) = path  BY <1>3 DEF Searching
  <2>2. m \in open /\ \A i \in open : m >= i
    <3>1. open \subseteq 0 .. n  BY <1>1
    <3> HIDE DEF open
    <3> QED  BY <1>1, <1>3, <3>1, MaxBelow
  <2>3. m \in 1 .. n  BY <1>1, <2>2
  <2> HIDE DEF m
  <2>4. /\ path \in Seq(visited) /\ Len(path) = m
        /\ \A i \in 1 .. m : path[i] = stack[i]
    <3>1. \A i \in 1 .. m : stack[i] \in visited  BY <1>1, <2>3
    <3> QED  BY <2>3, <3>1, SubSeqProperties
  <2>5. DOMAIN path = 1 .. m  BY <2>4, LenProperties
  <2> HIDE DEF path
  <2>6. ToSet(path) \subseteq ToSet(stack)
    <3>1. ASSUME NEW i \in 1 .. m  PROVE path[i] \in ToSet(stack)
      <4>1. i \in DOMAIN stack  BY <1>1, <2>3
      <4> QED  BY <2>4, <4>1 DEF ToSet
    <3> QED  BY <2>5, <3>1 DEF ToSet
  <2>7. ASSUME NEW v \in ToSet(stack), graph[v] \ visited # {}  PROVE v \in ToSet(path)
    <3>1. PICK i \in DOMAIN stack : stack[i] = v  BY DEF ToSet
    <3>2. i \in open  BY <2>7, <3>1
    <3>3. i \in 1 .. m  BY <1>1, <2>2, <2>3, <3>2
    <3> QED  BY <2>4, <2>5, <3>1, <3>3 DEF ToSet
  <2>8. Last(path) = stack[m]  BY <2>3, <2>4 DEF Last
  <2>9. Last(path) \in visited /\ graph[Last(path)] \ visited # {}
      BY <1>1, <2>2, <2>3, <2>8
  <2> QED  BY <2>1, <2>4, <2>6, <2>7, <2>9
<1> QED  BY <1>2, <1>3

\* A visited task goes to a place of its own, in the last group or in a new one.
LEMMA GroupTaskPlaces ==
    ASSUME NEW v \in Nat, groups \in Seq(GroupRecord),
           \A i \in DOMAIN groups : groups[i].subgroups # <<>>,
           NEW fresh \in BOOLEAN, ~fresh => groups # <<>>,
           groups' = IF fresh
                     THEN Append(groups, [subgroups |-> <<<<v>>>>, excl |-> <<>>, cnt |-> 0])
                     ELSE [groups EXCEPT ![Len(groups)].subgroups = Append(@, <<v>>)]
    PROVE  /\ groups' \in Seq(GroupRecord) /\ groups' # <<>>
           /\ DOMAIN groups' = DOMAIN groups \cup {Len(groups')}
           /\ Len(groups') \in DOMAIN groups <=> ~fresh
           /\ ~fresh => Len(groups') = Len(groups)
           /\ \A i \in DOMAIN groups' : groups'[i].subgroups # <<>>
           /\ \A i \in DOMAIN groups : \A s \in DOMAIN groups[i].subgroups :
                /\ s \in DOMAIN groups'[i].subgroups
                /\ groups'[i].subgroups[s] = groups[i].subgroups[s]
           /\ \E n \in DOMAIN groups'[Len(groups')].subgroups :
                /\ groups'[Len(groups')].subgroups[n] = <<v>>
                /\ \A i \in DOMAIN groups' : \A s \in DOMAIN groups'[i].subgroups :
                     \/ i = Len(groups') /\ s = n
                     \/ i \in DOMAIN groups /\ s \in DOMAIN groups[i].subgroups
<1> DEFINE N == Len(groups)
<1>1. N \in Nat /\ DOMAIN groups = 1 .. N /\ \A i \in 1 .. N : groups[i] \in GroupRecord
    BY LenProperties
<1>2. CASE fresh
  <2> DEFINE g == [subgroups |-> <<<<v>>>>, excl |-> <<>>, cnt |-> 0]
  <2>1. g \in GroupRecord /\ g.subgroups # <<>> /\ DOMAIN g.subgroups = {1} /\ g.subgroups[1] = <<v>>
    <3>1. <<<<v>>>> \in Seq(Seq(Nat))  OBVIOUS
    <3>2. <<>> \in Seq(SUBSET Nat)  OBVIOUS
    <3> QED  BY <3>1, <3>2 DEF GroupRecord
  <2> HIDE DEF g
  <2>2. groups' = Append(groups, g)  BY <1>2 DEF g
  <2>3. /\ groups' \in Seq(GroupRecord) /\ Len(groups') = N + 1 /\ groups' # <<>>
      BY <2>1, <2>2, AppendProperties
  <2>4. /\ DOMAIN groups' = 1 .. N + 1
        /\ \A i \in DOMAIN groups : groups'[i] = groups[i]
        /\ groups'[N + 1] = g
      BY <2>2, LastOfAppend
  <2>5. DOMAIN groups' = DOMAIN groups \cup {N + 1} /\ N + 1 \notin DOMAIN groups
    <3> HIDE DEF N
    <3>1. 1 .. N + 1 = (1 .. N) \cup {N + 1} /\ N + 1 \notin 1 .. N  BY <1>1
    <3>2. DOMAIN groups' = 1 .. N + 1  BY <2>4 DEF N
    <3> QED  BY <1>1, <3>1, <3>2
  <2> HIDE DEF N
  <2>6. \A i \in DOMAIN groups' : i \in DOMAIN groups \/ i = N + 1  BY <2>5
  <2>7. \A i \in DOMAIN groups' : groups'[i].subgroups # <<>>  BY <2>1, <2>4, <2>6
  <2>8. groups'[N + 1].subgroups = g.subgroups /\ 1 \in DOMAIN g.subgroups  BY <2>1, <2>4
  <2>9. \A i \in DOMAIN groups' : \A s \in DOMAIN groups'[i].subgroups :
            (i = N + 1 /\ s = 1) \/ (i \in DOMAIN groups /\ s \in DOMAIN groups[i].subgroups)
      BY <2>1, <2>4, <2>6, <2>8
  <2>10. \A i \in DOMAIN groups : \A s \in DOMAIN groups[i].subgroups :
            s \in DOMAIN groups'[i].subgroups /\ groups'[i].subgroups[s] = groups[i].subgroups[s]
      BY <2>4
  <2>11. \E n \in DOMAIN groups'[N + 1].subgroups :
            /\ groups'[N + 1].subgroups[n] = <<v>>
            /\ \A i \in DOMAIN groups' : \A s \in DOMAIN groups'[i].subgroups :
                 (i = N + 1 /\ s = n) \/ (i \in DOMAIN groups /\ s \in DOMAIN groups[i].subgroups)
    <3>1. 1 \in DOMAIN groups'[N + 1].subgroups /\ groups'[N + 1].subgroups[1] = <<v>>
        BY <2>1, <2>8
    <3> QED  BY <2>9, <3>1
  <2> QED  BY <1>2, <2>3, <2>5, <2>7, <2>10, <2>11
<1>3. CASE ~fresh
  <2> DEFINE g == groups[N]
             h == [groups[N] EXCEPT !.subgroups = Append(@, <<v>>)]
  <2>1. N \in 1 .. N
    <3>1. N # 0  BY <1>3, EmptySeq
    <3> QED  BY <1>1, <3>1
  <2>2. g \in GroupRecord /\ g.subgroups \in Seq(Seq(Nat))  BY <1>1, <2>1 DEF GroupRecord
  <2>3. h.subgroups = Append(g.subgroups, <<v>>) /\ h \in GroupRecord
    <3>1. Append(g.subgroups, <<v>>) \in Seq(Seq(Nat))
      <4>1. <<v>> \in Seq(Nat)  OBVIOUS
      <4> QED  BY <2>2, <4>1, AppendProperties
    <3> QED  BY <2>2, <3>1 DEF GroupRecord
  <2>4. groups' = [groups EXCEPT ![N] = h]  BY <1>3
  <2>5. /\ groups' \in Seq(GroupRecord) /\ Len(groups') = N
        /\ \A i \in 1 .. N : groups'[i] = IF i = N THEN h ELSE groups[i]
      BY <2>1, <2>3, <2>4, ExceptSeq
  <2>6. DOMAIN groups' = 1 .. N  BY <2>5, LenProperties
  <2> DEFINE n == Len(g.subgroups) + 1
  <2>7. /\ DOMAIN h.subgroups = DOMAIN g.subgroups \cup {n} /\ n \notin DOMAIN g.subgroups
        /\ \A s \in DOMAIN g.subgroups : h.subgroups[s] = g.subgroups[s]
        /\ h.subgroups[n] = <<v>>
    <3>1. DOMAIN g.subgroups = 1 .. Len(g.subgroups) /\ Len(g.subgroups) \in Nat
        BY <2>2, LenProperties
    <3>2. /\ DOMAIN h.subgroups = 1 .. Len(g.subgroups) + 1
          /\ \A s \in DOMAIN g.subgroups : h.subgroups[s] = g.subgroups[s]
          /\ h.subgroups[Len(g.subgroups) + 1] = <<v>>
      <4> HIDE DEF h, g
      <4> QED  BY <2>2, <2>3, LastOfAppend
    <3> HIDE DEF h, g
    <3> QED  BY <3>1, <3>2
  <2>8. h.subgroups # <<>>  BY <2>7
  <2>9. groups' # <<>>  BY <2>1, <2>6
  <2> HIDE DEF h, n, N
  <2>10. \A i \in DOMAIN groups : i # N => groups'[i] = groups[i]  BY <1>1, <2>5
  <2>11. groups'[N] = h  BY <2>1, <2>5
  <2>12. \A i \in DOMAIN groups : \A s \in DOMAIN groups[i].subgroups :
            s \in DOMAIN groups'[i].subgroups /\ groups'[i].subgroups[s] = groups[i].subgroups[s]
      BY <2>7, <2>10, <2>11
  <2>13. \A i \in DOMAIN groups' : \A s \in DOMAIN groups'[i].subgroups :
            (i = N /\ s = n) \/ (i \in DOMAIN groups /\ s \in DOMAIN groups[i].subgroups)
      BY <1>1, <2>6, <2>7, <2>10, <2>11
  <2>14. \A i \in DOMAIN groups' : groups'[i].subgroups # <<>>  BY <1>1, <2>6, <2>8, <2>10, <2>11
  <2>15. n \in DOMAIN groups'[N].subgroups /\ groups'[N].subgroups[n] = <<v>>  BY <2>7, <2>11
  <2>16. \E m \in DOMAIN groups'[N].subgroups :
            /\ groups'[N].subgroups[m] = <<v>>
            /\ \A i \in DOMAIN groups' : \A s \in DOMAIN groups'[i].subgroups :
                 (i = N /\ s = m) \/ (i \in DOMAIN groups /\ s \in DOMAIN groups[i].subgroups)
      BY <2>13, <2>15
  <2>17. DOMAIN groups' = DOMAIN groups \cup {N} /\ N \in DOMAIN groups  BY <1>1, <2>1, <2>6
  <2>18. Len(groups') = N /\ groups' \in Seq(GroupRecord)  BY <2>5
  <2>19. Len(groups) = N  BY DEF N
  <2>20. N = Len(groups')  BY <2>18
  <2>21. \E m \in DOMAIN groups'[Len(groups')].subgroups :
            /\ groups'[Len(groups')].subgroups[m] = <<v>>
            /\ \A i \in DOMAIN groups' : \A s \in DOMAIN groups'[i].subgroups :
                 (i = Len(groups') /\ s = m) \/ (i \in DOMAIN groups /\ s \in DOMAIN groups[i].subgroups)
    <3> DEFINE P(l) == \E m \in DOMAIN groups'[l].subgroups :
            /\ groups'[l].subgroups[m] = <<v>>
            /\ \A i \in DOMAIN groups' : \A s \in DOMAIN groups'[i].subgroups :
                 (i = l /\ s = m) \/ (i \in DOMAIN groups /\ s \in DOMAIN groups[i].subgroups)
    <3>1. P(N)  BY <2>16
    <3>2. P(Len(groups'))
      <4> HIDE DEF P
      <4> QED  BY <3>1, <2>20
    <3> QED  BY <3>2
  <2>22. /\ DOMAIN groups' = DOMAIN groups \cup {Len(groups')}
         /\ Len(groups') \in DOMAIN groups <=> ~fresh
         /\ Len(groups') = Len(groups)
      BY <1>3, <2>17, <2>19, <2>20
  <2> QED  BY <2>9, <2>12, <2>14, <2>18, <2>21, <2>22
<1> QED  BY <1>2, <1>3

LEMMA GroupTaskCollects ==
    ASSUME GraphInv, Collecting, GroupTask
    PROVE  Collecting'
<1> DEFINE path == Searching(exclusionGraph)
           v == Min(Offered(exclusionGraph))
           fresh == path = <<>>
           L == Len(groups')
           In2(i, w) == \E s \in DOMAIN groups'[i].subgroups : groups'[i].subgroups[s] = <<w>>
<1>1. /\ exclusionGraph \in [Vertices -> SUBSET Vertices] /\ Symmetric(exclusionGraph)
      /\ Vertices \subseteq Nat
    BY VerticesFinite DEF GraphInv, ExclusionMutual, ExclusionInRange
<1>2. /\ visited' = visited \cup {v} /\ stack' = Append(path, v)
      /\ groups' = IF fresh
                   THEN Append(groups, [subgroups |-> <<<<v>>>>, excl |-> <<>>, cnt |-> 0])
                   ELSE [groups EXCEPT ![Len(groups)].subgroups = Append(@, <<v>>)]
      /\ UNCHANGED <<taskGraph, exclusionGraph>>
      /\ Offered(exclusionGraph) # {}
    BY DEF GroupTask, Visit, Goto, prebuiltVars
<1>3. /\ path \in Seq(visited) /\ ToSet(path) \subseteq ToSet(stack)
      /\ \A w \in ToSet(stack) : exclusionGraph[w] \ visited # {} => w \in ToSet(path)
      /\ path # <<>> => Last(path) \in visited
    BY <1>1, SearchingOpen DEF Collecting
<1>4. v \in Vertices \ visited
  <2>1. Offered(exclusionGraph) \subseteq Vertices \ visited
      BY <1>1, <1>3 DEF Offered, Collecting
  <2>2. Offered(exclusionGraph) \subseteq Nat  BY <1>1, <2>1
  <2> QED  BY <1>2, <2>1, <2>2, MinOfNat
<1> HIDE DEF v
<1>5. path # <<>> => ToSet(path) # {} /\ groups # <<>>
  <2> SUFFICES ASSUME path # <<>>  PROVE ToSet(path) # {} /\ groups # <<>>  OBVIOUS
  <2>1. Len(path) \in DOMAIN path  BY <1>3, EmptySeq, LenProperties
  <2>2. path[Len(path)] \in ToSet(path)  BY <2>1 DEF ToSet
  <2> QED  BY <1>3, <2>2 DEF Collecting
<1> HIDE DEF path
<1>6. v \in Nat /\ fresh \in BOOLEAN /\ (~fresh => groups # <<>>)  BY <1>1, <1>4, <1>5
<1>7. /\ groups \in Seq(GroupRecord) /\ \A i \in DOMAIN groups : groups[i].subgroups # <<>>
      /\ visited \subseteq Vertices
    BY DEF Collecting
<1> HIDE DEF fresh
<1>8. /\ groups' \in Seq(GroupRecord) /\ groups' # <<>>
      /\ DOMAIN groups' = DOMAIN groups \cup {L}
      /\ L \in DOMAIN groups <=> ~fresh
      /\ ~fresh => L = Len(groups)
      /\ \A i \in DOMAIN groups' : groups'[i].subgroups # <<>>
      /\ \A i \in DOMAIN groups : \A s \in DOMAIN groups[i].subgroups :
            /\ s \in DOMAIN groups'[i].subgroups
            /\ groups'[i].subgroups[s] = groups[i].subgroups[s]
      /\ \E n \in DOMAIN groups'[L].subgroups :
            /\ groups'[L].subgroups[n] = <<v>>
            /\ \A i \in DOMAIN groups' : \A s \in DOMAIN groups'[i].subgroups :
                 \/ i = L /\ s = n
                 \/ i \in DOMAIN groups /\ s \in DOMAIN groups[i].subgroups
    BY <1>2, <1>6, <1>7, GroupTaskPlaces
<1> HIDE DEF L
<1>9. PICK n \in DOMAIN groups'[L].subgroups :
            /\ groups'[L].subgroups[n] = <<v>>
            /\ \A i \in DOMAIN groups' : \A s \in DOMAIN groups'[i].subgroups :
                 \/ i = L /\ s = n
                 \/ i \in DOMAIN groups /\ s \in DOMAIN groups[i].subgroups
    BY <1>8
<1>10. \A i \in DOMAIN groups : \A w : InGroup(i, w) => In2(i, w)  BY <1>8 DEF InGroup
<1>11. In2(L, v)  BY <1>9
<1>12. ASSUME NEW i \in DOMAIN groups', NEW w, In2(i, w)
       PROVE  (i = L /\ w = v) \/ (i \in DOMAIN groups /\ InGroup(i, w))
  <2>1. PICK s \in DOMAIN groups'[i].subgroups : groups'[i].subgroups[s] = <<w>>  BY <1>12
  <2>2. CASE i = L /\ s = n
    <3>1. <<w>> = <<v>>  BY <1>9, <2>1, <2>2
    <3> QED  BY <2>2, <3>1
  <2>3. CASE i \in DOMAIN groups /\ s \in DOMAIN groups[i].subgroups
      BY <1>8, <2>1, <2>3 DEF InGroup
  <2> QED  BY <1>9, <2>2, <2>3
<1>13. ASSUME NEW u \in visited, v \in exclusionGraph[u] \/ u \in exclusionGraph[v]
       PROVE  ~fresh /\ L \in DOMAIN groups /\ InGroup(L, u)
  <2>1. v \in exclusionGraph[u]  BY <1>1, <1>4, <1>7, <1>13 DEF Symmetric
  <2>2. u \in ToSet(stack)  BY <1>4, <2>1 DEF Collecting
  <2>3. u \in ToSet(path)  BY <1>3, <1>4, <2>1, <2>2
  <2>4. path # <<>>  BY <2>3 DEF ToSet
  <2>5. InGroup(Len(groups), u)  BY <2>2 DEF Collecting
  <2> QED  BY <1>8, <2>4, <2>5 DEF fresh
<1>14. \A i \in DOMAIN groups : \A s \in DOMAIN groups[i].subgroups :
            \E w \in visited : groups[i].subgroups[s] = <<w>>
    BY DEF Collecting
<1>15. \A i \in DOMAIN groups : \A w : InGroup(i, w) => w \in visited
  <2> SUFFICES ASSUME NEW i \in DOMAIN groups, NEW w, InGroup(i, w)  PROVE w \in visited  OBVIOUS
  <2>1. PICK s \in DOMAIN groups[i].subgroups : groups[i].subgroups[s] = <<w>>  BY DEF InGroup
  <2>2. PICK x \in visited : groups[i].subgroups[s] = <<x>>  BY <1>14
  <2>3. <<w>> = <<x>>  BY <2>1, <2>2
  <2> QED  BY <2>3
<1>16. \A i, j \in DOMAIN groups : \A w : InGroup(i, w) /\ InGroup(j, w) => i = j
  <2> SUFFICES ASSUME NEW i \in DOMAIN groups, NEW j \in DOMAIN groups, NEW w, InGroup(i, w), InGroup(j, w)
               PROVE  i = j
      OBVIOUS
  <2>1. PICK s \in DOMAIN groups[i].subgroups : groups[i].subgroups[s] = <<w>>  BY DEF InGroup
  <2>2. PICK r \in DOMAIN groups[j].subgroups : groups[j].subgroups[r] = <<w>>  BY DEF InGroup
  <2>3. \A k, l \in DOMAIN groups :
            \A q \in DOMAIN groups[k].subgroups, p \in DOMAIN groups[l].subgroups :
                groups[k].subgroups[q] = groups[l].subgroups[p] => k = l /\ q = p
      BY DEF Collecting
  <2>4. groups[i].subgroups[s] = groups[j].subgroups[r]  BY <2>1, <2>2
  <2> QED  BY ONLY <2>3, <2>4
<1>17. visited' \subseteq Vertices /\ stack' \in Seq(visited') /\ ToSet(stack') = ToSet(path) \cup {v}
  <2>1. path \in Seq(visited') /\ v \in visited'  BY <1>2, <1>3, SeqMonotonic
  <2>2. Append(path, v) \in Seq(visited')  BY <2>1, AppendProperties
  <2>3. ToSet(Append(path, v)) = ToSet(path) \cup {v}  BY <1>3, LastOfAppend
  <2> QED  BY <1>2, <1>4, <1>7, <2>2, <2>3
<1>18. ASSUME NEW i \in DOMAIN groups', NEW s \in DOMAIN groups'[i].subgroups
       PROVE  \E w \in visited' : groups'[i].subgroups[s] = <<w>>
  <2>1. CASE i = L /\ s = n  BY <1>2, <1>9, <2>1
  <2>2. CASE i \in DOMAIN groups /\ s \in DOMAIN groups[i].subgroups
      BY <1>2, <1>8, <1>14, <2>2
  <2> QED  BY <1>9, <2>1, <2>2
<1>19. \A w \in visited' : \E i \in DOMAIN groups' : In2(i, w)
  <2> SUFFICES ASSUME NEW w \in visited'  PROVE \E i \in DOMAIN groups' : In2(i, w)  OBVIOUS
  <2>1. CASE w = v  BY <1>8, <1>11, <2>1
  <2>2. CASE w \in visited
    <3>1. PICK i \in DOMAIN groups : InGroup(i, w)  BY <2>2 DEF Collecting
    <3>2. In2(i, w)  BY <1>10, <3>1
    <3> QED  BY <1>8, <3>2
  <2> QED  BY <1>2, <2>1, <2>2
<1>20. ASSUME NEW i \in DOMAIN groups', NEW j \in DOMAIN groups',
              NEW s \in DOMAIN groups'[i].subgroups, NEW r \in DOMAIN groups'[j].subgroups,
              groups'[i].subgroups[s] = groups'[j].subgroups[r]
       PROVE  i = j /\ s = r
  <2>1. \A k \in DOMAIN groups : \A q \in DOMAIN groups[k].subgroups : groups'[k].subgroups[q] # <<v>>
    <3> SUFFICES ASSUME NEW k \in DOMAIN groups, NEW q \in DOMAIN groups[k].subgroups,
                        groups'[k].subgroups[q] = <<v>>
                 PROVE  FALSE
        OBVIOUS
    <3>1. PICK x \in visited : groups[k].subgroups[q] = <<x>>  BY <1>14
    <3>2. <<x>> = <<v>>  BY <1>8, <3>1
    <3> QED  BY <1>4, <3>2
  <2>2. CASE i = L /\ s = n  BY <1>9, <1>20, <2>1, <2>2
  <2>3. CASE j = L /\ r = n  BY <1>9, <1>20, <2>1, <2>3
  <2>4. CASE /\ i \in DOMAIN groups /\ s \in DOMAIN groups[i].subgroups
             /\ j \in DOMAIN groups /\ r \in DOMAIN groups[j].subgroups
    <3>1. groups[i].subgroups[s] = groups[j].subgroups[r]  BY <1>8, <1>20, <2>4
    <3> QED  BY <2>4, <3>1 DEF Collecting
  <2> QED  BY <1>9, <2>2, <2>3, <2>4
<1>21. \A w \in visited' : exclusionGraph[w] \subseteq visited' \/ w \in ToSet(stack')
  <2> SUFFICES ASSUME NEW w \in visited', ~(exclusionGraph[w] \subseteq visited'), w # v
               PROVE  w \in ToSet(stack')
      BY <1>17
  <2>1. w \in visited /\ exclusionGraph[w] \ visited # {}  BY <1>2
  <2>2. w \in ToSet(stack)  BY <2>1 DEF Collecting
  <2> QED  BY <1>3, <1>17, <2>1, <2>2
<1>22. \A w \in ToSet(stack') : groups' # <<>> /\ In2(L, w)
  <2> SUFFICES ASSUME NEW w \in ToSet(path)  PROVE In2(L, w)  BY <1>8, <1>11, <1>17
  <2>1. path # <<>> /\ w \in ToSet(stack)  BY <1>3 DEF ToSet
  <2>2. ~fresh /\ L = Len(groups) /\ L \in DOMAIN groups  BY <1>8, <2>1 DEF fresh
  <2>3. InGroup(L, w)  BY <2>1, <2>2 DEF Collecting
  <2> QED  BY <1>10, <2>2, <2>3
<1>23. ASSUME NEW i \in DOMAIN groups', NEW w \in visited', In2(i, w),
              NEW u \in exclusionGraph[w] \cap visited'
       PROVE  In2(i, u)
  <2>1. CASE i = L /\ w = v
    <3>1. CASE u = v  BY <1>11, <2>1, <3>1
    <3>2. CASE u \in visited
      <4>1. L \in DOMAIN groups /\ InGroup(L, u)  BY <1>13, <1>23, <2>1, <3>2
      <4> QED  BY <1>10, <2>1, <4>1
    <3> QED  BY <1>2, <3>1, <3>2
  <2>2. CASE i \in DOMAIN groups /\ InGroup(i, w)
    <3>0. w \in visited  BY <1>15, <2>2
    <3>1. CASE u = v
      <4>1. L \in DOMAIN groups /\ InGroup(L, w)  BY <1>13, <1>23, <3>0, <3>1
      <4>2. i = L  BY <1>16, <2>2, <4>1
      <4> QED  BY <1>11, <3>1, <4>2
    <3>2. CASE u \in visited
      <4>1. InGroup(i, u)  BY <1>23, <2>2, <3>0, <3>2 DEF Collecting
      <4> QED  BY <1>10, <2>2, <4>1
    <3> QED  BY <1>2, <3>1, <3>2
  <2> QED  BY <1>12, <1>23, <2>1, <2>2
<1>24. exclusionGraph' = exclusionGraph /\ Vertices' = Vertices  BY <1>2 DEF Vertices
<1>25. groups' \in Seq(GroupRecord')  BY <1>8 DEF GroupRecord
<1>26. /\ groups' \in Seq(GroupRecord') /\ visited' \subseteq Vertices' /\ stack' \in Seq(visited')
       /\ \A i \in DOMAIN groups' :
            /\ groups'[i].subgroups # <<>>
            /\ \A s \in DOMAIN groups'[i].subgroups : \E w \in visited' : groups'[i].subgroups[s] = <<w>>
       /\ \A w \in visited' : \E i \in DOMAIN groups' : In2(i, w)
       /\ \A w \in visited' : exclusionGraph'[w] \subseteq visited' \/ w \in ToSet(stack')
       /\ \A w \in ToSet(stack') : groups' # <<>> /\ In2(Len(groups'), w)
       /\ \A i \in DOMAIN groups' : \A w \in visited' :
            In2(i, w) => \A u \in exclusionGraph'[w] \cap visited' : In2(i, u)
    BY <1>8, <1>17, <1>18, <1>19, <1>21, <1>22, <1>23, <1>24, <1>25 DEF L
<1> QED  BY <1>20, <1>26 DEF Collecting, InGroup, ToSet
------------------------------------------------------------------------------
(***************************************************************************)
(* One group.                                                              *)
(***************************************************************************)
TasksOf(g) == UNION {ToSet(g.subgroups[s]) : s \in DOMAIN g.subgroups}

\* What holds of each group once it has its exclusion graph: its subgroups are
\* told apart by their tasks, exclude each other exactly as those do, and have
\* all the neighbours of their tasks.
GroupOK(g) ==
    /\ g \in GroupRecord /\ DOMAIN g.excl = DOMAIN g.subgroups
    /\ g.cnt = Cardinality(Live(g))
    /\ \A s \in DOMAIN g.subgroups :
        /\ g.excl[s] \subseteq DOMAIN g.subgroups
        /\ ToSet(g.subgroups[s]) \subseteq Vertices
        /\ IsInjective(g.subgroups[s])
    /\ \A s, r \in DOMAIN g.subgroups : ToSet(g.subgroups[s]) \cap ToSet(g.subgroups[r]) # {} => s = r
    /\ \A s \in Live(g) : g.excl[s] = {s} \cup
            {r \in Live(g) : Touch(exclusionGraph, ToSet(g.subgroups[s]), ToSet(g.subgroups[r]))}
    /\ \A v \in TasksOf(g) : exclusionGraph[v] \subseteq TasksOf(g)

LEMMA LiveFinite ==
    ASSUME NEW g \in GroupRecord
    PROVE  /\ Len(g.subgroups) \in Nat /\ DOMAIN g.subgroups = 1 .. Len(g.subgroups)
           /\ Live(g) \subseteq Nat /\ IsFiniteSet(Live(g)) /\ Cardinality(Live(g)) \in Nat
           /\ \A s \in DOMAIN g.subgroups : g.subgroups[s] \in Seq(Nat)
           /\ Live(g) = {s \in DOMAIN g.subgroups : ToSet(g.subgroups[s]) # {}}
<1>1. g.subgroups \in Seq(Seq(Nat))  BY DEF GroupRecord
<1>2. /\ Len(g.subgroups) \in Nat /\ DOMAIN g.subgroups = 1 .. Len(g.subgroups)
      /\ \A s \in DOMAIN g.subgroups : g.subgroups[s] \in Seq(Nat)
    BY <1>1, LenProperties
<1>3. Live(g) \subseteq 1 .. Len(g.subgroups)  BY <1>2 DEF Live
<1>4. IsFiniteSet(1 .. Len(g.subgroups))  BY <1>2, FS_Interval
<1>5. IsFiniteSet(Live(g)) /\ Cardinality(Live(g)) \in Nat
    BY <1>3, <1>4, FS_Subset, FS_CardinalityType
<1>6. ASSUME NEW t \in Seq(Nat)  PROVE t # <<>> <=> ToSet(t) # {}
  <2>1. t # <<>> => 1 \in DOMAIN t  BY EmptySeq, LenProperties
  <2>2. t = <<>> => ToSet(t) = {}  BY DEF ToSet
  <2>3. t # <<>> => t[1] \in ToSet(t)  BY <2>1 DEF ToSet
  <2> QED  BY <2>2, <2>3
<1>7. Live(g) = {s \in DOMAIN g.subgroups : ToSet(g.subgroups[s]) # {}}
    BY <1>2, <1>6 DEF Live
<1> QED  BY <1>2, <1>3, <1>5, <1>7

\* The tasks of one list follow those of the other.
LEMMA ConcatOfTasks ==
    ASSUME NEW a \in Seq(Nat), NEW b \in Seq(Nat)
    PROVE  /\ a \o b \in Seq(Nat) /\ ToSet(a \o b) = ToSet(a) \cup ToSet(b)
           /\ IsInjective(a) /\ IsInjective(b) /\ ToSet(a) \cap ToSet(b) = {} => IsInjective(a \o b)
<1> DEFINE c == a \o b
           n == Len(a)
           m == Len(b)
<1>1. /\ n \in Nat /\ m \in Nat /\ DOMAIN a = 1 .. n /\ DOMAIN b = 1 .. m
    BY LenProperties
<1>2. /\ c \in Seq(Nat) /\ Len(c) = n + m
      /\ \A i \in 1 .. n + m : c[i] = IF i <= n THEN a[i] ELSE b[i - n]
    BY ConcatProperties
<1>3. DOMAIN c = 1 .. n + m  BY <1>2, LenProperties
<1> HIDE DEF c, n, m
<1>4. \A i \in 1 .. n + m : i <= n => i \in 1 .. n /\ c[i] = a[i]  BY <1>1, <1>2
<1>5. \A i \in 1 .. n + m : ~(i <= n) => i - n \in 1 .. m /\ c[i] = b[i - n]  BY <1>1, <1>2
<1>6. \A i \in 1 .. n : i \in 1 .. n + m /\ c[i] = a[i]  BY <1>1, <1>2
<1>7. ASSUME NEW i \in 1 .. m  PROVE i + n \in 1 .. n + m /\ c[i + n] = b[i]
  <2>1. i + n \in 1 .. n + m /\ ~(i + n <= n) /\ (i + n) - n = i  BY <1>1
  <2> QED  BY <1>2, <2>1
<1>8. ToSet(c) = ToSet(a) \cup ToSet(b)
  <2>1. ASSUME NEW x \in ToSet(c)  PROVE x \in ToSet(a) \cup ToSet(b)
    <3>1. PICK i \in 1 .. n + m : c[i] = x  BY <1>3 DEF ToSet
    <3>2. CASE i <= n  BY <1>1, <1>4, <3>1, <3>2 DEF ToSet
    <3>3. CASE ~(i <= n)  BY <1>1, <1>5, <3>1, <3>3 DEF ToSet
    <3> QED  BY <3>2, <3>3
  <2>2. ASSUME NEW x \in ToSet(a)  PROVE x \in ToSet(c)
    <3>1. PICK i \in 1 .. n : a[i] = x  BY <1>1 DEF ToSet
    <3> QED  BY <1>3, <1>6, <3>1 DEF ToSet
  <2>3. ASSUME NEW x \in ToSet(b)  PROVE x \in ToSet(c)
    <3>1. PICK i \in 1 .. m : b[i] = x  BY <1>1 DEF ToSet
    <3>2. i + n \in 1 .. n + m /\ c[i + n] = x  BY <1>7, <3>1
    <3> QED  BY <1>3, <3>2 DEF ToSet
  <2> QED  BY <2>1, <2>2, <2>3
<1>9. ASSUME IsInjective(a), IsInjective(b), ToSet(a) \cap ToSet(b) = {}
      PROVE  IsInjective(c)
  <2> SUFFICES ASSUME NEW i \in 1 .. n + m, NEW j \in 1 .. n + m, c[i] = c[j]  PROVE i = j
      BY <1>3 DEF IsInjective
  <2>1. \A k \in 1 .. n : a[k] \in ToSet(a)  BY <1>1 DEF ToSet
  <2>2. \A k \in 1 .. m : b[k] \in ToSet(b)  BY <1>1 DEF ToSet
  <2>3. CASE i <= n /\ j <= n
    <3>1. i \in DOMAIN a /\ j \in DOMAIN a /\ a[i] = a[j]  BY <1>1, <1>4, <2>3
    <3> QED  BY <1>9, <3>1 DEF IsInjective
  <2>4. CASE ~(i <= n) /\ ~(j <= n)
    <3>1. i - n \in DOMAIN b /\ j - n \in DOMAIN b /\ b[i - n] = b[j - n]  BY <1>1, <1>5, <2>4
    <3>2. i - n = j - n  BY <1>9, <3>1 DEF IsInjective
    <3> QED  BY <1>1, <3>2
  <2>5. CASE i <= n /\ ~(j <= n)
    <3>1. c[i] \in ToSet(a) /\ c[j] \in ToSet(b)  BY <1>4, <1>5, <2>1, <2>2, <2>5
    <3> QED  BY <1>9, <3>1
  <2>6. CASE ~(i <= n) /\ j <= n
    <3>1. c[j] \in ToSet(a) /\ c[i] \in ToSet(b)  BY <1>4, <1>5, <2>1, <2>2, <2>6
    <3> QED  BY <1>9, <3>1
  <2> QED  BY <2>3, <2>4, <2>5, <2>6
<1> QED  BY <1>2, <1>8, <1>9 DEF c

\* mergeSubgroups (595-611): the group stays in order, with a subgroup less.
LEMMA MergedOK ==
    ASSUME GraphInv, NEW g, GroupOK(g), NEW dst \in Live(g), NEW src \in Live(g), dst # src
    PROVE  /\ GroupOK(Merged(g, dst, src))
           /\ DOMAIN Merged(g, dst, src).subgroups = DOMAIN g.subgroups
           /\ Live(Merged(g, dst, src)) = Live(g) \ {src}
           /\ TasksOf(Merged(g, dst, src)) = TasksOf(g)
           /\ Merged(g, dst, src).cnt = g.cnt - 1 /\ g.cnt \in Nat
<1> DEFINE m == Merged(g, dst, src)
           D == DOMAIN g.subgroups
           sub == g.subgroups
           sub2 == m.subgroups
           cell == [s \in D |-> ToSet(sub[s])]
           cell2 == [cell EXCEPT ![dst] = cell[dst] \cup cell[src], ![src] = {}]
<1>0. dst \in D /\ src \in D  BY DEF Live
<1>1. /\ g \in GroupRecord /\ DOMAIN g.excl = D /\ g.cnt = Cardinality(Live(g))
      /\ \A s \in D : g.excl[s] \subseteq D /\ cell[s] \subseteq Vertices /\ IsInjective(sub[s])
      /\ \A s, r \in D : cell[s] \cap cell[r] # {} => s = r
      /\ \A v \in TasksOf(g) : exclusionGraph[v] \subseteq TasksOf(g)
    BY DEF GroupOK
<1>2. /\ Len(sub) \in Nat /\ D = 1 .. Len(sub) /\ IsFiniteSet(Live(g)) /\ g.cnt \in Nat
      /\ \A s \in D : sub[s] \in Seq(Nat)
      /\ Live(g) = {s \in D : cell[s] # {}}
    BY <1>1, LiveFinite
<1>3. /\ DOMAIN sub2 = D /\ sub2 = [s \in D |-> sub2[s]]
      /\ sub2[src] = <<>> /\ sub2[dst] = sub[dst] \o sub[src]
      /\ \A s \in D \ {dst, src} : sub2[s] = sub[s]
  <2>1. sub2 = [sub EXCEPT ![dst] = @ \o sub[src], ![src] = <<>>]  BY DEF Merged
  <2>2. sub \in Seq(Seq(Nat))  BY <1>1 DEF GroupRecord
  <2> HIDE DEF sub2
  <2>3. sub = [s \in D |-> sub[s]]
    <3>1. sub \in [1 .. Len(sub) -> Seq(Nat)]  BY <2>2, LenProperties
    <3> QED  BY <3>1
  <2> QED  BY <1>0, <2>1, <2>3
<1>4. /\ sub[dst] \o sub[src] \in Seq(Nat)
      /\ ToSet(sub[dst] \o sub[src]) = cell[dst] \cup cell[src]
      /\ IsInjective(sub[dst] \o sub[src])
  <2>1. cell[dst] \cap cell[src] = {}  BY <1>0, <1>1
  <2> QED  BY <1>0, <1>1, <1>2, <2>1, ConcatOfTasks
<1>5. ToSet(<<>>) = {} /\ IsInjective(<<>>) /\ <<>> \in Seq(Nat)  BY DEF ToSet, IsInjective
<1> HIDE DEF sub2
<1>6. \A s \in D : ToSet(sub2[s]) = cell2[s]
  <2>1. ToSet(sub2[src]) = cell2[src]  BY <1>0, <1>3, <1>5
  <2>2. ToSet(sub2[dst]) = cell2[dst]  BY <1>0, <1>3, <1>4
  <2>3. \A s \in D \ {dst, src} : ToSet(sub2[s]) = cell2[s]  BY <1>3
  <2> QED  BY <2>1, <2>2, <2>3
<1>7. \A s \in D : sub2[s] \in Seq(Nat) /\ IsInjective(sub2[s])
    BY <1>1, <1>2, <1>3, <1>4, <1>5
<1>8. sub2 \in Seq(Seq(Nat)) /\ Len(sub2) = Len(sub)
  <2>1. sub2 \in [1 .. Len(sub) -> Seq(Nat)]
    <3> HIDE DEF D, sub
    <3> QED  BY <1>2, <1>3, <1>7
  <2> QED  BY <1>2, <2>1, FunctionIsSeq
<1>9. /\ DOMAIN m.excl = D /\ m.excl = ExclusionMerged(g.excl, dst, src)
      /\ m.excl \in Seq(SUBSET Nat)
      /\ \A s \in D : m.excl[s] \subseteq D
  <2>1. m.excl = ExclusionMerged(g.excl, dst, src)  BY DEF Merged
  <2>2. DOMAIN m.excl = D /\ m.excl = [s \in D |-> m.excl[s]]  BY <1>1, <2>1 DEF ExclusionMerged
  <2>3. \A s \in D : m.excl[s] \subseteq g.excl[s] \cup g.excl[src] \cup {dst}
      BY <1>1, <2>1 DEF ExclusionMerged
  <2>4. \A s \in D : m.excl[s] \subseteq D  BY <1>0, <1>1, <2>3
  <2>5. D \subseteq Nat  BY <1>2
  <2>6. m.excl \in [D -> SUBSET Nat]
    <3> HIDE DEF m, D
    <3> QED  BY <2>2, <2>4, <2>5
  <2> QED  BY <1>2, <2>1, <2>2, <2>4, <2>6, FunctionIsSeq
<1>10. cell2 \in [D -> SUBSET Vertices] /\ cell \in [D -> SUBSET Vertices]  BY <1>0, <1>1
<1>11. Live(m) = {s \in D : cell2[s] # {}}
  <2>1. m \in GroupRecord
    <3>1. m = [subgroups |-> sub2, excl |-> m.excl, cnt |-> g.cnt - 1]  BY DEF Merged, sub2
    <3>2. g.cnt - 1 \in Int  BY <1>2
    <3> QED  BY <1>8, <1>9, <3>1, <3>2 DEF GroupRecord
  <2>2. Live(m) = {s \in DOMAIN sub2 : ToSet(sub2[s]) # {}}  BY <2>1, LiveFinite DEF sub2
  <2> QED  BY <1>3, <1>6, <2>2
<1>12. Live(m) = Live(g) \ {src}
    BY <1>0, <1>2, <1>11
<1>13. m.cnt = Cardinality(Live(m)) /\ m.cnt = g.cnt - 1
  <2>1. m.cnt = g.cnt - 1  BY DEF Merged
  <2>2. Cardinality(Live(g) \ {src}) = Cardinality(Live(g)) - 1  BY <1>2, FS_RemoveElement
  <2> QED  BY <1>1, <1>12, <2>1, <2>2
<1>14. Exact(m.excl, Live(m), cell2, exclusionGraph)
  <2>1. exclusionGraph \in [Vertices -> SUBSET Vertices] /\ Symmetric(exclusionGraph)
      BY DEF GraphInv, ExclusionMutual, ExclusionInRange
  <2>2. Exact(g.excl, Live(g), cell, exclusionGraph)
    <3>1. Live(g) \subseteq D  BY DEF Live
    <3>2. \A s \in Live(g) : g.excl[s] = {s} \cup
            {r \in Live(g) : Touch(exclusionGraph, ToSet(g.subgroups[s]), ToSet(g.subgroups[r]))}
        BY DEF GroupOK
    <3>3. \A s \in Live(g) : cell[s] = ToSet(g.subgroups[s])  BY <3>1
    <3> HIDE DEF cell
    <3> QED  BY <3>2, <3>3 DEF Exact
  <2>3. g.excl \in [D -> SUBSET D]
    <3>1. g.excl \in Seq(SUBSET Nat)  BY <1>1 DEF GroupRecord
    <3>2. g.excl = [s \in D |-> g.excl[s]]  BY <1>1, <3>1
    <3> HIDE DEF D
    <3> QED  BY <1>1, <3>2
  <2>4. Live(g) \in SUBSET D  BY DEF Live
  <2> HIDE DEF cell, D, m
  <2>5. Exact(ExclusionMerged(g.excl, dst, src), Live(g) \ {src}, cell2, exclusionGraph)
      BY <1>10, <2>1, <2>2, <2>3, <2>4, MergeKeepsExclusion
  <2> QED  BY <1>9, <1>12, <2>5
<1>15. \A s \in Live(m) : m.excl[s] = {s} \cup
            {r \in Live(m) : Touch(exclusionGraph, ToSet(sub2[s]), ToSet(sub2[r]))}
  <2>1. \A s \in Live(m) : s \in D /\ cell2[s] = ToSet(sub2[s])  BY <1>6, <1>11
  <2> HIDE DEF cell2, m
  <2> QED  BY <1>14, <2>1 DEF Exact
<1>16. \A s, r \in D : cell2[s] \cap cell2[r] # {} => s = r
  <2>1. /\ cell2[src] = {} /\ cell2[dst] = cell[dst] \cup cell[src]
        /\ \A s \in D \ {dst, src} : cell2[s] = cell[s]
      BY <1>0
  <2> HIDE DEF cell2, cell, D
  <2>2. ASSUME NEW s \in D \ {dst, src}  PROVE cell2[s] \cap cell2[dst] = {}
      BY <1>0, <1>1, <2>1
  <2> QED  BY <1>1, <2>1, <2>2
<1>17. TasksOf(m) = TasksOf(g)
  <2>1. TasksOf(m) = UNION {cell2[s] : s \in D}
    <3>1. \A s \in D : ToSet(m.subgroups[s]) = cell2[s]  BY <1>6 DEF sub2
    <3>2. DOMAIN m.subgroups = D  BY <1>3 DEF sub2
    <3> HIDE DEF cell2, m, D
    <3> QED  BY <3>1, <3>2 DEF TasksOf
  <2>2. TasksOf(g) = UNION {cell[s] : s \in D}  BY DEF TasksOf
  <2>3. /\ cell2[src] = {} /\ cell2[dst] = cell[dst] \cup cell[src]
        /\ \A s \in D \ {dst, src} : cell2[s] = cell[s]
      BY <1>0
  <2> HIDE DEF cell2, cell, D
  <2>4. UNION {cell2[s] : s \in D} = UNION {cell[s] : s \in D}  BY <1>0, <2>3
  <2> QED  BY <2>1, <2>2, <2>4
<1>18. m \in GroupRecord
  <2>1. m = [subgroups |-> sub2, excl |-> m.excl, cnt |-> g.cnt - 1]  BY DEF Merged, sub2
  <2>2. g.cnt - 1 \in Int  BY <1>2
  <2> QED  BY <1>8, <1>9, <2>1, <2>2 DEF GroupRecord
<1>19. GroupOK(m)
  <2>1. /\ DOMAIN m.excl = DOMAIN m.subgroups /\ DOMAIN m.subgroups = D
        /\ m.cnt = Cardinality(Live(m))
      BY <1>3, <1>9, <1>13 DEF sub2
  <2>2. \A s \in D :
            /\ m.excl[s] \subseteq D
            /\ ToSet(m.subgroups[s]) \subseteq Vertices
            /\ IsInjective(m.subgroups[s])
      BY <1>6, <1>7, <1>9, <1>10 DEF sub2
  <2>3. \A s, r \in D : ToSet(m.subgroups[s]) \cap ToSet(m.subgroups[r]) # {} => s = r
    <3>1. \A s \in D : ToSet(m.subgroups[s]) = cell2[s]  BY <1>6 DEF sub2
    <3> HIDE DEF cell2, m
    <3> QED  BY <1>16, <3>1
  <2>4. \A s \in Live(m) : m.excl[s] = {s} \cup
            {r \in Live(m) : Touch(exclusionGraph, ToSet(m.subgroups[s]), ToSet(m.subgroups[r]))}
      BY <1>15 DEF sub2
  <2> HIDE DEF m, D
  <2> QED  BY <1>1, <1>17, <1>18, <2>1, <2>2, <2>3, <2>4 DEF GroupOK
<1> QED  BY <1>2, <1>3, <1>12, <1>13, <1>17, <1>19 DEF sub2

LEMMA ShiftCardinality ==
    ASSUME NEW S, S \subseteq Nat, IsFiniteSet(S), NEW n \in Nat
    PROVE  IsFiniteSet({n + s : s \in S}) /\ Cardinality({n + s : s \in S}) = Cardinality(S)
<1> DEFINE T == {n + s : s \in S}
           f == [s \in S |-> n + s]
<1>1. \A s, r \in S : n + s = n + r => s = r
  <2>1. \A s \in S : s \in Nat  OBVIOUS
  <2> QED  BY <2>1
<1>2. f \in Injection(S, T)  BY <1>1 DEF Injection, IsInjective
<1>3. f \in Surjection(S, T)  BY DEF Surjection
<1>4. ExistsBijection(S, T)  BY <1>2, <1>3 DEF ExistsBijection, Bijection
<1> QED  BY <1>4, FS_Bijection

\* What follows a sequence has its length added to its places.
LEMMA ConcatIs ==
    ASSUME NEW S, NEW a \in Seq(S), NEW b \in Seq(S), NEW n, n = Len(a), NEW m, m = Len(b)
    PROVE  /\ a \o b \in Seq(S) /\ Len(a \o b) = n + m /\ DOMAIN (a \o b) = 1 .. n + m
           /\ \A i \in 1 .. n + m : (a \o b)[i] = IF i <= n THEN a[i] ELSE b[i - n]
<1>1. /\ a \o b \in Seq(S) /\ Len(a \o b) = Len(a) + Len(b)
      /\ \A i \in 1 .. Len(a) + Len(b) : (a \o b)[i] = IF i <= Len(a) THEN a[i] ELSE b[i - Len(a)]
    BY ConcatProperties
<1>2. DOMAIN (a \o b) = 1 .. Len(a) + Len(b)  BY ONLY <1>1, LenProperties
<1> QED  BY <1>1, <1>2

\* Joining groups (775-788): the subgroups of src follow those of dst, with their
\* edges, and what holds of both groups holds of the one they become.
LEMMA JoinedOK ==
    ASSUME GraphInv, NEW d, GroupOK(d), NEW e, GroupOK(e), TasksOf(d) \cap TasksOf(e) = {}
    PROVE  /\ GroupOK(Joined(d, e))
           /\ TasksOf(Joined(d, e)) = TasksOf(d) \cup TasksOf(e)
           /\ Joined(d, e).cnt = d.cnt + e.cnt
           /\ d.subgroups # <<>> => Joined(d, e).subgroups # <<>>
<1> DEFINE g == Joined(d, e)
           n == Len(d.subgroups)
           m == Len(e.subgroups)
           shifted == [s \in DOMAIN e.excl |-> IF s \in Live(e) THEN {n + r : r \in e.excl[s]} ELSE {}]
           sub == g.subgroups
           excl == g.excl
<1>1. /\ d \in GroupRecord /\ DOMAIN d.excl = DOMAIN d.subgroups
      /\ e \in GroupRecord /\ DOMAIN e.excl = DOMAIN e.subgroups
      /\ d.cnt = Cardinality(Live(d)) /\ e.cnt = Cardinality(Live(e))
    BY DEF GroupOK
<1>2. /\ n \in Nat /\ m \in Nat /\ DOMAIN d.subgroups = 1 .. n /\ DOMAIN e.subgroups = 1 .. m
      /\ Live(d) \subseteq Nat /\ IsFiniteSet(Live(d)) /\ Live(e) \subseteq Nat /\ IsFiniteSet(Live(e))
      /\ d.cnt \in Nat /\ e.cnt \in Nat
    BY <1>1, LiveFinite
<1>3. /\ d.subgroups \in Seq(Seq(Nat)) /\ e.subgroups \in Seq(Seq(Nat))
      /\ d.excl \in Seq(SUBSET Nat) /\ e.excl \in Seq(SUBSET Nat)
    BY <1>1 DEF GroupRecord
<1>4. Len(d.excl) = n /\ Len(e.excl) = m
  <2>1. /\ DOMAIN d.excl = 1 .. Len(d.excl) /\ Len(d.excl) \in Nat
        /\ DOMAIN e.excl = 1 .. Len(e.excl) /\ Len(e.excl) \in Nat
      BY <1>3, LenProperties
  <2>2. \A a, b \in Nat : 1 .. a = 1 .. b => a = b
    <3> SUFFICES ASSUME NEW a \in Nat, NEW b \in Nat, 1 .. a = 1 .. b  PROVE a = b  OBVIOUS
    <3>1. Cardinality(1 .. a) = a /\ Cardinality(1 .. b) = b  BY FS_Interval
    <3> QED  BY <3>1
  <2> HIDE DEF n, m
  <2> QED  BY <1>1, <1>2, <2>1, <2>2
<1>5. shifted \in Seq(SUBSET Nat) /\ Len(shifted) = m
  <2>1. \A s \in 1 .. m : e.excl[s] \subseteq Nat  BY <1>1, <1>2 DEF GroupOK
  <2>2. shifted \in [1 .. m -> SUBSET Nat]
    <3>1. \A s \in 1 .. m : {n + r : r \in e.excl[s]} \in SUBSET Nat
      <4> SUFFICES ASSUME NEW s \in 1 .. m, NEW r \in e.excl[s]  PROVE n + r \in Nat  OBVIOUS
      <4>1. r \in Nat  BY <2>1
      <4> QED  BY <1>2, <4>1
    <3>2. DOMAIN e.excl = 1 .. m  BY <1>1, <1>2
    <3> HIDE DEF n, m
    <3> QED  BY <3>1, <3>2
  <2>3. PICK S : S = SUBSET Nat  OBVIOUS
  <2>4. shifted \in [1 .. m -> S] /\ m \in Nat  BY <1>2, <2>2, <2>3
  <2> HIDE DEF shifted, m
  <2>5. shifted \in Seq(S) /\ Len(shifted) = m  BY ONLY <2>4, FunctionIsSeq
  <2> QED  BY ONLY <2>3, <2>5
<1>6. /\ sub = d.subgroups \o e.subgroups /\ excl = d.excl \o shifted /\ g.cnt = d.cnt + e.cnt
      /\ g = [subgroups |-> sub, excl |-> excl, cnt |-> d.cnt + e.cnt]
    BY DEF Joined
<1> HIDE DEF g, shifted
<1>7. /\ sub \in Seq(Seq(Nat)) /\ Len(sub) = n + m
      /\ \A i \in 1 .. n + m : sub[i] = IF i <= n THEN d.subgroups[i] ELSE e.subgroups[i - n]
  <2>1. PICK S, a, b : S = Seq(Nat) /\ a = d.subgroups /\ b = e.subgroups  OBVIOUS
  <2>2. a \in Seq(S) /\ b \in Seq(S) /\ n = Len(a) /\ m = Len(b)  BY <1>3, <2>1
  <2> HIDE DEF sub, n, m
  <2>3. /\ a \o b \in Seq(S) /\ Len(a \o b) = n + m
        /\ \A i \in 1 .. n + m : (a \o b)[i] = IF i <= n THEN a[i] ELSE b[i - n]
      BY ONLY <2>2, ConcatIs
  <2>4. sub = a \o b  BY <1>6, <2>1
  <2> QED  BY <2>1, <2>3, <2>4
<1>8. /\ excl \in Seq(SUBSET Nat) /\ Len(excl) = n + m
      /\ \A i \in 1 .. n + m : excl[i] = IF i <= n THEN d.excl[i] ELSE shifted[i - n]
  <2> HIDE DEF excl, n, m
  <2>1. PICK S, a, b : S = SUBSET Nat /\ a = d.excl /\ b = shifted  OBVIOUS
  <2>2. a \in Seq(S) /\ b \in Seq(S) /\ n = Len(a) /\ m = Len(b)  BY <1>3, <1>4, <1>5, <2>1
  <2>3. /\ a \o b \in Seq(S) /\ Len(a \o b) = n + m
        /\ \A i \in 1 .. n + m : (a \o b)[i] = IF i <= n THEN a[i] ELSE b[i - n]
      BY ONLY <2>2, ConcatIs
  <2>4. excl = a \o b  BY <1>6, <2>1
  <2> QED  BY <2>1, <2>3, <2>4
<1>9. DOMAIN sub = 1 .. n + m /\ DOMAIN excl = 1 .. n + m  BY <1>7, <1>8, LenProperties
<1> HIDE DEF n, m
<1>10. ASSUME NEW i \in 1 .. n
       PROVE  /\ i \in 1 .. n + m /\ sub[i] = d.subgroups[i] /\ excl[i] = d.excl[i]
              /\ i \in DOMAIN d.subgroups
  <2>1. i \in 1 .. n + m /\ i <= n  BY <1>2
  <2> QED  BY <1>2, <1>7, <1>8, <2>1
<1>11. ASSUME NEW i \in 1 .. m
       PROVE  /\ n + i \in 1 .. n + m /\ sub[n + i] = e.subgroups[i] /\ excl[n + i] = shifted[i]
              /\ i \in DOMAIN e.subgroups
  <2>1. n + i \in 1 .. n + m /\ ~(n + i <= n) /\ (n + i) - n = i  BY <1>2
  <2> QED  BY <1>2, <1>7, <1>8, <2>1
<1>12. ASSUME NEW i \in 1 .. n + m  PROVE i \in 1 .. n \/ \E k \in 1 .. m : i = n + k
  <2>1. i \notin 1 .. n => i - n \in 1 .. m /\ i = n + (i - n)  BY <1>2
  <2> QED  BY <2>1
<1>13. /\ \A k \in 1 .. m : n + k \notin 1 .. n
       /\ \A k, l \in 1 .. m : n + k = n + l => k = l
    BY <1>2
<1>14. Live(g) = Live(d) \cup {n + s : s \in Live(e)}
  <2>1. Live(g) = {i \in 1 .. n + m : sub[i] # <<>>}  BY <1>9 DEF Live
  <2>2. Live(d) = {i \in 1 .. n : d.subgroups[i] # <<>>}  BY <1>2 DEF Live
  <2>3. Live(e) = {i \in 1 .. m : e.subgroups[i] # <<>>}  BY <1>2 DEF Live
  <2>4. ASSUME NEW i \in Live(g)  PROVE i \in Live(d) \cup {n + s : s \in Live(e)}
    <3>1. i \in 1 .. n + m /\ sub[i] # <<>>  BY <2>1
    <3>2. CASE i \in 1 .. n  BY <1>10, <2>2, <3>1, <3>2
    <3>3. ASSUME NEW k \in 1 .. m, i = n + k  PROVE i \in {n + s : s \in Live(e)}
      <4>1. k \in Live(e)  BY <1>11, <2>3, <3>1, <3>3
      <4> QED  BY <3>3, <4>1
    <3> QED  BY <1>12, <3>1, <3>2, <3>3
  <2>5. ASSUME NEW i \in Live(d)  PROVE i \in Live(g)  BY <1>10, <2>1, <2>2
  <2>6. ASSUME NEW s \in Live(e)  PROVE n + s \in Live(g)  BY <1>11, <2>1, <2>3
  <2> QED  BY <2>4, <2>5, <2>6
<1>15. Live(d) \subseteq 1 .. n /\ Live(e) \subseteq 1 .. m  BY <1>2 DEF Live
<1>16. g.cnt = Cardinality(Live(g))
  <2> DEFINE T == {n + s : s \in Live(e)}
  <2>1. IsFiniteSet(T) /\ Cardinality(T) = Cardinality(Live(e))  BY <1>2, ShiftCardinality
  <2>2. Live(d) \cap T = {}  BY <1>13, <1>15
  <2>3. Cardinality(Live(d) \cup T) = Cardinality(Live(d)) + Cardinality(T) - Cardinality({})
    <3> HIDE DEF T
    <3> QED  BY <1>2, <2>1, <2>2, FS_Union
  <2>4. Cardinality({}) = 0  BY FS_EmptySet
  <2> HIDE DEF T
  <2>5. Live(g) = Live(d) \cup T  BY <1>14 DEF T
  <2> QED  BY <1>1, <1>2, <1>6, <2>1, <2>3, <2>4, <2>5
<1>17. \A s \in Live(e) : shifted[s] = {n + r : r \in e.excl[s]}
  <2>1. \A s \in Live(e) : s \in DOMAIN e.excl  BY <1>1 DEF Live
  <2> QED  BY <2>1 DEF shifted
<1>18. \A s \in 1 .. m : shifted[s] \subseteq {n + r : r \in e.excl[s]}
  <2>1. \A s \in 1 .. m : s \in DOMAIN e.excl  BY <1>1, <1>2
  <2> QED  BY <2>1 DEF shifted
<1>19. TasksOf(g) = TasksOf(d) \cup TasksOf(e)
  <2>1. ASSUME NEW v \in TasksOf(g)  PROVE v \in TasksOf(d) \cup TasksOf(e)
    <3>1. PICK i \in 1 .. n + m : v \in ToSet(sub[i])  BY <1>9 DEF TasksOf
    <3>2. CASE i \in 1 .. n  BY <1>10, <3>1, <3>2 DEF TasksOf
    <3>3. ASSUME NEW k \in 1 .. m, i = n + k  PROVE v \in TasksOf(e)
        BY <1>11, <3>1, <3>3 DEF TasksOf
    <3> QED  BY <1>12, <3>2, <3>3
  <2>2. ASSUME NEW v \in TasksOf(d)  PROVE v \in TasksOf(g)
    <3>1. PICK i \in 1 .. n : v \in ToSet(d.subgroups[i])  BY <1>2 DEF TasksOf
    <3> QED  BY <1>9, <1>10, <3>1 DEF TasksOf
  <2>3. ASSUME NEW v \in TasksOf(e)  PROVE v \in TasksOf(g)
    <3>1. PICK i \in 1 .. m : v \in ToSet(e.subgroups[i])  BY <1>2 DEF TasksOf
    <3>2. n + i \in DOMAIN g.subgroups /\ v \in ToSet(g.subgroups[n + i])  BY <1>9, <1>11, <3>1
    <3> QED  BY <3>2 DEF TasksOf
  <2> QED  BY <2>1, <2>2, <2>3
<1>20. ASSUME NEW i \in 1 .. n + m
       PROVE  excl[i] \subseteq 1 .. n + m /\ ToSet(sub[i]) \subseteq Vertices /\ IsInjective(sub[i])
  <2>1. CASE i \in 1 .. n
    <3>1. d.excl[i] \subseteq 1 .. n /\ ToSet(d.subgroups[i]) \subseteq Vertices
            /\ IsInjective(d.subgroups[i])
        BY <1>2, <2>1 DEF GroupOK
    <3>2. 1 .. n \subseteq 1 .. n + m  BY <1>10
    <3> QED  BY <1>10, <2>1, <3>1, <3>2
  <2>2. ASSUME NEW k \in 1 .. m, i = n + k
        PROVE  excl[i] \subseteq 1 .. n + m /\ ToSet(sub[i]) \subseteq Vertices /\ IsInjective(sub[i])
    <3>1. e.excl[k] \subseteq 1 .. m /\ ToSet(e.subgroups[k]) \subseteq Vertices
            /\ IsInjective(e.subgroups[k])
        BY <1>2 DEF GroupOK
    <3>2. shifted[k] \subseteq 1 .. n + m  BY <1>11, <1>18, <3>1
    <3> QED  BY <1>11, <2>2, <3>1, <3>2
  <2> QED  BY <1>12, <2>1, <2>2
<1>21. ASSUME NEW i \in 1 .. n, NEW k \in 1 .. m
       PROVE  /\ ToSet(d.subgroups[i]) \cap ToSet(e.subgroups[k]) = {}
              /\ ~Touch(exclusionGraph, ToSet(d.subgroups[i]), ToSet(e.subgroups[k]))
              /\ ~Touch(exclusionGraph, ToSet(e.subgroups[k]), ToSet(d.subgroups[i]))
  <2>1. ToSet(d.subgroups[i]) \subseteq TasksOf(d) /\ ToSet(e.subgroups[k]) \subseteq TasksOf(e)
      BY <1>2 DEF TasksOf
  <2>2. /\ \A v \in TasksOf(d) : exclusionGraph[v] \subseteq TasksOf(d)
        /\ \A v \in TasksOf(e) : exclusionGraph[v] \subseteq TasksOf(e)
      BY DEF GroupOK
  <2> QED  BY <2>1, <2>2 DEF Touch
<1>22. ASSUME NEW i \in 1 .. n + m, NEW j \in 1 .. n + m, ToSet(sub[i]) \cap ToSet(sub[j]) # {}
       PROVE  i = j
  <2>1. CASE i \in 1 .. n /\ j \in 1 .. n
    <3>1. i \in DOMAIN d.subgroups /\ j \in DOMAIN d.subgroups  BY <1>2, <2>1
    <3>2. ToSet(d.subgroups[i]) \cap ToSet(d.subgroups[j]) # {}  BY <1>10, <1>22, <2>1
    <3> QED  BY <3>1, <3>2 DEF GroupOK
  <2>2. ASSUME NEW k \in 1 .. m, NEW l \in 1 .. m, i = n + k, j = n + l  PROVE i = j
    <3>1. k \in DOMAIN e.subgroups /\ l \in DOMAIN e.subgroups  BY <1>2
    <3>2. ToSet(e.subgroups[k]) \cap ToSet(e.subgroups[l]) # {}  BY <1>11, <1>22, <2>2
    <3>3. k = l  BY <3>1, <3>2 DEF GroupOK
    <3> QED  BY <2>2, <3>3
  <2>3. ASSUME NEW k \in 1 .. m, i \in 1 .. n, j = n + k  PROVE FALSE
      BY <1>10, <1>11, <1>21, <1>22, <2>3
  <2>4. ASSUME NEW k \in 1 .. m, j \in 1 .. n, i = n + k  PROVE FALSE
      BY <1>10, <1>11, <1>21, <1>22, <2>4
  <2> QED  BY <1>12, <2>1, <2>2, <2>3, <2>4
<1>23. ASSUME NEW i \in Live(g)
       PROVE  excl[i] = {i} \cup {r \in Live(g) : Touch(exclusionGraph, ToSet(sub[i]), ToSet(sub[r]))}
  <2>1. CASE i \in Live(d)
    <3>0. i \in 1 .. n /\ sub[i] = d.subgroups[i] /\ excl[i] = d.excl[i]  BY <1>10, <1>15, <2>1
    <3>1. d.excl[i] = {i} \cup
            {r \in Live(d) : Touch(exclusionGraph, ToSet(d.subgroups[i]), ToSet(d.subgroups[r]))}
        BY <2>1 DEF GroupOK
    <3>2. \A r \in Live(d) : r \in Live(g) /\ sub[r] = d.subgroups[r]  BY <1>10, <1>14, <1>15
    <3>3. \A r \in Live(g) : r \in Live(d) \/ ~Touch(exclusionGraph, ToSet(sub[i]), ToSet(sub[r]))
      <4> SUFFICES ASSUME NEW s \in Live(e)
                   PROVE  ~Touch(exclusionGraph, ToSet(sub[i]), ToSet(sub[n + s]))
          BY <1>14
      <4>1. s \in 1 .. m  BY <1>15
      <4> QED  BY <1>11, <1>21, <3>0, <4>1
    <3> QED  BY <3>0, <3>1, <3>2, <3>3
  <2>2. ASSUME NEW k \in Live(e), i = n + k
        PROVE  excl[i] = {i} \cup {r \in Live(g) : Touch(exclusionGraph, ToSet(sub[i]), ToSet(sub[r]))}
    <3>0. k \in 1 .. m /\ sub[i] = e.subgroups[k] /\ excl[i] = {n + r : r \in e.excl[k]}
        BY <1>11, <1>15, <1>17, <2>2
    <3>1. e.excl[k] = {k} \cup
            {r \in Live(e) : Touch(exclusionGraph, ToSet(e.subgroups[k]), ToSet(e.subgroups[r]))}
        BY DEF GroupOK
    <3>2. \A r \in Live(e) : n + r \in Live(g) /\ sub[n + r] = e.subgroups[r]
        BY <1>11, <1>14, <1>15
    <3>3. ASSUME NEW r \in Live(g), Touch(exclusionGraph, ToSet(sub[i]), ToSet(sub[r]))
          PROVE  \E s \in Live(e) : r = n + s
      <4> SUFFICES ASSUME r \in Live(d)  PROVE FALSE  BY <1>14
      <4>1. r \in 1 .. n /\ sub[r] = d.subgroups[r]  BY <1>10, <1>15
      <4> QED  BY <1>21, <3>0, <3>3, <4>1
    <3>4. ASSUME NEW x \in excl[i]
          PROVE  x \in {i} \cup {r \in Live(g) : Touch(exclusionGraph, ToSet(sub[i]), ToSet(sub[r]))}
      <4>1. PICK r \in e.excl[k] : x = n + r  BY <3>0
      <4>2. CASE r = k  BY <2>2, <4>1, <4>2
      <4>3. CASE r # k
        <5>1. r \in Live(e) /\ Touch(exclusionGraph, ToSet(e.subgroups[k]), ToSet(e.subgroups[r]))
            BY <3>1, <4>3
        <5> QED  BY <3>0, <3>2, <4>1, <5>1
      <4> QED  BY <4>2, <4>3
    <3>5. i \in excl[i]  BY <2>2, <3>0, <3>1
    <3>6. ASSUME NEW r \in Live(g), Touch(exclusionGraph, ToSet(sub[i]), ToSet(sub[r]))
          PROVE  r \in excl[i]
      <4>1. PICK s \in Live(e) : r = n + s  BY <3>3, <3>6
      <4>2. Touch(exclusionGraph, ToSet(e.subgroups[k]), ToSet(e.subgroups[s]))
          BY <3>0, <3>2, <3>6, <4>1
      <4>3. s \in e.excl[k]  BY <3>1, <4>2
      <4> QED  BY <3>0, <4>1, <4>3
    <3> QED  BY <3>4, <3>5, <3>6
  <2> QED  BY <1>14, <2>1, <2>2
<1>24. g \in GroupRecord
  <2>1. d.cnt + e.cnt \in Int  BY <1>2
  <2> QED  BY <1>6, <1>7, <1>8, <2>1 DEF GroupRecord
<1>25. \A v \in TasksOf(g) : exclusionGraph[v] \subseteq TasksOf(g)  BY <1>19 DEF GroupOK
<1>26. GroupOK(g)
    BY <1>9, <1>16, <1>20, <1>22, <1>23, <1>24, <1>25 DEF GroupOK
<1>27. d.subgroups # <<>> => sub # <<>>
    BY <1>3, <1>6, ConcatEqualIffEmpty
<1> QED  BY <1>6, <1>19, <1>26, <1>27 DEF g
------------------------------------------------------------------------------
(***************************************************************************)
(* All groups.                                                             *)
(***************************************************************************)
Partitioned ==
    /\ groups \in Seq(GroupRecord)
    /\ \A i \in DOMAIN groups : GroupOK(groups[i])
    /\ \A i, j \in DOMAIN groups : i # j => TasksOf(groups[i]) \cap TasksOf(groups[j]) = {}
    /\ Vertices = UNION {TasksOf(groups[i]) : i \in DOMAIN groups}

NoneEmpty == \A i \in DOMAIN groups : groups[i].cnt >= 1

\* A search is over when everything was visited.
LEMMA SearchedAll ==
    ASSUME GraphInv, Collecting, Offered(exclusionGraph) = {}
    PROVE  visited = Vertices
<1>1. exclusionGraph \in [Vertices -> SUBSET Vertices]
    BY DEF GraphInv, ExclusionMutual, ExclusionInRange
<1>2. visited \subseteq Vertices /\ stack \in Seq(visited)  BY DEF Collecting
<1> DEFINE path == Searching(exclusionGraph)
<1>3. path # <<>> => exclusionGraph[Last(path)] \ visited # {}  BY <1>1, <1>2, SearchingOpen
<1>4. path = <<>>  BY <1>3 DEF Offered
<1>5. Vertices \ visited = {}  BY <1>1, <1>4 DEF Offered
<1> QED  BY <1>2, <1>5

\* The edge is read from the greater number to the lesser one.
LEMMA ExcludingTasks ==
    ASSUME Symmetric(exclusionGraph), DOMAIN exclusionGraph = Vertices,
           NEW sub, NEW i \in Nat, NEW j \in Nat, NEW v \in Vertices, NEW w \in Vertices,
           sub[i] = <<v>>, sub[j] = <<w>>
    PROVE  Excluding(sub, i, j) <=> w \in exclusionGraph[v]
<1> DEFINE least == Min({i, j})
           most == Max({i, j})
<1>1. least \in {i, j} /\ least <= i /\ least <= j
  <2>1. {i, j} \subseteq Nat /\ {i, j} # {}  OBVIOUS
  <2>2. Min({i, j}) \in {i, j} /\ \A x \in {i, j} : Min({i, j}) <= x  BY <2>1, MinOfNat
  <2> QED  BY <2>2
<1>2. most \in {i, j} /\ most >= i /\ most >= j
  <2>1. {i, j} \subseteq 0 .. i + j /\ {i, j} # {} /\ i + j \in Nat  OBVIOUS
  <2>2. Max({i, j}) \in {i, j} /\ \A x \in {i, j} : Max({i, j}) >= x  BY <2>1, MaxBelow
  <2> QED  BY <2>2
<1>3. Excluding(sub, i, j) <=> Head(sub[most]) \in exclusionGraph[Head(sub[least])]
    BY DEF Excluding
<1> HIDE DEF least, most
<1>4. Head(<<v>>) = v /\ Head(<<w>>) = w  OBVIOUS
<1>5. w \in exclusionGraph[v] <=> v \in exclusionGraph[w]  BY DEF Symmetric
<1>6. (least = i /\ most = j) \/ (least = j /\ most = i)  BY <1>1, <1>2
<1> QED  BY <1>3, <1>4, <1>5, <1>6

LEMMA WithExclusionOK ==
    ASSUME GraphInv, Collecting, visited = Vertices, NEW i \in DOMAIN groups
    PROVE  /\ GroupOK(WithExclusion(groups[i])) /\ WithExclusion(groups[i]).cnt >= 1
           /\ TasksOf(WithExclusion(groups[i])) = {v \in Vertices : InGroup(i, v)}
<1> DEFINE g == groups[i]
           sub == g.subgroups
           n == Len(sub)
           h == WithExclusion(g)
           excl == [s \in DOMAIN sub |-> {s} \cup {r \in DOMAIN sub : Excluding(sub, s, r)}]
<1>1. g \in GroupRecord  BY LenProperties DEF Collecting
<1>2. n \in Nat /\ DOMAIN sub = 1 .. n /\ sub \in Seq(Seq(Nat))
    BY <1>1, LiveFinite DEF GroupRecord
<1>3. sub # <<>> /\ \A s \in DOMAIN sub : \E v \in Vertices : sub[s] = <<v>>  BY DEF Collecting
<1>4. /\ h.subgroups = sub /\ h.excl = excl /\ h.cnt = n
      /\ h = [subgroups |-> sub, excl |-> excl, cnt |-> n]
  <2>1. h = [g EXCEPT !.cnt = n, !.excl = excl]  BY DEF WithExclusion
  <2>2. g = [subgroups |-> g.subgroups, excl |-> g.excl, cnt |-> g.cnt]  BY <1>1 DEF GroupRecord
  <2> HIDE DEF g, h, n, excl
  <2>3. h.subgroups = g.subgroups /\ h.excl = excl /\ h.cnt = n  BY <2>1, <2>2
  <2>4. h = [subgroups |-> g.subgroups, excl |-> excl, cnt |-> n]  BY <2>1, <2>2
  <2> QED  BY <2>3, <2>4
<1> DEFINE Task(s) == CHOOSE v \in Vertices : sub[s] = <<v>>
<1>5. \A s \in DOMAIN sub : Task(s) \in Vertices /\ sub[s] = <<Task(s)>>
  <2> SUFFICES ASSUME NEW s \in DOMAIN sub  PROVE Task(s) \in Vertices /\ sub[s] = <<Task(s)>>
      OBVIOUS
  <2>1. \E v \in Vertices : sub[s] = <<v>>  BY <1>3
  <2> HIDE DEF sub
  <2> QED  BY <2>1
<1> HIDE DEF Task, h
<1>6. n >= 1  BY <1>2, <1>3, EmptySeq
<1>7. \A s \in DOMAIN sub : /\ ToSet(sub[s]) = {Task(s)} /\ IsInjective(sub[s]) /\ sub[s] # <<>>
  <2>1. \A v : ToSet(<<v>>) = {v} /\ IsInjective(<<v>>) /\ <<v>> # <<>>
      BY DEF ToSet, IsInjective
  <2> QED  BY <1>5, <2>1
<1>8. excl \in Seq(SUBSET Nat) /\ DOMAIN excl = DOMAIN sub
  <2>1. excl \in [1 .. n -> SUBSET Nat]
    <3>1. DOMAIN sub \subseteq Nat  BY <1>2
    <3> HIDE DEF sub, n
    <3> QED  BY <1>2, <3>1
  <2> QED  BY <1>2, <2>1, FunctionIsSeq
<1>9. h \in GroupRecord  BY <1>2, <1>4, <1>8 DEF GroupRecord
<1>10. Live(h) = DOMAIN sub  BY <1>4, <1>7 DEF Live
<1>11. h.cnt = Cardinality(Live(h))
  <2>1. Cardinality(1 .. n) = n  BY <1>2, FS_Interval
  <2> QED  BY <1>2, <1>4, <1>10, <2>1
<1>12. \A s, r \in DOMAIN sub : Excluding(sub, s, r) <=> Task(r) \in exclusionGraph[Task(s)]
  <2> SUFFICES ASSUME NEW s \in DOMAIN sub, NEW r \in DOMAIN sub
               PROVE  Excluding(sub, s, r) <=> Task(r) \in exclusionGraph[Task(s)]
      OBVIOUS
  <2>1. s \in Nat /\ r \in Nat  BY <1>2
  <2>2. Symmetric(exclusionGraph) /\ DOMAIN exclusionGraph = Vertices  BY DEF GraphInv, ExclusionMutual
  <2>3. Task(s) \in Vertices /\ Task(r) \in Vertices /\ sub[s] = <<Task(s)>> /\ sub[r] = <<Task(r)>>
      BY <1>5
  <2> HIDE DEF sub
  <2> QED  BY <2>1, <2>2, <2>3, ExcludingTasks
<1>13. \A s \in DOMAIN sub : excl[s] = {s} \cup
            {r \in DOMAIN sub : Touch(exclusionGraph, ToSet(sub[s]), ToSet(sub[r]))}
  <2>1. \A s, r \in DOMAIN sub :
            Touch(exclusionGraph, ToSet(sub[s]), ToSet(sub[r])) <=> Excluding(sub, s, r)
      BY <1>7, <1>12 DEF Touch
  <2> HIDE DEF sub
  <2> QED  BY <2>1
<1>14. \A s, r \in DOMAIN sub : ToSet(sub[s]) \cap ToSet(sub[r]) # {} => s = r
  <2> SUFFICES ASSUME NEW s \in DOMAIN sub, NEW r \in DOMAIN sub, Task(s) = Task(r)  PROVE s = r
      BY <1>7
  <2>1. sub[s] = sub[r]  BY <1>5
  <2> QED  BY <2>1 DEF Collecting
<1>15. TasksOf(h) = {v \in Vertices : InGroup(i, v)}
  <2>1. TasksOf(h) = {Task(s) : s \in DOMAIN sub}
    <3> HIDE DEF sub
    <3> QED  BY <1>4, <1>7 DEF TasksOf
  <2>2. ASSUME NEW s \in DOMAIN sub  PROVE Task(s) \in Vertices /\ InGroup(i, Task(s))
      BY <1>5 DEF InGroup
  <2>3. ASSUME NEW v \in Vertices, InGroup(i, v)  PROVE \E s \in DOMAIN sub : v = Task(s)
    <3>1. PICK s \in DOMAIN sub : sub[s] = <<v>>  BY <2>3 DEF InGroup
    <3>2. <<v>> = <<Task(s)>>  BY <1>5, <3>1
    <3>3. v = Task(s)  BY <3>2
    <3> QED  BY <3>3
  <2> QED  BY <2>1, <2>2, <2>3
<1>16. \A v \in TasksOf(h) : exclusionGraph[v] \subseteq TasksOf(h)
  <2>1. \A v \in Vertices : exclusionGraph[v] \subseteq Vertices  BY DEF GraphInv, ExclusionInRange
  <2>2. \A v \in Vertices : InGroup(i, v) => \A u \in exclusionGraph[v] \cap Vertices : InGroup(i, u)
      BY DEF Collecting
  <2> QED  BY <1>15, <2>1, <2>2
<1>17. GroupOK(h)
  <2>1. \A s \in DOMAIN sub :
            excl[s] \subseteq DOMAIN sub /\ ToSet(sub[s]) \subseteq Vertices /\ IsInjective(sub[s])
      BY <1>5, <1>7
  <2>2. \A s \in Live(h) : excl[s] = {s} \cup
            {r \in Live(h) : Touch(exclusionGraph, ToSet(sub[s]), ToSet(sub[r]))}
      BY <1>10, <1>13
  <2> HIDE DEF sub, excl
  <2> QED  BY <1>4, <1>8, <1>9, <1>11, <1>14, <1>16, <2>1, <2>2 DEF GroupOK
<1> QED  BY <1>4, <1>6, <1>15, <1>17 DEF h

LEMMA GroupedPartitions ==
    ASSUME GraphInv, Collecting, Grouped
    PROVE  Partitioned' /\ NoneEmpty'
<1>1. /\ groups' = [i \in DOMAIN groups |-> WithExclusion(groups[i])]
      /\ UNCHANGED <<taskGraph, exclusionGraph>> /\ Offered(exclusionGraph) = {}
    BY DEF Grouped, Goto, prebuiltVars
<1>2. visited = Vertices  BY <1>1, SearchedAll
<1>3. \A i \in DOMAIN groups :
        /\ GroupOK(groups'[i]) /\ groups'[i].cnt >= 1
        /\ TasksOf(groups'[i]) = {v \in Vertices : InGroup(i, v)}
    BY <1>1, <1>2, WithExclusionOK
<1>4. DOMAIN groups' = DOMAIN groups  BY <1>1
<1>5. groups' \in Seq(GroupRecord)
  <2>1. Len(groups) \in Nat /\ DOMAIN groups = 1 .. Len(groups)  BY LenProperties DEF Collecting
  <2>2. groups' \in [1 .. Len(groups) -> GroupRecord]  BY <1>1, <1>3, <2>1 DEF GroupOK
  <2> QED  BY <2>1, <2>2, FunctionIsSeq
<1>6. ASSUME NEW i \in DOMAIN groups, NEW j \in DOMAIN groups, i # j
      PROVE  TasksOf(groups'[i]) \cap TasksOf(groups'[j]) = {}
  <2> SUFFICES ASSUME NEW v, v \in TasksOf(groups'[i]), v \in TasksOf(groups'[j])  PROVE FALSE
      OBVIOUS
  <2>1. InGroup(i, v) /\ InGroup(j, v)  BY <1>3
  <2>2. PICK s \in DOMAIN groups[i].subgroups : groups[i].subgroups[s] = <<v>>  BY <2>1 DEF InGroup
  <2>3. PICK r \in DOMAIN groups[j].subgroups : groups[j].subgroups[r] = <<v>>  BY <2>1 DEF InGroup
  <2>4. groups[i].subgroups[s] = groups[j].subgroups[r]  BY <2>2, <2>3
  <2> QED  BY <1>6, <2>4 DEF Collecting
<1>7. Vertices = UNION {TasksOf(groups'[i]) : i \in DOMAIN groups}
  <2>1. \A v \in Vertices : \E i \in DOMAIN groups : v \in TasksOf(groups'[i])
      BY <1>2, <1>3 DEF Collecting
  <2> QED  BY <1>3, <2>1
<1>8. Vertices' = Vertices /\ exclusionGraph' = exclusionGraph  BY <1>1 DEF Vertices
<1>9. \A g : GroupOK(g) <=> GroupOK(g)'  BY <1>8 DEF GroupOK
<1> QED  BY <1>3, <1>4, <1>5, <1>6, <1>7, <1>8, <1>9 DEF Partitioned, NoneEmpty
------------------------------------------------------------------------------
(***************************************************************************)
(* The pairs.                                                              *)
(***************************************************************************)
PairedUp == {s \in DOMAIN sgPair : sgPair[s] # 0}

\* While pairs are chosen: they are mutual and of candidates, pairCnt counts
\* them, and there are not more candidates than may be merged, but for an odd one.
PairInv ==
    /\ cur \in DOMAIN groups /\ pos \in Nat \ {0}
    /\ toMerge \in Seq(Live(G))
    /\ sgPair \in [DOMAIN G.subgroups -> Nat]
    /\ \A s \in PairedUp :
        /\ s \in ToSet(toMerge) /\ sgPair[s] \in ToSet(toMerge)
        /\ sgPair[s] # s /\ sgPair[sgPair[s]] = s
    /\ pairCnt \in Int /\ 2 * pairCnt = Cardinality(PairedUp)
    /\ Len(toMerge) <= 2 * (G.cnt - MaxSubgroups) + 1

\* While they are merged: a pair is left as a whole or not at all, and all that
\* are left may be merged.
JoinInv ==
    /\ cur \in DOMAIN groups /\ pos \in Nat
    /\ sgPair \in [DOMAIN G.subgroups -> Nat]
    /\ \A s \in PairsLeft : sgPair[s] \in PairsLeft /\ sgPair[s] # s /\ sgPair[sgPair[s]] = s
    /\ Cardinality(PairsLeft) <= 2 * (G.cnt - MaxSubgroups)

LEMMA GroupFacts ==
    ASSUME Partitioned, NEW i \in DOMAIN groups
    PROVE  /\ Len(groups) \in Nat /\ DOMAIN groups = 1 .. Len(groups)
           /\ GroupOK(groups[i]) /\ groups[i] \in GroupRecord
           /\ groups[i].cnt = Cardinality(Live(groups[i])) /\ groups[i].cnt \in Nat
           /\ Live(groups[i]) \subseteq Nat \ {0} /\ IsFiniteSet(Live(groups[i]))
           /\ Live(groups[i]) \subseteq DOMAIN groups[i].subgroups
           /\ DOMAIN groups[i].subgroups \subseteq Nat \ {0}
           /\ IsFiniteSet(DOMAIN groups[i].subgroups)
<1>1. groups \in Seq(GroupRecord) /\ GroupOK(groups[i])  BY DEF Partitioned
<1>2. Len(groups) \in Nat /\ DOMAIN groups = 1 .. Len(groups)  BY <1>1, LenProperties
<1>3. groups[i] \in GroupRecord /\ groups[i].cnt = Cardinality(Live(groups[i]))  BY <1>1 DEF GroupOK
<1> DEFINE n == Len(groups[i].subgroups)
<1>4. n \in Nat /\ DOMAIN groups[i].subgroups = 1 .. n  BY <1>3, LiveFinite
<1>5. IsFiniteSet(Live(groups[i])) /\ Cardinality(Live(groups[i])) \in Nat  BY <1>3, LiveFinite
<1>6. IsFiniteSet(1 .. n)  BY <1>4, FS_Interval
<1>7. Live(groups[i]) \subseteq DOMAIN groups[i].subgroups  BY DEF Live
<1> HIDE DEF n
<1>8. 1 .. n \subseteq Nat \ {0}  BY <1>4
<1> QED  BY <1>1, <1>2, <1>3, <1>4, <1>5, <1>6, <1>7, <1>8

LEMMA SelectPairs ==
    ASSUME Partitioned, SelectCandidates
    PROVE  PairInv'
<1> DEFINE c == Min(LargeGroups)
           g == groups[c]
<1>1. PICK order \in SortedOrders(groups[cur']) :
        /\ toMerge' = Candidates(groups[cur'], order)
        /\ cur' = c /\ sgPair' = [s \in DOMAIN groups[cur'].subgroups |-> 0]
        /\ pairCnt' = 0 /\ pos' = 1 /\ groups' = groups /\ LargeGroups # {}
    BY DEF SelectCandidates
<1>2. c \in LargeGroups
  <2>1. LargeGroups \subseteq Nat
    <3>1. DOMAIN groups = 1 .. Len(groups)  BY LenProperties DEF Partitioned
    <3> QED  BY <3>1 DEF LargeGroups
  <2> QED  BY <1>1, <2>1, MinOfNat
<1>3. c \in DOMAIN groups /\ g.cnt > MaxSubgroups  BY <1>2 DEF LargeGroups
<1>4. /\ g.cnt = Cardinality(Live(g)) /\ g.cnt \in Nat /\ DOMAIN g.subgroups \subseteq Nat \ {0}
    BY <1>3, GroupFacts
<1> HIDE DEF c
<1>5. order \in [1 .. g.cnt -> Live(g)]  BY <1>1, <1>4 DEF SortedOrders, SetToSeqs
<1>6. order \in Seq(Live(g)) /\ Len(order) = g.cnt  BY <1>4, <1>5, FunctionIsSeq
<1> DEFINE K == {n \in 0 .. Len(order) : g.cnt - n \div 2 >= MaxSubgroups}
           k == Max(K)
<1>7. k \in K
  <2>1. 0 \in K  BY <1>3, <1>4, <1>6, MergeAssumption
  <2>2. K \subseteq 0 .. g.cnt  BY <1>6
  <2> HIDE DEF K
  <2> QED  BY <1>4, <2>1, <2>2, MaxBelow
<1>8. k \in 0 .. g.cnt /\ g.cnt - k \div 2 >= MaxSubgroups  BY <1>6, <1>7
<1>9. k <= 2 * (g.cnt - MaxSubgroups) + 1
  <2> HIDE DEF k
  <2> QED  BY <1>4, <1>8, MergeAssumption
<1>10. toMerge' = SubSeq(order, 1, k)  BY <1>1 DEF Candidates
<1> HIDE DEF k, g
<1>11. toMerge' \in Seq(Live(g)) /\ Len(toMerge') = k
  <2>1. \A n \in 1 .. k : order[n] \in Live(g)  BY <1>4, <1>5, <1>8
  <2>2. k \in Int /\ (1 <= k \/ k = 0)  BY <1>4, <1>8
  <2> DEFINE cut == SubSeq(order, 1, k)
  <2>3. cut \in Seq(Live(g)) /\ Len(cut) = IF 1 <= k THEN k - 1 + 1 ELSE 0
      BY <2>1, <2>2, SubSeqProperties
  <2> HIDE DEF cut
  <2>4. Len(cut) = k  BY <2>2, <2>3
  <2> QED  BY <1>10, <2>3, <2>4 DEF cut
<1>12. G' = g  BY <1>1 DEF G, g
<1>13. PairedUp' = {}  BY <1>1 DEF PairedUp
<1>14. Cardinality({}) = 0  BY FS_EmptySet
<1>15. sgPair' = [s \in DOMAIN g.subgroups |-> 0]  BY <1>1 DEF g
<1>16. sgPair' \in [DOMAIN G'.subgroups -> Nat]  BY <1>12, <1>15
<1>17. toMerge' \in Seq(Live(G)')  BY <1>11, <1>12 DEF Live
<1>18. Len(toMerge') <= 2 * (G'.cnt - MaxSubgroups) + 1  BY <1>9, <1>11, <1>12
<1> QED  BY <1>1, <1>3, <1>13, <1>14, <1>16, <1>17, <1>18 DEF PairInv

\* A new pair breaks those that its two subgroups were in (642-660).
LEMMA PairedOK ==
    ASSUME DOMAIN sgPair \subseteq Nat \ {0}, IsFiniteSet(DOMAIN sgPair),
           sgPair \in [DOMAIN sgPair -> Nat], ToSet(toMerge) \subseteq DOMAIN sgPair,
           \A s \in PairedUp : /\ s \in ToSet(toMerge) /\ sgPair[s] \in ToSet(toMerge)
                               /\ sgPair[s] # s /\ sgPair[sgPair[s]] = s,
           NEW a \in ToSet(toMerge), NEW b \in ToSet(toMerge), a # b
    PROVE  /\ Paired(a, b) \in [DOMAIN sgPair -> Nat]
           /\ \A s \in DOMAIN sgPair : Paired(a, b)[s] # 0 =>
                /\ s \in ToSet(toMerge) /\ Paired(a, b)[s] \in ToSet(toMerge)
                /\ Paired(a, b)[s] # s /\ Paired(a, b)[Paired(a, b)[s]] = s
           /\ Cardinality(Broken(a, b)) \in Nat /\ Cardinality(PairedUp) \in Nat
           /\ Cardinality({s \in DOMAIN sgPair : Paired(a, b)[s] # 0})
                = Cardinality(PairedUp) + 2 - 2 * Cardinality(Broken(a, b))
<1> DEFINE D == DOMAIN sgPair
           C == ToSet(toMerge)
           f == Paired(a, b)
           c == sgPair[a]
           d == sgPair[b]
           P == PairedUp
           P2 == {s \in D : f[s] # 0}
<1>1. /\ f = [s \in D |-> CASE s = a -> b [] s = b -> a [] s \in {c, d} \ {a, b} -> 0
                            [] OTHER -> sgPair[s]]
      /\ a \in D /\ b \in D /\ a \in Nat \ {0} /\ b \in Nat \ {0}
    BY DEF Paired
<1>2. /\ f[a] = b /\ f[b] = a
      /\ \A s \in D \ {a, b} : f[s] = IF s \in {c, d} THEN 0 ELSE sgPair[s]
  <2>1. f[a] = b  BY <1>1
  <2>2. f[b] = a  BY <1>1
  <2>3. ASSUME NEW s \in D \ {a, b}  PROVE f[s] = IF s \in {c, d} THEN 0 ELSE sgPair[s]
    <3> HIDE DEF c, d, f
    <3>1. CASE s \in {c, d}  BY <1>1, <3>1
    <3>2. CASE s \notin {c, d}  BY <1>1, <3>2
    <3> QED  BY <3>1, <3>2
  <2> QED  BY <2>1, <2>2, <2>3
<1>3. P = {s \in D : sgPair[s] # 0} /\ P \subseteq D  BY DEF PairedUp
<1>4. \A s \in P : s \in C /\ sgPair[s] \in C /\ sgPair[s] # s /\ sgPair[sgPair[s]] = s
    OBVIOUS
<1>5. /\ c # 0 => a \in P /\ c \in C /\ c \in D /\ c # a /\ sgPair[c] = a /\ c \in P
      /\ d # 0 => b \in P /\ d \in C /\ d \in D /\ d # b /\ sgPair[d] = b /\ d \in P
      /\ c = 0 => a \notin P
      /\ d = 0 => b \notin P
  <2>1. a # 0 /\ b # 0  BY <1>1
  <2> QED  BY <1>1, <1>3, <1>4, <2>1
<1>6. c \in Nat /\ d \in Nat  BY <1>1
<1> HIDE DEF P, f
<1>7. f \in [D -> Nat]
  <2>1. f = [s \in D |-> f[s]]  BY <1>1
  <2>2. \A s \in D : f[s] \in Nat  BY <1>1, <1>2
  <2> QED  BY <2>1, <2>2
<1>8. ASSUME NEW s \in D, f[s] # 0
      PROVE  s \in C /\ f[s] \in C /\ f[s] # s /\ f[f[s]] = s
  <2>1. CASE s \in {a, b}  BY <1>2, <2>1
  <2>2. CASE s \notin {a, b}
    <3>1. s \notin {c, d} /\ f[s] = sgPair[s] /\ s \in P  BY <1>2, <1>3, <1>8, <2>2
    <3> DEFINE p == sgPair[s]
    <3>2. p \in C /\ p # s /\ sgPair[p] = s /\ s \in C /\ p # 0 /\ p \in D  BY <1>3, <1>4, <3>1
    <3>3. p # a /\ p # b  BY <3>1, <3>2
    <3>4. p # c /\ p # d  BY <1>5, <2>2, <3>2
    <3>5. f[p] = s  BY <1>2, <3>2, <3>3, <3>4
    <3> QED  BY <3>1, <3>2, <3>5
  <2> QED  BY <2>1, <2>2
<1>9. IsFiniteSet(P) /\ Cardinality(P) \in Nat  BY <1>3, FS_Subset, FS_CardinalityType
<1>10. Broken(a, b) = {{s, sgPair[s]} : s \in {s \in {a, b} : sgPair[s] # 0}}  BY DEF Broken
<1>11. P2 = (P \cup {a, b}) \ ({c, d} \ {a, b})
  <2>1. ASSUME NEW s \in D  PROVE s \in P2 <=> s \in {a, b} \/ (s \in P /\ s \notin {c, d})
      BY <1>1, <1>2, <1>3
  <2> QED  BY <1>1, <1>3, <2>1
<1> HIDE DEF P2
<1>12. CASE c = 0 /\ d = 0
  <2>1. Broken(a, b) = {}  BY <1>10, <1>12
  <2>2. Cardinality(Broken(a, b)) = 0  BY <2>1, FS_EmptySet
  <2>3. P2 = (P \cup {a}) \cup {b}  BY <1>1, <1>3, <1>11, <1>12
  <2>4. IsFiniteSet(P \cup {a}) /\ Cardinality(P \cup {a}) = Cardinality(P) + 1
      BY <1>5, <1>9, <1>12, FS_AddElement
  <2> DEFINE Q == P \cup {a}
  <2>a. b \notin Q /\ IsFiniteSet(Q)  BY <1>5, <1>12, <2>4
  <2>b. Cardinality(Q \cup {b}) = Cardinality(Q) + 1
    <3> HIDE DEF Q
    <3> QED  BY <2>a, FS_AddElement
  <2>5. Cardinality(P2) = Cardinality(P) + 2  BY <1>9, <2>3, <2>4, <2>b
  <2> QED  BY <1>7, <1>8, <1>9, <2>2, <2>5 DEF P, P2, f
<1>13. CASE c # 0 /\ d = 0
  <2>1. Broken(a, b) = {{a, c}}  BY <1>10, <1>13
  <2>2. Cardinality(Broken(a, b)) = 1  BY <2>1, FS_Singleton
  <2>3. c # b  BY <1>1, <1>5, <1>13
  <2>4. P2 = (P \cup {b}) \ {c}  BY <1>1, <1>3, <1>5, <1>11, <1>13, <2>3
  <2>5. IsFiniteSet(P \cup {b}) /\ Cardinality(P \cup {b}) = Cardinality(P) + 1
      BY <1>5, <1>9, <1>13, FS_AddElement
  <2> DEFINE Q == P \cup {b}
  <2>a. c \in Q /\ IsFiniteSet(Q)  BY <1>5, <1>13, <2>5
  <2>b. Cardinality(Q \ {c}) = Cardinality(Q) - 1
    <3> HIDE DEF Q, c
    <3> QED  BY <2>a, FS_RemoveElement
  <2>6. Cardinality(P2) = Cardinality(P)  BY <1>9, <2>4, <2>5, <2>b
  <2> QED  BY <1>7, <1>8, <1>9, <2>2, <2>6 DEF P, P2, f
<1>14. CASE c = 0 /\ d # 0
  <2>1. Broken(a, b) = {{b, d}}  BY <1>10, <1>14
  <2>2. Cardinality(Broken(a, b)) = 1  BY <2>1, FS_Singleton
  <2>3. d # a  BY <1>1, <1>5, <1>14
  <2>4. P2 = (P \cup {a}) \ {d}  BY <1>1, <1>3, <1>5, <1>11, <1>14, <2>3
  <2>5. IsFiniteSet(P \cup {a}) /\ Cardinality(P \cup {a}) = Cardinality(P) + 1
      BY <1>5, <1>9, <1>14, FS_AddElement
  <2> DEFINE Q == P \cup {a}
  <2>a. d \in Q /\ IsFiniteSet(Q)  BY <1>5, <1>14, <2>5
  <2>b. Cardinality(Q \ {d}) = Cardinality(Q) - 1
    <3> HIDE DEF Q, d
    <3> QED  BY <2>a, FS_RemoveElement
  <2>6. Cardinality(P2) = Cardinality(P)  BY <1>9, <2>4, <2>5, <2>b
  <2> QED  BY <1>7, <1>8, <1>9, <2>2, <2>6 DEF P, P2, f
<1>15. CASE c # 0 /\ d # 0 /\ c = b
  <2>1. d = a  BY <1>5, <1>15
  <2>2. Broken(a, b) = {{a, b}}  BY <1>10, <1>15, <2>1
  <2>3. Cardinality(Broken(a, b)) = 1  BY <2>2, FS_Singleton
  <2>4. P2 = P  BY <1>5, <1>11, <1>15, <2>1
  <2>5. Cardinality(P2) = Cardinality(P)  BY <2>4
  <2> QED  BY <1>7, <1>8, <1>9, <2>3, <2>5 DEF P, P2, f
<1>16. CASE c # 0 /\ d # 0 /\ c # b
  <2>1. d # a /\ c # d  BY <1>5, <1>16
  <2>2. Broken(a, b) = {{a, c}} \cup {{b, d}}  BY <1>10, <1>16
  <2>3. {a, c} # {b, d}
    <3>1. a \in {a, c} /\ a \notin {b, d}  BY <2>1
    <3> QED  BY <3>1
  <2>4. IsFiniteSet({{a, c}}) /\ Cardinality({{a, c}}) = 1  BY FS_Singleton
  <2>5. Cardinality(Broken(a, b)) = 2
    <3> DEFINE x == {a, c}
               y == {b, d}
    <3>1. y \notin {x} /\ IsFiniteSet({x}) /\ Cardinality({x}) = 1  BY <2>3, <2>4
    <3>2. Cardinality({x} \cup {y}) = 2
      <4> HIDE DEF x, y
      <4>1. Cardinality({x} \cup {y}) = Cardinality({x}) + 1  BY <3>1, FS_AddElement
      <4> QED  BY <3>1, <4>1
    <3> QED  BY <2>2, <3>2
  <2>6. P2 = (P \ {c}) \ {d}  BY <1>1, <1>3, <1>5, <1>11, <1>16, <2>1
  <2>7. IsFiniteSet(P \ {c}) /\ Cardinality(P \ {c}) = Cardinality(P) - 1
      BY <1>5, <1>9, <1>16, FS_RemoveElement
  <2> DEFINE Q == P \ {c}
  <2>a. d \in Q /\ IsFiniteSet(Q)  BY <1>5, <1>16, <2>1, <2>7
  <2>b. Cardinality(Q \ {d}) = Cardinality(Q) - 1
    <3> HIDE DEF Q, d
    <3> QED  BY <2>a, FS_RemoveElement
  <2>8. Cardinality(P2) = Cardinality(P) - 2  BY <1>9, <2>6, <2>7, <2>b
  <2> QED  BY <1>7, <1>8, <1>9, <2>5, <2>8 DEF P, P2, f
<1> QED  BY <1>12, <1>13, <1>14, <1>15, <1>16

LEMMA PairStepPairs ==
    ASSUME Partitioned, PairInv, PairStep
    PROVE  PairInv'
<1> DEFINE D == DOMAIN G.subgroups
           C == ToSet(toMerge)
           a == toMerge[pos]
<1>1. /\ cur \in DOMAIN groups /\ pos \in Nat \ {0} /\ toMerge \in Seq(Live(G))
      /\ sgPair \in [D -> Nat] /\ pairCnt \in Int /\ 2 * pairCnt = Cardinality(PairedUp)
      /\ \A s \in PairedUp : s \in C /\ sgPair[s] \in C /\ sgPair[s] # s /\ sgPair[sgPair[s]] = s
    BY DEF PairInv
<1>2. /\ UNCHANGED <<groups, cur, toMerge>> /\ pos' = pos + 1 /\ pos <= Len(toMerge)
      /\ IF BestPartner(a) = {}
         THEN UNCHANGED <<sgPair, pairCnt>>
         ELSE \E b \in BestPartner(a) :
                sgPair' = Paired(a, b) /\ pairCnt' = pairCnt + 1 - Cardinality(Broken(a, b))
    BY DEF PairStep
<1>3. Live(G) \subseteq D /\ D \subseteq Nat \ {0} /\ IsFiniteSet(D)  BY <1>1, GroupFacts DEF G
<1>4. /\ DOMAIN toMerge = 1 .. Len(toMerge) /\ Len(toMerge) \in Nat
      /\ \A i \in DOMAIN toMerge : toMerge[i] \in Live(G) /\ toMerge[i] \in C
  <2>1. DOMAIN toMerge = 1 .. Len(toMerge) /\ Len(toMerge) \in Nat  BY <1>1, LenProperties
  <2>2. \A i \in DOMAIN toMerge : toMerge[i] \in Live(G)  BY <1>1, <2>1, ElementOfSeq
  <2> QED  BY <2>1, <2>2 DEF ToSet
<1>5. C \subseteq D  BY <1>3, <1>4 DEF ToSet
<1>6. a \in C
  <2>1. pos \in DOMAIN toMerge  BY <1>1, <1>2, <1>4
  <2> QED  BY <1>4, <2>1
<1>7. UNCHANGED <<G, Live(G)>>  BY <1>2 DEF G, Live
<1>8. pos' \in Nat \ {0}  BY <1>1, <1>2
<1>9. CASE BestPartner(a) = {}
  <2>1. UNCHANGED <<sgPair, pairCnt>>  BY <1>2, <1>9
  <2>2. PairedUp' = PairedUp  BY <2>1 DEF PairedUp
  <2> QED  BY <1>2, <1>7, <1>8, <2>1, <2>2 DEF PairInv, ToSet
<1>10. ASSUME NEW b \in BestPartner(a), sgPair' = Paired(a, b),
              pairCnt' = pairCnt + 1 - Cardinality(Broken(a, b))
       PROVE  PairInv'
  <2>1. b \in C /\ b # a
    <3> DEFINE gain(i) == PairSetValue(a, toMerge[i])
               usable == {i \in DOMAIN toMerge : toMerge[i] # a /\ gain(i) >= 0}
               best == {i \in usable : \A j \in usable : gain(j) <= gain(i)}
    <3>1. best # {} /\ b = toMerge[Min(best)]  BY <1>10 DEF BestPartner
    <3>2. best \subseteq {i \in DOMAIN toMerge : toMerge[i] # a} /\ best \subseteq Nat  BY <1>4
    <3> HIDE DEF best
    <3>3. Min(best) \in best  BY <3>1, <3>2, MinOfNat
    <3> QED  BY <1>4, <3>1, <3>2, <3>3
  <2>2. /\ Paired(a, b) \in [D -> Nat]
        /\ \A s \in D : Paired(a, b)[s] # 0 =>
                /\ s \in C /\ Paired(a, b)[s] \in C
                /\ Paired(a, b)[s] # s /\ Paired(a, b)[Paired(a, b)[s]] = s
        /\ Cardinality(Broken(a, b)) \in Nat /\ Cardinality(PairedUp) \in Nat
        /\ Cardinality({s \in D : Paired(a, b)[s] # 0})
             = Cardinality(PairedUp) + 2 - 2 * Cardinality(Broken(a, b))
    <3>1. DOMAIN sgPair = D  BY <1>1
    <3>2. /\ DOMAIN sgPair \subseteq Nat \ {0} /\ IsFiniteSet(DOMAIN sgPair)
          /\ sgPair \in [DOMAIN sgPair -> Nat] /\ ToSet(toMerge) \subseteq DOMAIN sgPair
        BY <1>1, <1>3, <1>5, <3>1
    <3>3. a \in ToSet(toMerge) /\ b \in ToSet(toMerge) /\ a # b  BY <1>6, <2>1
    <3> HIDE DEF a
    <3>4. /\ Paired(a, b) \in [DOMAIN sgPair -> Nat]
          /\ \A s \in DOMAIN sgPair : Paired(a, b)[s] # 0 =>
                /\ s \in ToSet(toMerge) /\ Paired(a, b)[s] \in ToSet(toMerge)
                /\ Paired(a, b)[s] # s /\ Paired(a, b)[Paired(a, b)[s]] = s
          /\ Cardinality(Broken(a, b)) \in Nat /\ Cardinality(PairedUp) \in Nat
          /\ Cardinality({s \in DOMAIN sgPair : Paired(a, b)[s] # 0})
                = Cardinality(PairedUp) + 2 - 2 * Cardinality(Broken(a, b))
        BY <1>1, <3>2, <3>3, PairedOK
    <3> HIDE DEF D
    <3> QED  BY <3>1, <3>4
  <2>3. PairedUp' = {s \in D : Paired(a, b)[s] # 0}  BY <1>10, <2>2 DEF PairedUp
  <2>4. sgPair' \in [D -> Nat] /\ DOMAIN G'.subgroups = D  BY <1>7, <1>10, <2>2
  <2>5. pairCnt' \in Int /\ 2 * pairCnt' = Cardinality(PairedUp')
    <3> DEFINE broken == Cardinality(Broken(a, b))
               paired == Cardinality(PairedUp)
    <3>1. broken \in Nat /\ paired \in Nat /\ Cardinality(PairedUp') = paired + 2 - 2 * broken
        BY <2>2, <2>3
    <3>2. pairCnt' = pairCnt + 1 - broken  BY <1>10
    <3> HIDE DEF broken, paired
    <3>3. 2 * pairCnt = paired  BY <1>1 DEF paired
    <3> QED  BY <1>1, <3>1, <3>2, <3>3
  <2>6. \A s \in PairedUp' : s \in C /\ sgPair'[s] \in C /\ sgPair'[s] # s /\ sgPair'[sgPair'[s]] = s
      BY <1>10, <2>2, <2>3
  <2>7. toMerge' \in Seq(Live(G)') /\ ToSet(toMerge)' = C
        /\ Len(toMerge') <= 2 * (G'.cnt - MaxSubgroups) + 1
      BY <1>2, <1>7 DEF PairInv, ToSet
  <2> QED  BY <1>1, <1>2, <1>8, <2>4, <2>5, <2>6, <2>7 DEF PairInv
<1> QED  BY <1>2, <1>9, <1>10

\* The last pass leaves pairs of candidates, not more than may be merged: an odd
\* candidate is in none.
LEMMA EndPassPairs ==
    ASSUME Partitioned, PairInv, EndPass
    PROVE  /\ phase' \in {"pair", "join"}
           /\ phase' = "pair" => PairInv'
           /\ phase' = "join" => JoinInv'
<1>1. /\ UNCHANGED <<groups, cur, toMerge, sgPair, pairCnt>> /\ pos' = 1
      /\ phase' \in {"pair", "join"}
    BY DEF EndPass, Goto
<1>2. /\ UNCHANGED <<G, Live(G), PairedUp>>  BY <1>1 DEF G, Live, PairedUp
<1>3. PairInv'  BY <1>1, <1>2 DEF PairInv, ToSet
<1>4. JoinInv'
  <2> DEFINE D == DOMAIN G.subgroups
             C == ToSet(toMerge)
  <2>1. /\ cur \in DOMAIN groups /\ toMerge \in Seq(Live(G))
        /\ sgPair \in [D -> Nat] /\ pairCnt \in Int /\ 2 * pairCnt = Cardinality(PairedUp)
        /\ \A s \in PairedUp : s \in C /\ sgPair[s] \in C /\ sgPair[s] # s /\ sgPair[sgPair[s]] = s
        /\ Len(toMerge) <= 2 * (G.cnt - MaxSubgroups) + 1
      BY DEF PairInv
  <2>2. /\ Live(G) \subseteq D /\ D \subseteq Nat \ {0} /\ IsFiniteSet(D) /\ G.cnt \in Nat
      BY <2>1, GroupFacts DEF G
  <2>3. Len(toMerge) \in Nat /\ DOMAIN toMerge = 1 .. Len(toMerge)  BY <2>1, LenProperties
  <2>4. C \subseteq Live(G)
    <3>1. \A i \in DOMAIN toMerge : toMerge[i] \in Live(G)  BY <2>1, <2>3, ElementOfSeq
    <3> QED  BY <3>1 DEF ToSet
  <2>5. IsFiniteSet(C) /\ Cardinality(C) <= Len(toMerge) /\ Cardinality(C) \in Nat
    <3>1. toMerge \in [1 .. Len(toMerge) -> C]
      <4>1. toMerge \in [1 .. Len(toMerge) -> Live(G)]  BY <2>1, LenProperties
      <4>2. \A i \in DOMAIN toMerge : toMerge[i] \in C  BY DEF ToSet
      <4> HIDE DEF C
      <4> QED  BY <2>3, <4>1, <4>2
    <3>2. \A t \in C : \E i \in 1 .. Len(toMerge) : toMerge[i] = t  BY <2>3 DEF ToSet
    <3>3. toMerge \in Surjection(1 .. Len(toMerge), C)
      <4> HIDE DEF C
      <4> QED  BY <3>1, <3>2 DEF Surjection
    <3>4. IsFiniteSet(1 .. Len(toMerge)) /\ Cardinality(1 .. Len(toMerge)) = Len(toMerge)
      <4> DEFINE n == Len(toMerge)
      <4>1. n \in Nat  BY <2>3
      <4> HIDE DEF n
      <4>2. IsFiniteSet(1 .. n) /\ Cardinality(1 .. n) = n  BY <4>1, FS_Interval
      <4> QED  BY <4>2 DEF n
    <3>5. IsFiniteSet(C) /\ Cardinality(C) <= Cardinality(1 .. Len(toMerge))
        BY <3>3, <3>4, FS_Surjection
    <3> QED  BY <3>4, <3>5, FS_CardinalityType
  <2>6. Cardinality(PairedUp) <= Cardinality(C) /\ PairedUp \subseteq C
    <3>1. PairedUp \subseteq C  BY <2>1
    <3> QED  BY <2>5, <3>1, FS_Subset
  <2>7. Cardinality(PairedUp) <= 2 * (G.cnt - MaxSubgroups)
    <3> DEFINE n == Len(toMerge)
               c == Cardinality(C)
               p == Cardinality(PairedUp)
               room == G.cnt - MaxSubgroups
    <3>1. n \in Nat /\ c \in Nat /\ c <= n /\ p <= c /\ room \in Int /\ n <= 2 * room + 1
          /\ p = 2 * pairCnt
        BY <2>1, <2>2, <2>3, <2>5, <2>6, MergeAssumption
    <3> HIDE DEF n, c, p, room
    <3>2. pairCnt <= room  BY <2>1, <3>1
    <3>3. p <= 2 * room  BY <2>1, <3>1, <3>2
    <3> QED  BY <3>3 DEF p, room
  <2>8. PairsLeft' = PairedUp
    <3>1. PairsLeft' = {s \in Live(G) : s >= 1 /\ sgPair[s] # 0}  BY <1>1, <1>2 DEF PairsLeft
    <3>2. PairedUp = {s \in D : sgPair[s] # 0}  BY <2>1 DEF PairedUp
    <3>3. PairedUp \subseteq Live(G)  BY <2>4, <2>6
    <3>4. \A s \in D : s >= 1  BY <2>2
    <3> QED  BY <2>2, <3>1, <3>2, <3>3, <3>4
  <2>9. \A s \in PairedUp : sgPair[s] \in PairedUp
    <3> SUFFICES ASSUME NEW s \in PairedUp  PROVE sgPair[s] \in PairedUp  OBVIOUS
    <3>1. sgPair[s] \in D /\ sgPair[sgPair[s]] = s /\ s \in D  BY <2>1, <2>2, <2>4, <2>6
    <3>2. s # 0  BY <2>2, <3>1
    <3> QED  BY <2>1, <3>1, <3>2 DEF PairedUp
  <2>10. \A s \in PairsLeft' :
            sgPair'[s] \in PairsLeft' /\ sgPair'[s] # s /\ sgPair'[sgPair'[s]] = s
      BY <1>1, <2>1, <2>8, <2>9
  <2>11. Cardinality(PairsLeft') <= 2 * (G'.cnt - MaxSubgroups)  BY <1>2, <2>7, <2>8
  <2>12. cur' \in DOMAIN groups' /\ pos' \in Nat /\ sgPair' \in [DOMAIN G'.subgroups -> Nat]
      BY <1>1, <1>2, <2>1
  <2> QED  BY <2>10, <2>11, <2>12 DEF JoinInv
<1> QED  BY <1>1, <1>3, <1>4

LEMMA GroupOKStays ==
    ASSUME UNCHANGED <<taskGraph, exclusionGraph>>
    PROVE  \A g : GroupOK(g) <=> GroupOK(g)'
<1>1. Vertices' = Vertices /\ exclusionGraph' = exclusionGraph  BY DEF Vertices
<1> QED  BY <1>1 DEF GroupOK

LEMMA JoinPairJoins ==
    ASSUME GraphInv, Partitioned, NoneEmpty, JoinInv, JoinPair
    PROVE  Partitioned' /\ NoneEmpty' /\ JoinInv'
<1> DEFINE dst == Min(PairsLeft)
           src == sgPair[dst]
           g == Merged(G, dst, src)
<1>1. /\ PairsLeft # {} /\ groups' = [groups EXCEPT ![cur] = Merged(@, dst, src)] /\ pos' = dst + 1
      /\ UNCHANGED <<taskGraph, exclusionGraph, cur, sgPair>>
    BY DEF JoinPair, Goto, prebuiltVars, pairVars
<1>2. /\ cur \in DOMAIN groups /\ sgPair \in [DOMAIN G.subgroups -> Nat] /\ pos \in Nat
      /\ \A s \in PairsLeft : sgPair[s] \in PairsLeft /\ sgPair[s] # s /\ sgPair[sgPair[s]] = s
      /\ Cardinality(PairsLeft) <= 2 * (G.cnt - MaxSubgroups)
    BY DEF JoinInv
<1>3. /\ GroupOK(G) /\ G.cnt = Cardinality(Live(G)) /\ G.cnt \in Nat
      /\ Live(G) \subseteq Nat \ {0} /\ IsFiniteSet(Live(G))
    BY <1>2, GroupFacts DEF G
<1>4. /\ PairsLeft \subseteq Live(G) /\ PairsLeft \subseteq Nat /\ IsFiniteSet(PairsLeft)
      /\ Cardinality(PairsLeft) \in Nat
  <2>1. PairsLeft \subseteq Live(G)  BY DEF PairsLeft
  <2> QED  BY <1>3, <2>1, FS_Subset, FS_CardinalityType
<1>5. /\ dst \in PairsLeft /\ \A x \in PairsLeft : dst <= x  BY <1>1, <1>4, MinOfNat
<1> HIDE DEF dst
<1>6. /\ src \in PairsLeft /\ src # dst /\ sgPair[src] = dst /\ dst \in Nat /\ src \in Nat
      /\ dst \in Live(G) /\ src \in Live(G)
    BY <1>2, <1>4, <1>5
<1> HIDE DEF src
<1>7. /\ GroupOK(g) /\ DOMAIN g.subgroups = DOMAIN G.subgroups /\ Live(g) = Live(G) \ {src}
      /\ TasksOf(g) = TasksOf(G) /\ g.cnt = G.cnt - 1
    BY <1>3, <1>6, MergedOK
<1> HIDE DEF g
<1>8. groups' = [groups EXCEPT ![cur] = g]  BY <1>1 DEF g, G
<1>9. /\ DOMAIN groups' = DOMAIN groups /\ groups'[cur] = g
      /\ \A i \in DOMAIN groups : i # cur => groups'[i] = groups[i]
    BY <1>2, <1>8
<1>10. groups' \in Seq(GroupRecord)
  <2>1. g \in GroupRecord /\ groups \in Seq(GroupRecord)  BY <1>7 DEF GroupOK, Partitioned
  <2>2. cur \in 1 .. Len(groups)  BY <1>2, GroupFacts
  <2> QED  BY <1>8, <2>1, <2>2, ExceptSeq
<1>11. \A i \in DOMAIN groups : TasksOf(groups'[i]) = TasksOf(groups[i])  BY <1>7, <1>9 DEF G
<1>12. Vertices' = Vertices /\ \A h : GroupOK(h) <=> GroupOK(h)'
    BY <1>1, GroupOKStays DEF Vertices
<1>13. Partitioned'
  <2>1. \A i \in DOMAIN groups' : GroupOK(groups'[i])  BY <1>7, <1>9 DEF Partitioned
  <2>2. \A i, j \in DOMAIN groups' : i # j => TasksOf(groups'[i]) \cap TasksOf(groups'[j]) = {}
      BY <1>9, <1>11 DEF Partitioned
  <2>3. Vertices = UNION {TasksOf(groups'[i]) : i \in DOMAIN groups'}
      BY <1>9, <1>11 DEF Partitioned
  <2> QED  BY <1>10, <1>12, <2>1, <2>2, <2>3 DEF Partitioned
<1>14. G' = g /\ cur' = cur /\ sgPair' = sgPair  BY <1>1, <1>9 DEF G
<1>15. PairsLeft' = (PairsLeft \ {dst}) \ {src}
  <2>1. PairsLeft' = {s \in Live(g) : s >= dst + 1 /\ sgPair[s] # 0}
      BY <1>1, <1>14 DEF PairsLeft, Live
  <2>2. PairsLeft = {s \in Live(G) : s >= pos /\ sgPair[s] # 0}  BY DEF PairsLeft
  <2>3. dst >= pos  BY <1>5, <2>2
  <2>4. ASSUME NEW s \in Live(G), s \in Nat
        PROVE  s >= dst + 1 /\ sgPair[s] # 0 <=> s \in PairsLeft \ {dst}
    <3>1. s >= dst + 1 => s >= pos /\ s # dst  BY <1>2, <1>6, <2>3, <2>4
    <3>2. s \in PairsLeft /\ s # dst => s >= dst + 1
      <4>1. s \in PairsLeft => dst <= s  BY <1>5
      <4> QED  BY <1>6, <2>4, <4>1
    <3> QED  BY <2>2, <3>1, <3>2
  <2>5. \A s \in Live(G) : s \in Nat  BY <1>3
  <2> QED  BY <1>4, <1>7, <2>1, <2>4, <2>5
<1>16. Cardinality(PairsLeft') = Cardinality(PairsLeft) - 2
  <2> DEFINE Q == PairsLeft \ {dst}
  <2>1. IsFiniteSet(Q) /\ Cardinality(Q) = Cardinality(PairsLeft) - 1  BY <1>4, <1>5, FS_RemoveElement
  <2>2. src \in Q  BY <1>6
  <2>3. Cardinality(Q \ {src}) = Cardinality(Q) - 1
    <3> HIDE DEF Q
    <3> QED  BY <2>1, <2>2, FS_RemoveElement
  <2> QED  BY <1>4, <1>15, <2>1, <2>3
<1>17. Cardinality(PairsLeft') \in Nat
  <2>1. PairsLeft' \subseteq PairsLeft  BY <1>15
  <2>2. IsFiniteSet(PairsLeft')  BY <1>4, <2>1, FS_Subset
  <2> QED  BY <2>2, FS_CardinalityType
<1>18. /\ Cardinality(PairsLeft') <= 2 * (G'.cnt - MaxSubgroups) /\ G'.cnt >= 1
  <2> DEFINE p == Cardinality(PairsLeft)
             q == Cardinality(PairsLeft')
             c == G.cnt
  <2>1. /\ p \in Nat /\ q \in Nat /\ q = p - 2 /\ c \in Nat /\ p <= 2 * (c - MaxSubgroups)
        /\ G'.cnt = c - 1
      BY <1>2, <1>3, <1>4, <1>7, <1>14, <1>16, <1>17
  <2> HIDE DEF p, q, c
  <2>2. q <= 2 * (G'.cnt - MaxSubgroups) /\ G'.cnt >= 1  BY <2>1, MergeAssumption
  <2> QED  BY <2>2 DEF q
<1>19. NoneEmpty'
  <2>1. \A i \in DOMAIN groups' : groups'[i].cnt >= 1  BY <1>9, <1>14, <1>18 DEF NoneEmpty
  <2> QED  BY <2>1 DEF NoneEmpty
<1>20. ASSUME NEW s \in PairsLeft'
       PROVE  sgPair[s] \in PairsLeft' /\ sgPair[s] # s /\ sgPair[sgPair[s]] = s
  <2>1. s \in PairsLeft /\ s # dst /\ s # src  BY <1>15
  <2>2. sgPair[s] \in PairsLeft /\ sgPair[s] # s /\ sgPair[sgPair[s]] = s  BY <1>2, <2>1
  <2>3. sgPair[s] # dst /\ sgPair[s] # src  BY <1>6, <2>1, <2>2 DEF src
  <2> QED  BY <1>15, <2>2, <2>3
<1>21. pos' \in Nat  BY <1>1, <1>6
<1>22. sgPair' \in [DOMAIN G'.subgroups -> Nat] /\ cur' \in DOMAIN groups'
    BY <1>2, <1>7, <1>9, <1>14
<1>23. JoinInv'  BY <1>14, <1>18, <1>20, <1>21, <1>22 DEF JoinInv
<1> QED  BY <1>13, <1>19, <1>23
------------------------------------------------------------------------------
(***************************************************************************)
(* The small groups.                                                       *)
(***************************************************************************)
WithinLimit == \A i \in DOMAIN groups : groups[i].cnt <= MaxSubgroups

FitTogether(i, j) == groups[i].cnt + groups[j].cnt <= MinGroupSize

\* In a pass: a group that was joined with the candidate is empty, those that are
\* still to come are not.  As long as none was joined the candidate is the smallest
\* of the groups passed, and no two of them fit together.
SmallInv ==
    /\ pos \in Nat \ {0} /\ candidate \in Nat /\ anyMerged \in BOOLEAN
    /\ WithinLimit
    /\ \A i \in DOMAIN groups :
        /\ groups[i].subgroups # <<>> => groups[i].cnt >= 1
        /\ i >= pos \/ ~anyMerged => groups[i].subgroups # <<>>
    /\ candidate # 0 => /\ candidate \in DOMAIN groups /\ candidate < pos
                        /\ groups[candidate].subgroups # <<>>
    /\ ~anyMerged =>
        /\ \A i \in DOMAIN groups : i < pos /\ groups[i].cnt < MinGroupSize =>
                candidate # 0 /\ groups[candidate].cnt <= groups[i].cnt
        /\ \A i, j \in DOMAIN groups : i < pos /\ j < pos /\ i # j => ~FitTogether(i, j)

Packed == \A i, j \in DOMAIN groups : i # j => ~FitTogether(i, j)

LEMMA NoSubgroupsOK == GroupOK(NoSubgroups) /\ TasksOf(NoSubgroups) = {}
<1>1. /\ NoSubgroups.subgroups = <<>> /\ NoSubgroups.excl = <<>> /\ NoSubgroups.cnt = 0
    BY DEF NoSubgroups
<1>2. NoSubgroups \in GroupRecord
  <2>1. <<>> \in Seq(Seq(Nat)) /\ <<>> \in Seq(SUBSET Nat)  OBVIOUS
  <2> QED  BY <2>1 DEF NoSubgroups, GroupRecord
<1>3. DOMAIN NoSubgroups.subgroups = {} /\ DOMAIN NoSubgroups.excl = {}  BY <1>1
<1>4. Live(NoSubgroups) = {} /\ TasksOf(NoSubgroups) = {}  BY <1>3 DEF Live, TasksOf
<1>5. Cardinality({}) = 0  BY FS_EmptySet
<1> QED  BY <1>1, <1>2, <1>3, <1>4, <1>5 DEF GroupOK

LEMMA EmptyGroup ==
    ASSUME NEW g, GroupOK(g), g.subgroups = <<>>
    PROVE  g.cnt = 0 /\ TasksOf(g) = {}
<1>1. DOMAIN g.subgroups = {}  OBVIOUS
<1>2. Live(g) = {} /\ TasksOf(g) = {}  BY <1>1 DEF Live, TasksOf
<1> QED  BY <1>2, FS_EmptySet DEF GroupOK

LEMMA AllInLimitSmall ==
    ASSUME Partitioned, NoneEmpty, AllInLimit
    PROVE  Partitioned' /\ SmallInv'
<1>1. /\ UNCHANGED <<groups, taskGraph, exclusionGraph>> /\ LargeGroups = {}
      /\ pos' = 1 /\ candidate' = 0 /\ anyMerged' = FALSE
    BY DEF AllInLimit, Goto, prebuiltVars, StartSmallPass
<1>2. Vertices' = Vertices /\ \A g : GroupOK(g) <=> GroupOK(g)'
    BY <1>1, GroupOKStays DEF Vertices
<1>3. Partitioned'  BY <1>1, <1>2 DEF Partitioned
<1>4. \A i \in DOMAIN groups : /\ i \in Nat \ {0} /\ groups[i].cnt \in Nat /\ groups[i].cnt >= 1
                               /\ GroupOK(groups[i])
  <2> SUFFICES ASSUME NEW i \in DOMAIN groups
               PROVE  /\ i \in Nat \ {0} /\ groups[i].cnt \in Nat /\ groups[i].cnt >= 1
                      /\ GroupOK(groups[i])
      OBVIOUS
  <2>1. i \in 1 .. Len(groups) /\ Len(groups) \in Nat /\ groups[i].cnt \in Nat /\ GroupOK(groups[i])
      BY GroupFacts
  <2> QED  BY <2>1 DEF NoneEmpty
<1>5. \A i \in DOMAIN groups : groups[i].subgroups # <<>> /\ groups[i].cnt <= MaxSubgroups
  <2> SUFFICES ASSUME NEW i \in DOMAIN groups
               PROVE  groups[i].subgroups # <<>> /\ groups[i].cnt <= MaxSubgroups
      OBVIOUS
  <2>1. groups[i].subgroups # <<>>
    <3>1. groups[i].subgroups = <<>> => groups[i].cnt = 0  BY <1>4, EmptyGroup
    <3> QED  BY <1>4, <3>1
  <2>2. ~(groups[i].cnt > MaxSubgroups)  BY <1>1 DEF LargeGroups
  <2> QED  BY <1>4, <2>1, <2>2, MergeAssumption
<1>6. pos' \in Nat \ {0} /\ candidate' \in Nat /\ anyMerged' \in BOOLEAN
  <2>1. 1 \in Nat \ {0} /\ 0 \in Nat /\ FALSE \in BOOLEAN  OBVIOUS
  <2>2. pos' = 1 /\ candidate' = 0 /\ anyMerged' = FALSE  BY <1>1
  <2> QED  BY <2>1, <2>2
<1>7. WithinLimit'  BY <1>1, <1>5 DEF WithinLimit
<1>8. \A i \in DOMAIN groups' :
          /\ groups'[i].subgroups # <<>> => groups'[i].cnt >= 1
          /\ i >= pos' \/ ~anyMerged' => groups'[i].subgroups # <<>>
    BY <1>1, <1>4, <1>5
<1>9. \A i \in DOMAIN groups' : ~(i < pos')
  <2> SUFFICES ASSUME NEW i \in DOMAIN groups  PROVE ~(i < 1)  BY <1>1
  <2> QED  BY <1>4
<1>10. SmallInv'
  <2>1. candidate' = 0  BY <1>1
  <2> QED  BY <1>6, <1>7, <1>8, <1>9, <2>1 DEF SmallInv
<1> QED  BY <1>3, <1>10

LEMMA SmallStepSmall ==
    ASSUME GraphInv, Partitioned, SmallInv, SmallStep
    PROVE  Partitioned' /\ SmallInv'
<1>1. /\ pos \in Nat \ {0} /\ candidate \in Nat /\ anyMerged \in BOOLEAN /\ WithinLimit
      /\ \A i \in DOMAIN groups :
            /\ groups[i].subgroups # <<>> => groups[i].cnt >= 1
            /\ i >= pos \/ ~anyMerged => groups[i].subgroups # <<>>
      /\ candidate # 0 => /\ candidate \in DOMAIN groups /\ candidate < pos
                          /\ groups[candidate].subgroups # <<>>
    BY DEF SmallInv
<1>2. /\ pos <= Len(groups) /\ pos' = pos + 1 /\ UNCHANGED <<taskGraph, exclusionGraph>>
      /\ IF Fits(pos)
         THEN /\ groups' = [groups EXCEPT ![candidate] = Joined(@, groups[pos]), ![pos] = NoSubgroups]
              /\ anyMerged' = TRUE /\ candidate' = candidate
         ELSE /\ candidate' = IF BetterCandidate(pos) THEN pos ELSE candidate
              /\ UNCHANGED <<groups, anyMerged>>
    BY DEF SmallStep, Goto, prebuiltVars
<1>3. /\ groups \in Seq(GroupRecord) /\ Len(groups) \in Nat /\ DOMAIN groups = 1 .. Len(groups)
    BY LenProperties DEF Partitioned
<1>4. pos \in DOMAIN groups /\ groups[pos].subgroups # <<>>
  <2>1. pos \in DOMAIN groups  BY <1>1, <1>2, <1>3
  <2>2. pos >= pos  BY <1>1
  <2> QED  BY <1>1, <2>1, <2>2
<1>5. \A i \in DOMAIN groups : GroupOK(groups[i]) /\ groups[i].cnt \in Nat /\ i \in Nat
  <2>1. \A i \in DOMAIN groups : GroupOK(groups[i]) /\ groups[i].cnt \in Nat  BY GroupFacts
  <2> QED  BY <1>3, <2>1
<1>6. Vertices' = Vertices /\ \A g : GroupOK(g) <=> GroupOK(g)'
    BY <1>2, GroupOKStays DEF Vertices
<1>7. CASE Fits(pos)
  <2> DEFINE g == Joined(groups[candidate], groups[pos])
  <2>1. /\ candidate \in DOMAIN groups /\ candidate < pos /\ candidate # pos
        /\ groups[candidate].subgroups # <<>>
        /\ groups[pos].cnt + groups[candidate].cnt <= MinGroupSize
      BY <1>1, <1>5, <1>7 DEF Fits
  <2>2. TasksOf(groups[candidate]) \cap TasksOf(groups[pos]) = {}
      BY <1>4, <2>1 DEF Partitioned
  <2>3. /\ GroupOK(g) /\ TasksOf(g) = TasksOf(groups[candidate]) \cup TasksOf(groups[pos])
        /\ g.cnt = groups[candidate].cnt + groups[pos].cnt /\ g.subgroups # <<>>
      BY <1>4, <1>5, <2>1, <2>2, JoinedOK
  <2> HIDE DEF g
  <2>4. groups' = [groups EXCEPT ![candidate] = g, ![pos] = NoSubgroups]
      BY <1>2, <1>7, <2>1 DEF g
  <2>5. /\ DOMAIN groups' = DOMAIN groups /\ groups'[candidate] = g /\ groups'[pos] = NoSubgroups
        /\ \A i \in DOMAIN groups : i # candidate /\ i # pos => groups'[i] = groups[i]
      BY <1>4, <2>1, <2>4
  <2>6. GroupOK(NoSubgroups) /\ TasksOf(NoSubgroups) = {}  BY NoSubgroupsOK
  <2>7. \A i \in DOMAIN groups : GroupOK(groups'[i])  BY <1>5, <2>3, <2>5, <2>6
  <2>8. groups' \in Seq(GroupRecord)
    <3>1. groups' \in [1 .. Len(groups) -> GroupRecord]
      <4>1. groups' = [i \in DOMAIN groups |-> groups'[i]]  BY <1>3, <2>4
      <4>2. \A i \in DOMAIN groups : groups'[i] \in GroupRecord  BY <2>7 DEF GroupOK
      <4> QED  BY <1>3, <4>1, <4>2
    <3> QED  BY <1>3, <3>1, FunctionIsSeq
  <2>9. \A i, j \in DOMAIN groups : i # j => TasksOf(groups'[i]) \cap TasksOf(groups'[j]) = {}
    <3>1. \A i, j \in DOMAIN groups : i # j => TasksOf(groups[i]) \cap TasksOf(groups[j]) = {}
        BY DEF Partitioned
    <3>2. ASSUME NEW i \in DOMAIN groups, i # candidate
          PROVE  TasksOf(groups'[i]) \cap TasksOf(g) = {}
      <4>1. CASE i = pos  BY <2>5, <2>6, <4>1
      <4>2. CASE i # pos  BY <1>4, <2>1, <2>3, <2>5, <3>1, <3>2, <4>2
      <4> QED  BY <4>1, <4>2
    <3>3. ASSUME NEW i \in DOMAIN groups, NEW j \in DOMAIN groups, i # j, i # candidate, j # candidate
          PROVE  TasksOf(groups'[i]) \cap TasksOf(groups'[j]) = {}
        BY <2>5, <2>6, <3>1, <3>3
    <3> QED  BY <2>5, <3>2, <3>3
  <2>10. Vertices = UNION {TasksOf(groups'[i]) : i \in DOMAIN groups}
    <3>1. Vertices = UNION {TasksOf(groups[i]) : i \in DOMAIN groups}  BY DEF Partitioned
    <3>2. ASSUME NEW v \in Vertices  PROVE \E i \in DOMAIN groups : v \in TasksOf(groups'[i])
      <4>1. PICK i \in DOMAIN groups : v \in TasksOf(groups[i])  BY <3>1
      <4>2. CASE i \in {candidate, pos}  BY <2>1, <2>3, <2>5, <4>1, <4>2
      <4>3. CASE i \notin {candidate, pos}  BY <2>5, <4>1, <4>3
      <4> QED  BY <4>2, <4>3
    <3>3. ASSUME NEW i \in DOMAIN groups, NEW v \in TasksOf(groups'[i])  PROVE v \in Vertices
      <4>1. CASE i = candidate  BY <1>4, <2>1, <2>3, <2>5, <3>1, <4>1
      <4>2. CASE i = pos  BY <2>5, <2>6, <4>2
      <4>3. CASE i \notin {candidate, pos}  BY <2>5, <3>1, <4>3
      <4> QED  BY <4>1, <4>2, <4>3
    <3> QED  BY <3>2, <3>3
  <2>11. Partitioned'  BY <1>6, <2>5, <2>7, <2>8, <2>9, <2>10 DEF Partitioned
  <2>12. g.cnt \in Nat /\ g.cnt >= 1 /\ g.cnt <= MaxSubgroups
      BY <1>1, <1>4, <1>5, <2>1, <2>3, MergeAssumption
  <2>13. NoSubgroups.cnt = 0 /\ NoSubgroups.subgroups = <<>>  BY DEF NoSubgroups
  <2>14. \A i \in DOMAIN groups :
            /\ groups'[i].cnt <= MaxSubgroups
            /\ groups'[i].subgroups # <<>> => groups'[i].cnt >= 1
            /\ i >= pos + 1 => groups'[i].subgroups # <<>>
    <3> SUFFICES ASSUME NEW i \in DOMAIN groups
                 PROVE  /\ groups'[i].cnt <= MaxSubgroups
                        /\ groups'[i].subgroups # <<>> => groups'[i].cnt >= 1
                        /\ i >= pos + 1 => groups'[i].subgroups # <<>>
        OBVIOUS
    <3>1. CASE i = candidate  BY <2>3, <2>5, <2>12, <3>1
    <3>2. CASE i = pos  BY <1>1, <2>5, <2>13, <3>2, MergeAssumption
    <3>3. CASE i \notin {candidate, pos}
      <4>1. groups'[i] = groups[i] /\ i \in Nat  BY <1>5, <2>5, <3>3
      <4>2. i >= pos + 1 => i >= pos  BY <1>1, <4>1
      <4> QED  BY <1>1, <4>1, <4>2 DEF WithinLimit
    <3> QED  BY <3>1, <3>2, <3>3
  <2>15. /\ candidate' = candidate /\ candidate' \in DOMAIN groups' /\ candidate' < pos'
         /\ groups'[candidate'].subgroups # <<>> /\ anyMerged' = TRUE /\ pos' \in Nat \ {0}
         /\ candidate' \in Nat
      BY <1>1, <1>2, <1>5, <1>7, <2>1, <2>3, <2>5
  <2>16. SmallInv'  BY <1>2, <2>5, <2>14, <2>15 DEF SmallInv, WithinLimit
  <2> QED  BY <2>11, <2>16
<1>8. CASE ~Fits(pos)
  <2>1. /\ groups' = groups /\ anyMerged' = anyMerged
        /\ candidate' = IF BetterCandidate(pos) THEN pos ELSE candidate
      BY <1>2, <1>8
  <2>2. Partitioned'  BY <1>6, <2>1 DEF Partitioned
  <2>3. candidate' \in Nat /\ pos' \in Nat \ {0}  BY <1>1, <1>2, <2>1
  <2>4. candidate' # 0 => /\ candidate' \in DOMAIN groups /\ candidate' < pos'
                          /\ groups[candidate'].subgroups # <<>>
      BY <1>1, <1>2, <1>4, <2>1
  <2>5. \A i \in DOMAIN groups : i >= pos' => i >= pos  BY <1>1, <1>2, <1>5
  <2>6. ASSUME ~anyMerged
        PROVE  /\ \A i \in DOMAIN groups : i < pos' /\ groups[i].cnt < MinGroupSize =>
                    candidate' # 0 /\ groups[candidate'].cnt <= groups[i].cnt
               /\ \A i, j \in DOMAIN groups : i < pos' /\ j < pos' /\ i # j => ~FitTogether(i, j)
    <3>1. /\ \A i \in DOMAIN groups : i < pos /\ groups[i].cnt < MinGroupSize =>
                candidate # 0 /\ groups[candidate].cnt <= groups[i].cnt
          /\ \A i, j \in DOMAIN groups : i < pos /\ j < pos /\ i # j => ~FitTogether(i, j)
        BY <2>6 DEF SmallInv
    <3>2. groups[pos].cnt >= 1 /\ groups[pos].cnt \in Nat  BY <1>1, <1>4, <1>5
    <3>3. candidate # 0 =>
            /\ groups[candidate].cnt \in Nat /\ candidate \in DOMAIN groups
            /\ groups[pos].cnt + groups[candidate].cnt > MinGroupSize
        BY <1>1, <1>5, <1>8, <3>2, MergeAssumption DEF Fits
    <3>4. BetterCandidate(pos) <=>
            /\ candidate = 0 \/ groups[pos].cnt < groups[candidate].cnt
            /\ groups[pos].cnt < MinGroupSize
        BY DEF BetterCandidate
    <3>5. ASSUME NEW i \in DOMAIN groups, i < pos', groups[i].cnt < MinGroupSize
          PROVE  candidate' # 0 /\ groups[candidate'].cnt <= groups[i].cnt
      <4>1. CASE i = pos
        <5>1. CASE BetterCandidate(pos)  BY <1>1, <2>1, <3>2, <4>1, <5>1
        <5>2. CASE ~BetterCandidate(pos)
            BY <1>1, <2>1, <3>2, <3>3, <3>4, <3>5, <4>1, <5>2
        <5> QED  BY <5>1, <5>2
      <4>2. CASE i # pos
        <5>1. i < pos  BY <1>1, <1>2, <1>5, <3>5, <4>2
        <5>2. candidate # 0 /\ groups[candidate].cnt <= groups[i].cnt  BY <3>1, <3>5, <5>1
        <5>3. groups[i].cnt \in Nat  BY <1>5
        <5>4. CASE BetterCandidate(pos)
            BY <1>1, <2>1, <3>2, <3>3, <3>4, <5>2, <5>3, <5>4
        <5>5. CASE ~BetterCandidate(pos)  BY <2>1, <5>2, <5>5
        <5> QED  BY <5>4, <5>5
      <4> QED  BY <4>1, <4>2
    <3>6. ASSUME NEW i \in DOMAIN groups, i < pos
          PROVE  groups[i].cnt + groups[pos].cnt > MinGroupSize
      <4>0. groups[i].cnt \in Nat  BY <1>5
      <4>1. CASE groups[i].cnt < MinGroupSize
        <5>1. candidate # 0 /\ groups[candidate].cnt <= groups[i].cnt  BY <3>1, <3>6, <4>1
        <5> QED  BY <3>2, <3>3, <4>0, <5>1, MergeAssumption
      <4>2. CASE ~(groups[i].cnt < MinGroupSize)  BY <3>2, <4>0, <4>2, MergeAssumption
      <4> QED  BY <4>1, <4>2
    <3>7. ASSUME NEW i \in DOMAIN groups, NEW j \in DOMAIN groups, i < pos', j < pos', i # j
          PROVE  ~FitTogether(i, j)
      <4>1. (i < pos \/ i = pos) /\ (j < pos \/ j = pos)  BY <1>1, <1>2, <1>5, <3>7
      <4>2. groups[i].cnt \in Nat /\ groups[j].cnt \in Nat  BY <1>5
      <4>3. CASE i < pos /\ j < pos  BY <3>1, <3>7, <4>3
      <4>4. CASE i < pos /\ j = pos  BY <3>6, <4>2, <4>4, MergeAssumption DEF FitTogether
      <4>5. CASE i = pos /\ j < pos  BY <3>6, <4>2, <4>5, MergeAssumption DEF FitTogether
      <4> QED  BY <3>7, <4>1, <4>3, <4>4, <4>5
    <3> QED  BY <3>5, <3>7
  <2>7. SmallInv'
      BY <1>1, <2>1, <2>3, <2>4, <2>5, <2>6 DEF SmallInv, WithinLimit, FitTogether
  <2> QED  BY <2>2, <2>7
<1> QED  BY <1>7, <1>8

\* std::remove_if keeps the groups that are left, each in one place; those it
\* takes away have no tasks.
LEMMA EndSmallPassPacks ==
    ASSUME Partitioned, SmallInv, EndSmallPass
    PROVE  /\ Partitioned' /\ NoneEmpty'
           /\ (phase' = "small" /\ SmallInv') \/ (phase' = "write" /\ Packed' /\ WithinLimit')
<1> DEFINE K == Cardinality(GroupsLeft)
<1>1. /\ pos > Len(groups) /\ UNCHANGED <<taskGraph, exclusionGraph>>
      /\ groups' = [n \in 1 .. K |-> groups[NthLeft(n)]]
      /\ IF anyMerged
         THEN phase' = "small" /\ pos' = 1 /\ candidate' = 0 /\ anyMerged' = FALSE
         ELSE phase' = "write"
    BY DEF EndSmallPass, Goto, prebuiltVars, StartSmallPass
<1>2. /\ pos \in Nat \ {0} /\ anyMerged \in BOOLEAN /\ WithinLimit
      /\ \A i \in DOMAIN groups : groups[i].subgroups # <<>> => groups[i].cnt >= 1
      /\ ~anyMerged => \A i, j \in DOMAIN groups :
            i < pos /\ j < pos /\ i # j => ~FitTogether(i, j)
    BY DEF SmallInv
<1>3. /\ groups \in Seq(GroupRecord) /\ Len(groups) \in Nat /\ DOMAIN groups = 1 .. Len(groups)
    BY LenProperties DEF Partitioned
<1>4. /\ K \in Nat
      /\ \A n \in 1 .. K : NthLeft(n) \in GroupsLeft
      /\ \A n, m \in 1 .. K : NthLeft(n) = NthLeft(m) => n = m
      /\ \A i \in GroupsLeft : \E n \in 1 .. K : NthLeft(n) = i
    BY <1>3, LeftOnce
<1> HIDE DEF K
<1>5. /\ DOMAIN groups' = 1 .. K
      /\ \A n \in 1 .. K : /\ groups'[n] = groups[NthLeft(n)]
                           /\ NthLeft(n) \in DOMAIN groups /\ groups'[n].subgroups # <<>>
    BY <1>1, <1>4 DEF GroupsLeft
<1>6. Vertices' = Vertices /\ \A g : GroupOK(g) <=> GroupOK(g)'
    BY <1>1, GroupOKStays DEF Vertices
<1>7. Partitioned'
  <2>1. groups' \in Seq(GroupRecord)
    <3>1. \A n \in 1 .. K : groups[NthLeft(n)] \in GroupRecord  BY <1>5, GroupFacts
    <3>2. [n \in 1 .. K |-> groups[NthLeft(n)]] \in Seq(GroupRecord)  BY <1>4, <3>1, IsASeq
    <3> QED  BY <1>1, <3>2
  <2>2. \A n \in DOMAIN groups' : GroupOK(groups'[n])  BY <1>5 DEF Partitioned
  <2>3. \A n, m \in DOMAIN groups' : n # m => TasksOf(groups'[n]) \cap TasksOf(groups'[m]) = {}
      BY <1>4, <1>5 DEF Partitioned
  <2>4. Vertices = UNION {TasksOf(groups'[n]) : n \in DOMAIN groups'}
    <3>1. Vertices = UNION {TasksOf(groups[i]) : i \in DOMAIN groups}  BY DEF Partitioned
    <3>2. \A n \in DOMAIN groups' : TasksOf(groups'[n]) \subseteq Vertices  BY <1>5, <3>1
    <3>3. ASSUME NEW v \in Vertices  PROVE \E n \in DOMAIN groups' : v \in TasksOf(groups'[n])
      <4>1. PICK i \in DOMAIN groups : v \in TasksOf(groups[i])  BY <3>1
      <4>2. groups[i].subgroups # <<>>  BY <4>1, EmptyGroup, GroupFacts
      <4>3. i \in GroupsLeft  BY <4>2 DEF GroupsLeft
      <4>4. PICK n \in 1 .. K : NthLeft(n) = i  BY <1>4, <4>3
      <4> QED  BY <1>5, <4>1, <4>4
    <3> QED  BY <3>2, <3>3
  <2> QED  BY <1>6, <2>1, <2>2, <2>3, <2>4 DEF Partitioned
<1>8. \A n \in DOMAIN groups' : groups'[n].cnt >= 1 /\ groups'[n].cnt <= MaxSubgroups
    BY <1>2, <1>5 DEF WithinLimit
<1>9. NoneEmpty' /\ WithinLimit'  BY <1>8 DEF NoneEmpty, WithinLimit
<1>10. ASSUME anyMerged  PROVE phase' = "small" /\ SmallInv'
  <2>1. phase' = "small" /\ pos' = 1 /\ candidate' = 0 /\ anyMerged' = FALSE  BY <1>1, <1>10
  <2>2. pos' \in Nat \ {0} /\ candidate' \in Nat /\ anyMerged' \in BOOLEAN
    <3>1. 1 \in Nat \ {0} /\ 0 \in Nat /\ FALSE \in BOOLEAN  OBVIOUS
    <3> QED  BY <2>1, <3>1
  <2>3. \A n \in DOMAIN groups' : ~(n < pos')
    <3> SUFFICES ASSUME NEW n \in 1 .. K  PROVE ~(n < 1)  BY <1>5, <2>1
    <3> QED  BY <1>4
  <2>4. \A n \in DOMAIN groups' :
            /\ groups'[n].subgroups # <<>> => groups'[n].cnt >= 1
            /\ n >= pos' \/ ~anyMerged' => groups'[n].subgroups # <<>>
      BY <1>5, <1>8
  <2> QED  BY <1>9, <2>1, <2>2, <2>3, <2>4 DEF SmallInv
<1>11. ASSUME ~anyMerged  PROVE phase' = "write" /\ Packed'
  <2>1. \A i \in DOMAIN groups : i < pos
    <3> SUFFICES ASSUME NEW i \in 1 .. Len(groups)  PROVE i < pos  BY <1>3
    <3> QED  BY <1>1, <1>2, <1>3
  <2>2. \A i, j \in DOMAIN groups : i # j => ~FitTogether(i, j)  BY <1>2, <1>11, <2>1
  <2>3. ASSUME NEW n \in DOMAIN groups', NEW m \in DOMAIN groups', n # m
        PROVE  ~(groups'[n].cnt + groups'[m].cnt <= MinGroupSize)
    <3>1. NthLeft(n) # NthLeft(m) /\ NthLeft(n) \in DOMAIN groups /\ NthLeft(m) \in DOMAIN groups
        BY <1>4, <1>5, <2>3
    <3>2. ~FitTogether(NthLeft(n), NthLeft(m))  BY <2>2, <3>1
    <3> QED  BY <1>5, <3>2 DEF FitTogether
  <2> QED  BY <1>1, <1>11, <2>3 DEF Packed, FitTogether
<1> QED  BY <1>2, <1>7, <1>9, <1>10, <1>11
------------------------------------------------------------------------------
(***************************************************************************)
(* The strategy from its first phase to its last.                          *)
(***************************************************************************)
BeforeMerging == {"user", "resolve", "validate", "normalize", "prebuilt", "refused"}
BetweenMerges == {"select", "pair", "join", "write", "compiled"}

MergeInv ==
    /\ phase \in BeforeMerging \cup BetweenMerges \cup {"group", "small"}
    /\ phase \in BeforeMerging => groups = <<>>
    /\ phase = "group" => Collecting
    /\ Grouping => Partitioned
    /\ phase \in BetweenMerges => NoneEmpty
    /\ phase = "pair" => PairInv
    /\ phase = "join" => JoinInv
    /\ phase = "small" => SmallInv
    /\ phase \in {"write", "compiled"} => Packed /\ WithinLimit

\* What the parts of the invariant read.
LEMMA GroupsStay ==
    ASSUME UNCHANGED <<groups, taskGraph, exclusionGraph>>
    PROVE  /\ Partitioned' <=> Partitioned
           /\ NoneEmpty' <=> NoneEmpty
           /\ Packed' <=> Packed
           /\ WithinLimit' <=> WithinLimit
<1>1. Vertices' = Vertices /\ \A g : GroupOK(g) <=> GroupOK(g)'
    BY GroupOKStays DEF Vertices
<1>2. Partitioned' <=> Partitioned  BY <1>1 DEF Partitioned
<1> QED  BY <1>2 DEF NoneEmpty, Packed, FitTogether, WithinLimit

LEMMA StuttersKeep ==
    ASSUME MergeInv, UNCHANGED vars
    PROVE  MergeInv'
<1>1. /\ UNCHANGED <<groups, taskGraph, exclusionGraph>> /\ UNCHANGED <<phase, visited, stack>>
      /\ UNCHANGED <<cur, pos, toMerge, sgPair, pairCnt>> /\ UNCHANGED <<candidate, anyMerged>>
    BY DEF vars, prebuildVars, prebuiltVars, searchVars, mergeVars, pairVars, smallVars
<1>2. Vertices' = Vertices  BY <1>1 DEF Vertices
<1>3. Collecting' <=> Collecting
  <2>1. \A i, v : InGroup(i, v)' <=> InGroup(i, v)  BY <1>1 DEF InGroup
  <2> QED  BY <1>1, <1>2, <2>1 DEF Collecting
<1>4. PairInv' <=> PairInv  BY <1>1 DEF PairInv, PairedUp, G
<1>5. JoinInv' <=> JoinInv  BY <1>1 DEF JoinInv, PairsLeft, G
<1>6. SmallInv' <=> SmallInv  BY <1>1 DEF SmallInv, WithinLimit, FitTogether
<1>7. Grouping' <=> Grouping  BY <1>1 DEF Grouping
<1> QED  BY <1>1, <1>3, <1>4, <1>5, <1>6, <1>7, GroupsStay DEF MergeInv

\* The prebuilding knows nothing of groups.
LEMMA PrebuildKeepsMerge ==
    ASSUME MergeInv, PrebuildNext, UNCHANGED mergeVars
    PROVE  MergeInv'
<1>1. phase \in BeforeMerging /\ phase' \in BeforeMerging
    BY DEF MergeInv, PrebuildNext, PrebuildStep, prebuildVars, StartPrebuild, CopyTasks,
           ResolveSubGraph, ReturnFromGraph, ValidateTask, Validated, NormalizeLevel,
           NormalizeEdges, BeforeMerging
<1>2. groups' = <<>>  BY <1>1 DEF MergeInv, mergeVars
<1> QED  BY <1>1, <1>2 DEF MergeInv, Grouping, BeforeMerging, BetweenMerges

LEMMA NothingCollected ==
    ASSUME groups = <<>>, StartMerging
    PROVE  Collecting'
<1>1. groups' = <<>> /\ visited' = {} /\ stack' = <<>>  BY DEF StartMerging, mergeVars
<1>2. groups' \in Seq(GroupRecord) /\ stack' \in Seq(visited')
  <2>1. <<>> \in Seq(GroupRecord) /\ <<>> \in Seq({})  OBVIOUS
  <2> QED  BY <1>1, <2>1
<1>3. DOMAIN groups' = {} /\ ToSet(stack') = {}  BY <1>1 DEF ToSet
<1> QED  BY <1>1, <1>2, <1>3 DEF Collecting

\* One step of the strategy, phase by phase.
LEMMA MergeStepKeeps ==
    ASSUME GraphInv, MergeInv, MergeStep
    PROVE  MergeInv'
<1>1. CASE StartMerging
  <2>1. phase = "prebuilt" /\ phase' = "group"  BY <1>1 DEF StartMerging, Goto
  <2>2. groups = <<>>  BY <2>1 DEF MergeInv, BeforeMerging
  <2>3. Collecting'  BY <1>1, <2>2, NothingCollected
  <2> QED  BY <2>1, <2>3 DEF MergeInv, Grouping, BeforeMerging, BetweenMerges
<1>2. CASE GroupTask
  <2>1. phase = "group" /\ phase' = "group"  BY <1>2 DEF GroupTask, Goto
  <2>2. Collecting'  BY <1>2, <2>1, GroupTaskCollects DEF MergeInv
  <2> QED  BY <2>1, <2>2 DEF MergeInv, Grouping, BeforeMerging, BetweenMerges
<1>3. CASE Grouped
  <2>1. phase = "group" /\ phase' = "select"  BY <1>3 DEF Grouped, Goto
  <2>2. Partitioned' /\ NoneEmpty'  BY <1>3, <2>1, GroupedPartitions DEF MergeInv
  <2> QED  BY <2>1, <2>2 DEF MergeInv, Grouping, BeforeMerging, BetweenMerges
<1>4. CASE SelectCandidates
  <2>1. phase = "select" /\ phase' = "pair" /\ UNCHANGED <<groups, taskGraph, exclusionGraph>>
      BY <1>4 DEF SelectCandidates, Goto, prebuiltVars
  <2>2. Partitioned /\ NoneEmpty  BY <2>1 DEF MergeInv, Grouping, BetweenMerges
  <2>3. Partitioned' /\ NoneEmpty'  BY <2>1, <2>2, GroupsStay
  <2>4. PairInv'  BY <1>4, <2>2, SelectPairs
  <2> QED  BY <2>1, <2>3, <2>4 DEF MergeInv, BeforeMerging, BetweenMerges
<1>5. CASE PairStep
  <2>1. phase = "pair" /\ phase' = "pair" /\ UNCHANGED <<groups, taskGraph, exclusionGraph>>
      BY <1>5 DEF PairStep, Goto, prebuiltVars
  <2>2. Partitioned /\ NoneEmpty /\ PairInv  BY <2>1 DEF MergeInv, Grouping, BetweenMerges
  <2>3. Partitioned' /\ NoneEmpty'  BY <2>1, <2>2, GroupsStay
  <2>4. PairInv'  BY <1>5, <2>2, PairStepPairs
  <2> QED  BY <2>1, <2>3, <2>4 DEF MergeInv, BeforeMerging, BetweenMerges
<1>6. CASE EndPass
  <2>1. phase = "pair" /\ UNCHANGED <<groups, taskGraph, exclusionGraph>>
      BY <1>6 DEF EndPass, Goto, prebuiltVars
  <2>2. Partitioned /\ NoneEmpty /\ PairInv  BY <2>1 DEF MergeInv, Grouping, BetweenMerges
  <2>3. Partitioned' /\ NoneEmpty'  BY <2>1, <2>2, GroupsStay
  <2>4. /\ phase' \in {"pair", "join"}
        /\ phase' = "pair" => PairInv'
        /\ phase' = "join" => JoinInv'
      BY <1>6, <2>2, EndPassPairs
  <2> QED  BY <2>3, <2>4 DEF MergeInv, BeforeMerging, BetweenMerges
<1>7. CASE JoinPair
  <2>1. phase = "join" /\ phase' = "join"  BY <1>7 DEF JoinPair, Goto
  <2>2. Partitioned /\ NoneEmpty /\ JoinInv  BY <2>1 DEF MergeInv, Grouping, BetweenMerges
  <2>3. Partitioned' /\ NoneEmpty' /\ JoinInv'  BY <1>7, <2>2, JoinPairJoins
  <2> QED  BY <2>1, <2>3 DEF MergeInv, BeforeMerging, BetweenMerges
<1>8. CASE EndRound
  <2>1. phase = "join" /\ phase' = "select" /\ UNCHANGED <<groups, taskGraph, exclusionGraph>>
      BY <1>8 DEF EndRound, Goto, prebuiltVars, mergeVars
  <2>2. Partitioned /\ NoneEmpty  BY <2>1 DEF MergeInv, Grouping, BetweenMerges
  <2>3. Partitioned' /\ NoneEmpty'  BY <2>1, <2>2, GroupsStay
  <2> QED  BY <2>1, <2>3 DEF MergeInv, BeforeMerging, BetweenMerges
<1>9. CASE AllInLimit
  <2>1. phase = "select" /\ phase' = "small"  BY <1>9 DEF AllInLimit, Goto
  <2>2. Partitioned /\ NoneEmpty  BY <2>1 DEF MergeInv, Grouping, BetweenMerges
  <2>3. Partitioned' /\ SmallInv'  BY <1>9, <2>2, AllInLimitSmall
  <2> QED  BY <2>1, <2>3 DEF MergeInv, BeforeMerging, BetweenMerges
<1>10. CASE SmallStep
  <2>1. phase = "small" /\ phase' = "small"  BY <1>10 DEF SmallStep, Goto
  <2>2. Partitioned /\ SmallInv  BY <2>1 DEF MergeInv, Grouping
  <2>3. Partitioned' /\ SmallInv'  BY <1>10, <2>2, SmallStepSmall
  <2> QED  BY <2>1, <2>3 DEF MergeInv, BeforeMerging, BetweenMerges
<1>11. CASE EndSmallPass
  <2>1. phase = "small"  BY <1>11 DEF EndSmallPass
  <2>2. Partitioned /\ SmallInv  BY <2>1 DEF MergeInv, Grouping
  <2>3. /\ Partitioned' /\ NoneEmpty'
        /\ (phase' = "small" /\ SmallInv') \/ (phase' = "write" /\ Packed' /\ WithinLimit')
      BY <1>11, <2>2, EndSmallPassPacks
  <2> QED  BY <2>3 DEF MergeInv, BeforeMerging, BetweenMerges
<1>12. CASE WriteCompiled
  <2>1. /\ phase = "write" /\ phase' = "compiled"
        /\ UNCHANGED <<groups, taskGraph, exclusionGraph>>
      BY <1>12 DEF WriteCompiled, Goto, prebuiltVars
  <2>2. Partitioned /\ NoneEmpty /\ Packed /\ WithinLimit
      BY <2>1 DEF MergeInv, Grouping, BetweenMerges
  <2>3. Partitioned' /\ NoneEmpty' /\ Packed' /\ WithinLimit'  BY <2>1, <2>2, GroupsStay
  <2> QED  BY <2>1, <2>3 DEF MergeInv, BeforeMerging, BetweenMerges
<1> QED  BY <1>1, <1>2, <1>3, <1>4, <1>5, <1>6, <1>7, <1>8, <1>9, <1>10, <1>11, <1>12 DEF MergeStep

\* The invariant of the strategy: whatever was compiled so far, the groups hold
\* each task of the prebuilt graph once, with the edges of its subgroup (534-918).
THEOREM MergeIsInvariant == Spec => []MergeInv
<1>1. PrebuildInit /\ MergeInit => MergeInv
    BY DEF PrebuildInit, MergeInit, MergeInv, Grouping, BeforeMerging, BetweenMerges
<1>2. GraphInv /\ MergeInv /\ [Next]_vars => MergeInv'
  <2> SUFFICES ASSUME GraphInv, MergeInv, [Next]_vars  PROVE MergeInv'  OBVIOUS
  <2>1. CASE PrebuildNext /\ UNCHANGED mergeVars  BY <2>1, PrebuildKeepsMerge
  <2>2. CASE MergeStep  BY <2>2, MergeStepKeeps
  <2>3. CASE UNCHANGED vars  BY <2>3, StuttersKeep
  <2> QED  BY <2>1, <2>2, <2>3 DEF Next
<1> QED  BY <1>1, <1>2, GraphIsTyped, PTL DEF Spec

\* Two subgroups exclude each other exactly if a task of one excludes a task of
\* the other, in every phase from the collected groups to the compiled graph, and
\* each task has one place: the edges that the masks are written from (813-822)
\* miss no exclusion and invent none, whatever graph was built.
THEOREM ExclusionIsExact == Spec => []ExclusionKept
<1>1. MergeInv => ExclusionKept
  <2> SUFFICES ASSUME Partitioned
               PROVE  /\ \A i \in DOMAIN groups : \A s \in Live(groups[i]) :
                          /\ groups[i].excl[s] = {s} \cup {r \in Live(groups[i]) :
                                \E t \in Cell(i, s), u \in Cell(i, r) : u \in exclusionGraph[t]}
                          /\ \A t \in Cell(i, s) : \A u \in exclusionGraph[t] :
                                \E r \in Live(groups[i]) : u \in Cell(i, r)
                          /\ IsInjective(groups[i].subgroups[s])
                      /\ \A i, j \in DOMAIN groups : \A s \in Live(groups[i]), r \in Live(groups[j]) :
                          Cell(i, s) \cap Cell(j, r) # {} => i = j /\ s = r
                      /\ Vertices = UNION {UNION {Cell(i, s) : s \in Live(groups[i])} : i \in DOMAIN groups}
      BY DEF MergeInv, ExclusionKept
  <2>1. \A i \in DOMAIN groups : TasksOf(groups[i]) = UNION {Cell(i, s) : s \in Live(groups[i])}
    <3> SUFFICES ASSUME NEW i \in DOMAIN groups
                 PROVE  TasksOf(groups[i]) = UNION {Cell(i, s) : s \in Live(groups[i])}
        OBVIOUS
    <3>1. \A s \in DOMAIN groups[i].subgroups \ Live(groups[i]) : Cell(i, s) = {}
        BY DEF Live, Cell, ToSet
    <3>2. TasksOf(groups[i]) = UNION {Cell(i, s) : s \in DOMAIN groups[i].subgroups}
        BY DEF TasksOf, Cell
    <3> QED  BY <3>1, <3>2 DEF Live
  <2>2. ASSUME NEW i \in DOMAIN groups, NEW s \in Live(groups[i])
        PROVE  /\ groups[i].excl[s] = {s} \cup {r \in Live(groups[i]) :
                    \E t \in Cell(i, s), u \in Cell(i, r) : u \in exclusionGraph[t]}
               /\ \A t \in Cell(i, s) : \A u \in exclusionGraph[t] :
                    \E r \in Live(groups[i]) : u \in Cell(i, r)
               /\ IsInjective(groups[i].subgroups[s])
    <3>1. GroupOK(groups[i]) /\ s \in DOMAIN groups[i].subgroups  BY DEF Partitioned, Live
    <3>2. IsInjective(groups[i].subgroups[s])  BY <3>1 DEF GroupOK
    <3>3. groups[i].excl[s] = {s} \cup {r \in Live(groups[i]) :
                    \E t \in Cell(i, s), u \in Cell(i, r) : u \in exclusionGraph[t]}
        BY <3>1 DEF GroupOK, Touch, Cell
    <3>4. \A t \in Cell(i, s) : exclusionGraph[t] \subseteq TasksOf(groups[i])
      <4>1. Cell(i, s) \subseteq TasksOf(groups[i])  BY <2>1
      <4> QED  BY <3>1, <4>1 DEF GroupOK
    <3>5. \A t \in Cell(i, s) : \A u \in exclusionGraph[t] :
                    \E r \in Live(groups[i]) : u \in Cell(i, r)
        BY <2>1, <3>4
    <3> QED  BY <3>2, <3>3, <3>5
  <2>3. ASSUME NEW i \in DOMAIN groups, NEW j \in DOMAIN groups,
               NEW s \in Live(groups[i]), NEW r \in Live(groups[j]), Cell(i, s) \cap Cell(j, r) # {}
        PROVE  i = j /\ s = r
    <3>1. Cell(i, s) \subseteq TasksOf(groups[i]) /\ Cell(j, r) \subseteq TasksOf(groups[j])
        BY <2>1
    <3>2. i = j  BY <2>3, <3>1 DEF Partitioned
    <3>3. s \in DOMAIN groups[i].subgroups /\ r \in DOMAIN groups[i].subgroups
        BY <3>2 DEF Live
    <3>4. GroupOK(groups[i])  BY DEF Partitioned
    <3> QED  BY <2>3, <3>2, <3>3, <3>4 DEF GroupOK, Cell
  <2>4. Vertices = UNION {UNION {Cell(i, s) : s \in Live(groups[i])} : i \in DOMAIN groups}
      BY <2>1 DEF Partitioned
  <2> QED  BY <2>2, <2>3, <2>4
<1> QED  BY <1>1, MergeIsInvariant, PTL

\* A group that is too large comes down to the limit of a mask, in however many
\* rounds, and no round takes it below: the candidates are cut (686) so that all
\* pairs of them may be merged.
THEOREM LimitIsMet == Spec => []MergedToTheLimit
<1>1. MergeInv => MergedToTheLimit
  <2> SUFFICES ASSUME MergeInv
               PROVE  /\ Grouping => \A i \in DOMAIN groups : groups[i].cnt = Cardinality(Live(groups[i]))
                      /\ phase \in {"pair", "join"} => groups[cur].cnt >= MaxSubgroups
                      /\ phase \in {"small", "write", "compiled"} =>
                            \A i \in DOMAIN groups : groups[i].cnt <= MaxSubgroups
      BY DEF MergedToTheLimit
  <2>1. Grouping => \A i \in DOMAIN groups : groups[i].cnt = Cardinality(Live(groups[i]))
      BY GroupFacts DEF MergeInv
  <2>2. ASSUME phase = "pair"  PROVE groups[cur].cnt >= MaxSubgroups
    <3>1. Partitioned /\ PairInv  BY <2>2 DEF MergeInv, Grouping
    <3>2. G.cnt \in Nat  BY <3>1, GroupFacts DEF PairInv, G
    <3>3. Len(toMerge) \in Nat /\ Len(toMerge) <= 2 * (G.cnt - MaxSubgroups) + 1
        BY <3>1, LenProperties DEF PairInv
    <3> QED  BY <3>2, <3>3, MergeAssumption DEF G
  <2>3. ASSUME phase = "join"  PROVE groups[cur].cnt >= MaxSubgroups
    <3>1. Partitioned /\ JoinInv  BY <2>3 DEF MergeInv, Grouping
    <3>2. G.cnt \in Nat /\ IsFiniteSet(Live(G))  BY <3>1, GroupFacts DEF JoinInv, G
    <3>3. PairsLeft \subseteq Live(G)  BY DEF PairsLeft
    <3>4. Cardinality(PairsLeft) \in Nat  BY <3>2, <3>3, FS_Subset, FS_CardinalityType
    <3>5. Cardinality(PairsLeft) <= 2 * (G.cnt - MaxSubgroups)  BY <3>1 DEF JoinInv
    <3> QED  BY <3>2, <3>4, <3>5, MergeAssumption DEF G
  <2>4. phase \in {"small", "write", "compiled"} => WithinLimit  BY DEF MergeInv, SmallInv
  <2> QED  BY <2>1, <2>2, <2>3, <2>4 DEF WithinLimit
<1> QED  BY <1>1, MergeIsInvariant, PTL

\* Joining with one candidate at a time, pass by pass until one joins nothing
\* (767-799), leaves no two groups that fit together, for every size of them.
THEOREM SmallGroupsArePacked == Spec => []GroupsPacked
<1>1. MergeInv => GroupsPacked
  <2> SUFFICES ASSUME MergeInv, phase = "compiled", NEW i \in DOMAIN groups, NEW j \in DOMAIN groups,
                      i # j
               PROVE  groups[i].cnt + groups[j].cnt > MinGroupSize
      BY DEF GroupsPacked
  <2>1. Partitioned /\ Packed  BY DEF MergeInv, Grouping
  <2>2. ~(groups[i].cnt + groups[j].cnt <= MinGroupSize)  BY <2>1 DEF Packed, FitTogether
  <2>3. groups[i].cnt \in Nat /\ groups[j].cnt \in Nat  BY <2>1, GroupFacts
  <2> QED  BY <2>2, <2>3, MergeAssumption
<1> QED  BY <1>1, MergeIsInvariant, PTL
------------------------------------------------------------------------------
(***************************************************************************)
(* The values of the pairs.                                                *)
(***************************************************************************)
PairValues == [s \in DOMAIN sgPair |-> ValueOfPair(s)]

\* totalValue is the sum over all pairs, each counted at both ends; each pass but
\* the one at work has gained; and once a step was made there is a pair.
ValueInv ==
    /\ phase = "pair" =>
        /\ Len(toMerge) >= 2 /\ IsInjective(toMerge)
        /\ totalValue \in Int /\ valueChange \in Nat /\ passes \in Nat \ {0}
        /\ 2 * totalValue = SumOver(PairValues, DOMAIN sgPair)
        /\ passes + valueChange <= totalValue + 1
        /\ pos = 1 /\ passes = 1 => PairedUp = {}
        /\ pos > 1 \/ passes > 1 => pairCnt >= 1
    /\ phase = "join" => pairCnt \in Nat \ {0}

\* The fold over the operator is the sum of the function.
LEMMA ValuesSummed ==
    ASSUME IsFiniteSet(DOMAIN sgPair)
    PROVE  MapThenSumSet(ValueOfPair, DOMAIN sgPair) = SumOver(PairValues, DOMAIN sgPair)
<1> DEFINE D == DOMAIN sgPair
           Folded(sum) == sum = [s \in SUBSET D |->
                IF s = {} THEN 0 ELSE ValueOfPair(Chosen(s)) + sum[s \ {Chosen(s)}]]
<1>1. MapThenSumSet(ValueOfPair, D) = (CHOOSE sum : Folded(sum))[D]
    BY DEF MapThenSumSet, MapThenFoldSet, Chosen
<1>2. ASSUME NEW sum  PROVE Folded(sum) <=> Partial(sum, PairValues, D)
  <2>1. ASSUME NEW s \in SUBSET D
        PROVE  (IF s = {} THEN 0 ELSE ValueOfPair(Chosen(s)) + sum[s \ {Chosen(s)}])
               = (IF s = {} THEN 0 ELSE PairValues[Chosen(s)] + sum[s \ {Chosen(s)}])
    <3>1. s # {} => PairValues[Chosen(s)] = ValueOfPair(Chosen(s))  BY ChosenIsIn DEF PairValues
    <3> QED  BY <3>1
  <2> QED  BY <2>1 DEF Partial
<1>3. \E sum : Folded(sum)
  <2>1. \E sum : Partial(sum, PairValues, D)  BY PartialExists
  <2> HIDE DEF Folded
  <2> QED  BY <1>2, <2>1
<1> DEFINE own == CHOOSE sum : Folded(sum)
<1>4. Folded(own)
  <2> HIDE DEF Folded
  <2> QED  BY <1>3
<1> HIDE DEF own
<1>5. Partial(own, PairValues, D)  BY <1>2, <1>4
<1>6. own[D] = SumOver(PairValues, D)
  <2> HIDE DEF D
  <2> QED  BY <1>5, SumIsPartial DEF D
<1> QED  BY <1>1, <1>6 DEF own

\* What a pair saves does not depend on which of the two is asked.
LEMMA MergeValue ==
    ASSUME GraphInv, Partitioned, cur \in DOMAIN groups, NEW a \in Live(G), NEW b \in Live(G)
    PROVE  /\ PairMergeValue(G, a, b) \in Nat
           /\ PairMergeValue(G, a, b) = PairMergeValue(G, b, a)
           /\ PairMergeValue(G, a, b) <= 1 + Cardinality(DOMAIN G.subgroups)
<1> DEFINE A == G.excl[a] \ {b}
           B == G.excl[b] \ {a}
           D == DOMAIN G.subgroups
           cell(s) == ToSet(G.subgroups[s])
<1>1. GroupOK(G) /\ IsFiniteSet(D) /\ Live(G) \subseteq D  BY GroupFacts DEF G
<1>2. G.excl[a] \subseteq D /\ cell(a) \subseteq Vertices /\ cell(b) \subseteq Vertices
    BY <1>1 DEF GroupOK
<1>3. A \cap B \subseteq D  BY <1>2
<1>4. Cardinality(A \cap B) \in Nat /\ Cardinality(A \cap B) <= Cardinality(D) /\ Cardinality(D) \in Nat
  <2> HIDE DEF A, B, D
  <2>1. IsFiniteSet(A \cap B) /\ Cardinality(A \cap B) <= Cardinality(D)  BY <1>1, <1>3, FS_Subset
  <2> QED  BY <1>1, <2>1, FS_CardinalityType
<1>5. A \cap B = B \cap A  OBVIOUS
<1>6. b \in G.excl[a] <=> a \in G.excl[b]
  <2>1. CASE a = b  BY <2>1
  <2>2. CASE a # b
    <3>1. b \in G.excl[a] <=> Touch(exclusionGraph, cell(a), cell(b))  BY <1>1, <2>2 DEF GroupOK
    <3>2. a \in G.excl[b] <=> Touch(exclusionGraph, cell(b), cell(a))  BY <1>1, <2>2 DEF GroupOK
    <3> HIDE DEF cell
    <3>3. Touch(exclusionGraph, cell(a), cell(b)) <=> Touch(exclusionGraph, cell(b), cell(a))
        BY <1>2 DEF Touch, GraphInv, ExclusionMutual, Symmetric
    <3> QED  BY <3>1, <3>2, <3>3
  <2> QED  BY <2>1, <2>2
<1> DEFINE one == IF b \in G.excl[a] THEN 1 ELSE 0
           n == Cardinality(A \cap B)
           m == Cardinality(D)
<1>7. PairMergeValue(G, a, b) = one + n  BY DEF PairMergeValue
<1>8. PairMergeValue(G, b, a) = one + n  BY <1>5, <1>6 DEF PairMergeValue
<1>9. one \in {0, 1}  OBVIOUS
<1>10. n \in Nat /\ n <= m /\ m \in Nat  BY <1>4
<1> HIDE DEF one, n, m
<1>11. one + n \in Nat /\ one + n <= 1 + m  BY <1>9, <1>10
<1> QED  BY <1>7, <1>8, <1>11 DEF m

\* The values of the pairs there are.
LEMMA ValuesOfPairs ==
    ASSUME GraphInv, Partitioned, PairInv
    PROVE  /\ IsFiniteSet(DOMAIN sgPair) /\ DOMAIN sgPair = DOMAIN G.subgroups
           /\ ToSet(toMerge) \subseteq Live(G) /\ Live(G) \subseteq DOMAIN sgPair
           /\ DOMAIN sgPair \subseteq Nat \ {0}
           /\ \A s \in DOMAIN sgPair :
                /\ PairValues[s] = ValueOfPair(s) /\ ValueOfPair(s) \in Nat
                /\ sgPair[s] = 0 => ValueOfPair(s) = 0
                /\ sgPair[s] # 0 => /\ sgPair[s] \in DOMAIN sgPair /\ sgPair[s] # s
                                    /\ sgPair[sgPair[s]] = s
                                    /\ ValueOfPair(sgPair[s]) = ValueOfPair(s)
<1>1. /\ cur \in DOMAIN groups /\ toMerge \in Seq(Live(G))
      /\ sgPair \in [DOMAIN G.subgroups -> Nat]
      /\ \A s \in PairedUp :
            /\ s \in ToSet(toMerge) /\ sgPair[s] \in ToSet(toMerge)
            /\ sgPair[s] # s /\ sgPair[sgPair[s]] = s
    BY DEF PairInv
<1>2. /\ Live(G) \subseteq DOMAIN G.subgroups /\ IsFiniteSet(DOMAIN G.subgroups)
      /\ DOMAIN G.subgroups \subseteq Nat \ {0}
    BY <1>1, GroupFacts DEF G
<1>3. DOMAIN sgPair = DOMAIN G.subgroups  BY <1>1
<1>4. ToSet(toMerge) \subseteq Live(G)
  <2>1. \A i \in DOMAIN toMerge : toMerge[i] \in Live(G)  BY <1>1, LenProperties, ElementOfSeq
  <2> QED  BY <2>1 DEF ToSet
<1>5. ASSUME NEW s \in DOMAIN sgPair
      PROVE  /\ PairValues[s] = ValueOfPair(s) /\ ValueOfPair(s) \in Nat
             /\ sgPair[s] = 0 => ValueOfPair(s) = 0
             /\ sgPair[s] # 0 => /\ sgPair[s] \in DOMAIN sgPair /\ sgPair[s] # s
                                 /\ sgPair[sgPair[s]] = s
                                 /\ ValueOfPair(sgPair[s]) = ValueOfPair(s)
  <2>1. PairValues[s] = ValueOfPair(s)  BY DEF PairValues
  <2>2. CASE sgPair[s] = 0  BY <2>1, <2>2 DEF ValueOfPair
  <2>3. CASE sgPair[s] # 0
    <3> DEFINE p == sgPair[s]
    <3>1. s \in PairedUp  BY <2>3 DEF PairedUp
    <3>2. s \in Live(G) /\ p \in Live(G) /\ p # s /\ sgPair[p] = s  BY <1>1, <1>4, <3>1
    <3>3. s # 0 /\ p # 0  BY <1>2, <3>2
    <3>4. ValueOfPair(s) = PairMergeValue(G, s, p)  BY <2>3 DEF ValueOfPair
    <3>5. ValueOfPair(p) = PairMergeValue(G, p, s)  BY <3>2, <3>3 DEF ValueOfPair
    <3>6. PairMergeValue(G, s, p) \in Nat /\ PairMergeValue(G, s, p) = PairMergeValue(G, p, s)
      <4> HIDE DEF p
      <4> QED  BY <1>1, <3>2, MergeValue
    <3> QED  BY <1>2, <1>3, <2>1, <2>3, <3>2, <3>4, <3>5, <3>6
  <2> QED  BY <2>2, <2>3
<1> QED  BY <1>2, <1>3, <1>4, <1>5

\* The sum changes by twice what calcPairSetValue says (642-660).
LEMMA PairedValue ==
    ASSUME GraphInv, Partitioned, PairInv, NEW a \in ToSet(toMerge), NEW b \in ToSet(toMerge), a # b
    PROVE  /\ PairSetValue(a, b) \in Int /\ SumOver(PairValues, DOMAIN sgPair) \in Int
           /\ SumOver([s \in DOMAIN sgPair |->
                            IF Paired(a, b)[s] = 0 THEN 0 ELSE PairMergeValue(G, s, Paired(a, b)[s])],
                      DOMAIN sgPair)
                = SumOver(PairValues, DOMAIN sgPair) + 2 * PairSetValue(a, b)
<1> DEFINE D == DOMAIN sgPair
           c == sgPair[a]
           d == sgPair[b]
           f == Paired(a, b)
           v(s) == ValueOfPair(s)
           New == [s \in D |-> IF f[s] = 0 THEN 0 ELSE PairMergeValue(G, s, f[s])]
           w == PairMergeValue(G, a, b)
           F1 == [s \in D |-> IF s \in {a, c} THEN 0 ELSE PairValues[s]]
           F2 == [s \in D |-> IF s \in {b, d} THEN 0 ELSE F1[s]]
<1>1. /\ IsFiniteSet(D) /\ D \subseteq Nat \ {0} /\ a \in D /\ b \in D
      /\ a \in Live(G) /\ b \in Live(G)
      /\ \A s \in D :
            /\ PairValues[s] = v(s) /\ v(s) \in Nat
            /\ sgPair[s] = 0 => v(s) = 0
            /\ sgPair[s] # 0 => sgPair[s] \in D /\ sgPair[s] # s /\ sgPair[sgPair[s]] = s
                                /\ v(sgPair[s]) = v(s)
    BY ValuesOfPairs
<1>2. w \in Nat /\ w = PairMergeValue(G, b, a)
  <2>1. cur \in DOMAIN groups  BY DEF PairInv
  <2> QED  BY <1>1, <2>1, MergeValue
<1>3. \A s \in D : f[s] = IF s = a THEN b ELSE IF s = b THEN a
                          ELSE IF s \in {c, d} THEN 0 ELSE sgPair[s]
  <2> SUFFICES ASSUME NEW s \in D
               PROVE  f[s] = IF s = a THEN b ELSE IF s = b THEN a
                             ELSE IF s \in {c, d} THEN 0 ELSE sgPair[s]
      OBVIOUS
  <2>1. f[s] = CASE s = a -> b [] s = b -> a [] s \in {c, d} \ {a, b} -> 0 [] OTHER -> sgPair[s]
      BY DEF Paired
  <2> HIDE DEF f, c, d
  <2>2. CASE s = a  BY <2>1, <2>2
  <2>3. CASE s # a /\ s = b  BY <2>1, <2>3
  <2>4. CASE s # a /\ s # b /\ s \in {c, d}  BY <2>1, <2>4
  <2>5. CASE s # a /\ s # b /\ s \notin {c, d}  BY <2>1, <2>5
  <2> QED  BY <2>2, <2>3, <2>4, <2>5
<1>4. SumOver(PairValues, D) \in Int
  <2>1. \A s \in D : PairValues[s] \in Int  BY <1>1
  <2> QED  BY <1>1, <2>1, SumIsInt
<1>5. PairSetValue(a, b) = IF c = b THEN 0 ELSE w - v(a) - v(b)  BY DEF PairSetValue
<1>6. \A s \in D : New[s] = IF f[s] = 0 THEN 0 ELSE PairMergeValue(G, s, f[s])  OBVIOUS
<1>7. CASE c = b
  <2>1. d = a  BY <1>1, <1>7
  <2>2. \A s \in D : f[s] = sgPair[s]
    <3> HIDE DEF f
    <3> QED  BY <1>3, <1>7, <2>1
  <2>3. \A s \in D : New[s] = PairValues[s]
    <3> HIDE DEF f, New
    <3> QED  BY <1>1, <1>6, <2>2 DEF ValueOfPair
  <2>4. SumOver(New, D) = SumOver(PairValues, D)
    <3> HIDE DEF New, D
    <3> QED  BY <1>1, <2>3, SumAgrees
  <2> QED  BY <1>4, <1>5, <1>7, <2>4
<1>8. CASE c # b
  <2>1. \A s \in D : F1[s] = IF s \in {a, c} THEN 0 ELSE PairValues[s]  OBVIOUS
  <2>2. \A s \in D : F2[s] = IF s \in {b, d} THEN 0 ELSE F1[s]  OBVIOUS
  <2>3. d # a /\ (c # 0 => c # d) /\ (d # 0 => d # c)  BY <1>1, <1>8
  <2>4. SumOver(F1, D) = SumOver(PairValues, D) - 2 * v(a)
    <3>1. (c \in D /\ c # a /\ PairValues[c] = PairValues[a]) \/ (c \notin D /\ PairValues[a] = 0)
        BY <1>1
    <3>2. IsFiniteSet(D) /\ a \in D /\ \A s \in D : PairValues[s] \in Int  BY <1>1
    <3> HIDE DEF D, c, F1
    <3>3. SumOver(F1, D) = SumOver(PairValues, D) - 2 * PairValues[a]
        BY <2>1, <3>1, <3>2, SumZeroed
    <3> QED  BY <1>1, <3>3
  <2> HIDE DEF F1
  <2>5. F1[b] = v(b) /\ (d # 0 => F1[d] = v(b)) /\ \A s \in D : F1[s] \in Int
      BY <1>1, <1>8, <2>1, <2>3
  <2>6. SumOver(F1, D) \in Int /\ SumOver(F2, D) = SumOver(F1, D) - 2 * v(b)
    <3>1. (d \in D /\ d # b /\ F1[d] = F1[b]) \/ (d \notin D /\ F1[b] = 0)  BY <1>1, <2>5
    <3>2. IsFiniteSet(D) /\ b \in D /\ \A s \in D : F1[s] \in Int  BY <1>1, <2>5
    <3> HIDE DEF D, d, F2
    <3>3. SumOver(F1, D) \in Int /\ SumOver(F2, D) = SumOver(F1, D) - 2 * F1[b]
        BY <2>2, <3>1, <3>2, SumZeroed
    <3> QED  BY <2>5, <3>3
  <2> HIDE DEF F2
  <2>7. F2[a] = 0 /\ F2[b] = 0 /\ \A s \in D : F2[s] \in Int
      BY <1>1, <1>8, <2>1, <2>2, <2>3, <2>5
  <2> HIDE DEF f, New
  <2>8. New[a] = w /\ New[b] = w
    <3>1. f[a] = b /\ f[b] = a /\ a # 0 /\ b # 0  BY <1>1, <1>3
    <3> QED  BY <1>1, <1>2, <1>6, <3>1
  <2>9. ASSUME NEW s \in D \ {a, b}  PROVE New[s] = F2[s]
    <3>1. CASE s \in {c, d}  BY <1>3, <1>6, <2>1, <2>2, <3>1
    <3>2. CASE s \notin {c, d}
      <4>1. f[s] = sgPair[s] /\ F2[s] = v(s)  BY <1>1, <1>3, <2>1, <2>2, <3>2
      <4> QED  BY <1>6, <4>1 DEF ValueOfPair
    <3> QED  BY <3>1, <3>2
  <2>10. SumOver(F2, D) \in Int /\ SumOver(New, D) = SumOver(F2, D) + 2 * w
    <3>1. \A s \in D : F2[s] \in Int /\ New[s] \in Int  BY <1>2, <2>7, <2>8, <2>9
    <3>2. \A s \in D \ {a, b} : F2[s] = New[s]  BY <2>9
    <3>4. IsFiniteSet(D) /\ a \in D /\ b \in D /\ a # b  BY <1>1
    <3> HIDE DEF D
    <3>3. /\ SumOver(F2, D) \in Int
          /\ SumOver(New, D) = SumOver(F2, D) - F2[a] - F2[b] + New[a] + New[b]
        BY <3>1, <3>2, <3>4, SumChanges
    <3> HIDE DEF w
    <3> QED  BY <1>2, <2>7, <2>8, <3>3
  <2>11. v(a) \in Nat /\ v(b) \in Nat  BY <1>1
  <2> DEFINE s0 == SumOver(PairValues, D)
             s1 == SumOver(F1, D)
             s2 == SumOver(F2, D)
             s3 == SumOver(New, D)
             va == v(a)
             vb == v(b)
             gain == PairSetValue(a, b)
  <2>12. /\ s0 \in Int /\ s1 = s0 - 2 * va /\ s2 = s1 - 2 * vb /\ s3 = s2 + 2 * w
         /\ gain = w - va - vb /\ va \in Nat /\ vb \in Nat /\ w \in Nat
      BY <1>2, <1>4, <1>5, <1>8, <2>4, <2>6, <2>10, <2>11
  <2> HIDE DEF s0, s1, s2, s3, va, vb, gain, w
  <2>13. gain \in Int /\ s3 = s0 + 2 * gain  BY <2>12
  <2>14. PairSetValue(a, b) \in Int /\ SumOver(New, D) = SumOver(PairValues, D) + 2 * PairSetValue(a, b)
      BY <2>13 DEF gain, s0, s3
  <2> QED  BY <1>4, <2>14 DEF New, f
<1> QED  BY <1>7, <1>8

\* As many as may be merged are two at least, all different.
LEMMA SelectValues ==
    ASSUME Partitioned, SelectCandidates
    PROVE  ValueInv'
<1> DEFINE c == Min(LargeGroups)
           g == groups[c]
<1>1. PICK order \in SortedOrders(groups[cur']) :
        /\ toMerge' = Candidates(groups[cur'], order)
        /\ cur' = c /\ sgPair' = [s \in DOMAIN groups[cur'].subgroups |-> 0]
        /\ pairCnt' = 0 /\ totalValue' = 0 /\ valueChange' = 0 /\ passes' = 1 /\ pos' = 1
        /\ groups' = groups /\ LargeGroups # {} /\ phase' = "pair"
    BY DEF SelectCandidates, Goto
<1>2. c \in LargeGroups
  <2>1. LargeGroups \subseteq Nat
    <3>1. DOMAIN groups = 1 .. Len(groups)  BY LenProperties DEF Partitioned
    <3> QED  BY <3>1 DEF LargeGroups
  <2> QED  BY <1>1, <2>1, MinOfNat
<1>3. c \in DOMAIN groups /\ g.cnt > MaxSubgroups  BY <1>2 DEF LargeGroups
<1>4. /\ g.cnt = Cardinality(Live(g)) /\ g.cnt \in Nat /\ IsFiniteSet(DOMAIN g.subgroups)
    BY <1>3, GroupFacts
<1> HIDE DEF c
<1>5. /\ order \in [1 .. g.cnt -> Live(g)]
      /\ \A i, j \in 1 .. g.cnt : i # j => order[i] # order[j]
    BY <1>1, <1>4 DEF SortedOrders, SetToSeqs
<1>6. order \in Seq(Live(g)) /\ Len(order) = g.cnt  BY <1>4, <1>5, FunctionIsSeq
<1> DEFINE K == {n \in 0 .. Len(order) : g.cnt - n \div 2 >= MaxSubgroups}
           k == Max(K)
<1>7. k \in K /\ k >= 2
  <2>1. g.cnt >= 2 /\ g.cnt - 1 >= MaxSubgroups  BY <1>3, <1>4, MergeAssumption
  <2>2. 2 \div 2 = 1  OBVIOUS
  <2>3. 2 \in K  BY <1>4, <1>6, <2>1, <2>2
  <2>4. K \subseteq 0 .. g.cnt  BY <1>6
  <2> HIDE DEF K
  <2> QED  BY <1>4, <2>3, <2>4, MaxBelow
<1>8. k \in 0 .. g.cnt /\ k >= 2  BY <1>6, <1>7
<1>9. toMerge' = SubSeq(order, 1, k)  BY <1>1 DEF Candidates
<1> HIDE DEF k, g
<1>10. Len(toMerge') = k /\ \A i \in 1 .. k : toMerge'[i] = order[i]
  <2>1. \A n \in 1 .. k : order[n] \in Live(g)  BY <1>4, <1>5, <1>8
  <2>2. k \in Int /\ 1 <= k  BY <1>4, <1>8
  <2> DEFINE cut == SubSeq(order, 1, k)
  <2>3. cut \in Seq(Live(g)) /\ Len(cut) = k - 1 + 1 /\ \A i \in 1 .. k - 1 + 1 : cut[i] = order[1 + i - 1]
      BY <2>1, <2>2, SubSeqProperties
  <2> HIDE DEF cut
  <2>4. Len(cut) = k /\ \A i \in 1 .. k : cut[i] = order[i]  BY <2>2, <2>3
  <2> QED  BY <1>9, <2>4 DEF cut
<1>11. DOMAIN toMerge' = 1 .. k
  <2>1. toMerge' \in Seq(Live(g))
    <3>1. \A n \in 1 .. k : order[n] \in Live(g)  BY <1>4, <1>5, <1>8
    <3>2. k \in Int /\ 1 <= k  BY <1>4, <1>8
    <3> QED  BY <1>9, <3>1, <3>2, SubSeqProperties
  <2> QED  BY <1>10, <2>1, LenProperties
<1>12. IsInjective(toMerge')
  <2> SUFFICES ASSUME NEW i \in 1 .. k, NEW j \in 1 .. k, toMerge'[i] = toMerge'[j]  PROVE i = j
      BY <1>11 DEF IsInjective
  <2>1. i \in 1 .. g.cnt /\ j \in 1 .. g.cnt  BY <1>4, <1>8
  <2> QED  BY <1>5, <1>10, <2>1
<1>13. sgPair' = [s \in DOMAIN g.subgroups |-> 0]  BY <1>1 DEF g
<1>14. PairedUp' = {}  BY <1>13 DEF PairedUp
<1>15. \A s \in DOMAIN sgPair' : PairValues'[s] = 0  BY <1>13 DEF PairValues, ValueOfPair
<1>16. SumOver(PairValues', DOMAIN sgPair') = 0
  <2>1. IsFiniteSet(DOMAIN sgPair')  BY <1>4, <1>13
  <2> QED  BY <1>15, <2>1, SumOfZeros
<1>17. (2 * totalValue = SumOver(PairValues, DOMAIN sgPair))'  BY <1>1, <1>16 DEF SumOver, Partial
<1>18. IsInjective(toMerge)'  BY <1>12 DEF IsInjective
<1>19. /\ totalValue' \in Int /\ valueChange' \in Nat /\ passes' \in Nat \ {0}
       /\ passes' + valueChange' <= totalValue' + 1 /\ ~(pos' > 1 \/ passes' > 1)
    BY <1>1
<1> QED  BY <1>1, <1>8, <1>10, <1>14, <1>17, <1>18, <1>19 DEF ValueInv

\* The first subgroup of the first pass finds a partner: nothing is lost with any.
LEMMA FirstFindsPartner ==
    ASSUME GraphInv, Partitioned, PairInv, ValueInv, phase = "pair", pos = 1, passes = 1
    PROVE  BestPartner(toMerge[pos]) # {}
<1> DEFINE a == toMerge[1]
           gain(i) == PairSetValue(a, toMerge[i])
           usable == {i \in DOMAIN toMerge : toMerge[i] # a /\ gain(i) >= 0}
           best == {i \in usable : \A j \in usable : gain(j) <= gain(i)}
           m == 1 + Cardinality(DOMAIN G.subgroups)
<1>1. /\ Len(toMerge) >= 2 /\ IsInjective(toMerge) /\ PairedUp = {}  BY DEF ValueInv
<1>2. /\ ToSet(toMerge) \subseteq Live(G) /\ Live(G) \subseteq DOMAIN sgPair
      /\ IsFiniteSet(DOMAIN G.subgroups) /\ DOMAIN sgPair \subseteq Nat \ {0}
    BY ValuesOfPairs
<1>3. /\ DOMAIN toMerge = 1 .. Len(toMerge) /\ Len(toMerge) \in Nat /\ cur \in DOMAIN groups
    BY LenProperties DEF PairInv
<1>4. \A i \in DOMAIN toMerge : toMerge[i] \in Live(G) /\ sgPair[toMerge[i]] = 0 /\ toMerge[i] # 0
  <2> SUFFICES ASSUME NEW i \in DOMAIN toMerge
               PROVE  toMerge[i] \in Live(G) /\ sgPair[toMerge[i]] = 0 /\ toMerge[i] # 0
      OBVIOUS
  <2>1. toMerge[i] \in Live(G)  BY <1>2 DEF ToSet
  <2> QED  BY <1>1, <1>2, <2>1 DEF PairedUp
<1>5. 1 \in DOMAIN toMerge /\ 2 \in DOMAIN toMerge /\ toMerge[2] # a
  <2>1. 1 \in DOMAIN toMerge /\ 2 \in DOMAIN toMerge  BY <1>1, <1>3
  <2>2. toMerge[1] # toMerge[2]  BY <1>1, <2>1 DEF IsInjective
  <2> QED  BY <2>1, <2>2
<1>6. \A i \in DOMAIN toMerge : gain(i) \in 0 .. m
  <2> SUFFICES ASSUME NEW i \in DOMAIN toMerge  PROVE gain(i) \in 0 .. m  OBVIOUS
  <2> DEFINE b == toMerge[i]
             val == PairMergeValue(G, a, b)
  <2>1. a \in Live(G) /\ b \in Live(G) /\ sgPair[a] = 0 /\ sgPair[b] = 0 /\ b # 0  BY <1>4, <1>5
  <2>2. gain(i) = val - 0 - 0  BY <2>1 DEF PairSetValue, ValueOfPair
  <2> HIDE DEF a, b
  <2>3. val \in Nat /\ val <= m  BY <1>3, <2>1, MergeValue
  <2>4. Cardinality(DOMAIN G.subgroups) \in Nat  BY <1>2, FS_CardinalityType
  <2> HIDE DEF val
  <2> QED  BY <2>2, <2>3, <2>4
<1>7. m \in Nat
  <2>1. Cardinality(DOMAIN G.subgroups) \in Nat  BY <1>2, FS_CardinalityType
  <2> QED  BY <2>1
<1> HIDE DEF a, m, gain
<1> DEFINE T == {gain(i) : i \in usable}
<1>8. 2 \in usable  BY <1>5, <1>6, <1>7
<1>9. T \subseteq 0 .. m /\ T # {}  BY <1>6, <1>8
<1>10. Max(T) \in T /\ \A x \in T : Max(T) >= x
  <2> HIDE DEF T
  <2> QED  BY <1>7, <1>9, MaxBelow
<1>11. PICK i \in usable : Max(T) = gain(i)  BY <1>10
<1>12. \A j \in usable : gain(j) <= gain(i)
  <2> SUFFICES ASSUME NEW j \in usable  PROVE gain(j) <= gain(i)  OBVIOUS
  <2>1. gain(j) \in T  OBVIOUS
  <2>2. gain(i) >= gain(j)  BY <1>10, <1>11, <2>1
  <2>3. gain(i) \in 0 .. m /\ gain(j) \in 0 .. m  BY <1>6
  <2> HIDE DEF T
  <2> QED  BY <1>7, <2>2, <2>3
<1>13. best # {}
  <2>1. i \in best  BY <1>12
  <2> QED  BY <2>1
<1>14. BestPartner(a) = IF best = {} THEN {} ELSE {toMerge[Min(best)]}  BY DEF BestPartner, gain
<1> HIDE DEF best
<1> QED  BY <1>13, <1>14 DEF a
\* One search for a partner, whether it finds one or not.
LEMMA PairStepValues ==
    ASSUME GraphInv, Partitioned, PairInv, ValueInv, PairStep
    PROVE  ValueInv'
<1> DEFINE a == toMerge[pos]
           D == DOMAIN sgPair
<1>1. /\ phase = "pair" /\ phase' = "pair" /\ pos <= Len(toMerge) /\ pos' = pos + 1
      /\ UNCHANGED <<groups, cur, toMerge, passes>>
      /\ IF BestPartner(a) = {}
         THEN UNCHANGED <<sgPair, totalValue, valueChange, pairCnt>>
         ELSE \E b \in BestPartner(a) :
                /\ sgPair' = Paired(a, b)
                /\ totalValue' = totalValue + PairSetValue(a, b)
                /\ valueChange' = valueChange + PairSetValue(a, b)
    BY DEF PairStep, Goto
<1>2. /\ Len(toMerge) >= 2 /\ IsInjective(toMerge)
      /\ totalValue \in Int /\ valueChange \in Nat /\ passes \in Nat \ {0}
      /\ 2 * totalValue = SumOver(PairValues, D)
      /\ passes + valueChange <= totalValue + 1
      /\ pos > 1 \/ passes > 1 => pairCnt >= 1
    BY <1>1 DEF ValueInv
<1>3. pos \in Nat \ {0} /\ DOMAIN toMerge = 1 .. Len(toMerge) /\ Len(toMerge) \in Nat
    BY LenProperties DEF PairInv
<1>4. (Len(toMerge) >= 2 /\ IsInjective(toMerge))'  BY <1>1, <1>2 DEF IsInjective
<1>5. ~(pos' = 1)  BY <1>1, <1>3
<1>6. CASE BestPartner(a) = {}
  <2>1. UNCHANGED <<sgPair, totalValue, valueChange, pairCnt>>  BY <1>1, <1>6
  <2>2. ~(pos = 1 /\ passes = 1)  BY <1>1, <1>6, FirstFindsPartner
  <2>3. pairCnt' >= 1  BY <1>2, <1>3, <2>1, <2>2
  <2>4. (2 * totalValue = SumOver(PairValues, DOMAIN sgPair))'
    <3>1. PairValues' = PairValues
        BY <1>1, <2>1 DEF PairValues, ValueOfPair, PairMergeValue, G
    <3> QED  BY <1>2, <2>1, <3>1 DEF SumOver, Partial
  <2> QED  BY <1>1, <1>2, <1>4, <1>5, <2>1, <2>3, <2>4 DEF ValueInv
<1>7. ASSUME NEW b \in BestPartner(a), sgPair' = Paired(a, b),
             totalValue' = totalValue + PairSetValue(a, b),
             valueChange' = valueChange + PairSetValue(a, b)
      PROVE  ValueInv'
  <2>1. pos \in DOMAIN toMerge /\ a \in ToSet(toMerge)
    <3>1. pos \in DOMAIN toMerge  BY <1>1, <1>3
    <3> QED  BY <3>1 DEF ToSet
  <2>2. b \in ToSet(toMerge) /\ b # a /\ PairSetValue(a, b) >= 0
    <3> DEFINE gain(i) == PairSetValue(a, toMerge[i])
               usable == {i \in DOMAIN toMerge : toMerge[i] # a /\ gain(i) >= 0}
               best == {i \in usable : \A j \in usable : gain(j) <= gain(i)}
    <3>1. best # {} /\ b = toMerge[Min(best)]  BY <1>7 DEF BestPartner
    <3>2. /\ best \subseteq {i \in DOMAIN toMerge : toMerge[i] # a /\ PairSetValue(a, toMerge[i]) >= 0}
          /\ best \subseteq Nat
        BY <1>3
    <3> HIDE DEF best
    <3>3. Min(best) \in best  BY <3>1, <3>2, MinOfNat
    <3>4. Min(best) \in DOMAIN toMerge /\ b # a /\ PairSetValue(a, b) >= 0  BY <3>1, <3>2, <3>3
    <3> QED  BY <3>1, <3>4 DEF ToSet
  <2> HIDE DEF a
  <2> DEFINE gain == PairSetValue(a, b)
             old == SumOver(PairValues, D)
             New == [s \in D |-> IF Paired(a, b)[s] = 0 THEN 0
                                 ELSE PairMergeValue(G, s, Paired(a, b)[s])]
             new == SumOver(New, D)
  <2>3. gain \in Int /\ old \in Int /\ new = old + 2 * gain  BY <2>1, <2>2, PairedValue
  <2>4. DOMAIN sgPair' = D  BY <1>7 DEF Paired
  <2>5. PairValues' = New
    <3>1. G' = G  BY <1>1 DEF G
    <3> QED  BY <1>7, <2>4, <3>1 DEF PairValues, ValueOfPair, PairMergeValue
  <2>6. gain >= 0  BY <2>2
  <2>7. /\ totalValue' = totalValue + gain /\ valueChange' = valueChange + gain
        /\ 2 * totalValue = old
      BY <1>2, <1>7
  <2> HIDE DEF gain, old, new
  <2>8. /\ totalValue' \in Int /\ valueChange' \in Nat /\ passes' \in Nat \ {0}
        /\ 2 * totalValue' = new /\ passes' + valueChange' <= totalValue' + 1
      BY <1>1, <1>2, <2>3, <2>6, <2>7
  <2>9. (2 * totalValue = SumOver(PairValues, DOMAIN sgPair))'
    <3>1. new = SumOver(PairValues', DOMAIN sgPair')  BY <2>4, <2>5 DEF new
    <3> QED  BY <2>8, <3>1 DEF SumOver, Partial
  <2>10. pairCnt' >= 1
    <3>1. pairCnt' \in Int /\ 2 * pairCnt' = Cardinality(PairedUp')
      <4>1. PairInv'  BY PairStepPairs
      <4> QED  BY <4>1 DEF PairInv
    <3>2. IsFiniteSet(D) /\ D \subseteq Nat \ {0} /\ a \in D /\ b \in D  BY <2>1, <2>2, ValuesOfPairs
    <3>3. sgPair'[a] = b  BY <1>7, <3>2 DEF Paired
    <3>4. a \in PairedUp'  BY <2>4, <3>2, <3>3 DEF PairedUp
    <3>5. PairedUp' \subseteq D  BY <2>4 DEF PairedUp
    <3>6. IsFiniteSet(PairedUp')  BY <3>2, <3>5, FS_Subset
    <3>7. Cardinality(PairedUp') \in Nat /\ Cardinality(PairedUp') # 0
        BY <3>4, <3>6, FS_CardinalityType, FS_EmptySet
    <3> QED  BY <3>1, <3>7
  <2> QED  BY <1>1, <1>4, <1>5, <2>8, <2>9, <2>10 DEF ValueInv
<1> QED  BY <1>1, <1>6, <1>7

\* A pass that gained makes room for another one; one that did not is the last.
LEMMA EndPassValues ==
    ASSUME PairInv, ValueInv, EndPass
    PROVE  ValueInv'
<1>1. /\ phase = "pair" /\ pos > Len(toMerge) /\ pos' = 1
      /\ UNCHANGED <<groups, cur, toMerge, sgPair, totalValue, pairCnt>>
      /\ \/ phase' = "join"
         \/ phase' = "pair" /\ valueChange # 0 /\ valueChange' = 0 /\ passes' = passes + 1
    BY DEF EndPass, Goto
<1>2. /\ Len(toMerge) >= 2 /\ IsInjective(toMerge)
      /\ totalValue \in Int /\ valueChange \in Nat /\ passes \in Nat \ {0}
      /\ 2 * totalValue = SumOver(PairValues, DOMAIN sgPair)
      /\ passes + valueChange <= totalValue + 1
      /\ pos > 1 \/ passes > 1 => pairCnt >= 1
    BY <1>1 DEF ValueInv
<1>3. pos \in Nat /\ Len(toMerge) \in Nat  BY LenProperties DEF PairInv
<1>4. pairCnt' >= 1 /\ pairCnt' \in Int  BY <1>1, <1>2, <1>3 DEF PairInv
<1>5. CASE phase' = "join"  BY <1>4, <1>5 DEF ValueInv
<1>6. CASE phase' = "pair" /\ valueChange # 0 /\ valueChange' = 0 /\ passes' = passes + 1
  <2>1. (Len(toMerge) >= 2 /\ IsInjective(toMerge))'  BY <1>1, <1>2 DEF IsInjective
  <2>2. (2 * totalValue = SumOver(PairValues, DOMAIN sgPair))'
    <3>1. PairValues' = PairValues
        BY <1>1 DEF PairValues, ValueOfPair, PairMergeValue, G
    <3> QED  BY <1>1, <1>2, <3>1 DEF SumOver, Partial
  <2>3. passes' \in Nat \ {0} /\ ~(passes' = 1) /\ passes' + valueChange' <= totalValue' + 1
      BY <1>1, <1>2, <1>6
  <2> QED  BY <1>1, <1>2, <1>4, <1>6, <2>1, <2>2, <2>3 DEF ValueInv
<1> QED  BY <1>1, <1>5, <1>6

\* The other steps are outside of the passes, or leave what was found.
LEMMA ValuesKept ==
    ASSUME GraphInv, MergeInv, ValueInv, [Next]_vars
    PROVE  ValueInv'
<1>1. phase = "pair" => Partitioned /\ PairInv  BY DEF MergeInv, Grouping
<1>2. phase = "select" => Partitioned  BY DEF MergeInv, Grouping
<1>3. CASE SelectCandidates
  <2>1. Partitioned  BY <1>2, <1>3 DEF SelectCandidates
  <2> QED  BY <1>3, <2>1, SelectValues
<1>4. CASE PairStep
  <2>1. Partitioned /\ PairInv  BY <1>1, <1>4 DEF PairStep
  <2> QED  BY <1>4, <2>1, PairStepValues
<1>5. CASE EndPass
  <2>1. PairInv  BY <1>1, <1>5 DEF EndPass
  <2> QED  BY <1>5, <2>1, EndPassValues
<1>6. CASE JoinPair  BY <1>6 DEF JoinPair, Goto, pairVars, ValueInv
<1>7. CASE UNCHANGED vars
  <2>1. UNCHANGED <<phase, groups, cur, pos, toMerge, sgPair, totalValue, pairCnt, valueChange, passes>>
      BY <1>7 DEF vars, prebuildVars, mergeVars, pairVars
  <2>2. PairValues' = PairValues  BY <2>1 DEF PairValues, ValueOfPair, PairMergeValue, G
  <2> QED  BY <2>1, <2>2 DEF ValueInv, SumOver, Partial, PairedUp, IsInjective
<1>8. CASE PrebuildNext /\ UNCHANGED mergeVars
  <2>1. phase' \notin {"pair", "join"}
      BY <1>8 DEF MergeInv, PrebuildNext, PrebuildStep, prebuildVars, StartPrebuild, CopyTasks,
         ResolveSubGraph, ReturnFromGraph, ValidateTask, Validated, NormalizeLevel, NormalizeEdges,
         BeforeMerging
  <2> QED  BY <2>1 DEF ValueInv
<1>9. CASE StartMerging \/ GroupTask \/ Grouped \/ EndRound \/ AllInLimit \/ SmallStep
           \/ EndSmallPass \/ WriteCompiled
  <2>1. phase' \notin {"pair", "join"}
      BY <1>9 DEF StartMerging, GroupTask, Grouped, EndRound, AllInLimit, SmallStep, EndSmallPass,
         WriteCompiled, Goto
  <2> QED  BY <2>1 DEF ValueInv
<1> QED  BY <1>3, <1>4, <1>5, <1>6, <1>7, <1>8, <1>9 DEF Next, MergeStep
LEMMA ValuesHold == Spec => []ValueInv
<1>1. PrebuildInit => ValueInv  BY DEF PrebuildInit, ValueInv
<1>2. GraphInv /\ MergeInv /\ ValueInv /\ [Next]_vars => ValueInv'  BY ValuesKept
<1> QED  BY <1>1, <1>2, GraphIsTyped, MergeIsInvariant, PTL DEF Spec

\* pairCnt and totalValue, which are kept up by differences (642-660), are the
\* number and the value of the pairs through every making and breaking of one;
\* every pass but the one at work has gained, so there are no more of them than
\* the pairs are worth, and the last one leaves a pair to merge (662-676), for
\* every graph of exclusions.
THEOREM PairsAreAccounted == Spec => []PairsAccounted
<1>1. GraphInv /\ MergeInv /\ ValueInv => PairsAccounted
  <2> SUFFICES ASSUME GraphInv, MergeInv, ValueInv  PROVE PairsAccounted  OBVIOUS
  <2>1. phase = "join" => pairCnt > 0
    <3> SUFFICES ASSUME phase = "join"  PROVE pairCnt > 0  OBVIOUS
    <3>1. pairCnt \in Nat \ {0}  BY DEF ValueInv
    <3> QED  BY <3>1
  <2>2. ASSUME phase = "pair"
        PROVE  /\ \A s \in DOMAIN sgPair : sgPair[s] # 0 =>
                    s \in ToSet(toMerge) /\ sgPair[s] # s /\ sgPair[sgPair[s]] = s
               /\ 2 * pairCnt = Cardinality({s \in DOMAIN sgPair : sgPair[s] # 0})
               /\ 2 * totalValue = MapThenSumSet(ValueOfPair, DOMAIN sgPair)
               /\ passes <= totalValue + 1
    <3>1. Partitioned /\ PairInv  BY <2>2 DEF MergeInv, Grouping
    <3>2. \A s \in DOMAIN sgPair : sgPair[s] # 0 =>
              s \in ToSet(toMerge) /\ sgPair[s] # s /\ sgPair[sgPair[s]] = s
        BY <3>1 DEF PairInv, PairedUp
    <3>3. 2 * pairCnt = Cardinality({s \in DOMAIN sgPair : sgPair[s] # 0})
        BY <3>1 DEF PairInv, PairedUp
    <3>4. 2 * totalValue = MapThenSumSet(ValueOfPair, DOMAIN sgPair)
      <4>1. IsFiniteSet(DOMAIN sgPair)  BY <3>1, ValuesOfPairs
      <4> QED  BY <2>2, <4>1, ValuesSummed DEF ValueInv
    <3>5. passes <= totalValue + 1  BY <2>2 DEF ValueInv
    <3> QED  BY <3>2, <3>3, <3>4, <3>5
  <2> QED  BY <2>1, <2>2 DEF PairsAccounted
<1> QED  BY <1>1, ValuesHold, GraphIsTyped, MergeIsInvariant, PTL

------------------------------------------------------------------------------
(***************************************************************************)
(* Pairs in their order.                                                   *)
(***************************************************************************)
Upto(P, a) == {b \in P : NotAfter(b, a)}

LEMMA NotAfterOrders ==
    ASSUME NEW P, P \subseteq Nat \X Nat
    PROVE  /\ \A a \in P : NotAfter(a, a)
           /\ \A a, b \in P : NotAfter(a, b) \/ NotAfter(b, a)
           /\ \A a, b \in P : NotAfter(a, b) /\ NotAfter(b, a) => a = b
           /\ \A a, b, c \in P : NotAfter(a, b) /\ NotAfter(b, c) => NotAfter(a, c)
<1>1. \A a \in P : a = <<a[1], a[2]>> /\ a[1] \in Nat /\ a[2] \in Nat  OBVIOUS
<1>2. \A i, k, j, l \in Nat :
        /\ (i < k \/ (i = k /\ j <= l)) \/ (k < i \/ (k = i /\ l <= j))
        /\ (i < k \/ (i = k /\ j <= l)) /\ (k < i \/ (k = i /\ l <= j)) => i = k /\ j = l
    OBVIOUS
<1>3. ASSUME NEW a \in P, NEW b \in P  PROVE NotAfter(a, b) \/ NotAfter(b, a)
    BY <1>1, <1>2 DEF NotAfter
<1>4. ASSUME NEW a \in P, NEW b \in P, NotAfter(a, b), NotAfter(b, a)  PROVE a = b
  <2>1. a[1] = b[1] /\ a[2] = b[2]  BY <1>1, <1>2, <1>4 DEF NotAfter
  <2> QED  BY <1>1, <2>1
<1>5. \A i, k, m, j, l, n \in Nat :
        (i < k \/ (i = k /\ j <= l)) /\ (k < m \/ (k = m /\ l <= n)) => i < m \/ (i = m /\ j <= n)
    OBVIOUS
<1>6. ASSUME NEW a \in P, NEW b \in P, NEW c \in P, NotAfter(a, b), NotAfter(b, c)  PROVE NotAfter(a, c)
  <2>1. /\ a[1] \in Nat /\ a[2] \in Nat /\ b[1] \in Nat /\ b[2] \in Nat /\ c[1] \in Nat /\ c[2] \in Nat
        /\ a[1] < b[1] \/ (a[1] = b[1] /\ a[2] <= b[2])
        /\ b[1] < c[1] \/ (b[1] = c[1] /\ b[2] <= c[2])
      BY <1>1, <1>6 DEF NotAfter
  <2>2. a[1] < c[1] \/ (a[1] = c[1] /\ a[2] <= c[2])  BY ONLY <1>5, <2>1
  <2> QED  BY <2>2 DEF NotAfter
<1> QED  BY <1>3, <1>4, <1>6

\* Each pair has a place of its own, and no place is left out.
LEMMA InOrderIs ==
    ASSUME NEW P, P \subseteq Nat \X Nat, IsFiniteSet(P)
    PROVE  /\ Cardinality(P) \in Nat /\ DOMAIN InOrder(P) = 1 .. Cardinality(P)
           /\ \A n \in DOMAIN InOrder(P) : InOrder(P)[n] \in P
           /\ \A n, m \in DOMAIN InOrder(P) : InOrder(P)[n] = InOrder(P)[m] => n = m
           /\ \A a \in P : \E n \in DOMAIN InOrder(P) : InOrder(P)[n] = a
<1>1. PICK c : c = Cardinality(P)  OBVIOUS
<1>2. c \in Nat  BY <1>1, FS_CardinalityType
<1>3. PICK rank : rank = [a \in P |-> Cardinality(Upto(P, a))]  OBVIOUS
<1>4. ASSUME NEW a \in P
      PROVE  /\ Upto(P, a) \subseteq P /\ a \in Upto(P, a) /\ IsFiniteSet(Upto(P, a))
             /\ rank[a] \in 1 .. c
  <2>1. Upto(P, a) \subseteq P /\ a \in Upto(P, a)  BY NotAfterOrders DEF Upto
  <2>2. IsFiniteSet(Upto(P, a)) /\ Cardinality(Upto(P, a)) <= c  BY <1>1, <2>1, FS_Subset
  <2>3. Cardinality(Upto(P, a)) \in Nat  BY <2>2, FS_CardinalityType
  <2>4. Cardinality(Upto(P, a)) # 0  BY <2>1, <2>2, FS_EmptySet
  <2> QED  BY <1>2, <1>3, <2>1, <2>2, <2>3, <2>4
<1>5. ASSUME NEW a \in P, NEW b \in P, NotAfter(a, b), rank[a] = rank[b]  PROVE a = b
  <2>1. Upto(P, a) \subseteq Upto(P, b)  BY <1>5, NotAfterOrders DEF Upto
  <2>2. Cardinality(Upto(P, a)) = Cardinality(Upto(P, b))  BY <1>3, <1>5
  <2>3. IsFiniteSet(Upto(P, b))  BY <1>4
  <2>4. Upto(P, a) = Upto(P, b)  BY <2>1, <2>2, <2>3, FS_Subset
  <2>5. NotAfter(b, a)  BY <1>4, <2>4 DEF Upto
  <2> QED  BY <1>5, <2>5, NotAfterOrders
<1>6. \A a, b \in P : rank[a] = rank[b] => a = b  BY <1>5, NotAfterOrders
<1>7. rank \in Injection(P, 1 .. c)  BY <1>3, <1>4, <1>6 DEF Injection, IsInjective
<1>8. IsFiniteSet(1 .. c) /\ Cardinality(1 .. c) = c
  <2>1. IsFiniteSet(1 .. c)  BY <1>2, FS_Interval
  <2>2. Cardinality(1 .. c) = c  BY <1>2, FS_Interval
  <2> QED  BY <2>1, <2>2
<1>9. rank \in Surjection(P, 1 .. c)  BY <1>1, <1>7, <1>8, FS_Injection
<1>10. \A n \in 1 .. c : \E a \in P : rank[a] = n  BY <1>9 DEF Surjection
<1>11. DOMAIN InOrder(P) = 1 .. c /\ \A n \in 1 .. c : InOrder(P)[n] = CHOOSE a \in P : rank[a] = n
  <2>1. \A n : (CHOOSE a \in P : Cardinality({b \in P : NotAfter(b, a)}) = n) = CHOOSE a \in P : rank[a] = n
      BY <1>3 DEF Upto
  <2> QED  BY <1>1, <2>1 DEF InOrder
<1>12. ASSUME NEW n \in 1 .. c  PROVE InOrder(P)[n] \in P /\ rank[InOrder(P)[n]] = n
  <2>1. \E a \in P : rank[a] = n  BY <1>10
  <2> QED  BY <1>11, <2>1
<1>13. ASSUME NEW a \in P  PROVE InOrder(P)[rank[a]] = a
  <2>1. rank[a] \in 1 .. c  BY <1>4
  <2> QED  BY <1>6, <1>12, <2>1
<1>14. \A n, m \in 1 .. c : InOrder(P)[n] = InOrder(P)[m] => n = m  BY <1>12
<1> QED  BY <1>1, <1>2, <1>4, <1>11, <1>12, <1>13, <1>14

\* The pairs of a number and one of those that go with it.
LEMMA PairsOf ==
    ASSUME NEW N \in Nat, NEW R \in [1 .. N -> SUBSET Nat], \A i \in 1 .. N : IsFiniteSet(R[i]),
           NEW P, P = UNION {{i} \X R[i] : i \in 1 .. N}
    PROVE  /\ P \subseteq Nat \X Nat /\ IsFiniteSet(P)
           /\ \A a \in P : a[1] \in 1 .. N /\ a[2] \in R[a[1]]
           /\ \A i \in 1 .. N : \A s \in R[i] : <<i, s>> \in P
<1>1. P \subseteq Nat \X Nat /\ \A a \in P : a[1] \in 1 .. N /\ a[2] \in R[a[1]]
  <2> SUFFICES ASSUME NEW a \in P  PROVE a \in Nat \X Nat /\ a[1] \in 1 .. N /\ a[2] \in R[a[1]]
      OBVIOUS
  <2>1. PICK i \in 1 .. N : a \in {i} \X R[i]  OBVIOUS
  <2>2. a[1] = i /\ a[2] \in R[i] /\ a = <<a[1], a[2]>>  BY <2>1
  <2>3. i \in Nat /\ a[2] \in Nat  BY <2>2
  <2> QED  BY <2>2, <2>3
<1>2. IsFiniteSet(P)
  <2>1. PICK f : f = [i \in 1 .. N |-> {i} \X R[i]]  OBVIOUS
  <2>2. PICK T : T = {{i} \X R[i] : i \in 1 .. N}  OBVIOUS
  <2>3. f \in Surjection(1 .. N, T)  BY <2>1, <2>2 DEF Surjection
  <2>4. IsFiniteSet(1 .. N)  BY FS_Interval
  <2>5. IsFiniteSet(T)  BY <2>3, <2>4, FS_Surjection
  <2>6. ASSUME NEW U \in T  PROVE IsFiniteSet(U)
    <3>1. PICK i \in 1 .. N : U = {i} \X R[i]  BY <2>2
    <3>2. IsFiniteSet({i})  BY FS_Singleton
    <3> QED  BY <3>1, <3>2, FS_Product
  <2> QED  BY <2>2, <2>5, <2>6, FS_UNION
<1>3. \A i \in 1 .. N : \A s \in R[i] : <<i, s>> \in P  OBVIOUS
<1> QED  BY <1>1, <1>2, <1>3

\* A subgroup that is left: the group it is in, and its number there.
IsLeft(sg) == sg[1] \in DOMAIN groups /\ sg[2] \in Live(groups[sg[1]])

\* The subgroups in the compiled graph, each of those that are left once.
LEMMA SubGroupsListed ==
    ASSUME Partitioned, NEW sgs, sgs = AllSubGroups
    PROVE  /\ Len(sgs) \in Nat /\ DOMAIN sgs = 1 .. Len(sgs)
           /\ \A j \in DOMAIN sgs : IsLeft(sgs[j]) /\ sgs[j] \in Nat \X Nat
           /\ \A j, l \in DOMAIN sgs : sgs[j][1] = sgs[l][1] /\ sgs[j][2] = sgs[l][2] => j = l
           /\ \A i \in DOMAIN groups : \A s \in Live(groups[i]) : \E j \in DOMAIN sgs : sgs[j] = <<i, s>>
<1>1. PICK N : N = Len(groups)  OBVIOUS
<1>2. N \in Nat /\ DOMAIN groups = 1 .. N  BY <1>1, LenProperties DEF Partitioned
<1>3. PICK R : R = [i \in 1 .. N |-> Live(groups[i])]  OBVIOUS
<1>4. \A i \in 1 .. N : R[i] \subseteq Nat /\ IsFiniteSet(R[i])  BY <1>2, <1>3, GroupFacts
<1>5. R \in [1 .. N -> SUBSET Nat]  BY <1>3, <1>4
<1>6. PICK P : P = UNION {{i} \X R[i] : i \in 1 .. N}  OBVIOUS
<1>7. /\ P \subseteq Nat \X Nat /\ IsFiniteSet(P)
      /\ \A a \in P : a[1] \in 1 .. N /\ a[2] \in R[a[1]]
      /\ \A i \in 1 .. N : \A s \in R[i] : <<i, s>> \in P
    BY <1>2, <1>4, <1>5, <1>6, PairsOf
<1>8. sgs = InOrder(P)
  <2>1. {{i} \X Live(groups[i]) : i \in DOMAIN groups} = {{i} \X R[i] : i \in 1 .. N}  BY <1>2, <1>3
  <2> QED  BY <1>6, <2>1 DEF AllSubGroups
<1>9. PICK c : c = Cardinality(P)  OBVIOUS
<1>10. /\ c \in Nat /\ DOMAIN sgs = 1 .. c
       /\ \A n \in DOMAIN sgs : sgs[n] \in P
       /\ \A n, m \in DOMAIN sgs : sgs[n] = sgs[m] => n = m
       /\ \A a \in P : \E n \in DOMAIN sgs : sgs[n] = a
    BY <1>7, <1>8, <1>9, InOrderIs
<1>11. Len(sgs) = c
  <2>1. sgs = [n \in 1 .. c |-> sgs[n]]  BY <1>8, <1>9 DEF InOrder
  <2>2. sgs \in [1 .. c -> P]  BY <1>10, <2>1
  <2> QED  BY <1>10, <2>2, FunctionIsSeq
<1>12. \A j \in DOMAIN sgs : IsLeft(sgs[j]) /\ sgs[j] \in Nat \X Nat
    BY <1>2, <1>3, <1>7, <1>10 DEF IsLeft
<1>13. \A j, l \in DOMAIN sgs : sgs[j][1] = sgs[l][1] /\ sgs[j][2] = sgs[l][2] => j = l
  <2> SUFFICES ASSUME NEW j \in DOMAIN sgs, NEW l \in DOMAIN sgs,
                      sgs[j][1] = sgs[l][1], sgs[j][2] = sgs[l][2]
               PROVE  sgs[j] = sgs[l]
      BY <1>10
  <2>1. sgs[j] = <<sgs[j][1], sgs[j][2]>> /\ sgs[l] = <<sgs[l][1], sgs[l][2]>>  BY <1>12
  <2> QED  BY <2>1
<1> QED  BY <1>2, <1>3, <1>7, <1>10, <1>11, <1>12, <1>13

\* The tasks of a subgroup that is left.
LEMMA TasksOfLeft ==
    ASSUME Partitioned, NEW sg, IsLeft(sg)
    PROVE  /\ TasksIn(sg) \in Seq(Nat) /\ ToSet(TasksIn(sg)) = Cell(sg[1], sg[2])
           /\ ToSet(TasksIn(sg)) \subseteq Vertices /\ ToSet(TasksIn(sg)) \subseteq TasksOf(groups[sg[1]])
           /\ Len(TasksIn(sg)) \in Nat \ {0} /\ DOMAIN TasksIn(sg) = 1 .. Len(TasksIn(sg))
           /\ IsInjective(TasksIn(sg)) /\ ToSet(TasksIn(sg)) # {}
<1>1. PICK g, s : g = groups[sg[1]] /\ s = sg[2]  OBVIOUS
<1>2. GroupOK(g) /\ g \in GroupRecord /\ s \in Live(g)  BY <1>1, GroupFacts DEF IsLeft
<1>3. s \in DOMAIN g.subgroups /\ TasksIn(sg) = g.subgroups[s]  BY <1>1, <1>2 DEF Live, TasksIn
<1>4. PICK t : t = TasksIn(sg)  OBVIOUS
<1>5. t \in Seq(Nat) /\ t # <<>> /\ ToSet(t) # {} /\ ToSet(t) \subseteq Vertices /\ IsInjective(t)
  <2>1. t \in Seq(Nat) /\ ToSet(t) # {}  BY <1>2, <1>3, <1>4, LiveFinite
  <2>2. t # <<>>  BY <1>2, <1>3, <1>4 DEF Live
  <2>3. ToSet(t) \subseteq Vertices /\ IsInjective(t)  BY <1>2, <1>3, <1>4 DEF GroupOK
  <2> QED  BY <2>1, <2>2, <2>3
<1>6. Len(t) \in Nat \ {0} /\ DOMAIN t = 1 .. Len(t)  BY <1>5, EmptySeq, LenProperties
<1>7. ToSet(t) = Cell(sg[1], sg[2]) /\ ToSet(t) \subseteq TasksOf(g)
    BY <1>1, <1>3, <1>4 DEF Cell, TasksOf
<1> QED  BY <1>1, <1>4, <1>5, <1>6, <1>7

\* Each task is in one subgroup.
LEMMA OneSubGroup ==
    ASSUME Partitioned, NEW sgs, sgs = AllSubGroups, NEW v \in Vertices
    PROVE  /\ \E j \in DOMAIN sgs : v \in ToSet(TasksIn(sgs[j]))
           /\ \A j, l \in DOMAIN sgs : v \in ToSet(TasksIn(sgs[j])) /\ v \in ToSet(TasksIn(sgs[l])) => j = l
<1>1. PICK i \in DOMAIN groups : v \in TasksOf(groups[i])  BY DEF Partitioned
<1>2. PICK s \in DOMAIN groups[i].subgroups : v \in ToSet(groups[i].subgroups[s])  BY <1>1 DEF TasksOf
<1>3. s \in Live(groups[i])
  <2>1. groups[i].subgroups[s] # <<>>  BY <1>2 DEF ToSet
  <2> QED  BY <2>1 DEF Live
<1>4. PICK j \in DOMAIN sgs : sgs[j] = <<i, s>>  BY <1>3, SubGroupsListed
<1>5. v \in ToSet(TasksIn(sgs[j]))  BY <1>2, <1>4 DEF TasksIn
<1>6. ASSUME NEW l \in DOMAIN sgs, NEW k \in DOMAIN sgs, v \in ToSet(TasksIn(sgs[l])), v \in ToSet(TasksIn(sgs[k]))
      PROVE  l = k
  <2>1. IsLeft(sgs[l]) /\ IsLeft(sgs[k])  BY SubGroupsListed
  <2>2. v \in TasksOf(groups[sgs[l][1]]) /\ v \in TasksOf(groups[sgs[k][1]])  BY <1>6, <2>1, TasksOfLeft
  <2>3. sgs[l][1] = sgs[k][1]  BY <2>1, <2>2 DEF Partitioned, IsLeft
  <2>4. PICK g : g = groups[sgs[l][1]]  OBVIOUS
  <2>5. GroupOK(g)  BY <2>1, <2>4 DEF Partitioned, IsLeft
  <2>6. /\ sgs[l][2] \in DOMAIN g.subgroups /\ sgs[k][2] \in DOMAIN g.subgroups
        /\ v \in ToSet(g.subgroups[sgs[l][2]]) /\ v \in ToSet(g.subgroups[sgs[k][2]])
      BY <1>6, <2>1, <2>3, <2>4 DEF IsLeft, Live, TasksIn
  <2>7. sgs[l][2] = sgs[k][2]  BY <2>5, <2>6 DEF GroupOK
  <2> QED  BY <2>3, <2>7, SubGroupsListed
<1> QED  BY <1>5, <1>6

\* The tasks in the compiled graph, each of the prebuilt ones once.
LEMMA TasksListed ==
    ASSUME Partitioned, NEW order, order = AllTasks
    PROVE  /\ Len(order) \in Nat /\ DOMAIN order = 1 .. Len(order)
           /\ \A n \in DOMAIN order : order[n] \in Vertices
           /\ \A n, m \in DOMAIN order : order[n] = order[m] => n = m
           /\ \A v \in Vertices : \E n \in DOMAIN order : order[n] = v
<1>1. PICK sgs, N : sgs = AllSubGroups /\ N = Len(sgs)  OBVIOUS
<1>2. N \in Nat /\ DOMAIN sgs = 1 .. N /\ \A j \in DOMAIN sgs : IsLeft(sgs[j])
    BY <1>1, SubGroupsListed
<1>3. PICK R : R = [j \in 1 .. N |-> DOMAIN TasksIn(sgs[j])]  OBVIOUS
<1>4. \A j \in 1 .. N : R[j] \subseteq Nat /\ IsFiniteSet(R[j])
  <2> SUFFICES ASSUME NEW j \in 1 .. N  PROVE R[j] \subseteq Nat /\ IsFiniteSet(R[j])  OBVIOUS
  <2>1. PICK n : n = Len(TasksIn(sgs[j]))  OBVIOUS
  <2>2. n \in Nat /\ R[j] = 1 .. n  BY <1>2, <1>3, <2>1, TasksOfLeft
  <2>3. IsFiniteSet(1 .. n)  BY <2>2, FS_Interval
  <2> QED  BY <2>2, <2>3
<1>5. R \in [1 .. N -> SUBSET Nat]  BY <1>3, <1>4
<1>6. PICK P : P = UNION {{j} \X R[j] : j \in 1 .. N}  OBVIOUS
<1>7. /\ P \subseteq Nat \X Nat /\ IsFiniteSet(P)
      /\ \A a \in P : a[1] \in 1 .. N /\ a[2] \in R[a[1]]
      /\ \A i \in 1 .. N : \A s \in R[i] : <<i, s>> \in P
    BY <1>2, <1>4, <1>5, <1>6, PairsOf
<1>8. PICK places, c : places = InOrder(P) /\ c = Cardinality(P)  OBVIOUS
<1>9. /\ c \in Nat /\ DOMAIN places = 1 .. c
      /\ \A n \in DOMAIN places : places[n] \in P
      /\ \A n, m \in DOMAIN places : places[n] = places[m] => n = m
      /\ \A a \in P : \E n \in DOMAIN places : places[n] = a
    BY <1>7, <1>8, InOrderIs
<1>10. order = [n \in 1 .. c |-> TasksIn(sgs[places[n][1]])[places[n][2]]]
  <2>1. DOMAIN AllSubGroups = 1 .. N /\ \A j \in 1 .. N : DOMAIN TasksIn(AllSubGroups[j]) = R[j]
      BY <1>1, <1>2, <1>3
  <2>2. {{j} \X DOMAIN TasksIn(AllSubGroups[j]) : j \in DOMAIN AllSubGroups} = {{j} \X R[j] : j \in 1 .. N}
      BY <2>1
  <2>3. InOrder(UNION {{j} \X DOMAIN TasksIn(AllSubGroups[j]) : j \in DOMAIN AllSubGroups}) = places
      BY <1>6, <1>8, <2>2
  <2>4. order = [n \in DOMAIN places |-> TasksIn(AllSubGroups[places[n][1]])[places[n][2]]]
      BY <2>3 DEF AllTasks
  <2> QED  BY <1>1, <1>9, <2>4
<1>11. ASSUME NEW n \in 1 .. c
       PROVE  /\ places[n][1] \in DOMAIN sgs /\ places[n][2] \in DOMAIN TasksIn(sgs[places[n][1]])
              /\ order[n] \in ToSet(TasksIn(sgs[places[n][1]])) /\ order[n] \in Vertices
              /\ places[n] = <<places[n][1], places[n][2]>>
  <2>1. places[n] \in P  BY <1>9
  <2>2. places[n][1] \in DOMAIN sgs /\ places[n][2] \in DOMAIN TasksIn(sgs[places[n][1]])
      BY <1>2, <1>3, <1>7, <2>1
  <2>3. order[n] \in ToSet(TasksIn(sgs[places[n][1]]))  BY <1>10, <2>2 DEF ToSet
  <2>4. ToSet(TasksIn(sgs[places[n][1]])) \subseteq Vertices  BY <1>2, <2>2, TasksOfLeft
  <2>5. places[n] = <<places[n][1], places[n][2]>>  BY <1>7, <2>1
  <2> QED  BY <2>2, <2>3, <2>4, <2>5
<1>12. ASSUME NEW n \in 1 .. c, NEW m \in 1 .. c, order[n] = order[m]  PROVE n = m
  <2>1. places[n][1] = places[m][1]  BY <1>1, <1>11, <1>12, OneSubGroup
  <2>2. PICK t : t = TasksIn(sgs[places[n][1]])  OBVIOUS
  <2>3. IsInjective(t)  BY <1>2, <1>11, <2>2, TasksOfLeft
  <2>4. /\ places[n][2] \in DOMAIN t /\ places[m][2] \in DOMAIN t
        /\ t[places[n][2]] = t[places[m][2]]
      BY <1>10, <1>11, <1>12, <2>1, <2>2
  <2>5. places[n][2] = places[m][2]  BY <2>3, <2>4 DEF IsInjective
  <2>6. places[n] = places[m]  BY <1>11, <2>1, <2>5
  <2> QED  BY <1>9, <2>6
<1>13. ASSUME NEW v \in Vertices  PROVE \E n \in 1 .. c : order[n] = v
  <2>1. PICK j \in DOMAIN sgs : v \in ToSet(TasksIn(sgs[j]))  BY <1>1, OneSubGroup
  <2>2. PICK p \in DOMAIN TasksIn(sgs[j]) : TasksIn(sgs[j])[p] = v  BY <2>1 DEF ToSet
  <2>3. <<j, p>> \in P  BY <1>2, <1>3, <1>7, <2>2
  <2>4. PICK n \in 1 .. c : places[n] = <<j, p>>  BY <1>9, <2>3
  <2> QED  BY <1>10, <2>2, <2>4
<1>14. order \in [1 .. c -> Vertices]  BY <1>10, <1>11
<1>15. Len(order) = c /\ DOMAIN order = 1 .. c  BY <1>9, <1>14, FunctionIsSeq
<1> QED  BY <1>9, <1>11, <1>12, <1>13, <1>15

------------------------------------------------------------------------------
(***************************************************************************)
(* What is written, in terms of the prebuilt tasks.                        *)
(***************************************************************************)
\* The number that each task gets.
Remap(order) == [v \in Vertices |-> (CHOOSE i \in DOMAIN order : order[i] = v) - 1]

WrittenWith(sgs, order, remap) ==
    /\ compiled.groupOf = [s \in 0 .. Len(sgs) - 1 |-> sgs[s + 1][1] - 1]
    /\ compiled.excluded = [s \in 0 .. Len(sgs) - 1 |-> MaskOf(sgs, s)]
    /\ compiled.subGroupOf = [k \in 0 .. Len(order) - 1 |->
          CHOOSE s \in 0 .. Len(sgs) - 1 : order[k + 1] \in ToSet(TasksIn(sgs[s + 1]))]
    /\ compiled.next = [k \in 0 .. Len(order) - 1 |-> {remap[v] : v \in taskGraph[order[k + 1]]}]
    /\ compiled.start = {remap[v] : v \in {v \in Vertices : StartsPending(v)}}
    /\ compiled.selfParallel = {remap[v] : v \in {v \in Vertices : v \notin exclusionGraph[v]}}
    /\ compiled.taskNum = [k \in 0 .. Len(order) - 1 |-> {1}]
    /\ compiled.entry = [i \in 0 .. Len(subGraphData) - 1 |-> remap[subGraphData[i + 1].entry]]
    /\ compiled.exit = [i \in 0 .. Len(subGraphData) - 1 |-> remap[subGraphData[i + 1].exit]]
    /\ compiled.body = [i \in 0 .. Len(subGraphData) - 1 |-> {remap[v] : v \in subGraphData[i + 1].body}]
    /\ compiled.task = [k \in 0 .. Len(order) - 1 |-> order[k + 1]]

LEMMA WrittenParts ==
    ASSUME compiled = Written, NEW sgs, sgs = AllSubGroups, NEW order, order = AllTasks,
           NEW remap, remap = Remap(order)
    PROVE  WrittenWith(sgs, order, remap)
  BY DEF Written, Remap, WrittenWith

\* The tasks K of the compiled graph are the prebuilt ones.
Renumbers(order, remap, K) ==
    /\ \A v \in Vertices : remap[v] \in K /\ order[remap[v] + 1] = v
    /\ \A k \in K : order[k + 1] \in Vertices /\ remap[order[k + 1]] = k
    /\ \A S \in SUBSET Vertices : /\ {remap[v] : v \in S} \subseteq K
                                  /\ \A k \in K : k \in {remap[v] : v \in S} <=> order[k + 1] \in S

LEMMA Renumbered ==
    ASSUME Partitioned, NEW order, order = AllTasks, NEW remap, remap = Remap(order),
           NEW K, K = 0 .. Len(order) - 1
    PROVE  Renumbers(order, remap, K)
<1>1. PICK n : n = Len(order)  OBVIOUS
<1>2. /\ n \in Nat /\ DOMAIN order = 1 .. n
      /\ \A i \in 1 .. n : order[i] \in Vertices
      /\ \A i, j \in 1 .. n : order[i] = order[j] => i = j
      /\ \A v \in Vertices : \E i \in 1 .. n : order[i] = v
    BY <1>1, TasksListed
<1>3. ASSUME NEW v \in Vertices  PROVE remap[v] \in K /\ order[remap[v] + 1] = v
  <2>1. PICK i : i = CHOOSE j \in DOMAIN order : order[j] = v  OBVIOUS
  <2>2. i \in 1 .. n /\ order[i] = v  BY <1>2, <2>1
  <2>3. remap[v] = i - 1  BY <2>1 DEF Remap
  <2>4. i - 1 \in 0 .. n - 1 /\ (i - 1) + 1 = i  BY <1>2, <2>2
  <2> QED  BY <1>1, <2>2, <2>3, <2>4
<1>4. ASSUME NEW k \in K  PROVE order[k + 1] \in Vertices /\ remap[order[k + 1]] = k
  <2>1. k + 1 \in 1 .. n /\ k \in Nat  BY <1>1, <1>2
  <2>2. order[k + 1] \in Vertices  BY <1>2, <2>1
  <2>3. PICK i : i = remap[order[k + 1]]  OBVIOUS
  <2>4. i \in K /\ order[i + 1] = order[k + 1]  BY <1>3, <2>2, <2>3
  <2>5. i + 1 \in 1 .. n /\ i \in Nat  BY <1>1, <1>2, <2>4
  <2>6. i + 1 = k + 1  BY <1>2, <2>1, <2>4, <2>5
  <2>7. i = k  BY ONLY <2>1, <2>5, <2>6
  <2> QED  BY <2>2, <2>3, <2>7
<1>5. ASSUME NEW S \in SUBSET Vertices
      PROVE  /\ {remap[v] : v \in S} \subseteq K
             /\ \A k \in K : k \in {remap[v] : v \in S} <=> order[k + 1] \in S
  <2>1. {remap[v] : v \in S} \subseteq K  BY <1>3
  <2>2. ASSUME NEW k \in K, k \in {remap[v] : v \in S}  PROVE order[k + 1] \in S
    <3>1. PICK v \in S : remap[v] = k  BY <2>2
    <3> QED  BY <1>3, <3>1
  <2>3. ASSUME NEW k \in K, order[k + 1] \in S  PROVE k \in {remap[v] : v \in S}
      BY <1>4, <2>3
  <2> QED  BY <2>1, <2>2, <2>3
<1> QED  BY <1>3, <1>4, <1>5 DEF Renumbers

\* The prebuilt task that a compiled one is.
At(k) == compiled.task[k]

\* The tables name tasks.
TablesInside ==
    /\ subGraphData = [i \in 1 .. Len(subGraphData) |-> subGraphData[i]] /\ Len(subGraphData) \in Nat
    /\ \A i \in DOMAIN subGraphData :
        /\ subGraphData[i].entry \in Vertices /\ subGraphData[i].exit \in Vertices
        /\ subGraphData[i].body \subseteq Vertices

\* The tasks of the compiled graph, K, are the prebuilt ones with their edges and flags.
TasksMatch(K) ==
    /\ \E n \in Nat : K = 0 .. n - 1
    /\ DOMAIN compiled.task = K /\ \A k \in K : At(k) \in Vertices
    /\ \A j, k \in K : At(j) = At(k) => j = k
    /\ \A v \in Vertices : \E k \in K : At(k) = v
    /\ Output!NextTasks \in [K -> SUBSET K]
    /\ \A j, k \in K : j \in Output!NextTasks[k] <=> At(j) \in taskGraph[At(k)]
    /\ Output!PendingOnStart \subseteq K
    /\ \A k \in K : k \in Output!PendingOnStart <=> StartsPending(At(k))
    /\ Output!SelfParallel \subseteq K
    /\ \A k \in K : k \in Output!SelfParallel <=> At(k) \notin exclusionGraph[At(k)]
    /\ Output!TaskNum \in [K -> (SUBSET Nat) \ {{}}]

LEMMA TasksWritten ==
    ASSUME Partitioned, compiled = Written, taskGraph \in [Vertices -> SUBSET Vertices],
           NEW K, K = Output!Tasks
    PROVE  TasksMatch(K)
<1>1. PICK sgs, order, remap :
        sgs = AllSubGroups /\ order = AllTasks /\ remap = Remap(order)
    OBVIOUS
<1>3. compiled.subGroupOf = [k \in 0 .. Len(order) - 1 |->
                CHOOSE s \in 0 .. Len(sgs) - 1 : order[k + 1] \in ToSet(TasksIn(sgs[s + 1]))]
      /\ compiled.next = [k \in 0 .. Len(order) - 1 |-> {remap[v] : v \in taskGraph[order[k + 1]]}]
      /\ compiled.start = {remap[v] : v \in {v \in Vertices : StartsPending(v)}}
      /\ compiled.selfParallel = {remap[v] : v \in {v \in Vertices : v \notin exclusionGraph[v]}}
      /\ compiled.taskNum = [k \in 0 .. Len(order) - 1 |-> {1}]
      /\ compiled.task = [k \in 0 .. Len(order) - 1 |-> order[k + 1]]
  <2>1. WrittenWith(sgs, order, remap)  BY <1>1, WrittenParts
  <2> QED  BY <2>1 DEF WrittenWith
<1>4. K = 0 .. Len(order) - 1  BY <1>3 DEF Output!Tasks, Output!SubGroupOf
<1>5. \E n \in Nat : K = 0 .. n - 1
  <2>1. Len(order) \in Nat  BY <1>1, TasksListed
  <2> QED  BY <1>4, <2>1
<1>6. /\ \A v \in Vertices : remap[v] \in K /\ order[remap[v] + 1] = v
      /\ \A k \in K : order[k + 1] \in Vertices /\ remap[order[k + 1]] = k
      /\ \A S \in SUBSET Vertices : /\ {remap[v] : v \in S} \subseteq K
                                    /\ \A k \in K : k \in {remap[v] : v \in S} <=> order[k + 1] \in S
  <2>1. Renumbers(order, remap, K)  BY <1>1, <1>4, Renumbered
  <2> QED  BY <2>1 DEF Renumbers
<1>7. DOMAIN compiled.task = K /\ \A k \in K : At(k) = order[k + 1]  BY <1>3, <1>4 DEF At
<1>8. \A k \in K : At(k) \in Vertices /\ remap[At(k)] = k  BY <1>6, <1>7
<1>9. \A v \in Vertices : \E k \in K : At(k) = v  BY <1>6, <1>7
<1>10. Output!NextTasks \in [K -> SUBSET K]
       /\ \A j, k \in K : j \in Output!NextTasks[k] <=> At(j) \in taskGraph[At(k)]
  <2>1. Output!NextTasks = [k \in K |-> {remap[v] : v \in taskGraph[At(k)]}]
      BY <1>3, <1>4, <1>7 DEF Output!NextTasks
  <2>2. \A k \in K : taskGraph[At(k)] \in SUBSET Vertices  BY <1>8
  <2> QED  BY <1>6, <1>7, <2>1, <2>2
<1>11. Output!PendingOnStart \subseteq K /\ \A k \in K : k \in Output!PendingOnStart <=> StartsPending(At(k))
  <2>1. PICK S : S = {v \in Vertices : StartsPending(v)}  OBVIOUS
  <2>2. Output!PendingOnStart = {remap[v] : v \in S}  BY <1>3, <2>1 DEF Output!PendingOnStart
  <2>3. S \in SUBSET Vertices /\ \A v \in Vertices : v \in S <=> StartsPending(v)  BY <2>1
  <2> QED  BY <1>6, <1>7, <1>8, <2>2, <2>3
<1>12. Output!SelfParallel \subseteq K
       /\ \A k \in K : k \in Output!SelfParallel <=> At(k) \notin exclusionGraph[At(k)]
  <2>1. PICK S : S = {v \in Vertices : v \notin exclusionGraph[v]}  OBVIOUS
  <2>2. Output!SelfParallel = {remap[v] : v \in S}  BY <1>3, <2>1 DEF Output!SelfParallel
  <2>3. S \in SUBSET Vertices /\ \A v \in Vertices : v \in S <=> v \notin exclusionGraph[v]  BY <2>1
  <2> QED  BY <1>6, <1>7, <1>8, <2>2, <2>3
<1>13. Output!TaskNum \in [K -> (SUBSET Nat) \ {{}}]
  <2>1. Output!TaskNum = [k \in K |-> {1}]  BY <1>3, <1>4 DEF Output!TaskNum
  <2>2. {1} \in (SUBSET Nat) \ {{}}  OBVIOUS
  <2> QED  BY <2>1, <2>2
<1>14. \A j, k \in K : At(j) = At(k) => j = k  BY <1>8
<1>15. \A k \in K : At(k) \in Vertices  BY <1>8
<1> QED  BY ONLY <1>5, <1>7, <1>9, <1>10, <1>11, <1>12, <1>13, <1>14, <1>15 DEF TasksMatch

\* The sub-graphs of the compiled graph, H, are the tables.
SubGraphsMatch(K, H) ==
    /\ H = 0 .. Len(subGraphData) - 1
    /\ Output!Entry \in [H -> K] /\ Output!Exit \in [H -> K] /\ Output!Body \in [H -> SUBSET K]
    /\ \A g \in H : /\ g + 1 \in DOMAIN subGraphData
                    /\ At(Output!Entry[g]) = subGraphData[g + 1].entry
                    /\ At(Output!Exit[g]) = subGraphData[g + 1].exit
                    /\ \A k \in K : k \in Output!Body[g] <=> At(k) \in subGraphData[g + 1].body

LEMMA SubGraphsWritten ==
    ASSUME Partitioned, compiled = Written, TablesInside,
           NEW K, K = Output!Tasks, NEW H, H = Output!SubGraphs
    PROVE  SubGraphsMatch(K, H)
<1>1. PICK sgs, order, remap :
        sgs = AllSubGroups /\ order = AllTasks /\ remap = Remap(order)
    OBVIOUS
<1>2. PICK N : N = 0 .. Len(subGraphData) - 1  OBVIOUS
<1>3. compiled.subGroupOf = [k \in 0 .. Len(order) - 1 |->
                CHOOSE s \in 0 .. Len(sgs) - 1 : order[k + 1] \in ToSet(TasksIn(sgs[s + 1]))]
      /\ compiled.entry = [i \in N |-> remap[subGraphData[i + 1].entry]]
      /\ compiled.exit = [i \in N |-> remap[subGraphData[i + 1].exit]]
      /\ compiled.body = [i \in N |-> {remap[v] : v \in subGraphData[i + 1].body}]
      /\ compiled.task = [k \in 0 .. Len(order) - 1 |-> order[k + 1]]
  <2>1. WrittenWith(sgs, order, remap)  BY <1>1, WrittenParts
  <2> QED  BY <1>2, <2>1 DEF WrittenWith
<1>4. K = 0 .. Len(order) - 1  BY <1>3 DEF Output!Tasks, Output!SubGroupOf
<1>5. H = N  BY <1>3 DEF Output!SubGraphs, Output!Entry
<1>6. /\ \A v \in Vertices : remap[v] \in K /\ order[remap[v] + 1] = v
      /\ \A S \in SUBSET Vertices : /\ {remap[v] : v \in S} \subseteq K
                                    /\ \A k \in K : k \in {remap[v] : v \in S} <=> order[k + 1] \in S
  <2>1. Renumbers(order, remap, K)  BY <1>1, <1>4, Renumbered
  <2> QED  BY <2>1 DEF Renumbers
<1>7. \A k \in K : At(k) = order[k + 1]  BY <1>3, <1>4 DEF At
<1>8. ASSUME NEW g \in N
      PROVE  /\ g + 1 \in DOMAIN subGraphData
             /\ subGraphData[g + 1].entry \in Vertices /\ subGraphData[g + 1].exit \in Vertices
             /\ subGraphData[g + 1].body \in SUBSET Vertices
  <2>1. PICK n : n = Len(subGraphData)  OBVIOUS
  <2>2. n \in Nat /\ DOMAIN subGraphData = 1 .. n  BY <2>1 DEF TablesInside
  <2>3. g + 1 \in 1 .. n  BY <1>2, <2>1, <2>2
  <2> QED  BY <2>2, <2>3 DEF TablesInside
<1>9. Output!Entry \in [N -> K] /\ Output!Exit \in [N -> K]
  <2>1. \A g \in N : remap[subGraphData[g + 1].entry] \in K /\ remap[subGraphData[g + 1].exit] \in K
      BY <1>6, <1>8
  <2> QED  BY <1>3, <2>1 DEF Output!Entry, Output!Exit
<1>10. Output!Body \in [N -> SUBSET K]
  <2>1. \A g \in N : {remap[v] : v \in subGraphData[g + 1].body} \in SUBSET K  BY <1>6, <1>8
  <2> QED  BY <1>3, <2>1 DEF Output!Body
<1>11. ASSUME NEW g \in N
       PROVE  /\ At(Output!Entry[g]) = subGraphData[g + 1].entry
              /\ At(Output!Exit[g]) = subGraphData[g + 1].exit
  <2>1. /\ Output!Entry[g] = remap[subGraphData[g + 1].entry]
        /\ Output!Exit[g] = remap[subGraphData[g + 1].exit]
      BY <1>3 DEF Output!Entry, Output!Exit
  <2> QED  BY <1>6, <1>7, <1>8, <2>1
<1>12. ASSUME NEW g \in N, NEW k \in K
       PROVE  k \in Output!Body[g] <=> At(k) \in subGraphData[g + 1].body
  <2>1. PICK S : S = subGraphData[g + 1].body  OBVIOUS
  <2>2. Output!Body[g] = {remap[v] : v \in S} /\ S \in SUBSET Vertices  BY <1>3, <1>8, <2>1 DEF Output!Body
  <2>3. k \in {remap[v] : v \in S} <=> order[k + 1] \in S  BY <1>6, <2>2
  <2> QED  BY <1>7, <2>1, <2>2, <2>3
<1> QED  BY ONLY <1>2, <1>5, <1>8, <1>9, <1>10, <1>11, <1>12 DEF SubGraphsMatch

\* The subgroups of the compiled graph, S, are those that are left.
SubGroupsMatch(K, sgs, S) ==
    /\ S = 0 .. Len(sgs) - 1
    /\ Output!GroupOf = [s \in S |-> sgs[s + 1][1] - 1]
    /\ Output!Excluded = [s \in S |-> MaskOf(sgs, s)]
    /\ Output!SubGroupOf \in [K -> S]
    /\ \A k \in K, s \in S : Output!SubGroupOf[k] = s <=> At(k) \in ToSet(TasksIn(sgs[s + 1]))
    /\ \A s \in S : s + 1 \in DOMAIN sgs

LEMMA SubGroupsWritten ==
    ASSUME Partitioned, compiled = Written, NEW K, K = Output!Tasks, NEW sgs, sgs = AllSubGroups,
           NEW S, S = Output!SubGroups
    PROVE  SubGroupsMatch(K, sgs, S)
<1>1. PICK order, remap : order = AllTasks /\ remap = Remap(order)  OBVIOUS
<1>2. PICK N : N = 0 .. Len(sgs) - 1  OBVIOUS
<1>3. compiled.groupOf = [s \in N |-> sgs[s + 1][1] - 1]
      /\ compiled.excluded = [s \in N |-> MaskOf(sgs, s)]
      /\ compiled.subGroupOf = [k \in 0 .. Len(order) - 1 |->
                CHOOSE s \in N : order[k + 1] \in ToSet(TasksIn(sgs[s + 1]))]
      /\ compiled.task = [k \in 0 .. Len(order) - 1 |-> order[k + 1]]
  <2>1. WrittenWith(sgs, order, remap)  BY <1>1, WrittenParts
  <2> QED  BY <1>2, <2>1 DEF WrittenWith
<1>4. K = 0 .. Len(order) - 1  BY <1>3 DEF Output!Tasks, Output!SubGroupOf
<1>5. S = N  BY <1>3 DEF Output!SubGroups, Output!GroupOf
<1>6. \A k \in K : At(k) \in Vertices /\ At(k) = order[k + 1]
  <2>1. Renumbers(order, remap, K)  BY <1>1, <1>4, Renumbered
  <2> QED  BY <1>3, <1>4, <2>1 DEF Renumbers, At
<1>7. \A s \in N : s + 1 \in DOMAIN sgs
  <2>1. PICK n : n = Len(sgs)  OBVIOUS
  <2>2. n \in Nat /\ DOMAIN sgs = 1 .. n  BY <2>1, SubGroupsListed
  <2> QED  BY <1>2, <2>1, <2>2
<1>8. ASSUME NEW k \in K
      PROVE  Output!SubGroupOf[k] \in N /\ At(k) \in ToSet(TasksIn(sgs[Output!SubGroupOf[k] + 1]))
  <2>1. PICK v : v = At(k)  OBVIOUS
  <2>2. Output!SubGroupOf[k] = CHOOSE s \in N : v \in ToSet(TasksIn(sgs[s + 1]))
      BY <1>3, <1>4, <1>6, <2>1 DEF Output!SubGroupOf
  <2>3. PICK j \in DOMAIN sgs : v \in ToSet(TasksIn(sgs[j]))  BY <1>6, <2>1, OneSubGroup
  <2>4. j - 1 \in N /\ (j - 1) + 1 = j
    <3>1. PICK n : n = Len(sgs)  OBVIOUS
    <3>2. n \in Nat /\ DOMAIN sgs = 1 .. n  BY <3>1, SubGroupsListed
    <3> QED  BY <1>2, <3>1, <3>2
  <2>5. \E s \in N : v \in ToSet(TasksIn(sgs[s + 1]))  BY <2>3, <2>4
  <2> QED  BY <2>1, <2>2, <2>5
<1>9. ASSUME NEW k \in K, NEW s \in N, At(k) \in ToSet(TasksIn(sgs[s + 1]))  PROVE Output!SubGroupOf[k] = s
  <2>1. PICK r : r = Output!SubGroupOf[k]  OBVIOUS
  <2>2. r \in N /\ At(k) \in ToSet(TasksIn(sgs[r + 1]))  BY <1>8, <2>1
  <2>3. r + 1 = s + 1  BY <1>6, <1>7, <1>9, <2>2, OneSubGroup
  <2>4. r \in Int /\ s \in Int  BY <1>2, <2>2
  <2> QED  BY <2>1, <2>3, <2>4
<1>10. Output!SubGroupOf \in [K -> N]
  <2>1. Output!SubGroupOf = [k \in K |-> Output!SubGroupOf[k]]  BY <1>3, <1>4 DEF Output!SubGroupOf
  <2> QED  BY <1>8, <2>1
<1>11. \A k \in K, s \in N : Output!SubGroupOf[k] = s <=> At(k) \in ToSet(TasksIn(sgs[s + 1]))
    BY <1>8, <1>9
<1>12. Output!GroupOf = [s \in N |-> sgs[s + 1][1] - 1] /\ Output!Excluded = [s \in N |-> MaskOf(sgs, s)]
    BY <1>3 DEF Output!GroupOf, Output!Excluded
<1> QED  BY <1>2, <1>5, <1>7, <1>10, <1>11, <1>12 DEF SubGroupsMatch

\* A subgroup's mask has the subgroups with a task that one of its tasks excludes.
LEMMA MaskIs ==
    ASSUME Partitioned, NEW sgs, sgs = AllSubGroups, NEW S, S = 0 .. Len(sgs) - 1, NEW s \in S, NEW r \in S
    PROVE  r \in MaskOf(sgs, s) <=>
            \/ r = s
            \/ /\ sgs[r + 1][1] = sgs[s + 1][1]
               /\ Touch(exclusionGraph, ToSet(TasksIn(sgs[s + 1])), ToSet(TasksIn(sgs[r + 1])))
<1>1. s + 1 \in DOMAIN sgs /\ r + 1 \in DOMAIN sgs
  <2>1. PICK n : n = Len(sgs)  OBVIOUS
  <2>2. n \in Nat /\ DOMAIN sgs = 1 .. n  BY <2>1, SubGroupsListed
  <2> QED  BY <2>1, <2>2
<1>2. PICK a, b : a = sgs[s + 1] /\ b = sgs[r + 1]  OBVIOUS
<1>3. IsLeft(a) /\ IsLeft(b)  BY <1>1, <1>2, SubGroupsListed
<1>4. r \in MaskOf(sgs, s) <=> r = s \/ (b[1] = a[1] /\ b[2] \in groups[a[1]].excl[a[2]])
    BY <1>2 DEF MaskOf
<1>5. ASSUME b[1] = a[1]
      PROVE  b[2] \in groups[a[1]].excl[a[2]] <=>
                b[2] = a[2] \/ Touch(exclusionGraph, ToSet(TasksIn(a)), ToSet(TasksIn(b)))
  <2>1. PICK g : g = groups[a[1]]  OBVIOUS
  <2>2. GroupOK(g) /\ a[2] \in Live(g) /\ b[2] \in Live(g)  BY <1>3, <1>5, <2>1 DEF IsLeft, Partitioned
  <2>3. TasksIn(a) = g.subgroups[a[2]] /\ TasksIn(b) = g.subgroups[b[2]]  BY <1>5, <2>1 DEF TasksIn
  <2>4. g.excl[a[2]] = {a[2]} \cup
            {q \in Live(g) : Touch(exclusionGraph, ToSet(g.subgroups[a[2]]), ToSet(g.subgroups[q]))}
      BY <2>2 DEF GroupOK
  <2> QED  BY <2>1, <2>2, <2>3, <2>4
<1>6. b[1] = a[1] /\ b[2] = a[2] => r = s
  <2> SUFFICES ASSUME b[1] = a[1], b[2] = a[2]  PROVE r = s  OBVIOUS
  <2>1. r + 1 = s + 1  BY <1>1, <1>2, SubGroupsListed
  <2> QED  BY <2>1
<1> QED  BY <1>2, <1>4, <1>5, <1>6

\* What GraphAssumption says of the subgroups.
SubGroupsAssumed(S) ==
    /\ S \subseteq Nat /\ Output!GroupOf \in [S -> Nat] /\ 0 \in Output!Groups /\ IsFiniteSet(Output!Groups)
    /\ Output!Excluded \in [S -> SUBSET S]
    /\ \A s \in S : s \in Output!Excluded[s]
    /\ \A s \in S : \A r \in Output!Excluded[s] :
            s \in Output!Excluded[r] /\ Output!GroupOf[r] = Output!GroupOf[s]

LEMMA SubGroupsAreAssumed ==
    ASSUME GraphInv, Partitioned, NoneEmpty, Vertices # {}, NEW K, NEW sgs, sgs = AllSubGroups,
           NEW S, S = Output!SubGroups, SubGroupsMatch(K, sgs, S)
    PROVE  SubGroupsAssumed(S)
<1>1. PICK n : n = Len(sgs)  OBVIOUS
<1>2. n \in Nat /\ DOMAIN sgs = 1 .. n /\ S = 0 .. n - 1
    BY <1>1, SubGroupsListed DEF SubGroupsMatch
<1>3. Output!GroupOf = [s \in S |-> sgs[s + 1][1] - 1] /\ Output!Excluded = [s \in S |-> MaskOf(sgs, s)]
    BY DEF SubGroupsMatch
<1>4. PICK N : N = Len(groups)  OBVIOUS
<1>5. N \in Nat /\ DOMAIN groups = 1 .. N  BY <1>4, LenProperties DEF Partitioned
<1>6. ASSUME NEW s \in S  PROVE sgs[s + 1][1] \in 1 .. N /\ s + 1 \in DOMAIN sgs
  <2>1. s + 1 \in DOMAIN sgs  BY <1>2
  <2>2. IsLeft(sgs[s + 1])  BY <2>1, SubGroupsListed
  <2> QED  BY <1>5, <2>1, <2>2 DEF IsLeft
<1>7. S \subseteq Nat  BY <1>2
<1>8. Output!GroupOf \in [S -> Nat]
  <2>1. \A s \in S : sgs[s + 1][1] - 1 \in Nat  BY <1>5, <1>6
  <2> QED  BY <1>3, <2>1
<1>9. \A s \in S : Output!GroupOf[s] = sgs[s + 1][1] - 1  BY <1>3
<1>10. 0 \in Output!Groups
  <2>1. PICK v : v \in Vertices  OBVIOUS
  <2>2. PICK i \in DOMAIN groups : v \in TasksOf(groups[i])  BY <2>1 DEF Partitioned
  <2>3. 1 \in DOMAIN groups  BY <1>5, <2>2
  <2>4. Live(groups[1]) # {}
    <3>1. GroupOK(groups[1]) /\ groups[1].cnt >= 1  BY <2>3 DEF Partitioned, NoneEmpty
    <3>2. Cardinality(Live(groups[1])) >= 1  BY <3>1 DEF GroupOK
    <3>3. Live(groups[1]) = {} => Cardinality(Live(groups[1])) = 0  BY FS_EmptySet
    <3> QED  BY <3>2, <3>3
  <2>5. PICK s \in Live(groups[1]) : TRUE  BY <2>4
  <2>6. PICK j \in DOMAIN sgs : sgs[j] = <<1, s>>  BY <2>3, <2>5, SubGroupsListed
  <2>7. j - 1 \in S /\ (j - 1) + 1 = j  BY <1>2, <2>6
  <2>8. Output!GroupOf[j - 1] = 0
    <3>1. Output!GroupOf[j - 1] = sgs[(j - 1) + 1][1] - 1  BY <1>9, <2>7
    <3>2. sgs[(j - 1) + 1][1] = 1  BY <2>6, <2>7
    <3> QED  BY <3>1, <3>2
  <2> QED  BY <2>7, <2>8 DEF Output!Groups
<1>11. IsFiniteSet(Output!Groups)
  <2>1. PICK f, T : f = Output!GroupOf /\ T = Output!Groups  OBVIOUS
  <2>2. T = {f[s] : s \in S}  BY <2>1 DEF Output!Groups
  <2>3. f \in [S -> Nat]  BY <1>8, <2>1
  <2>4. f \in Surjection(S, T)  BY <2>2, <2>3 DEF Surjection
  <2>5. IsFiniteSet(S)  BY <1>2, FS_Interval
  <2>6. IsFiniteSet(T)  BY ONLY <2>4, <2>5, FS_Surjection
  <2> QED  BY <2>1, <2>6
<1>12. \A s \in S : Output!Excluded[s] = MaskOf(sgs, s)  BY <1>3
<1>13. \A s \in S : MaskOf(sgs, s) \subseteq S
  <2>1. S = 0 .. Len(sgs) - 1  BY <1>1, <1>2
  <2> QED  BY <2>1 DEF MaskOf
<1>14. Output!Excluded \in [S -> SUBSET S]  BY <1>3, <1>13
<1>15. \A s \in S : s \in Output!Excluded[s]  BY <1>12 DEF MaskOf
<1>16. ASSUME NEW s \in S, NEW r \in Output!Excluded[s]
       PROVE  s \in Output!Excluded[r] /\ Output!GroupOf[r] = Output!GroupOf[s]
  <2>1. r \in S /\ r \in MaskOf(sgs, s)  BY <1>12, <1>13, <1>16
  <2>2. PICK a, b : a = ToSet(TasksIn(sgs[s + 1])) /\ b = ToSet(TasksIn(sgs[r + 1]))  OBVIOUS
  <2>3. S = 0 .. Len(sgs) - 1  BY <1>1, <1>2
  <2>4. r = s \/ (sgs[r + 1][1] = sgs[s + 1][1] /\ Touch(exclusionGraph, a, b))
      BY <2>1, <2>2, <2>3, MaskIs
  <2>5. Touch(exclusionGraph, a, b) => Touch(exclusionGraph, b, a)
    <3>1. IsLeft(sgs[s + 1]) /\ IsLeft(sgs[r + 1])  BY <1>6, <2>1, SubGroupsListed
    <3>2. a \subseteq Vertices /\ b \subseteq Vertices  BY <2>2, <3>1, TasksOfLeft
    <3>3. \A x, y \in Vertices : y \in exclusionGraph[x] <=> x \in exclusionGraph[y]
        BY DEF GraphInv, ExclusionMutual, Symmetric
    <3> QED  BY <3>2, <3>3 DEF Touch
  <2>6. s \in MaskOf(sgs, r)
    <3>1. s \in MaskOf(sgs, r) <=> s = r \/ (sgs[s + 1][1] = sgs[r + 1][1] /\ Touch(exclusionGraph, b, a))
        BY <2>1, <2>2, <2>3, MaskIs
    <3> QED  BY <2>4, <2>5, <3>1
  <2>7. Output!GroupOf[r] = Output!GroupOf[s]  BY <1>9, <2>1, <2>4
  <2> QED  BY <1>12, <2>1, <2>6, <2>7
<1> QED  BY <1>7, <1>8, <1>10, <1>11, <1>14, <1>15, <1>16 DEF SubGroupsAssumed

\* Tasks that exclude each other are in subgroups that do.
LEMMA ExclusionIsMasked ==
    ASSUME Partitioned, NEW K, NEW sgs, sgs = AllSubGroups, NEW S, SubGroupsMatch(K, sgs, S),
           NEW x \in K, NEW y \in K, At(x) \in Vertices, At(y) \in Vertices, At(y) \in exclusionGraph[At(x)]
    PROVE  Output!SubGroupOf[y] \in Output!Excluded[Output!SubGroupOf[x]]
<1>1. PICK s, r : s = Output!SubGroupOf[x] /\ r = Output!SubGroupOf[y]  OBVIOUS
<1>2. s \in S /\ r \in S /\ S = 0 .. Len(sgs) - 1 /\ Output!Excluded[s] = MaskOf(sgs, s)
    BY <1>1 DEF SubGroupsMatch
<1>3. PICK a, b : a = sgs[s + 1] /\ b = sgs[r + 1]  OBVIOUS
<1>4. At(x) \in ToSet(TasksIn(a)) /\ At(y) \in ToSet(TasksIn(b))  BY <1>1, <1>2, <1>3 DEF SubGroupsMatch
<1>5. IsLeft(a) /\ IsLeft(b)
  <2>1. s + 1 \in DOMAIN sgs /\ r + 1 \in DOMAIN sgs  BY <1>2 DEF SubGroupsMatch
  <2> QED  BY <1>3, <2>1, SubGroupsListed
<1>6. Touch(exclusionGraph, ToSet(TasksIn(a)), ToSet(TasksIn(b)))  BY <1>4 DEF Touch
<1>7. a[1] = b[1]
  <2>1. At(x) \in TasksOf(groups[a[1]]) /\ At(y) \in TasksOf(groups[b[1]])  BY <1>4, <1>5, TasksOfLeft
  <2>2. At(y) \in TasksOf(groups[a[1]])  BY <1>5, <2>1 DEF Partitioned, GroupOK, IsLeft
  <2> QED  BY <1>5, <2>1, <2>2 DEF Partitioned, IsLeft
<1>8. r \in MaskOf(sgs, s)  BY <1>2, <1>3, <1>6, <1>7, MaskIs
<1> QED  BY <1>1, <1>2, <1>8

------------------------------------------------------------------------------
(***************************************************************************)
(* Tasks that exclude no others.                                           *)
(***************************************************************************)
Solitary(x) == exclusionGraph[x] \subseteq {x}

\* The search finds nobody to put into their group, so that it is never merged.
AloneInGroup ==
    \A i \in DOMAIN groups : \A x \in TasksOf(groups[i]) : Solitary(x) => TasksOf(groups[i]) = {x}

\* Later groups are joined, but not their subgroups.
AloneInCell ==
    \A i \in DOMAIN groups : \A s \in DOMAIN groups[i].subgroups : \A x \in Cell(i, s) :
        Solitary(x) => Cell(i, s) = {x}

LEMMA GroupTaskAlone ==
    ASSUME GraphInv, Collecting, AloneInGroup, GroupTask
    PROVE  AloneInGroup'
<1>1. PICK path, v, fresh : /\ path = Searching(exclusionGraph)
                            /\ v = Min(Offered(exclusionGraph)) /\ fresh = (path = <<>>)
    OBVIOUS
<1>2. /\ exclusionGraph \in [Vertices -> SUBSET Vertices] /\ Symmetric(exclusionGraph)
      /\ Vertices \subseteq Nat /\ DOMAIN exclusionGraph = Vertices
    BY VerticesFinite DEF GraphInv, ExclusionMutual, ExclusionInRange
<1>3. /\ groups' = IF fresh
                   THEN Append(groups, [subgroups |-> <<<<v>>>>, excl |-> <<>>, cnt |-> 0])
                   ELSE [groups EXCEPT ![Len(groups)].subgroups = Append(@, <<v>>)]
      /\ exclusionGraph' = exclusionGraph /\ Offered(exclusionGraph) # {}
    BY <1>1 DEF GroupTask, Goto, prebuiltVars
<1>4. /\ path \in Seq(visited) /\ ToSet(path) \subseteq ToSet(stack) /\ visited \subseteq Vertices
      /\ path # <<>> => Last(path) \in visited
    BY <1>1, <1>2, SearchingOpen DEF Collecting
<1>5. Offered(exclusionGraph) = (IF fresh THEN Vertices ELSE exclusionGraph[Last(path)]) \ visited
    BY <1>1, <1>2 DEF Offered
<1>6. v \in Offered(exclusionGraph)
  <2>1. Offered(exclusionGraph) \subseteq Nat  BY <1>1, <1>2, <1>4, <1>5
  <2> QED  BY <1>1, <1>3, <2>1, MinOfNat
<1>7. v \in Vertices /\ v \notin visited /\ (~fresh => v \in exclusionGraph[Last(path)])
    BY <1>1, <1>2, <1>4, <1>5, <1>6
<1>8. ~fresh => Last(path) \in ToSet(path)
  <2> SUFFICES ASSUME path # <<>>  PROVE Last(path) \in ToSet(path)  BY <1>1
  <2>1. Len(path) \in DOMAIN path  BY <1>4, EmptySeq, LenProperties
  <2> QED  BY <2>1 DEF Last, ToSet
<1>9. PICK w : w = Last(path)  OBVIOUS
<1>10. ASSUME ~fresh
       PROVE  /\ groups # <<>> /\ w \in visited /\ InGroup(Len(groups), w)
              /\ v \in exclusionGraph[w] /\ w \in exclusionGraph[v] /\ w # v
  <2>1. w \in ToSet(stack) /\ w \in visited /\ v \in exclusionGraph[w]  BY <1>1, <1>4, <1>7, <1>8, <1>9, <1>10
  <2>2. groups # <<>> /\ InGroup(Len(groups), w)  BY <2>1 DEF Collecting
  <2>3. w \in exclusionGraph[v] /\ w # v  BY <1>2, <1>4, <1>7, <2>1 DEF Symmetric
  <2> QED  BY <2>1, <2>2, <2>3
<1>11. groups \in Seq(GroupRecord) /\ v \in Nat /\ fresh \in BOOLEAN
    /\ \A i \in DOMAIN groups : groups[i].subgroups # <<>>
    BY <1>1, <1>2, <1>7 DEF Collecting
<1> DEFINE L == Len(groups')
<1>12. ~fresh => groups # <<>>  BY <1>10
<1>13. /\ groups' \in Seq(GroupRecord) /\ groups' # <<>>
       /\ DOMAIN groups' = DOMAIN groups \cup {L}
       /\ L \in DOMAIN groups <=> ~fresh
       /\ ~fresh => L = Len(groups)
       /\ \A i \in DOMAIN groups' : groups'[i].subgroups # <<>>
       /\ \A i \in DOMAIN groups : \A s \in DOMAIN groups[i].subgroups :
                /\ s \in DOMAIN groups'[i].subgroups
                /\ groups'[i].subgroups[s] = groups[i].subgroups[s]
       /\ \E n \in DOMAIN groups'[L].subgroups :
                /\ groups'[L].subgroups[n] = <<v>>
                /\ \A i \in DOMAIN groups' : \A s \in DOMAIN groups'[i].subgroups :
                     \/ i = L /\ s = n
                     \/ i \in DOMAIN groups /\ s \in DOMAIN groups[i].subgroups
    BY <1>3, <1>11, <1>12, GroupTaskPlaces
<1> HIDE DEF L
<1>14. PICK n \in DOMAIN groups'[L].subgroups :
                /\ groups'[L].subgroups[n] = <<v>>
                /\ \A i \in DOMAIN groups' : \A s \in DOMAIN groups'[i].subgroups :
                     \/ i = L /\ s = n
                     \/ i \in DOMAIN groups /\ s \in DOMAIN groups[i].subgroups
    BY <1>13
<1>15. ToSet(<<v>>) = {v} /\ \A u : ToSet(<<u>>) = {u}  BY DEF ToSet
<1>16. ASSUME NEW i \in DOMAIN groups'
       PROVE  TasksOf(groups'[i]) = (IF i \in DOMAIN groups THEN TasksOf(groups[i]) ELSE {})
                                        \cup (IF i = L THEN {v} ELSE {})
  <2>1. ASSUME NEW u \in TasksOf(groups'[i])
        PROVE  (i = L /\ u = v) \/ (i \in DOMAIN groups /\ u \in TasksOf(groups[i]))
    <3>1. PICK s \in DOMAIN groups'[i].subgroups : u \in ToSet(groups'[i].subgroups[s])
        BY <2>1 DEF TasksOf
    <3>2. CASE i = L /\ s = n  BY <1>14, <1>15, <3>1, <3>2
    <3>3. CASE i \in DOMAIN groups /\ s \in DOMAIN groups[i].subgroups
      <4>1. groups'[i].subgroups[s] = groups[i].subgroups[s]  BY <1>13, <3>3
      <4> QED  BY <3>1, <3>3, <4>1 DEF TasksOf
    <3> QED  BY <1>14, <3>1, <3>2, <3>3
  <2>2. i = L => v \in TasksOf(groups'[i])  BY <1>14, <1>15 DEF TasksOf
  <2>3. i \in DOMAIN groups => TasksOf(groups[i]) \subseteq TasksOf(groups'[i])
    <3> SUFFICES ASSUME i \in DOMAIN groups, NEW u \in TasksOf(groups[i])
                 PROVE  u \in TasksOf(groups'[i])
        OBVIOUS
    <3>1. PICK s \in DOMAIN groups[i].subgroups : u \in ToSet(groups[i].subgroups[s])  BY DEF TasksOf
    <3>2. s \in DOMAIN groups'[i].subgroups /\ groups'[i].subgroups[s] = groups[i].subgroups[s]  BY <1>13
    <3> QED  BY <3>1, <3>2 DEF TasksOf
  <2> QED  BY <2>1, <2>2, <2>3
<1>17. ASSUME NEW i \in DOMAIN groups', NEW x \in TasksOf(groups'[i]), Solitary(x)
       PROVE  TasksOf(groups'[i]) = {x}
  <2>1. CASE i # L
    <3>1. i \in DOMAIN groups /\ TasksOf(groups'[i]) = TasksOf(groups[i])  BY <1>13, <1>16, <2>1
    <3> QED  BY <1>17, <3>1 DEF AloneInGroup
  <2>2. CASE i = L /\ fresh
    <3>1. TasksOf(groups'[i]) = {v}  BY <1>13, <1>16, <2>2
    <3> QED  BY <1>17, <3>1
  <2>3. CASE i = L /\ ~fresh
    <3>1. L \in DOMAIN groups /\ L = Len(groups) /\ TasksOf(groups'[i]) = TasksOf(groups[L]) \cup {v}
        BY <1>13, <1>16, <2>3
    <3>2. w \in TasksOf(groups[L])  BY <1>10, <1>15, <2>3, <3>1 DEF InGroup, TasksOf
    <3>3. x # v  BY <1>10, <1>17, <2>3 DEF Solitary
    <3>4. TasksOf(groups[L]) = {x}  BY <1>17, <3>1, <3>3 DEF AloneInGroup
    <3>5. w = x  BY <3>2, <3>4
    <3> QED  BY <1>10, <1>17, <2>3, <3>3, <3>5 DEF Solitary
  <2> QED  BY <2>1, <2>2, <2>3
<1>18. \A x : Solitary(x)' <=> Solitary(x)  BY <1>3 DEF Solitary
<1> QED  BY <1>17, <1>18 DEF AloneInGroup, TasksOf

\* Groups with the tasks that they had keep those alone that were.
LEMMA AloneStays ==
    ASSUME AloneInGroup, exclusionGraph' = exclusionGraph, DOMAIN groups' = DOMAIN groups,
           \A i \in DOMAIN groups : TasksOf(groups'[i]) = TasksOf(groups[i])
    PROVE  AloneInGroup'
<1>1. \A x : Solitary(x)' <=> Solitary(x)  BY DEF Solitary
<1> QED  BY <1>1 DEF AloneInGroup, TasksOf

LEMMA GroupedAlone ==
    ASSUME Collecting, AloneInGroup, Grouped
    PROVE  AloneInGroup'
<1>1. groups' = [i \in DOMAIN groups |-> WithExclusion(groups[i])] /\ exclusionGraph' = exclusionGraph
    BY DEF Grouped, Goto, prebuiltVars
<1>2. ASSUME NEW i \in DOMAIN groups  PROVE TasksOf(groups'[i]) = TasksOf(groups[i])
  <2>1. groups[i] \in GroupRecord  BY LenProperties DEF Collecting
  <2>2. WithExclusion(groups[i]).subgroups = groups[i].subgroups  BY <2>1 DEF WithExclusion, GroupRecord
  <2> QED  BY <1>1, <2>2 DEF TasksOf
<1> QED  BY <1>1, <1>2, AloneStays

\* A group that is merged has two subgroups.
LEMMA JoinPairAlone ==
    ASSUME GraphInv, Partitioned, NoneEmpty, JoinInv, AloneInGroup, JoinPair
    PROVE  AloneInGroup'
<1>1. PICK dst, src : dst = Min(PairsLeft) /\ src = sgPair[dst]  OBVIOUS
<1>2. /\ PairsLeft # {} /\ groups' = [groups EXCEPT ![cur] = Merged(@, dst, src)]
      /\ exclusionGraph' = exclusionGraph
    BY <1>1 DEF JoinPair, Goto, prebuiltVars
<1>3. cur \in DOMAIN groups /\ \A s \in PairsLeft : sgPair[s] \in PairsLeft /\ sgPair[s] # s
    BY DEF JoinInv
<1>4. GroupOK(G) /\ Live(G) \subseteq Nat  BY <1>3, GroupFacts DEF G
<1>5. PairsLeft \subseteq Live(G)  BY DEF PairsLeft
<1>6. dst \in PairsLeft
  <2>1. PairsLeft \subseteq Nat  BY <1>4, <1>5
  <2> QED  BY <1>1, <1>2, <2>1, MinOfNat
<1>7. dst \in Live(G) /\ src \in Live(G) /\ dst # src  BY <1>1, <1>3, <1>5, <1>6
<1>8. TasksOf(Merged(G, dst, src)) = TasksOf(G)  BY <1>4, <1>7, MergedOK
<1>9. DOMAIN groups' = DOMAIN groups /\ \A i \in DOMAIN groups : TasksOf(groups'[i]) = TasksOf(groups[i])
    BY <1>2, <1>3, <1>8 DEF G
<1> QED  BY <1>2, <1>9, AloneStays

\* What is alone in its group is so in its subgroup.
LEMMA AloneInBoth ==
    ASSUME AloneInGroup, Partitioned
    PROVE  AloneInCell
<1> SUFFICES ASSUME NEW i \in DOMAIN groups, NEW s \in DOMAIN groups[i].subgroups, NEW x \in Cell(i, s),
                    Solitary(x)
             PROVE  Cell(i, s) = {x}
    BY DEF AloneInCell
<1>1. Cell(i, s) \subseteq TasksOf(groups[i])  BY DEF Cell, TasksOf
<1>2. TasksOf(groups[i]) = {x}  BY <1>1 DEF AloneInGroup
<1> QED  BY <1>1, <1>2

\* The groups have the subgroups that they had, in other places.
LEMMA CellsStayAlone ==
    ASSUME AloneInCell, exclusionGraph' = exclusionGraph,
           \A i \in DOMAIN groups' : \A s \in DOMAIN groups'[i].subgroups :
               \E j \in DOMAIN groups : \E r \in DOMAIN groups[j].subgroups :
                   groups'[i].subgroups[s] = groups[j].subgroups[r]
    PROVE  AloneInCell'
<1>1. \A x : Solitary(x)' <=> Solitary(x)  BY DEF Solitary
<1>2. ASSUME NEW i \in DOMAIN groups', NEW s \in DOMAIN groups'[i].subgroups
      PROVE  \A x \in ToSet(groups'[i].subgroups[s]) : Solitary(x) => ToSet(groups'[i].subgroups[s]) = {x}
  <2>1. PICK j \in DOMAIN groups : \E r \in DOMAIN groups[j].subgroups :
            groups'[i].subgroups[s] = groups[j].subgroups[r]
      OBVIOUS
  <2>2. PICK r \in DOMAIN groups[j].subgroups : groups'[i].subgroups[s] = groups[j].subgroups[r]  BY <2>1
  <2>3. \A x \in Cell(j, r) : Solitary(x) => Cell(j, r) = {x}  BY DEF AloneInCell
  <2>4. Cell(j, r) = ToSet(groups'[i].subgroups[s])  BY <2>2 DEF Cell
  <2> QED  BY <2>3, <2>4
<1> QED  BY <1>1, <1>2 DEF AloneInCell, Cell

LEMMA SmallStepAlone ==
    ASSUME Partitioned, SmallInv, AloneInCell, SmallStep
    PROVE  AloneInCell'
<1>1. /\ pos \in Nat \ {0} /\ candidate \in Nat
      /\ candidate # 0 => candidate \in DOMAIN groups /\ candidate < pos
    BY DEF SmallInv
<1>2. /\ exclusionGraph' = exclusionGraph /\ pos <= Len(groups)
      /\ IF Fits(pos)
         THEN groups' = [groups EXCEPT ![candidate] = Joined(@, groups[pos]), ![pos] = NoSubgroups]
         ELSE groups' = groups
    BY DEF SmallStep, Goto, prebuiltVars
<1>3. Len(groups) \in Nat /\ DOMAIN groups = 1 .. Len(groups) /\ pos \in DOMAIN groups
  <2>1. Len(groups) \in Nat /\ DOMAIN groups = 1 .. Len(groups)  BY LenProperties DEF Partitioned
  <2> QED  BY <1>1, <1>2, <2>1
<1>4. CASE ~Fits(pos)  BY <1>2, <1>4, CellsStayAlone
<1>5. CASE Fits(pos)
  <2>1. candidate \in DOMAIN groups /\ candidate # pos  BY <1>1, <1>5 DEF Fits
  <2>2. PICK d, e : d = groups[candidate] /\ e = groups[pos]  OBVIOUS
  <2>3. PICK g : g = Joined(d, e)  OBVIOUS
  <2>4. /\ DOMAIN groups' = DOMAIN groups /\ groups'[candidate] = g /\ groups'[pos] = NoSubgroups
        /\ \A i \in DOMAIN groups : i # candidate /\ i # pos => groups'[i] = groups[i]
      BY <1>2, <1>3, <1>5, <2>1, <2>2, <2>3
  <2>5. d \in GroupRecord /\ e \in GroupRecord  BY <1>3, <2>1, <2>2, GroupFacts
  <2>6. ASSUME NEW s \in DOMAIN g.subgroups
        PROVE  \/ \E r \in DOMAIN d.subgroups : g.subgroups[s] = d.subgroups[r]
               \/ \E r \in DOMAIN e.subgroups : g.subgroups[s] = e.subgroups[r]
    <3>1. PICK a, b, n, m : a = d.subgroups /\ b = e.subgroups /\ n = Len(a) /\ m = Len(b)  OBVIOUS
    <3>2. a \in Seq(Seq(Nat)) /\ b \in Seq(Seq(Nat))  BY <2>5, <3>1 DEF GroupRecord
    <3>3. n \in Nat /\ m \in Nat /\ DOMAIN a = 1 .. n /\ DOMAIN b = 1 .. m  BY <3>1, <3>2, LenProperties
    <3>4. g.subgroups = a \o b  BY <2>3, <3>1 DEF Joined
    <3>5. DOMAIN (a \o b) = 1 .. n + m
          /\ \A i \in 1 .. n + m : (a \o b)[i] = IF i <= n THEN a[i] ELSE b[i - n]
      <4>1. PICK S : S = Seq(Nat)  OBVIOUS
      <4>2. a \in Seq(S) /\ b \in Seq(S) /\ n = Len(a) /\ m = Len(b)  BY <3>1, <3>2, <4>1
      <4> QED  BY ONLY <4>2, ConcatIs
    <3>6. s \in 1 .. n + m /\ g.subgroups[s] = IF s <= n THEN a[s] ELSE b[s - n]  BY <3>4, <3>5
    <3>7. CASE s <= n
      <4>1. s \in 1 .. n  BY <3>3, <3>6, <3>7
      <4> QED  BY <3>1, <3>3, <3>6, <3>7, <4>1
    <3>8. CASE ~(s <= n)
      <4>1. s - n \in 1 .. m  BY <3>3, <3>6, <3>8
      <4> QED  BY <3>1, <3>3, <3>6, <3>8, <4>1
    <3> QED  BY <3>7, <3>8
  <2>7. ASSUME NEW i \in DOMAIN groups', NEW s \in DOMAIN groups'[i].subgroups
        PROVE  \E j \in DOMAIN groups : \E r \in DOMAIN groups[j].subgroups :
                   groups'[i].subgroups[s] = groups[j].subgroups[r]
    <3>1. CASE i = candidate  BY <1>3, <2>1, <2>2, <2>4, <2>6, <2>7, <3>1
    <3>2. CASE i = pos
      <4>1. groups'[i].subgroups = <<>>  BY <2>4, <3>2 DEF NoSubgroups
      <4> QED  BY <2>7, <4>1
    <3>3. CASE i # candidate /\ i # pos
      <4>1. i \in DOMAIN groups /\ groups'[i] = groups[i]  BY <2>4, <2>7, <3>3
      <4> QED  BY <2>7, <4>1
    <3> QED  BY <3>1, <3>2, <3>3
  <2> QED  BY <1>2, <2>7, CellsStayAlone
<1> QED  BY <1>4, <1>5

LEMMA EndSmallPassAlone ==
    ASSUME Partitioned, AloneInCell, EndSmallPass
    PROVE  AloneInCell'
<1>1. PICK K : K = Cardinality(GroupsLeft)  OBVIOUS
<1>2. groups' = [n \in 1 .. K |-> groups[NthLeft(n)]] /\ exclusionGraph' = exclusionGraph
    BY <1>1 DEF EndSmallPass, Goto, prebuiltVars
<1>3. groups \in Seq(GroupRecord) /\ Len(groups) \in Nat /\ DOMAIN groups = 1 .. Len(groups)
    BY LenProperties DEF Partitioned
<1>4. \A n \in 1 .. K : NthLeft(n) \in DOMAIN groups
  <2>1. \A n \in 1 .. K : NthLeft(n) \in GroupsLeft  BY <1>1, <1>3, LeftOnce
  <2> QED  BY <2>1 DEF GroupsLeft
<1>5. \A i \in DOMAIN groups' : NthLeft(i) \in DOMAIN groups /\ groups'[i] = groups[NthLeft(i)]
    BY <1>2, <1>4
<1>6. \A i \in DOMAIN groups' : \A s \in DOMAIN groups'[i].subgroups :
            \E j \in DOMAIN groups : \E r \in DOMAIN groups[j].subgroups :
                   groups'[i].subgroups[s] = groups[j].subgroups[r]
  <2> SUFFICES ASSUME NEW i \in DOMAIN groups', NEW s \in DOMAIN groups'[i].subgroups
               PROVE  \E j \in DOMAIN groups : \E r \in DOMAIN groups[j].subgroups :
                          groups'[i].subgroups[s] = groups[j].subgroups[r]
      OBVIOUS
  <2>1. PICK j : j = NthLeft(i)  OBVIOUS
  <2>2. j \in DOMAIN groups /\ groups'[i] = groups[j]  BY <1>5, <2>1
  <2> QED  BY <2>2
<1> QED  BY <1>2, <1>6, CellsStayAlone

AloneInv ==
    /\ phase \in {"group", "select", "pair", "join"} => AloneInGroup
    /\ phase \in {"small", "write", "compiled"} => AloneInCell

LEMMA AloneKept == GraphInv /\ MergeInv /\ AloneInv /\ [Next]_vars => AloneInv'
<1> SUFFICES ASSUME GraphInv, MergeInv, AloneInv, [Next]_vars  PROVE AloneInv'  OBVIOUS
<1>1. ASSUME UNCHANGED <<groups, exclusionGraph>>
      PROVE  (AloneInGroup => AloneInGroup') /\ (AloneInCell => AloneInCell')
  <2>1. \A x : Solitary(x)' <=> Solitary(x)  BY <1>1 DEF Solitary
  <2> QED  BY <1>1, <2>1 DEF AloneInGroup, AloneInCell, Cell
<1>2. CASE PrebuildNext /\ UNCHANGED mergeVars
  <2>1. phase' \in BeforeMerging
      BY <1>2 DEF MergeInv, PrebuildNext, PrebuildStep, prebuildVars, StartPrebuild, CopyTasks,
           ResolveSubGraph, ReturnFromGraph, ValidateTask, Validated, NormalizeLevel,
           NormalizeEdges, BeforeMerging
  <2> QED  BY <2>1 DEF AloneInv, BeforeMerging
<1>3. CASE UNCHANGED vars
  <2>1. UNCHANGED <<phase, groups, exclusionGraph>>
      BY <1>3 DEF vars, prebuildVars, prebuiltVars, mergeVars
  <2> QED  BY <1>1, <2>1 DEF AloneInv
<1>4. CASE StartMerging
  <2>1. phase = "prebuilt" /\ phase' = "group" /\ groups' = groups  BY <1>4 DEF StartMerging, Goto, mergeVars
  <2>2. groups' = <<>>  BY <2>1 DEF MergeInv, BeforeMerging
  <2> QED  BY <2>1, <2>2 DEF AloneInv, AloneInGroup
<1>5. CASE GroupTask
  <2>1. phase = "group" /\ phase' = "group"  BY <1>5 DEF GroupTask, Goto
  <2> QED  BY <1>5, <2>1, GroupTaskAlone DEF AloneInv, MergeInv
<1>6. CASE Grouped
  <2>1. phase = "group" /\ phase' = "select"  BY <1>6 DEF Grouped, Goto
  <2> QED  BY <1>6, <2>1, GroupedAlone DEF AloneInv, MergeInv
<1>7. CASE SelectCandidates \/ PairStep \/ EndPass \/ EndRound
  <2>1. /\ phase \in {"select", "pair", "join"} /\ phase' \in {"select", "pair", "join"}
        /\ UNCHANGED <<groups, exclusionGraph>>
      BY <1>7 DEF SelectCandidates, PairStep, EndPass, EndRound, Goto, prebuiltVars, mergeVars
  <2> QED  BY <1>1, <2>1 DEF AloneInv
<1>8. CASE JoinPair
  <2>1. phase = "join" /\ phase' = "join"  BY <1>8 DEF JoinPair, Goto
  <2>2. Partitioned /\ NoneEmpty /\ JoinInv  BY <2>1 DEF MergeInv, Grouping, BetweenMerges
  <2> QED  BY <1>8, <2>1, <2>2, JoinPairAlone DEF AloneInv
<1>9. CASE AllInLimit
  <2>1. phase = "select" /\ phase' = "small" /\ UNCHANGED <<groups, exclusionGraph>>
      BY <1>9 DEF AllInLimit, Goto, prebuiltVars
  <2>2. Partitioned /\ AloneInGroup  BY <2>1 DEF MergeInv, Grouping, AloneInv
  <2>3. AloneInCell  BY <2>2, AloneInBoth
  <2> QED  BY <1>1, <2>1, <2>3 DEF AloneInv
<1>10. CASE SmallStep
  <2>1. phase = "small" /\ phase' = "small"  BY <1>10 DEF SmallStep, Goto
  <2> QED  BY <1>10, <2>1, SmallStepAlone DEF AloneInv, MergeInv, Grouping
<1>11. CASE EndSmallPass
  <2>1. phase = "small" /\ phase' \in {"small", "write"}  BY <1>11 DEF EndSmallPass, Goto
  <2> QED  BY <1>11, <2>1, EndSmallPassAlone DEF AloneInv, MergeInv, Grouping
<1>12. CASE WriteCompiled
  <2>1. phase = "write" /\ phase' = "compiled" /\ UNCHANGED <<groups, exclusionGraph>>
      BY <1>12 DEF WriteCompiled, Goto, prebuiltVars
  <2> QED  BY <1>1, <2>1 DEF AloneInv
<1> QED  BY <1>2, <1>3, <1>4, <1>5, <1>6, <1>7, <1>8, <1>9, <1>10, <1>11, <1>12 DEF Next, MergeStep

------------------------------------------------------------------------------
(***************************************************************************)
(* What is known of the prebuilt graph when it is compiled.                *)
(***************************************************************************)
ExitsApart ==
    \A i, j \in DOMAIN subGraphData : subGraphData[i].exit = subGraphData[j].exit => i = j

TablesKnown == subGraphData \in Seq(SubGraphRecord) /\ ExitsApart /\ \A t \in Tables : TableDone(t)

\* Normalization only takes edges away.
EdgesWithin == \A v \in Vertices : taskGraph[v] \subseteq StatedGraph[v]

Prebuilding == {"normalize"} \cup AfterPrebuild

CompileInv ==
    /\ phase = "resolve" => ExitsApart
    /\ phase = "validate" => TablesKnown
    /\ phase \in Prebuilding => TablesKnown /\ EdgesWithin /\ StartsInOrder /\ Vertices # {}
    /\ phase = "compiled" => compiled = Written

LEMMA ResolveSubGraphApart ==
    ASSUME Nested, Resolving, ExitsApart, ResolveSubGraph
    PROVE  ExitsApart'
<1>1. PICK n : n = NumTasks  OBVIOUS
<1>2. /\ n \in Nat /\ DOMAIN tasks = 0 .. n - 1 /\ subGraphData \in Seq(SubGraphRecord)
      /\ \A i \in DOMAIN subGraphData : subGraphData[i].exit \in DOMAIN tasks
    BY <1>1 DEF Resolving, ResolveTypes, TablesOK, TableOK
<1>3. PICK new : subGraphData' = Append(subGraphData, new) /\ new.exit = n
    BY <1>1 DEF ResolveSubGraph
<1>4. PICK m : m = Len(subGraphData)  OBVIOUS
<1>5. m \in Nat /\ DOMAIN subGraphData = 1 .. m  BY <1>2, <1>4, LenProperties
<1>6. /\ DOMAIN subGraphData' = 1 .. m + 1 /\ subGraphData'[m + 1] = new
      /\ \A i \in 1 .. m : subGraphData'[i] = subGraphData[i]
    BY <1>2, <1>3, <1>4, <1>5
<1>7. \A i \in 1 .. m : subGraphData[i].exit # n  BY <1>2, <1>5
<1>8. \A i \in 1 .. m + 1 : i = m + 1 \/ i \in 1 .. m  BY <1>5
<1> QED  BY <1>3, <1>5, <1>6, <1>7, <1>8 DEF ExitsApart

LEMMA TablesStay ==
    ASSUME UNCHANGED <<taskData, tasks, stated, subGraphData>>, TablesKnown
    PROVE  TablesKnown'
<1>1. \A e : Filled(e)' <=> Filled(e)
  <2> SUFFICES ASSUME NEW e  PROVE Filled(e)' <=> Filled(e)  OBVIOUS
  <2>1. PICK path : path = tasks[e].path  OBVIOUS
  <2>2. GraphAt(tasks[e].path)' = GraphAt(tasks[e].path)  BY <2>1, GraphAtStays DEF GraphAt
  <2>3. TaskIds(GraphAt(tasks[e].path))' = TaskIds(GraphAt(tasks[e].path))
      BY <2>2, GraphStays DEF TaskIds
  <2> QED  BY <2>3 DEF Filled
<1>2. Tables' = Tables  BY DEF Tables
<1>3. ASSUME NEW t \in Tables  PROVE TableDone(t)'
  <2>1. TableDone(t)  BY DEF TablesKnown
  <2>2. Filled(t.entry)' <=> Filled(t.entry)  BY <1>1
  <2> QED  BY <2>1, <2>2 DEF TableDone
<1>4. \A t \in Tables' : TableDone(t)'  BY <1>2, <1>3
<1>5. ExitsApart'  BY DEF TablesKnown, ExitsApart
<1> QED  BY <1>4, <1>5 DEF TablesKnown

LEMMA EdgesStayWithin ==
    ASSUME UNCHANGED <<taskData, tasks, stated>>, Laid, EdgesWithin, Vertices' = Vertices,
           \A v \in Vertices : taskGraph'[v] \subseteq taskGraph[v]
    PROVE  EdgesWithin'
<1>1. StatedGraph' = StatedGraph  BY LaidStays
<1>2. \A v \in Vertices : taskGraph'[v] \subseteq StatedGraph[v]  BY DEF EdgesWithin
<1> QED  BY <1>1, <1>2 DEF EdgesWithin

LEMMA WrittenStays ==
    ASSUME UNCHANGED <<groups, taskGraph, exclusionGraph, start, subGraphData>>
    PROVE  Written' = Written
<1>1. AllSubGroups' = AllSubGroups  BY DEF AllSubGroups, Live
<1>2. AllTasks' = AllTasks  BY <1>1 DEF AllTasks, TasksIn
<1>3. Vertices' = Vertices /\ \A v : StartsPending(v)' <=> StartsPending(v)  BY DEF Vertices, StartsPending
<1>4. \A sgs, s : MaskOf(sgs, s)' = MaskOf(sgs, s)  BY DEF MaskOf
<1>5. \A sg : TasksIn(sg)' = TasksIn(sg)  BY DEF TasksIn
<1> DEFINE sgs      == AllSubGroups
           order    == AllTasks
           ids(seq) == 0 .. Len(seq) - 1
           remap    == [v \in Vertices |-> (CHOOSE i \in DOMAIN order : order[i] = v) - 1]
           New(vs)  == {remap[v] : v \in vs}
           sub(i)   == subGraphData[i + 1]
           home     == [k \in ids(order) |->
                            CHOOSE s \in ids(sgs) : order[k + 1] \in ToSet(TasksIn(sgs[s + 1]))]
           next     == [k \in ids(order) |-> New(taskGraph[order[k + 1]])]
           first    == New({v \in Vertices : StartsPending(v)})
           twice    == New({v \in Vertices : v \notin exclusionGraph[v]})
           masks    == [s \in ids(sgs) |-> MaskOf(sgs, s)]
           entries  == [i \in ids(subGraphData) |-> remap[sub(i).entry]]
           exits    == [i \in ids(subGraphData) |-> remap[sub(i).exit]]
           bodies   == [i \in ids(subGraphData) |-> New(sub(i).body)]
<1>6. remap' = remap  BY <1>2, <1>3
<1>7. home' = home  BY <1>1, <1>2, <1>5
<1>8. masks' = masks  BY <1>1, <1>4
<1>9. first' = first
  <2>1. {v \in Vertices : StartsPending(v)}' = {v \in Vertices : StartsPending(v)}  BY <1>3
  <2> HIDE DEF remap
  <2> QED  BY <1>6, <2>1
<1>10. twice' = twice
  <2>1. {v \in Vertices : v \notin exclusionGraph[v]}' = {v \in Vertices : v \notin exclusionGraph[v]}  BY <1>3
  <2> HIDE DEF remap
  <2> QED  BY <1>6, <2>1
<1> HIDE DEF remap
<1>11. next' = next  BY <1>2, <1>6
<1>12. entries' = entries /\ exits' = exits /\ bodies' = bodies  BY <1>6
<1> HIDE DEF home, masks, first, twice, next, entries, exits, bodies
<1> DEFINE places  == [s \in ids(sgs) |-> sgs[s + 1][1] - 1]
           nums    == [k \in ids(order) |-> {1}]
           origins == [k \in ids(order) |-> order[k + 1]]
<1>13. places' = places /\ nums' = nums /\ origins' = origins  BY <1>1, <1>2
<1> HIDE DEF places, nums, origins
<1> DEFINE all == [groupOf |-> places, excluded |-> masks, subGroupOf |-> home, next |-> next, start |-> first,
                   selfParallel |-> twice, taskNum |-> nums, entry |-> entries, exit |-> exits,
                   body |-> bodies, task |-> origins]
<1>14. Written = all /\ Written' = all'
    BY DEF Written, remap, home, masks, first, twice, next, entries, exits, bodies, places, nums, origins
<1>15. all' = all  BY <1>7, <1>8, <1>9, <1>10, <1>11, <1>12, <1>13
<1> QED  BY <1>14, <1>15

LEMMA CompileKeeps ==
    ASSUME Nested, ResolveInv, PrebuildInv, PrebuildInv', NormalInv, CompileInv, PrebuildNext
    PROVE  CompileInv'
<1>0. \A p \in {"user", "resolve", "validate", "refused"} : p \notin Prebuilding /\ p # "compiled"
    BY DEF Prebuilding, AfterPrebuild
<1>1. CASE phase = "user" /\ UserNext /\ UNCHANGED prebuildVars
  <2>1. phase' = "user"  BY <1>1 DEF prebuildVars
  <2> QED  BY <1>0, <2>1 DEF CompileInv
<1>2. CASE StartPrebuild
  <2>1. phase = "user" /\ phase' = "resolve" /\ subGraphData' = subGraphData  BY <1>2 DEF StartPrebuild
  <2>2. subGraphData' = <<>>  BY <2>1 DEF ResolveInv
  <2>3. ExitsApart'  BY <2>2 DEF ExitsApart
  <2> QED  BY <1>0, <2>1, <2>3 DEF CompileInv
<1>3. CASE CopyTasks
  <2>1. phase = "resolve" /\ phase' = "resolve" /\ subGraphData' = subGraphData  BY <1>3 DEF CopyTasks
  <2>2. ExitsApart'  BY <2>1 DEF CompileInv, ExitsApart
  <2> QED  BY <1>0, <2>1, <2>2 DEF CompileInv
<1>4. CASE ResolveSubGraph
  <2>1. phase = "resolve" /\ phase' = "resolve"  BY <1>4 DEF ResolveSubGraph
  <2>2. ExitsApart'  BY <1>4, <2>1, ResolveSubGraphApart DEF CompileInv, ResolveInv
  <2> QED  BY <1>0, <2>1, <2>2 DEF CompileInv
<1>5. CASE ReturnFromGraph
  <2>1. /\ phase = "resolve" /\ phase' = IF Len(calls) = 1 THEN "validate" ELSE "resolve"
        /\ UNCHANGED <<taskData, tasks, stated, subGraphData>>
      BY <1>5 DEF ReturnFromGraph, userVars
  <2>2. ExitsApart /\ Resolving /\ Wiring  BY <2>1 DEF CompileInv, ResolveInv, PrebuildInv
  <2>3. CASE Len(calls) = 1
    <3>1. TablesKnown
        BY <1>5, <2>2, <2>3, LastReturnTables DEF TablesKnown, Resolving, ResolveTypes
    <3>2. TablesKnown'  BY <2>1, <3>1, TablesStay
    <3> QED  BY <1>0, <2>1, <2>3, <3>2 DEF CompileInv
  <2>4. CASE Len(calls) # 1
    <3>1. ExitsApart'  BY <2>1, <2>2 DEF ExitsApart
    <3> QED  BY <1>0, <2>1, <2>4, <3>1 DEF CompileInv
  <2> QED  BY <2>3, <2>4
<1>6. CASE ValidateTask
  <2>1. phase = "validate" /\ phase' = "validate" /\ UNCHANGED <<taskData, tasks, stated, subGraphData>>
      BY <1>6 DEF ValidateTask, userVars
  <2>2. TablesKnown'  BY <2>1, TablesStay DEF CompileInv
  <2> QED  BY <1>0, <2>1, <2>2 DEF CompileInv
<1>7. CASE Validated
  <2>1. /\ phase = "validate" /\ phase' \in {"normalize", "refused"}
        /\ UNCHANGED <<taskData, tasks, taskGraph, stated, subGraphData>> /\ Vertices' = Vertices
      BY <1>7 DEF Validated, prebuiltVars, userVars, Vertices
  <2>2. TablesKnown'  BY <2>1, TablesStay DEF CompileInv
  <2>3. Laid /\ EdgesWithin
    <3>1. AllWired  BY <2>1 DEF PrebuildInv
    <3> QED  BY <3>1, StatedGraphIs DEF AllWired, Laid, EdgesAreStated, EdgesWithin
  <2>4. EdgesWithin'  BY <2>1, <2>3, EdgesStayWithin
  <2>5. phase' = "normalize" => StartsInOrder'  BY DEF PrebuildInv
  <2>6. Vertices' # {}  BY <2>1 DEF NormalInv
  <2> QED  BY <1>0, <2>1, <2>2, <2>4, <2>5, <2>6 DEF CompileInv
<1>8. CASE NormalizeLevel \/ NormalizeEdges
  <2>1. /\ phase = "normalize" /\ phase' \in {"normalize", "prebuilt"} /\ Vertices' = Vertices
        /\ UNCHANGED <<taskData, tasks, stated, subGraphData>>
      BY <1>8 DEF NormalizeLevel, NormalizeEdges, userVars, StartSearchFrom, Vertices
  <2>2. TablesKnown /\ EdgesWithin /\ Vertices # {}  BY <2>1 DEF CompileInv, Prebuilding
  <2>3. TablesKnown'  BY <2>1, <2>2, TablesStay
  <2>4. \A v \in Vertices : taskGraph'[v] \subseteq taskGraph[v]
    <3>1. CASE NormalizeLevel  BY <3>1 DEF NormalizeLevel
    <3>2. CASE NormalizeEdges
      <4>1. taskGraph' = [taskGraph EXCEPT ![base] = @ \ Redundant]  BY <3>2 DEF NormalizeEdges
      <4> QED  BY <4>1 DEF Vertices
    <3> QED  BY <1>8, <3>1, <3>2
  <2>5. EdgesWithin'  BY <2>1, <2>2, <2>4, EdgesStayWithin DEF NormalInv
  <2>6. StartsInOrder'  BY <2>1 DEF PrebuildInv
  <2>7. phase' # "resolve" /\ phase' # "validate" /\ phase' # "compiled"  BY <2>1
  <2> QED  BY <2>1, <2>2, <2>3, <2>5, <2>6, <2>7 DEF CompileInv
<1> QED  BY <1>1, <1>2, <1>3, <1>4, <1>5, <1>6, <1>7, <1>8 DEF PrebuildNext, PrebuildStep

LEMMA CompileStays ==
    ASSUME NormalInv, CompileInv,
           \/ UNCHANGED <<phase, taskData, stated, prebuiltVars, groups, compiled>>
           \/ MergeStep
    PROVE  CompileInv'
<1>0. UNCHANGED <<taskData, stated, tasks, taskGraph, exclusionGraph, subGraphData, start>> /\ Vertices' = Vertices
    BY MergeStepReads DEF userVars, prebuiltVars, Vertices
<1>1. TablesKnown => TablesKnown'  BY <1>0, TablesStay
<1>2. EdgesWithin /\ Laid => EdgesWithin'  BY <1>0, EdgesStayWithin
<1>3. StartsInOrder => StartsInOrder'
  <2>1. UNCHANGED <<taskData, tasks, stated, start, Vertices>>  BY <1>0
  <2> QED  BY <2>1, StartsInOrderStays
<1>4. phase \in Prebuilding => Laid  BY DEF NormalInv, Prebuilding
<1>5. CASE UNCHANGED <<phase, taskData, stated, prebuiltVars, groups, compiled>>
  <2>1. UNCHANGED <<phase, groups, compiled>>  BY <1>5
  <2>2. Written' = Written  BY <1>0, <2>1, WrittenStays
  <2>3. ExitsApart => ExitsApart'  BY <1>0 DEF ExitsApart
  <2>4. Prebuilding' = Prebuilding  BY DEF Prebuilding, AfterPrebuild
  <2> QED  BY <1>0, <1>1, <1>2, <1>3, <1>4, <2>1, <2>2, <2>3, <2>4 DEF CompileInv
<1>6. CASE MergeStep
  <2>1. phase \in AfterPrebuild /\ phase' \in AfterPrebuild  BY <1>6, MergeStepMade
  <2>2. phase \in Prebuilding /\ phase' \in Prebuilding /\ phase' # "resolve" /\ phase' # "validate"
      BY <2>1 DEF Prebuilding, AfterPrebuild
  <2>3. TablesKnown' /\ EdgesWithin' /\ StartsInOrder' /\ Vertices' # {}
      BY <1>0, <1>1, <1>2, <1>3, <1>4, <2>2 DEF CompileInv
  <2>4. phase' = "compiled" => compiled' = Written'
    <3>1. SUFFICES ASSUME phase' = "compiled"  PROVE compiled' = Written'  OBVIOUS
    <3>2. WriteCompiled
        BY <1>6, <3>1
        DEF MergeStep, Goto, StartMerging, GroupTask, Grouped, SelectCandidates, PairStep, EndPass,
            JoinPair, EndRound, AllInLimit, SmallStep, EndSmallPass
    <3>3. compiled' = Written /\ groups' = groups  BY <3>2 DEF WriteCompiled
    <3>4. Written' = Written  BY <1>0, <3>3, WrittenStays
    <3> QED  BY <3>3, <3>4
  <2> QED  BY <2>2, <2>3, <2>4 DEF CompileInv
<1> QED  BY <1>5, <1>6

------------------------------------------------------------------------------
(***************************************************************************)
(* What the executor assumes of the compiled graph.                        *)
(***************************************************************************)
\* What is known of the prebuilt graph, its groups and what is written of them.
Ready ==
    /\ GraphInv /\ GraphIsFunction /\ Laid /\ Vertices # {}
    /\ OrderStated /\ ExclusionStated /\ EdgesWithin /\ TablesKnown /\ StartsInOrder
    /\ Partitioned /\ NoneEmpty /\ AloneInCell
    /\ compiled = Written

LEMMA ReadyTables ==
    ASSUME Ready
    PROVE  /\ taskGraph \in [Vertices -> SUBSET Vertices]
           /\ \A v \in Vertices : taskGraph[v] \subseteq EdgesFrom(v)
           /\ TablesInside
           /\ \A i \in DOMAIN subGraphData : TableDone(subGraphData[i])
<1>1. DOMAIN tasks = Vertices  BY DEF Ready, Laid
<1>2. \A v \in Vertices : taskGraph[v] \subseteq EdgesFrom(v) /\ taskGraph[v] \subseteq Vertices
    BY <1>1, StatedGraphIs DEF Ready, EdgesWithin
<1>3. taskGraph \in [Vertices -> SUBSET Vertices]
  <2>1. taskGraph = [v \in Vertices |-> taskGraph[v]]  BY DEF Ready, GraphIsFunction
  <2> QED  BY <1>2, <2>1
<1>4. \A i \in DOMAIN subGraphData : TableDone(subGraphData[i])  BY DEF Ready, TablesKnown, Tables
<1>5. subGraphData \in Seq(SubGraphRecord)  BY DEF Ready, TablesKnown
<1>6. subGraphData = [i \in 1 .. Len(subGraphData) |-> subGraphData[i]] /\ Len(subGraphData) \in Nat
    BY <1>5, LenProperties
<1>7. TablesInside  BY <1>1, <1>4, <1>6 DEF TablesInside, TableDone
<1> QED  BY <1>2, <1>3, <1>4, <1>7

\* What comes after each task.
Orders(ahead) ==
    /\ ahead \in [Vertices -> SUBSET Vertices]
    /\ \A x, y \in Vertices : y \in ahead[x] <=> Precedes(x, y)
    /\ \A x \in Vertices : /\ x \notin ahead[x] /\ taskGraph[x] \subseteq ahead[x]
                           /\ taskGraph[x] = {} => ahead[x] = {}
                           /\ \A y \in ahead[x] : /\ ahead[y] \subseteq ahead[x]
                                                  /\ \E u \in Vertices : y \in taskGraph[u]

LEMMA ReadyOrder == Ready => \E ahead : Orders(ahead)
<1> SUFFICES ASSUME Ready  PROVE \E ahead : Orders(ahead)  OBVIOUS
<1>1. PICK D, next, ahead : D = Vertices /\ next = taskGraph /\ ahead = Ahead(taskGraph)  OBVIOUS
<1>2. next \in [D -> SUBSET D]  BY <1>1, ReadyTables
<1>3. IsFiniteSet(D)  BY <1>1, FewTasks DEF Ready
<1>4. Least(next, D, D, ahead)
  <2>1. Least(next, D, D, Ahead(next))  BY ONLY <1>2, <1>3, AheadIsLeast
  <2> QED  BY <1>1, <2>1
<1>5. \A x \in D : ahead[x] = {y \in D : Precedes(x, y)}  BY <1>1 DEF Ready, OrderStated
<1>6. ahead \in [D -> SUBSET D]  BY <1>4 DEF Least
<1>7. \A x \in D : ~Precedes(x, x)  BY DEF Precedes
<1>8. ASSUME NEW x \in D
      PROVE  /\ next[x] \subseteq ahead[x] /\ (next[x] = {} => ahead[x] = {})
             /\ \A y \in ahead[x] : ahead[y] \subseteq ahead[x] /\ \E u \in D : y \in next[u]
  <2>1. next[x] \subseteq ahead[x] /\ \A y \in ahead[x] : ahead[y] \subseteq ahead[x]
      BY ONLY <1>2, <1>4, <1>8, ReachIsClosed
  <2>2. ASSUME next[x] = {}  PROVE ahead[x] = {}
    <3>1. ClosedFrom(next, x, D, {})  BY <2>2 DEF ClosedFrom
    <3> QED  BY <1>4, <3>1 DEF Least
  <2>3. \A y \in ahead[x] : \E u \in D : y \in next[u]
    <3>1. PICK T : T = {y \in D : \E u \in D : y \in next[u]}  OBVIOUS
    <3>2. ClosedFrom(next, x, D, T)  BY <1>2, <3>1 DEF ClosedFrom
    <3>3. ahead[x] \subseteq T  BY <1>4, <3>2 DEF Least
    <3> QED  BY <3>1, <3>3
  <2> QED  BY <2>1, <2>2, <2>3
<1>9. \A x \in D : x \notin ahead[x]  BY <1>5, <1>7
<1>10. \A x, y \in Vertices : y \in ahead[x] <=> Precedes(x, y)  BY <1>1, <1>5
<1>11. ASSUME NEW x \in Vertices
       PROVE  /\ x \notin ahead[x] /\ taskGraph[x] \subseteq ahead[x]
              /\ taskGraph[x] = {} => ahead[x] = {}
              /\ \A y \in ahead[x] : ahead[y] \subseteq ahead[x] /\ \E u \in Vertices : y \in taskGraph[u]
    BY <1>1, <1>8, <1>9
<1>12. ahead \in [Vertices -> SUBSET Vertices]  BY <1>1, <1>6
<1> QED  BY <1>10, <1>11, <1>12 DEF Orders

LEMMA ReadyMatches ==
    ASSUME Ready
    PROVE  /\ TasksMatch(Output!Tasks) /\ SubGraphsMatch(Output!Tasks, Output!SubGraphs)
           /\ SubGroupsMatch(Output!Tasks, AllSubGroups, Output!SubGroups)
           /\ SubGroupsAssumed(Output!SubGroups)
<1>1. PICK K, H, S, sgs : K = Output!Tasks /\ H = Output!SubGraphs /\ S = Output!SubGroups /\ sgs = AllSubGroups
    OBVIOUS
<1>2. /\ Partitioned /\ compiled = Written /\ GraphInv /\ NoneEmpty /\ Vertices # {}
      /\ TablesInside /\ taskGraph \in [Vertices -> SUBSET Vertices]
    BY ReadyTables DEF Ready
<1>3. TasksMatch(K) /\ SubGraphsMatch(K, H) /\ SubGroupsMatch(K, sgs, S)
    BY <1>1, <1>2, TasksWritten, SubGraphsWritten, SubGroupsWritten
<1>4. SubGroupsAssumed(S)  BY <1>1, <1>2, <1>3, SubGroupsAreAssumed
<1> QED  BY <1>1, <1>3, <1>4

\* The ends of a sub-graph are not those of another one, by their places.
LEMMA EndsApart ==
    ASSUME Ready, NEW i \in DOMAIN subGraphData, NEW j \in DOMAIN subGraphData
    PROVE  /\ subGraphData[i].entry # subGraphData[j].exit
           /\ subGraphData[i].entry = subGraphData[j].entry \/ subGraphData[i].exit = subGraphData[j].exit
                => i = j
<1>1. PICK a, b : a = subGraphData[i] /\ b = subGraphData[j]  OBVIOUS
<1>2. TableDone(a) /\ TableDone(b)  BY <1>1, ReadyTables
<1>3. a.entry # b.exit  BY <1>2 DEF TableDone
<1>4. a.exit = b.exit => i = j  BY <1>1 DEF Ready, TablesKnown, ExitsApart
<1>5. ASSUME a.entry = b.entry  PROVE a.exit = b.exit
  <2>1. SUFFICES ASSUME a.exit # b.exit  PROVE FALSE  OBVIOUS
  <2>2. /\ a.exit \in DOMAIN tasks /\ b.exit \in DOMAIN tasks /\ tasks[a.exit].path = tasks[b.exit].path
        /\ tasks[a.exit].kind = "exit" /\ tasks[b.exit].kind = "exit"
      BY <1>2, <1>5 DEF TableDone
  <2> QED  BY <2>1, <2>2, OneAtPlace DEF Ready
<1> QED  BY <1>1, <1>3, <1>4, <1>5

\* Nothing is said of the usages of an exit, so that it is alone.
LEMMA ExitIsAlone ==
    ASSUME Ready, NEW k \in Output!Tasks, tasks[At(k)].kind = "exit"
    PROVE  Output!TasksOf(Output!SubGroupOf[k]) = {k}
<1>1. PICK K, S, sgs, s : K = Output!Tasks /\ S = Output!SubGroups /\ sgs = AllSubGroups /\ s = Output!SubGroupOf[k]
    OBVIOUS
<1>2. TasksMatch(K) /\ SubGroupsMatch(K, sgs, S)  BY <1>1, ReadyMatches
<1>3. At(k) \in Vertices /\ \A j \in K : At(j) = At(k) => j = k  BY <1>1, <1>2 DEF TasksMatch
<1>4. /\ s \in S /\ s + 1 \in DOMAIN sgs
      /\ \A j \in K : Output!SubGroupOf[j] = s <=> At(j) \in ToSet(TasksIn(sgs[s + 1]))
    BY <1>1, <1>2 DEF SubGroupsMatch
<1>5. PICK sg : sg = sgs[s + 1]  OBVIOUS
<1>6. IsLeft(sg) /\ ToSet(TasksIn(sg)) = Cell(sg[1], sg[2])
    BY <1>1, <1>4, <1>5, SubGroupsListed, TasksOfLeft DEF Ready
<1>7. At(k) \in Cell(sg[1], sg[2])  BY <1>1, <1>4, <1>5, <1>6
<1>8. Solitary(At(k))
  <2>1. \A y : ~Conflict(At(k), y)  BY DEF Conflict, UsagesOf
  <2> QED  BY <1>3, <2>1 DEF Ready, ExclusionStated, Solitary
<1>9. Cell(sg[1], sg[2]) = {At(k)}
  <2>1. sg[1] \in DOMAIN groups /\ sg[2] \in DOMAIN groups[sg[1]].subgroups  BY <1>6 DEF IsLeft, Live
  <2> QED  BY <1>7, <1>8, <2>1 DEF Ready, AloneInCell
<1>10. \A j \in K : Output!SubGroupOf[j] = s <=> j = k  BY <1>1, <1>3, <1>4, <1>5, <1>6, <1>9
<1> QED  BY <1>1, <1>10 DEF Output!TasksOf

LEMMA ReadyIsAssumed == Ready => Output!WellFormed
<1> SUFFICES ASSUME Ready  PROVE Output!WellFormed  OBVIOUS
<1>1. PICK K, H, S, sgs : K = Output!Tasks /\ H = Output!SubGraphs /\ S = Output!SubGroups /\ sgs = AllSubGroups
    OBVIOUS
<1>2. TasksMatch(K) /\ SubGraphsMatch(K, H) /\ SubGroupsMatch(K, sgs, S) /\ SubGroupsAssumed(S)
    BY <1>1, ReadyMatches
<1>3. PICK ahead : Orders(ahead)  BY ReadyOrder
<1>4. PICK n \in Nat : K = 0 .. n - 1  BY <1>2 DEF TasksMatch
<1>5. K \subseteq Nat /\ IsFiniteSet(K)
  <2>1. IsFiniteSet(0 .. n - 1)  BY FS_Interval
  <2> QED  BY <1>4, <2>1
<1>6. Output!NextTasks \in [K -> SUBSET K] /\ \A k \in K : k \notin Output!NextTasks[k]
  <2>1. \A k \in K : At(k) \in Vertices /\ (k \in Output!NextTasks[k] <=> At(k) \in taskGraph[At(k)])
      BY <1>2 DEF TasksMatch
  <2>2. \A v \in Vertices : v \notin taskGraph[v]  BY <1>3 DEF Orders
  <2> QED  BY <1>2, <2>1, <2>2 DEF TasksMatch
<1>7. Output!PendingOnStart \subseteq K /\ \A k \in K : Output!DepsCnt(k) = 0 => k \in Output!PendingOnStart
  <2>1. Output!PendingOnStart \subseteq K  BY <1>2 DEF TasksMatch
  <2>2. ASSUME NEW k \in K, Output!DepsCnt(k) = 0  PROVE k \in Output!PendingOnStart
    <3>1. PICK P : P = Output!Preds(k)  OBVIOUS
    <3>2. P \subseteq K /\ \A p \in K : p \in P <=> k \in Output!NextTasks[p]  BY <1>1, <3>1 DEF Output!Preds
    <3>3. IsFiniteSet(P) /\ Cardinality(P) = 0
      <4>1. Cardinality(P) = 0  BY <2>2, <3>1 DEF Output!DepsCnt, Output!Cardinality, Cardinality
      <4> QED  BY <1>5, <3>2, <4>1, FS_Subset
    <3>4. P = {}  BY <3>3, FS_EmptySet
    <3>5. \A v \in Vertices : At(k) \notin taskGraph[v]
      <4>1. \A p \in K : At(k) \notin taskGraph[At(p)]  BY <1>2, <3>2, <3>4 DEF TasksMatch
      <4> QED  BY <1>2, <4>1 DEF TasksMatch
    <3> QED  BY <1>2, <3>5 DEF TasksMatch, StartsPending
  <2> QED  BY <2>1, <2>2
<1>8. Output!SelfParallel \subseteq K /\ Output!TaskNum \in [K -> (SUBSET Nat) \ {{}}]  BY <1>2 DEF TasksMatch
<1>9. Output!Entry \in [H -> K] /\ Output!Exit \in [H -> K] /\ Output!Body \in [H -> SUBSET K]
    BY <1>2 DEF SubGraphsMatch
<1>10. \A g \in H : /\ g + 1 \in DOMAIN subGraphData /\ g \in Int
                    /\ At(Output!Entry[g]) = subGraphData[g + 1].entry
                    /\ At(Output!Exit[g]) = subGraphData[g + 1].exit
    BY <1>2 DEF SubGraphsMatch
<1>11. Output!SelfParallel \cap Output!SubGraphEnds = {}
  <2>1. ASSUME NEW k \in K, tasks[At(k)].kind \in {"entry", "exit"}  PROVE k \notin Output!SelfParallel
    <3>1. At(k) \in exclusionGraph[At(k)]  BY <1>2, <2>1 DEF TasksMatch, Ready, ExclusionStated
    <3> QED  BY <1>2, <3>1 DEF TasksMatch
  <2>2. ASSUME NEW g \in H
        PROVE  tasks[At(Output!Entry[g])].kind = "entry" /\ tasks[At(Output!Exit[g])].kind = "exit"
      BY <1>10, ReadyTables DEF TableDone
  <2>3. \A k \in Output!SubGraphEnds : k \notin Output!SelfParallel
      BY <1>1, <1>9, <2>1, <2>2 DEF Output!SubGraphEnds
  <2> QED  BY <2>3
<1>12. ASSUME NEW g \in H, NEW h \in H
       PROVE  /\ Output!Entry[g] # Output!Exit[h]
              /\ Output!Entry[g] = Output!Entry[h] \/ Output!Exit[g] = Output!Exit[h] => g = h
  <2>1. PICK i, j : i = g + 1 /\ j = h + 1  OBVIOUS
  <2>2. i \in DOMAIN subGraphData /\ j \in DOMAIN subGraphData /\ (i = j => g = h)  BY <1>10, <2>1
  <2>3. /\ subGraphData[i].entry # subGraphData[j].exit
        /\ subGraphData[i].entry = subGraphData[j].entry \/ subGraphData[i].exit = subGraphData[j].exit => i = j
      BY <2>2, EndsApart
  <2> QED  BY <1>10, <2>1, <2>2, <2>3
<1>13. ASSUME NEW g \in H  PROVE Output!TasksOf(Output!SubGroupOf[Output!Exit[g]]) = {Output!Exit[g]}
  <2>1. PICK k \in K : k = Output!Exit[g]  BY <1>9
  <2>2. tasks[At(k)].kind = "exit"  BY <1>10, <2>1, ReadyTables DEF TableDone
  <2> QED  BY <1>1, <2>1, <2>2, ExitIsAlone
<1>14. Output!SubGroupOf \in [K -> S]  BY <1>2 DEF SubGroupsMatch
<1>15. Output!IsFiniteSet(K) /\ Output!IsFiniteSet(Output!Groups)
    BY <1>2, <1>5 DEF SubGroupsAssumed, Output!IsFiniteSet, IsFiniteSet
<1>16. /\ S \subseteq Nat /\ K \subseteq Nat /\ Output!IsFiniteSet(K)
       /\ Output!GroupOf \in [S -> Nat] /\ 0 \in Output!Groups /\ Output!IsFiniteSet(Output!Groups)
       /\ Output!Excluded \in [S -> SUBSET S]
       /\ \A s \in S : s \in Output!Excluded[s]
       /\ \A s \in S : \A r \in Output!Excluded[s] :
            s \in Output!Excluded[r] /\ Output!GroupOf[r] = Output!GroupOf[s]
    BY <1>2, <1>5, <1>15 DEF SubGroupsAssumed
<1> QED
  BY ONLY <1>1, <1>6, <1>7, <1>8, <1>9, <1>11, <1>12, <1>13, <1>14, <1>16 DEF Output!WellFormed

\* Of finitely many sets, some hold no other one, and some no other one holds.
LEMMA LeastAndGreatest ==
    ASSUME NEW D, IsFiniteSet(D), NEW S, S # {}, NEW h \in [S -> SUBSET D]
    PROVE  /\ \E k \in S : \A j \in S : h[j] \subseteq h[k] => h[j] = h[k]
           /\ \E k \in S : \A j \in S : h[k] \subseteq h[j] => h[j] = h[k]
<1>1. PICK n : n = Cardinality(D)  OBVIOUS
<1>2. n \in Nat  BY <1>1, FS_CardinalityType
<1>3. PICK c : c = [k \in S |-> Cardinality(h[k])]  OBVIOUS
<1>4. \A k \in S : IsFiniteSet(h[k]) /\ c[k] \in Nat /\ c[k] <= n
  <2> SUFFICES ASSUME NEW k \in S  PROVE IsFiniteSet(h[k]) /\ c[k] \in Nat /\ c[k] <= n  OBVIOUS
  <2>1. IsFiniteSet(h[k]) /\ Cardinality(h[k]) <= Cardinality(D)  BY FS_Subset
  <2>2. Cardinality(h[k]) \in Nat  BY <2>1, FS_CardinalityType
  <2> QED  BY <1>1, <1>3, <2>1, <2>2
<1>5. PICK T : T = {c[k] : k \in S}  OBVIOUS
<1>6. T \subseteq 0 .. n /\ T \subseteq Nat /\ T # {}
  <2>1. \A k \in S : c[k] \in 0 .. n  BY <1>2, <1>4
  <2> QED  BY <1>4, <1>5, <2>1
<1>7. ASSUME NEW j \in S, NEW k \in S, h[j] \subseteq h[k], c[j] = c[k]  PROVE h[j] = h[k]
  <2>1. Cardinality(h[j]) = Cardinality(h[k])  BY <1>3, <1>7
  <2> QED  BY <1>4, <1>7, <2>1, FS_Subset
<1>8. ASSUME NEW j \in S, NEW k \in S, h[j] \subseteq h[k]  PROVE c[j] <= c[k]
  <2>1. Cardinality(h[j]) <= Cardinality(h[k])  BY <1>4, <1>8, FS_Subset
  <2> QED  BY <1>3, <2>1
<1>9. \E k \in S : \A j \in S : h[j] \subseteq h[k] => h[j] = h[k]
  <2>1. Min(T) \in T /\ \A x \in T : Min(T) <= x  BY <1>6, MinOfNat
  <2>2. PICK k \in S : c[k] = Min(T)  BY <1>5, <2>1
  <2>3. \A j \in S : c[k] <= c[j]  BY <1>5, <2>1, <2>2
  <2>4. ASSUME NEW j \in S, h[j] \subseteq h[k]  PROVE h[j] = h[k]
    <3>1. c[j] <= c[k] /\ c[k] <= c[j]  BY <1>8, <2>3, <2>4
    <3>2. c[j] = c[k]  BY <1>4, <3>1
    <3> QED  BY <1>7, <2>4, <3>2
  <2> QED  BY <2>4
<1>10. \E k \in S : \A j \in S : h[k] \subseteq h[j] => h[j] = h[k]
  <2>1. Max(T) \in T /\ \A x \in T : Max(T) >= x  BY <1>2, <1>6, MaxBelow
  <2>2. PICK k \in S : c[k] = Max(T)  BY <1>5, <2>1
  <2>3. \A j \in S : c[k] >= c[j]  BY <1>5, <2>1, <2>2
  <2>4. ASSUME NEW j \in S, h[k] \subseteq h[j]  PROVE h[j] = h[k]
    <3>1. c[k] <= c[j] /\ c[k] >= c[j]  BY <1>8, <2>3, <2>4
    <3>2. c[j] = c[k]  BY <1>4, <3>1
    <3> QED  BY <1>7, <2>4, <3>2
  <2> QED  BY <2>4
<1> QED  BY <1>9, <1>10

\* Nothing with a cycle is ever normalized: what comes after a task is more than
\* what comes after the tasks after it.
LEMMA ReadyIsAcyclic == Ready => Output!Acyclic
<1> SUFFICES ASSUME Ready, NEW S \in SUBSET Output!Tasks, S # {}
             PROVE  /\ \E k \in S : Output!Preds(k) \cap S = {}
                    /\ \E k \in S : Output!NextTasks[k] \cap S = {}
    BY DEF Output!Acyclic
<1>1. PICK K : K = Output!Tasks  OBVIOUS
<1>2. TasksMatch(K) /\ S \subseteq K  BY <1>1, ReadyMatches
<1>3. PICK ahead : Orders(ahead)  BY ReadyOrder
<1>4. IsFiniteSet(Vertices)  BY FewTasks DEF Ready
<1>5. PICK h : h = [k \in S |-> ahead[At(k)]]  OBVIOUS
<1>6. \A k \in K : At(k) \in Vertices  BY <1>2 DEF TasksMatch
<1>7. h \in [S -> SUBSET Vertices]  BY <1>2, <1>3, <1>5, <1>6 DEF Orders
<1>8. ASSUME NEW j \in S, NEW k \in S, k \in Output!NextTasks[j]  PROVE h[k] \subseteq h[j] /\ h[j] # h[k]
  <2>1. At(k) \in taskGraph[At(j)]  BY <1>2, <1>8 DEF TasksMatch
  <2>2. At(k) \in ahead[At(j)] /\ ahead[At(k)] \subseteq ahead[At(j)] /\ At(k) \notin ahead[At(k)]
      BY <1>2, <1>3, <1>6, <2>1 DEF Orders
  <2> QED  BY <1>5, <2>2
<1>9. PICK D : D = Vertices  OBVIOUS
<1>10. /\ \E k \in S : \A j \in S : h[j] \subseteq h[k] => h[j] = h[k]
       /\ \E k \in S : \A j \in S : h[k] \subseteq h[j] => h[j] = h[k]
  <2>1. IsFiniteSet(D) /\ h \in [S -> SUBSET D]  BY <1>4, <1>7, <1>9
  <2> QED  BY <2>1, LeastAndGreatest
<1>11. \E k \in S : Output!Preds(k) \cap S = {}
  <2>1. PICK k \in S : \A j \in S : h[k] \subseteq h[j] => h[j] = h[k]  BY <1>10
  <2>2. \A j \in S : k \notin Output!NextTasks[j]  BY <1>8, <2>1
  <2> QED  BY <2>2 DEF Output!Preds
<1>12. \E k \in S : Output!NextTasks[k] \cap S = {}
  <2>1. PICK k \in S : \A j \in S : h[j] \subseteq h[k] => h[j] = h[k]  BY <1>10
  <2>2. \A j \in S : j \notin Output!NextTasks[k]  BY <1>8, <2>1
  <2> QED  BY <2>2
<1> QED  BY <1>11, <1>12

\* If tasks are ordered as they were added, those without predecessors are pending.
LEMMA ReadyStartsInOrder == Ready /\ Forward => Output!StartedInOrder
<1> SUFFICES ASSUME Ready, Forward  PROVE Output!StartedInOrder  OBVIOUS
<1>1. PICK K : K = Output!Tasks  OBVIOUS
<1>2. TasksMatch(K)  BY <1>1, ReadyMatches
<1>3. PICK ahead : Orders(ahead)  BY ReadyOrder
<1>4. Output!PendingOnStart \subseteq K /\ \A k \in K : At(k) \in Vertices  BY <1>2 DEF TasksMatch
<1>5. ASSUME NEW k \in K
      PROVE  k \in Output!PendingOnStart <=> \A p \in K : k \notin Output!NextTasks[p]
  <2>1. k \in Output!PendingOnStart <=> StartsPending(At(k))  BY <1>2 DEF TasksMatch
  <2>2. (\A p \in K : k \notin Output!NextTasks[p]) <=> \A u \in Vertices : At(k) \notin taskGraph[u]
    <3>1. \A p \in K : k \in Output!NextTasks[p] <=> At(k) \in taskGraph[At(p)]  BY <1>2 DEF TasksMatch
    <3>2. \A u \in Vertices : \E p \in K : At(p) = u  BY <1>2 DEF TasksMatch
    <3> QED  BY <1>4, <3>1, <3>2
  <2>3. ASSUME At(k) \in start, NEW u \in Vertices, At(k) \in taskGraph[u]  PROVE FALSE
    <3>1. Precedes(u, At(k))  BY <1>3, <1>4, <2>3 DEF Orders
    <3> QED  BY <1>4, <2>3, <3>1 DEF Ready, StartsInOrder
  <2> QED  BY <2>1, <2>2, <2>3 DEF StartsPending
<1>6. \A k : k \in Output!PendingOnStart <=> k \in K /\ \A p \in K : k \notin Output!NextTasks[p]
    BY <1>4, <1>5
<1>7. \A k \in K : Output!Preds(k) = {} <=> \A p \in K : k \notin Output!NextTasks[p]
    BY <1>1 DEF Output!Preds
<1> QED  BY <1>1, <1>6, <1>7 DEF Output!StartedInOrder

------------------------------------------------------------------------------
(***************************************************************************)
(* Sub-graphs that are not in others.                                      *)
(***************************************************************************)
Flat == \A sub \in SubGraphs(Root) : SubGraphs(sub) = {}

\* All entries are tasks of the root, since their sub-graphs have none.
LEMMA EntriesAreInRoot ==
    ASSUME Laid, Flat, NEW e \in DOMAIN tasks, tasks[e].kind = "entry"
    PROVE  Front(tasks[e].path) = <<>>
<1>1. SUFFICES ASSUME Front(tasks[e].path) # <<>>  PROVE FALSE  OBVIOUS
<1> DEFINE Deep == {v \in DOMAIN tasks : tasks[v].kind = "entry" /\ Front(tasks[v].path) # <<>>}
<1>2. PICK v : v \in Deep /\ \A w \in Deep : v <= w
  <2>1. Deep \subseteq Nat /\ Deep # {}  BY <1>1 DEF Laid
  <2> HIDE DEF Deep
  <2> QED  BY <2>1, MinOfNat
<1>3. v \in DOMAIN tasks /\ tasks[v].kind = "entry" /\ Front(tasks[v].path) # <<>>  BY <1>2
<1>4. PICK u \in DOMAIN tasks : u < v /\ tasks[u].kind = "entry" /\ tasks[u].path = Front(tasks[v].path)
    BY <1>3 DEF Laid, EntriesFirst
<1>5. Front(tasks[u].path) = <<>>
  <2>1. u \in Nat /\ v \in Nat  BY <1>3, <1>4, PathOf
  <2>2. ~(v <= u)  BY ONLY <1>4, <2>1
  <2>3. u \notin Deep  BY <1>2, <2>2
  <2> QED  BY <1>4, <2>3
<1>6. PICK p, q : p = tasks[u].path /\ q = tasks[v].path  OBVIOUS
<1>7. /\ p \in Seq(Nat) /\ p # <<>> /\ Front(p) = <<>> /\ Front(q) = p
      /\ GraphAt(<<>>) \in TaskGraphs
      /\ Last(p) \in TaskIds(GraphAt(<<>>)) /\ SubGraph(GraphAt(<<>>), Last(p)) # NoGraph
      /\ Last(q) \in TaskIds(GraphAt(p)) /\ SubGraph(GraphAt(p), Last(q)) # NoGraph
  <2>1. p \in Seq(Nat) /\ p # <<>> /\ Front(p) = <<>> /\ Front(q) = p  BY <1>4, <1>5, <1>6, PathOf
  <2>2. PlaceOK(tasks[u]) /\ PlaceOK(tasks[v])  BY <1>3, <1>4 DEF Laid, PlacesOK
  <2> QED  BY <1>3, <1>4, <1>6, <2>1, <2>2 DEF PlaceOK
<1>8. GraphAt(<<>>) = Root /\ GraphAt(p) = SubGraph(Root, Last(p))
  <2>1. p = Append(<<>>, Last(p)) /\ Last(p) \in Nat  BY <1>7, PathSplits
  <2>2. <<>> \in Seq(Nat)  OBVIOUS
  <2>3. GraphAt(Append(<<>>, Last(p))) = SubGraph(GraphAt(<<>>), Last(p))  BY <2>1, <2>2, GraphAtSteps
  <2> QED  BY <2>1, <2>3, GraphAtSteps
<1>9. SubGraph(Root, Last(p)) \in SubGraphs(Root)  BY <1>7, <1>8 DEF SubGraphs
<1>10. SubGraph(GraphAt(p), Last(q)) \in SubGraphs(GraphAt(p))  BY <1>7 DEF SubGraphs
<1> QED  BY <1>8, <1>9, <1>10 DEF Flat

\* A sub-graph's entry comes before all that is in it, and its exit after it.
LEMMA InSubGraph ==
    ASSUME Laid, NEW t, TableDone(t), NEW v \in t.body
    PROVE  /\ v \in DOMAIN tasks /\ tasks[v].kind # "exit" /\ Front(tasks[v].path) = tasks[t.entry].path
           /\ Precedes(t.entry, v) /\ Precedes(v, t.exit) /\ Precedes(t.entry, t.exit)
<1>1. /\ t.entry \in DOMAIN tasks /\ t.exit \in DOMAIN tasks
      /\ tasks[t.entry].kind = "entry" /\ tasks[t.exit].kind = "exit"
      /\ tasks[t.exit].path = tasks[t.entry].path
      /\ v \in DOMAIN tasks /\ tasks[v].kind # "exit" /\ Front(tasks[v].path) = tasks[t.entry].path
    BY DEF TableDone
<1>2. PICK p, q, l : p = tasks[t.entry].path /\ q = tasks[v].path /\ l = Len(p)  OBVIOUS
<1>3. p \in Seq(Nat) /\ q \in Seq(Nat) /\ q # <<>> /\ Front(q) = p  BY <1>1, <1>2, PathOf
<1>4. l \in Nat /\ Len(q) = l + 1 /\ \A i \in 1 .. l : q[i] = p[i]
    BY <1>2, <1>3, FrontIsAbove, LenProperties DEF Under
<1>5. PartAfter(p, q, l) /\ PartAfter(q, p, l) /\ PartAfter(p, p, l) /\ l # Len(q)
    BY <1>2, <1>4 DEF PartAfter
<1>6. PrecedesAt(t.entry, v, l)  BY <1>1, <1>2, <1>5 DEF PrecedesAt
<1>7. PrecedesAt(v, t.exit, l)  BY <1>1, <1>2, <1>5 DEF PrecedesAt
<1>8. PrecedesAt(t.entry, t.exit, l)  BY <1>1, <1>2, <1>5 DEF PrecedesAt
<1> QED  BY <1>1, <1>4, <1>6, <1>7, <1>8, PrecedesIs

\* What the edges into and out of a sub-graph are, if no other one is in it.
LEMMA SubGraphIsClosed ==
    ASSUME Ready, Flat, NEW i \in DOMAIN subGraphData, NEW t, t = subGraphData[i]
    PROVE  /\ taskGraph[t.entry] \subseteq t.body \cup {t.exit}
           /\ \A v \in t.body : tasks[v].kind = "task" /\ taskGraph[v] # {} /\ taskGraph[v] \subseteq t.body \cup {t.exit}
           /\ \A v \in t.body \cup {t.exit} :
                /\ \E u \in Vertices : v \in taskGraph[u]
                /\ \A u \in Vertices : v \in taskGraph[u] => u \in t.body \cup {t.entry}
<1>1. TableDone(t) /\ Laid /\ DOMAIN tasks = Vertices  BY ReadyTables DEF Ready, Laid
<1>2. PICK p : p = tasks[t.entry].path  OBVIOUS
<1>3. /\ t.entry \in Vertices /\ t.exit \in Vertices
      /\ tasks[t.entry].kind = "entry" /\ tasks[t.exit].kind = "exit" /\ tasks[t.exit].path = p
      /\ \A v \in Vertices : v \in t.body <=> tasks[v].kind # "exit" /\ Front(tasks[v].path) = p
      /\ t.body \subseteq Vertices
    BY <1>1, <1>2 DEF TableDone
<1>4. p # <<>> /\ Front(p) = <<>>  BY <1>1, <1>2, <1>3, PathOf, EntriesAreInRoot
<1>5. \A v \in Vertices : tasks[v].kind \in {"task", "entry", "exit"}
    BY <1>1 DEF Laid, PlacesOK, PlaceOK
<1>6. \A v \in Vertices : tasks[v].kind \in {"entry", "exit"} => Front(tasks[v].path) = <<>>
  <2>1. \A v \in Vertices : tasks[v].kind = "entry" => Front(tasks[v].path) = <<>>  BY <1>1, EntriesAreInRoot
  <2>2. \A v \in Vertices : tasks[v].kind = "exit" =>
            \E u \in Vertices : tasks[u].kind = "entry" /\ tasks[u].path = tasks[v].path
      BY <1>1 DEF Laid, EntriesFirst
  <2> QED  BY <2>1, <2>2
<1>7. \A v \in Vertices : tasks[v].kind = "exit" /\ tasks[v].path = p => v = t.exit
    BY <1>1, <1>3, OneAtPlace
<1>8. \A v \in Vertices : tasks[v].kind = "entry" /\ tasks[v].path = p => v = t.entry
    BY <1>1, <1>2, <1>3, OneAtPlace
<1>9. \A v \in Vertices : v \in t.body => tasks[v].kind = "task"  BY <1>3, <1>4, <1>5, <1>6
<1>10. ASSUME NEW u \in Vertices, NEW w \in taskGraph[u]
       PROVE  /\ w \in Vertices
              /\ tasks[u].kind = "entry" =>
                    \/ tasks[w].kind # "exit" /\ Front(tasks[w].path) = tasks[u].path
                    \/ tasks[w].kind = "exit" /\ tasks[w].path = tasks[u].path
              /\ tasks[u].kind # "entry" =>
                    \/ tasks[w].kind # "exit" /\ Front(tasks[w].path) = Front(tasks[u].path)
                    \/ tasks[w].kind = "exit" /\ tasks[w].path = Front(tasks[u].path)
  <2>1. w \in EdgesFrom(u)  BY <1>10, ReadyTables
  <2> QED  BY <1>1, <2>1 DEF EdgesFrom, StatedNext, ExitsAt, Siblings
<1>11. taskGraph[t.entry] \subseteq t.body \cup {t.exit}
    BY <1>2, <1>3, <1>7, <1>10
<1>12. \A v \in t.body : taskGraph[v] \subseteq t.body \cup {t.exit}
  <2> SUFFICES ASSUME NEW v \in t.body, NEW w \in taskGraph[v]  PROVE w \in t.body \cup {t.exit}  OBVIOUS
  <2>1. v \in Vertices /\ tasks[v].kind = "task" /\ Front(tasks[v].path) = p  BY <1>3, <1>9
  <2> QED  BY <1>3, <1>7, <1>10, <2>1
<1>13. PICK ahead : Orders(ahead)  BY ReadyOrder
<1>14. \A v \in t.body : taskGraph[v] # {}
  <2> SUFFICES ASSUME NEW v \in t.body  PROVE taskGraph[v] # {}  OBVIOUS
  <2>1. v \in Vertices /\ Precedes(v, t.exit)  BY <1>1, <1>3, InSubGraph
  <2>2. t.exit \in ahead[v]  BY <1>3, <1>13, <2>1 DEF Orders
  <2> QED  BY <1>13, <2>1, <2>2 DEF Orders
<1>15. \A v \in t.body \cup {t.exit} : \E u \in Vertices : v \in taskGraph[u]
  <2> SUFFICES ASSUME NEW v \in t.body \cup {t.exit}  PROVE \E u \in Vertices : v \in taskGraph[u]  OBVIOUS
  <2>1. v \in Vertices /\ Precedes(t.entry, v)
    <3>1. CASE v \in t.body  BY <1>1, <1>3, <3>1, InSubGraph
    <3>2. CASE v = t.exit
      <4>1. PrecedesAt(t.entry, t.exit, Len(p))
        <5>1. Len(p) \in Nat  BY <1>1, <1>2, <1>3, PathOf
        <5>2. PartAfter(p, p, Len(p))  BY <5>1 DEF PartAfter
        <5> QED  BY <1>2, <1>3, <5>2 DEF PrecedesAt
      <4>2. Len(p) \in Nat  BY <1>1, <1>2, <1>3, PathOf
      <4> QED  BY <1>1, <1>3, <3>2, <4>1, <4>2, PrecedesIs
    <3> QED  BY <3>1, <3>2
  <2>2. v \in ahead[t.entry]  BY <1>3, <1>13, <2>1 DEF Orders
  <2> QED  BY <1>3, <1>13, <2>2 DEF Orders
<1>16. ASSUME NEW v \in t.body \cup {t.exit}, NEW u \in Vertices, v \in taskGraph[u]
       PROVE  u \in t.body \cup {t.entry}
  <2>1. v \in Vertices  BY <1>3
  <2>2. CASE tasks[u].kind = "entry"
    <3>1. tasks[u].path = p  BY <1>3, <1>10, <1>16, <2>1, <2>2
    <3> QED  BY <1>8, <2>2, <3>1
  <2>3. CASE tasks[u].kind # "entry"
    <3>1. Front(tasks[u].path) = p  BY <1>3, <1>10, <1>16, <2>1, <2>3
    <3>2. tasks[u].kind # "exit"  BY <1>4, <1>6, <3>1
    <3> QED  BY <1>3, <3>1, <3>2
  <2> QED  BY <2>2, <2>3
<1>17. \A v \in t.body : tasks[v].kind = "task"  BY <1>3, <1>9
<1>18. \A v \in t.body : tasks[v].kind = "task" /\ taskGraph[v] # {} /\ taskGraph[v] \subseteq t.body \cup {t.exit}
    BY <1>12, <1>14, <1>17
<1>19. \A v \in t.body \cup {t.exit} : \A u \in Vertices : v \in taskGraph[u] => u \in t.body \cup {t.entry}
    BY <1>16
<1>20. \A v \in t.body \cup {t.exit} : /\ \E u \in Vertices : v \in taskGraph[u]
                                      /\ \A u \in Vertices : v \in taskGraph[u] => u \in t.body \cup {t.entry}
    BY <1>15, <1>19
<1> QED  BY <1>11, <1>18, <1>20

\* No sub-graph of the compiled graph is then inside another one.
LEMMA ReadyIsFlat == Ready /\ Flat => Output!NotNested
<1> SUFFICES ASSUME Ready, Flat  PROVE Output!NotNested  OBVIOUS
<1>1. PICK K, H : K = Output!Tasks /\ H = Output!SubGraphs  OBVIOUS
<1>2. TasksMatch(K) /\ SubGraphsMatch(K, H)  BY <1>1, ReadyMatches
<1>3. PICK en, ex, bo, next : en = Output!Entry /\ ex = Output!Exit /\ bo = Output!Body /\ next = Output!NextTasks
    OBVIOUS
<1>4. /\ en \in [H -> K] /\ ex \in [H -> K] /\ bo \in [H -> SUBSET K] /\ next \in [K -> SUBSET K]
      /\ \A k \in K : At(k) \in Vertices
      /\ \A v \in Vertices : \E k \in K : At(k) = v
      /\ \A j, k \in K : At(j) = At(k) => j = k
      /\ \A j, k \in K : j \in next[k] <=> At(j) \in taskGraph[At(k)]
    BY <1>2, <1>3 DEF TasksMatch, SubGraphsMatch
<1>5. ASSUME NEW g \in H
      PROVE  \E i \in DOMAIN subGraphData : \E t :
                /\ i = g + 1 /\ t = subGraphData[i] /\ TableDone(t)
                /\ At(en[g]) = t.entry /\ At(ex[g]) = t.exit
                /\ \A k \in K : k \in bo[g] <=> At(k) \in t.body
  <2>1. PICK i, t : i = g + 1 /\ t = subGraphData[i]  OBVIOUS
  <2>2. /\ i \in DOMAIN subGraphData /\ At(en[g]) = t.entry /\ At(ex[g]) = t.exit
        /\ \A k \in K : k \in bo[g] <=> At(k) \in t.body
      BY <1>2, <1>3, <2>1 DEF SubGraphsMatch
  <2>3. TableDone(t)  BY <2>1, <2>2, ReadyTables
  <2> QED  BY <2>1, <2>2, <2>3
<1>6. ASSUME NEW g \in H, NEW h \in H, NEW k \in bo[g], k \in bo[h]  PROVE g = h
  <2>1. PICK i, t : i \in DOMAIN subGraphData /\
            /\ i = g + 1 /\ t = subGraphData[i] /\ TableDone(t)
            /\ \A m \in K : m \in bo[g] <=> At(m) \in t.body
      BY <1>5
  <2>2. PICK j, u : j \in DOMAIN subGraphData /\
            /\ j = h + 1 /\ u = subGraphData[j] /\ TableDone(u)
            /\ \A m \in K : m \in bo[h] <=> At(m) \in u.body
      BY <1>5
  <2>3. k \in K  BY <1>4, <1>6
  <2>4. At(k) \in t.body /\ At(k) \in u.body  BY <1>6, <2>1, <2>2, <2>3
  <2>5. /\ t.entry \in DOMAIN tasks /\ u.entry \in DOMAIN tasks
        /\ tasks[t.entry].kind = "entry" /\ tasks[u.entry].kind = "entry"
        /\ tasks[t.entry].path = tasks[u.entry].path
      BY <2>1, <2>2, <2>4 DEF TableDone
  <2>6. t.entry = u.entry  BY <2>5, OneAtPlace DEF Ready
  <2>7. i = j  BY <2>1, <2>2, <2>6, EndsApart
  <2>8. g \in Int /\ h \in Int  BY <1>2 DEF SubGraphsMatch
  <2> QED  BY ONLY <2>1, <2>2, <2>7, <2>8
<1>7. \A k \in Output!SubGraphEnds : k \in K /\ tasks[At(k)].kind \in {"entry", "exit"}
  <2>1. ASSUME NEW g \in H
        PROVE  /\ en[g] \in K /\ tasks[At(en[g])].kind = "entry"
               /\ ex[g] \in K /\ tasks[At(ex[g])].kind = "exit"
      BY <1>4, <1>5 DEF TableDone
  <2> QED  BY <1>1, <1>3, <2>1 DEF Output!SubGraphEnds
<1>8. ASSUME NEW g \in H
      PROVE  /\ bo[g] \cap Output!SubGraphEnds = {}
             /\ next[en[g]] \subseteq bo[g] \cup {ex[g]}
             /\ \A k \in bo[g] : next[k] # {} /\ next[k] \subseteq bo[g] \cup {ex[g]}
             /\ \A k \in bo[g] \cup {ex[g]} :
                    Output!Preds(k) # {} /\ Output!Preds(k) \subseteq bo[g] \cup {en[g]}
  <2>1. PICK i, t : i \in DOMAIN subGraphData /\
            /\ i = g + 1 /\ t = subGraphData[i] /\ TableDone(t)
            /\ At(en[g]) = t.entry /\ At(ex[g]) = t.exit
            /\ \A k \in K : k \in bo[g] <=> At(k) \in t.body
      BY <1>5
  <2>2. /\ taskGraph[t.entry] \subseteq t.body \cup {t.exit}
        /\ \A v \in t.body : tasks[v].kind = "task" /\ taskGraph[v] # {} /\ taskGraph[v] \subseteq t.body \cup {t.exit}
        /\ \A v \in t.body \cup {t.exit} :
                /\ \E u \in Vertices : v \in taskGraph[u]
                /\ \A u \in Vertices : v \in taskGraph[u] => u \in t.body \cup {t.entry}
      BY <2>1, SubGraphIsClosed
  <2>3. en[g] \in K /\ ex[g] \in K /\ bo[g] \subseteq K  BY <1>4
  <2>4. \A k \in K : /\ k \in bo[g] \cup {ex[g]} <=> At(k) \in t.body \cup {t.exit}
                     /\ k \in bo[g] \cup {en[g]} <=> At(k) \in t.body \cup {t.entry}
      BY <1>4, <2>1, <2>3
  <2>5. bo[g] \cap Output!SubGraphEnds = {}
    <3>1. \A k \in bo[g] : tasks[At(k)].kind = "task"  BY <2>1, <2>2, <2>3
    <3> QED  BY <1>7, <3>1
  <2>6. next[en[g]] \subseteq bo[g] \cup {ex[g]}
    <3>1. \A j \in next[en[g]] : j \in K /\ At(j) \in taskGraph[t.entry]  BY <1>4, <2>1, <2>3
    <3> QED  BY <2>2, <2>4, <3>1
  <2>7. ASSUME NEW k \in bo[g]  PROVE next[k] # {} /\ next[k] \subseteq bo[g] \cup {ex[g]}
    <3>1. k \in K /\ At(k) \in t.body  BY <2>1, <2>3
    <3>2. \A j \in next[k] : j \in K /\ At(j) \in taskGraph[At(k)]  BY <1>4, <3>1
    <3>3. PICK w : w \in taskGraph[At(k)]  BY <2>2, <3>1
    <3>4. w \in Vertices  BY <1>4, <3>1, <3>3, ReadyTables
    <3>5. PICK j \in K : At(j) = w  BY <1>4, <3>4
    <3>6. j \in next[k]  BY <1>4, <3>1, <3>3, <3>5
    <3> QED  BY <2>2, <2>4, <3>1, <3>2, <3>6
  <2>8. ASSUME NEW k \in bo[g] \cup {ex[g]}
        PROVE  Output!Preds(k) # {} /\ Output!Preds(k) \subseteq bo[g] \cup {en[g]}
    <3>1. k \in K /\ At(k) \in t.body \cup {t.exit}  BY <2>3, <2>4
    <3>2. \A p : p \in Output!Preds(k) <=> p \in K /\ At(k) \in taskGraph[At(p)]
        BY <1>1, <1>3, <1>4, <3>1 DEF Output!Preds
    <3>3. PICK u \in Vertices : At(k) \in taskGraph[u]  BY <2>2, <3>1
    <3>4. PICK p \in K : At(p) = u  BY <1>4
    <3>5. p \in Output!Preds(k)  BY <3>2, <3>3, <3>4
    <3>6. \A q \in Output!Preds(k) : q \in bo[g] \cup {en[g]}
        BY <1>4, <2>2, <2>4, <3>1, <3>2
    <3> QED  BY <3>5, <3>6
  <2> QED  BY <2>5, <2>6, <2>7, <2>8
<1>9. \A g, h \in H : g # h => bo[g] \cap bo[h] = {}  BY <1>6
<1> QED  BY <1>1, <1>3, <1>8, <1>9 DEF Output!NotNested, Output!Parts

------------------------------------------------------------------------------
(***************************************************************************)
(* The compiled graph.                                                     *)
(***************************************************************************)
\* All that the executor assumes, and what the compiled graph has of the prebuilt one.
LEMMA ReadyIsCompiled == Ready => CompiledIsAssumed
<1> SUFFICES ASSUME Ready  PROVE CompiledIsAssumed  OBVIOUS
<1>1. PICK K, H, S, sgs : K = Output!Tasks /\ H = Output!SubGraphs /\ S = Output!SubGroups /\ sgs = AllSubGroups
    OBVIOUS
<1>2. TasksMatch(K) /\ SubGraphsMatch(K, H) /\ SubGroupsMatch(K, sgs, S)  BY <1>1, ReadyMatches
<1>3. ASSUME NEW x \in K, NEW y \in K
      PROVE  /\ y \in compiled.next[x] <=> compiled.task[y] \in taskGraph[compiled.task[x]]
             /\ compiled.task[y] \in exclusionGraph[compiled.task[x]] =>
                    compiled.subGroupOf[y] \in compiled.excluded[compiled.subGroupOf[x]]
  <2>1. y \in Output!NextTasks[x] <=> At(y) \in taskGraph[At(x)]  BY <1>2 DEF TasksMatch
  <2>2. At(x) \in Vertices /\ At(y) \in Vertices  BY <1>2 DEF TasksMatch
  <2>3. ASSUME At(y) \in exclusionGraph[At(x)]
        PROVE  Output!SubGroupOf[y] \in Output!Excluded[Output!SubGroupOf[x]]
      BY <1>1, <1>2, <2>2, <2>3, ExclusionIsMasked DEF Ready
  <2> QED  BY <2>1, <2>3 DEF At, Output!NextTasks, Output!SubGroupOf, Output!Excluded
<1>4. ASSUME NEW i \in DOMAIN subGraphData
      PROVE  /\ compiled.task[compiled.entry[i - 1]] = subGraphData[i].entry
             /\ compiled.task[compiled.exit[i - 1]] = subGraphData[i].exit
  <2>1. subGraphData \in Seq(SubGraphRecord)  BY DEF Ready, TablesKnown
  <2>2. DOMAIN subGraphData = 1 .. Len(subGraphData) /\ Len(subGraphData) \in Nat  BY <2>1, LenProperties
  <2>3. PICK g : g = i - 1  OBVIOUS
  <2>4. g \in 0 .. Len(subGraphData) - 1 /\ g + 1 = i
    <3>1. PICK l : l = Len(subGraphData)  OBVIOUS
    <3>2. i \in 1 .. l /\ l \in Nat  BY <2>2, <3>1
    <3> QED  BY ONLY <2>3, <3>1, <3>2
  <2>5. At(Output!Entry[g]) = subGraphData[g + 1].entry /\ At(Output!Exit[g]) = subGraphData[g + 1].exit
      BY <1>2, <2>4 DEF SubGraphsMatch
  <2> QED  BY <2>3, <2>4, <2>5 DEF At, Output!Entry, Output!Exit
<1>5. (\A g \in TaskGraphs : \A e \in stated[g].order : e[1] < e[2]) => Output!StartedInOrder
    BY ReadyStartsInOrder DEF Forward
<1>6. Output!Acyclic  BY ReadyIsAcyclic
<1>7. (\A sub \in SubGraphs(Root) : SubGraphs(sub) = {}) => Output!NotNested  BY ReadyIsFlat DEF Flat
<1>8. Output!WellFormed  BY ReadyIsAssumed
<1> QED  BY <1>1, <1>3, <1>4, <1>5, <1>6, <1>7, <1>8 DEF CompiledIsAssumed

\* What compile_task_graph returns is what the executor assumes (CompiledGraph), and
\* it is the graph that was prebuilt: the tasks under their new numbers (804-913)
\* have the same edges, a conflict of two tasks is in their masks, each sub-graph has
\* its ends.  It is so for all graphs and nestings, however the groups were merged:
\* an exit is alone in its subgroup although subgroups are joined, no two subgroups
\* of different groups exclude each other, and whatever was stated there are no cycles.
THEOREM CompiledIsAsAssumed == Spec => []CompiledIsAssumed
<1>1. PrebuildInit /\ MergeInit => ResolveInv /\ PrebuildInv /\ CompileInv /\ AloneInv
  <2> SUFFICES ASSUME PrebuildInit, MergeInit  PROVE ResolveInv /\ PrebuildInv /\ CompileInv /\ AloneInv
      OBVIOUS
  <2>1. ResolveInv /\ PrebuildInv  BY DEF PrebuildInit, ResolveInv, SubGraphsResolved, PrebuildInv
  <2>2. phase = "user"  BY DEF PrebuildInit
  <2> QED  BY <2>1, <2>2 DEF CompileInv, AloneInv, Prebuilding, AfterPrebuild
<1>2. Nested /\ ResolveInv /\ [Next]_vars => ResolveInv'  BY ResolveIsKept
<1>3. Nested /\ OrderAsStated /\ ResolveInv /\ PrebuildInv /\ [Next]_vars => PrebuildInv'  BY PrebuildIsKept
<1>4. GraphInv /\ MergeInv /\ AloneInv /\ [Next]_vars => AloneInv'  BY AloneKept
<1>5. Nested /\ ResolveInv /\ PrebuildInv /\ PrebuildInv' /\ NormalInv /\ CompileInv /\ [Next]_vars => CompileInv'
  <2> SUFFICES ASSUME Nested, ResolveInv, PrebuildInv, PrebuildInv', NormalInv, CompileInv, [Next]_vars
               PROVE  CompileInv'
      OBVIOUS
  <2>1. CASE PrebuildNext  BY <2>1, CompileKeeps
  <2>2. CASE MergeStep  BY <2>2, CompileStays
  <2>3. CASE UNCHANGED vars
    <3>1. UNCHANGED <<phase, taskData, stated, prebuiltVars, groups, compiled>>
        BY <2>3 DEF vars, userVars, prebuildVars, mergeVars
    <3> QED  BY <3>1, CompileStays
  <2> QED  BY <2>1, <2>2, <2>3 DEF Next
<1>6. GraphInv /\ MergeInv /\ NormalInv /\ ExclusionInv /\ AloneInv /\ CompileInv => CompiledIsAssumed
  <2> SUFFICES ASSUME GraphInv, MergeInv, NormalInv, ExclusionInv, AloneInv, CompileInv, phase = "compiled"
               PROVE  CompiledIsAssumed
      BY DEF CompiledIsAssumed
  <2>1. Grouping /\ phase \in AfterPrebuild /\ phase \in Prebuilding /\ phase \in BetweenMerges
      BY DEF Grouping, AfterPrebuild, Prebuilding, BetweenMerges
  <2>2. GraphIsFunction /\ Laid /\ OrderStated /\ ExclusionStated  BY <2>1 DEF NormalInv, ExclusionInv
  <2>3. EdgesWithin /\ TablesKnown /\ StartsInOrder /\ Vertices # {} /\ compiled = Written
      BY <2>1 DEF CompileInv
  <2>4. Partitioned /\ NoneEmpty /\ AloneInCell  BY <2>1 DEF MergeInv, AloneInv
  <2>5. Ready  BY <2>2, <2>3, <2>4 DEF Ready
  <2> QED  BY <2>5, ReadyIsCompiled
<1> QED
  BY <1>1, <1>2, <1>3, <1>4, <1>5, <1>6, GraphIsTyped, MergeIsInvariant, NormalInvHolds, ExclusionInvHolds,
     GraphsAreNested, CompilerReadsOrder, PTL DEF Spec

=============================================================================
