----------------------- MODULE PrebuiltTaskGraphProofs -----------------------
(***************************************************************************)
(* Theorems about the compiler up to the prebuilt graph: it leaves the     *)
(* user's graphs alone, so that what TaskGraphProofs proves of them holds  *)
(* throughout; exclusion is mutual from the first conflict on; and the     *)
(* resolution lays out all tasks of all graphs as the tables and the       *)
(* reserved size say.  With them, what is needed of numbers, sequences and *)
(* sums.                                                                   *)
(***************************************************************************)
EXTENDS MergeSubgroups, TaskGraphProofs, SequenceTheorems, FiniteSetTheorems

------------------------------------------------------------------------------
(***************************************************************************)
(* The compiler reads the user's graphs.                                   *)
(***************************************************************************)
LEMMA PrebuildStepReads == PrebuildStep => UNCHANGED userVars
  BY DEF PrebuildStep, StartPrebuild, CopyTasks, ResolveSubGraph, ReturnFromGraph,
         ValidateTask, Validated, NormalizeLevel, NormalizeEdges

LEMMA MergeStepReads == MergeStep => UNCHANGED <<userVars, prebuiltVars>>
  BY DEF MergeStep, Goto, StartMerging, GroupTask, Grouped, SelectCandidates, PairStep, EndPass,
         JoinPair, EndRound, AllInLimit, SmallStep, EndSmallPass, WriteCompiled

\* The compiler, from the first call of the user to the compiled graph, is one
\* of the behaviours of a TaskGraph: prebuild_task_graph and compile_task_graph
\* take it by const reference and change nothing that it reaches.
THEOREM CompilerLeavesGraphs == Spec => UserSpec
<1>1. UserInit /\ PrebuildInit /\ MergeInit => UserInit  OBVIOUS
<1>2. [Next]_vars => [UserNext]_userVars
  <2> SUFFICES ASSUME [Next]_vars  PROVE UserNext \/ UNCHANGED userVars  OBVIOUS
  <2>1. CASE PrebuildNext  BY <2>1, PrebuildStepReads DEF PrebuildNext
  <2>2. CASE MergeStep  BY <2>2, MergeStepReads
  <2>3. CASE UNCHANGED vars  BY <2>3 DEF vars
  <2> QED  BY <2>1, <2>2, <2>3 DEF Next
<1> QED  BY <1>1, <1>2, PTL DEF Spec, UserSpec

\* When the compiler reads a matrix (338-341), it holds what was stated.
THEOREM CompilerReadsOrder == Spec => []OrderAsStated
  BY CompilerLeavesGraphs, OrderIsKept, PTL

\* When the compiler reads the usages (343-356), they are those that were stated:
\* no walk of the user is under way once it began, in any of its steps.
THEOREM CompilerReadsUsage == Spec => [](UsageAsStated /\ (phase # "user" => usageCall = <<>>))
<1> DEFINE Returned == phase # "user" => usageCall = <<>>
<1>1. PrebuildInit => Returned  BY DEF PrebuildInit
<1>2. Returned /\ [Next]_vars => Returned'
  <2> SUFFICES ASSUME Returned, [Next]_vars  PROVE Returned'  OBVIOUS
  <2>1. CASE StartPrebuild
    <3>1. usageCall = <<>> /\ usageCall' = usageCall  BY <2>1 DEF StartPrebuild, NoCallActive, userVars
    <3> QED  BY <3>1
  <2>2. CASE PrebuildStep /\ ~StartPrebuild
    <3>1. phase # "user"
        BY <2>2 DEF PrebuildStep, CopyTasks, ResolveSubGraph, ReturnFromGraph, ValidateTask, Validated,
                    NormalizeLevel, NormalizeEdges
    <3>2. usageCall' = usageCall  BY <2>2, PrebuildStepReads DEF userVars
    <3> QED  BY <3>1, <3>2
  <2>3. CASE phase = "user" /\ UserNext /\ UNCHANGED prebuildVars
    <3>1. phase' = "user"  BY <2>3 DEF prebuildVars
    <3> QED  BY <3>1
  <2>4. CASE MergeStep
    <3>1. phase # "user"
        BY <2>4 DEF MergeStep, StartMerging, GroupTask, Grouped, SelectCandidates, PairStep, EndPass,
                    JoinPair, EndRound, AllInLimit, SmallStep, EndSmallPass, WriteCompiled
    <3>2. usageCall' = usageCall  BY <2>4, MergeStepReads DEF userVars
    <3> QED  BY <3>1, <3>2
  <2>5. CASE UNCHANGED vars  BY <2>5 DEF vars, userVars, prebuildVars
  <2> QED  BY <2>1, <2>2, <2>3, <2>4, <2>5 DEF Next, PrebuildNext
<1> QED  BY <1>1, <1>2, CompilerLeavesGraphs, UsageIsKept, PTL DEF Spec

------------------------------------------------------------------------------
(***************************************************************************)
(* Exclusion.                                                              *)
(***************************************************************************)
Symmetric(excl) == \A x, y \in DOMAIN excl : y \in excl[x] <=> x \in excl[y]

\* The code sets and clears edges of the exclusion graph in both directions,
\* except in two places: conflicts are added from each of the two usages (343-356)
\* and the searches of the normalization run from each task on its own (439-461).
ExclusionMutual ==
    /\ exclusionGraph = [v \in DOMAIN exclusionGraph |-> exclusionGraph[v]]
    /\ DOMAIN exclusionGraph = Vertices
    /\ Symmetric(exclusionGraph)

LEMMA ConflictsMutual ==
    ASSUME NEW usages, NEW a, NEW b, <<a, b>> \in Conflicting(usages)
    PROVE  <<b, a>> \in Conflicting(usages)
<1>1. PICK p \in usages \X usages :
        /\ p[1].resource = p[2].resource /\ (p[1].locking \/ p[2].locking)
        /\ <<a, b>> = <<p[1].task, p[2].task>>
    BY DEF Conflicting
<1> DEFINE q == <<p[2], p[1]>>
<1>2. q \in usages \X usages /\ q[1] = p[2] /\ q[2] = p[1]  OBVIOUS
<1>3. <<b, a>> = <<q[1].task, q[2].task>>  BY <1>1, <1>2
<1> HIDE DEF q
<1> QED  BY <1>1, <1>2, <1>3 DEF Conflicting

LEMMA CopyTasksMutual ==
    ASSUME ExclusionMutual, CopyTasks
    PROVE  ExclusionMutual'
<1> DEFINE conflicts == Conflicting(BagToSet(taskResourceUsage[Top.graph]))
           Added(v) == {w \in Vertices : <<v - NumTasks, w - NumTasks>> \in conflicts}
<1>1. /\ exclusionGraph' = [v \in Vertices |-> exclusionGraph[v] \cup Added(v)]
      /\ DOMAIN taskGraph' = Vertices
    BY DEF CopyTasks, Vertices
<1>2. ASSUME NEW x \in Vertices, NEW y, y \in Added(x)  PROVE x \in Added(y)
    BY <1>2, ConflictsMutual
<1> HIDE DEF Added
<1> QED  BY <1>1, <1>2 DEF ExclusionMutual, Symmetric, Vertices

LEMMA ResolveSubGraphMutual ==
    ASSUME ExclusionMutual, ResolveSubGraph
    PROVE  ExclusionMutual'
<1>1. PICK entry, exit :
        exclusionGraph' = [exclusionGraph EXCEPT ![entry] = @ \cup {entry}, ![exit] = @ \cup {exit}]
    BY DEF ResolveSubGraph
<1>2. DOMAIN taskGraph' = Vertices  BY DEF ResolveSubGraph, Wired, Vertices
<1>3. /\ DOMAIN exclusionGraph' = Vertices
      /\ exclusionGraph' = [v \in Vertices |-> exclusionGraph'[v]]
      /\ \A v \in Vertices : exclusionGraph'[v] =
            IF v \in {entry, exit} THEN exclusionGraph[v] \cup {v} ELSE exclusionGraph[v]
    BY <1>1 DEF ExclusionMutual
<1>4. Symmetric(exclusionGraph')  BY <1>3 DEF ExclusionMutual, Symmetric
<1> QED  BY <1>2, <1>3, <1>4 DEF ExclusionMutual, Vertices

LEMMA NormalizeLevelMutual ==
    ASSUME ExclusionMutual, NormalizeLevel
    PROVE  ExclusionMutual'
<1>1. /\ exclusionGraph' = ExclusionWithout(Fresh)
      /\ DOMAIN taskGraph' = Vertices
    BY DEF NormalizeLevel, Vertices
<1> DEFINE reached == Fresh
<1>2. \A v \in Vertices : exclusionGraph'[v] =
        IF v = base THEN exclusionGraph[v] \ (reached \ {base})
        ELSE IF v \in reached THEN exclusionGraph[v] \ {base} ELSE exclusionGraph[v]
    BY <1>1 DEF ExclusionWithout
<1>3. /\ DOMAIN exclusionGraph' = Vertices
      /\ exclusionGraph' = [v \in Vertices |-> exclusionGraph'[v]]
    BY <1>1 DEF ExclusionWithout
<1> HIDE DEF reached
<1>4. Symmetric(exclusionGraph')
  <2> SUFFICES ASSUME NEW x \in Vertices, NEW y \in Vertices, y \in exclusionGraph'[x]
               PROVE  x \in exclusionGraph'[y]
      BY <1>3 DEF Symmetric
  <2>1. y \in exclusionGraph[x]  BY <1>2
  <2>2. x \in exclusionGraph[y]  BY <2>1 DEF ExclusionMutual, Symmetric
  <2>3. ~(x = base /\ y \in reached \ {base}) /\ ~(y = base /\ x \in reached \ {base})  BY <1>2
  <2> QED  BY <1>2, <2>2, <2>3
<1> QED  BY <1>1, <1>3, <1>4 DEF ExclusionMutual, Vertices

\* Two tasks exclude each other or neither does, whatever was resolved and
\* normalized so far: the groups, which a search along these edges collects
\* (557-567), depend on no direction, nor do the masks.
THEOREM ExclusionIsMutual == Spec => []ExclusionMutual
<1>1. PrebuildInit => ExclusionMutual
    BY DEF PrebuildInit, ExclusionMutual, Symmetric, Vertices
<1>2. ExclusionMutual /\ [Next]_vars => ExclusionMutual'
  <2> SUFFICES ASSUME ExclusionMutual, [Next]_vars  PROVE ExclusionMutual'  OBVIOUS
  <2>1. CASE UNCHANGED <<taskGraph, exclusionGraph>>
      BY <2>1 DEF ExclusionMutual, Symmetric, Vertices
  <2>2. CASE PrebuildStep
    <3>1. CASE StartPrebuild
        BY <3>1 DEF StartPrebuild, ExclusionMutual, Symmetric, Vertices
    <3>2. CASE CopyTasks  BY <3>2, CopyTasksMutual
    <3>3. CASE ResolveSubGraph  BY <3>3, ResolveSubGraphMutual
    <3>4. CASE ReturnFromGraph \/ ValidateTask \/ Validated
        BY <3>4, <2>1 DEF ReturnFromGraph, ValidateTask, Validated, prebuiltVars
    <3>5. CASE NormalizeLevel  BY <3>5, NormalizeLevelMutual
    <3>6. CASE NormalizeEdges
        BY <3>6 DEF NormalizeEdges, ExclusionMutual, Symmetric, Vertices
    <3> QED  BY <2>2, <3>1, <3>2, <3>3, <3>4, <3>5, <3>6 DEF PrebuildStep
  <2>3. CASE phase = "user" /\ UserNext /\ UNCHANGED prebuildVars
      BY <2>3, <2>1 DEF prebuildVars, prebuiltVars
  <2>4. CASE MergeStep  BY <2>4, <2>1, MergeStepReads DEF prebuiltVars
  <2>5. CASE UNCHANGED vars  BY <2>5, <2>1 DEF vars, prebuildVars, prebuiltVars
  <2> QED  BY <2>2, <2>3, <2>4, <2>5 DEF Next, PrebuildNext
<1> QED  BY <1>1, <1>2, PTL DEF Spec

------------------------------------------------------------------------------
(***************************************************************************)
(* Merging.                                                                *)
(***************************************************************************)
Touch(excludes, a, b) == \E t \in a, u \in b : u \in excludes[t]

\* The edges between live subgroups are those between their tasks.
Exact(excl, live, cell, excludes) ==
    \A s \in live : excl[s] = {s} \cup {r \in live : Touch(excludes, cell[s], cell[r])}

\* mergeSubgroups (595-611), for any number of subgroups with any tasks: if the
\* subgroups excluded each other exactly as their tasks do, they still do, and no
\* edge leads to the subgroup that is now empty.
THEOREM MergeKeepsExclusion ==
    ASSUME NEW vs, NEW excludes \in [vs -> SUBSET vs], Symmetric(excludes),
           NEW sgs, NEW live \in SUBSET sgs, NEW excl \in [sgs -> SUBSET sgs],
           NEW cell \in [sgs -> SUBSET vs],
           Exact(excl, live, cell, excludes),
           NEW dst \in live, NEW src \in live, dst # src
    PROVE  Exact(ExclusionMerged(excl, dst, src), live \ {src},
                 [cell EXCEPT ![dst] = cell[dst] \cup cell[src], ![src] = {}], excludes)
<1> DEFINE merged == ExclusionMerged(excl, dst, src)
           cell2 == [cell EXCEPT ![dst] = cell[dst] \cup cell[src], ![src] = {}]
           T(a, b) == Touch(excludes, cell[a], cell[b])
           T2(a, b) == Touch(excludes, cell2[a], cell2[b])
<1>1. \A s \in live, r \in live : T(s, r) <=> T(r, s)  BY DEF Touch, Symmetric
<1>2. \A s, r \in live : r # s => (r \in excl[s] <=> T(s, r))  BY DEF Exact
<1>3. \A s \in live : s \in excl[s] /\ excl[s] \subseteq live  BY DEF Exact
<1>4. /\ cell2[dst] = cell[dst] \cup cell[src]
      /\ \A s \in live \ {dst, src} : cell2[s] = cell[s]
    OBVIOUS
<1>5. /\ \A s, r \in live \ {dst, src} : T2(s, r) <=> T(s, r)
      /\ \A s \in live \ {dst, src} : T2(s, dst) <=> T(s, dst) \/ T(s, src)
      /\ \A r \in live \ {dst, src} : T2(dst, r) <=> T(dst, r) \/ T(src, r)
    BY <1>4 DEF Touch
<1> HIDE DEF T, T2, cell2
<1>6. ASSUME NEW s \in live \ {src}, NEW r
      PROVE  r \in merged[s] <=> r = s \/ (r \in live \ {src} /\ T2(s, r))
  <2>1. s \in sgs  OBVIOUS
  <2>2. CASE s = dst
    <3>1. merged[s] = (excl[dst] \ {src}) \cup (excl[src] \ {src, dst})
        BY <2>1, <2>2 DEF ExclusionMerged
    <3> QED  BY <2>2, <3>1, <1>2, <1>3, <1>5
  <2>3. CASE s # dst /\ s \in excl[src]
    <3>1. merged[s] = (excl[s] \ {src}) \cup {dst}
        BY <2>1, <2>3 DEF ExclusionMerged
    <3>2. T(s, src)  BY <2>3, <1>1, <1>2
    <3> QED  BY <2>3, <3>1, <3>2, <1>2, <1>3, <1>5
  <2>4. CASE s # dst /\ s \notin excl[src]
    <3>1. merged[s] = excl[s]  BY <2>1, <2>4 DEF ExclusionMerged
    <3>2. ~T(s, src)  BY <2>4, <1>1, <1>2
    <3> QED  BY <2>4, <3>1, <3>2, <1>2, <1>3, <1>5
  <2> QED  BY <2>2, <2>3, <2>4
<1> HIDE DEF merged
<1>7. \A s \in live \ {src} : merged[s] = {s} \cup {r \in live \ {src} : T2(s, r)}
    BY <1>6
<1> QED  BY <1>7 DEF Exact, T2, cell2, merged

------------------------------------------------------------------------------
(***************************************************************************)
(* Sets of numbers.                                                        *)
(***************************************************************************)
\* The least number is the end of the least of the intervals 0 .. x, which are
\* finite sets: their strict inclusion is well-founded.
LEMMA MinOfNat ==
    ASSUME NEW T, T \subseteq Nat, T # {}
    PROVE  Min(T) \in T /\ \A x \in T : Min(T) <= x
<1> DEFINE R == StrictSubsetOrdering(Nat)
           I == {0 .. x : x \in T}
<1>1. IsWellFoundedOn(R, FiniteSubsetsOf(Nat))  BY FS_StrictSubsetOrderingWellFounded
<1>2. I \subseteq FiniteSubsetsOf(Nat)
  <2> SUFFICES ASSUME NEW x \in T  PROVE 0 .. x \in FiniteSubsetsOf(Nat)  OBVIOUS
  <2>1. x \in Nat /\ 0 .. x \subseteq Nat  OBVIOUS
  <2>2. IsFiniteSet(0 .. x)  BY <2>1, FS_Interval
  <2> QED  BY <2>1, <2>2 DEF FiniteSubsetsOf
<1>3. I # {}  OBVIOUS
<1> HIDE DEF R
<1>4. \E i \in I : \A j \in I : ~(<<j, i>> \in R)
  <2> HIDE DEF I
  <2> QED  BY <1>1, <1>2, <1>3, WFMin
<1>5. PICK x \in T : \A y \in T : ~(<<0 .. y, 0 .. x>> \in R)  BY <1>4
<1>6. ASSUME NEW y \in T  PROVE x <= y
  <2> SUFFICES ASSUME y < x  PROVE FALSE  OBVIOUS
  <2>1. 0 .. y \subseteq 0 .. x /\ 0 .. y # 0 .. x
    <3>1. x \in 0 .. x /\ x \notin 0 .. y  OBVIOUS
    <3> QED  BY <3>1
  <2>2. 0 .. y \subseteq Nat /\ 0 .. x \subseteq Nat  OBVIOUS
  <2>3. <<0 .. y, 0 .. x>> \in R  BY <2>1, <2>2 DEF R, StrictSubsetOrdering
  <2> QED  BY <1>5, <2>3
<1> QED  BY <1>6 DEF Min

LEMMA MaxBelow ==
    ASSUME NEW n \in Nat, NEW T, T \subseteq 0 .. n, T # {}
    PROVE  Max(T) \in T /\ \A x \in T : Max(T) >= x
<1> DEFINE U == {k \in 0 .. n : n - k \in T}
<1>1. U \subseteq Nat /\ U # {}
  <2>1. PICK t \in T : t \in 0 .. n  OBVIOUS
  <2>2. n - t \in 0 .. n /\ n - (n - t) = t  BY <2>1
  <2> QED  BY <2>2
<1>2. Min(U) \in U /\ \A u \in U : Min(U) <= u  BY <1>1, MinOfNat
<1> DEFINE m == n - Min(U)
<1>3. m \in T  BY <1>2
<1>4. ASSUME NEW x \in T  PROVE m >= x
  <2>1. n - x \in 0 .. n /\ n - (n - x) = x  OBVIOUS
  <2>2. n - x \in U  BY <2>1
  <2> QED  BY <1>2, <2>2
<1> HIDE DEF m
<1> QED  BY <1>3, <1>4 DEF Max

\* The rank of a number in a set.
Below(K, i) == {j \in K : j <= i}

LEMMA RankExists ==
    ASSUME NEW K, K \subseteq Nat, IsFiniteSet(K), NEW m \in 1 .. Cardinality(K)
    PROVE  \E i \in K : Cardinality(Below(K, i)) = m
<1> DEFINE T == {k \in 1 .. Cardinality(K) : \A i \in K : Cardinality(Below(K, i)) # k}
<1> SUFFICES ASSUME T # {}  PROVE FALSE  OBVIOUS
<1>0. \A x \in K : x \in Nat  OBVIOUS
<1>1. Cardinality(K) \in Nat  BY FS_CardinalityType
<1>2. T \subseteq Nat  OBVIOUS
<1> DEFINE k == Min(T)
<1>3. k \in T /\ \A x \in T : k <= x
  <2> HIDE DEF T
  <2> QED  BY <1>2, MinOfNat
<1>4. k \in 1 .. Cardinality(K) /\ \A i \in K : Cardinality(Below(K, i)) # k  BY <1>3
<1>5. k > 1 => \E i \in K : Cardinality(Below(K, i)) = k - 1
  <2>1. k > 1 => k - 1 \notin T  BY <1>3
  <2>2. k > 1 => k - 1 \in 1 .. Cardinality(K)  BY <1>1, <1>4
  <2> HIDE DEF k
  <2> QED  BY <2>1, <2>2
<1> HIDE DEF k, T
<1>6. CASE k = 1
  <2>1. K # {}  BY <1>1, <1>4, FS_EmptySet
  <2>2. Min(K) \in K /\ \A x \in K : Min(K) <= x  BY <2>1, MinOfNat
  <2>3. Below(K, Min(K)) = {Min(K)}
    <3>1. ASSUME NEW x \in K  PROVE x <= Min(K) <=> x = Min(K)
      <4> DEFINE least == Min(K)
      <4>1. x \in Nat /\ least \in Nat /\ least <= x  BY <1>0, <2>2
      <4> HIDE DEF least
      <4>2. x <= least <=> x = least  BY <4>1
      <4> QED  BY <4>2 DEF least
    <3> QED  BY <2>2, <3>1 DEF Below
  <2> QED  BY <1>4, <1>6, <2>2, <2>3, FS_Singleton
<1>7. CASE k > 1
  <2>1. PICK i \in K : Cardinality(Below(K, i)) = k - 1  BY <1>5, <1>7
  <2> DEFINE Above == {j \in K : j > i}
  <2>2. Above # {}
    <3> SUFFICES ASSUME Above = {}  PROVE FALSE  OBVIOUS
    <3>0. \A x \in K : x <= i  BY <1>0
    <3>1. Below(K, i) = K  BY <3>0 DEF Below
    <3> QED  BY <1>1, <1>4, <2>1, <3>1
  <2>3. Min(Above) \in Above /\ \A x \in Above : Min(Above) <= x  BY <2>2, MinOfNat
  <2> DEFINE l == Min(Above)
  <2>a. l \in K /\ l > i /\ \A x \in K : x > i => l <= x  BY <2>3
  <2> HIDE DEF l
  <2>b. ASSUME NEW x \in K  PROVE x <= l <=> x <= i \/ x = l  BY <1>0, <2>a
  <2>4. Below(K, l) = Below(K, i) \cup {l}  BY <2>a, <2>b DEF Below
  <2>5. l \notin Below(K, i)  BY <1>0, <2>a DEF Below
  <2>6. IsFiniteSet(Below(K, i))  BY FS_Subset DEF Below
  <2>7. Cardinality(Below(K, l)) = Cardinality(Below(K, i)) + 1  BY <2>4, <2>5, <2>6, FS_AddElement
  <2>8. Cardinality(Below(K, l)) = k  BY <1>4, <2>1, <2>7
  <2> QED  BY <1>4, <2>a, <2>8
<1> QED  BY <1>4, <1>6, <1>7

LEMMA RankUnique ==
    ASSUME NEW K, K \subseteq Nat, IsFiniteSet(K), NEW i \in K, NEW j \in K,
           Cardinality(Below(K, i)) = Cardinality(Below(K, j))
    PROVE  i = j
<1>1. ASSUME NEW x \in K, NEW y \in K, x < y,
             Cardinality(Below(K, x)) = Cardinality(Below(K, y))
      PROVE  FALSE
  <2>0. \A z \in K : z \in Nat  OBVIOUS
  <2>1. Below(K, x) \subseteq Below(K, y) /\ y \in Below(K, y) /\ y \notin Below(K, x)
    <3>1. x \in Nat /\ y \in Nat  BY <2>0
    <3>2. \A z \in K : z <= x => z <= y  BY <1>1, <2>0, <3>1
    <3>3. y <= y /\ ~(y <= x)  BY <1>1, <3>1
    <3> QED  BY <3>2, <3>3 DEF Below
  <2>2. IsFiniteSet(Below(K, y))  BY FS_Subset DEF Below
  <2> QED  BY <1>1, <2>1, <2>2, FS_Subset
<1> QED  BY <1>1

LEMMA RankRange ==
    ASSUME NEW K, K \subseteq Nat, IsFiniteSet(K), NEW i \in K
    PROVE  Cardinality(Below(K, i)) \in 1 .. Cardinality(K)
<1>1. Below(K, i) \subseteq K /\ i \in Below(K, i)  BY DEF Below
<1>2. IsFiniteSet(Below(K, i)) /\ Cardinality(Below(K, i)) <= Cardinality(K)  BY <1>1, FS_Subset
<1>3. Cardinality(Below(K, i)) \in Nat /\ Cardinality(K) \in Nat  BY <1>2, FS_CardinalityType
<1>4. Cardinality(Below(K, i)) # 0  BY <1>1, <1>2, FS_EmptySet
<1> QED  BY <1>2, <1>3, <1>4

\* std::remove_if (796): the groups that are left, each of them once.
LEMMA LeftOnce ==
    ASSUME NEW N \in Nat, DOMAIN groups = 1 .. N
    PROVE  /\ IsFiniteSet(GroupsLeft) /\ Cardinality(GroupsLeft) \in Nat
           /\ \A n \in 1 .. Cardinality(GroupsLeft) : NthLeft(n) \in GroupsLeft
           /\ \A n, m \in 1 .. Cardinality(GroupsLeft) : NthLeft(n) = NthLeft(m) => n = m
           /\ \A i \in GroupsLeft : \E n \in 1 .. Cardinality(GroupsLeft) : NthLeft(n) = i
<1>1. GroupsLeft \subseteq 1 .. N  BY DEF GroupsLeft
<1>2. GroupsLeft \subseteq Nat  BY <1>1
<1>3. IsFiniteSet(GroupsLeft)
  <2>1. IsFiniteSet(1 .. N)  BY FS_Interval
  <2> QED  BY <1>1, <2>1, FS_Subset
<1>4. Cardinality(GroupsLeft) \in Nat  BY <1>3, FS_CardinalityType
<1> DEFINE c == Cardinality(GroupsLeft)
<1>5. ASSUME NEW n \in 1 .. c
      PROVE  NthLeft(n) \in GroupsLeft /\ Cardinality(Below(GroupsLeft, NthLeft(n))) = n
  <2>1. \E i \in GroupsLeft : Cardinality(Below(GroupsLeft, i)) = n  BY <1>2, <1>3, RankExists
  <2> QED  BY <2>1 DEF NthLeft, Below
<1>6. ASSUME NEW i \in GroupsLeft  PROVE \E n \in 1 .. c : NthLeft(n) = i
  <2> DEFINE n == Cardinality(Below(GroupsLeft, i))
  <2>1. n \in 1 .. c  BY <1>2, <1>3, RankRange
  <2>2. NthLeft(n) \in GroupsLeft /\ Cardinality(Below(GroupsLeft, NthLeft(n))) = n
    <3> HIDE DEF n, c
    <3> QED  BY <1>5, <2>1
  <2>3. NthLeft(n) = i  BY <1>2, <1>3, <2>2, RankUnique
  <2> QED  BY <2>1, <2>3
<1>7. \A n, m \in 1 .. c : NthLeft(n) = NthLeft(m) => n = m
  <2> HIDE DEF c
  <2> QED  BY <1>5
<1> QED  BY <1>3, <1>4, <1>5, <1>6, <1>7

------------------------------------------------------------------------------
(***************************************************************************)
(* Sequences.                                                              *)
(***************************************************************************)
LEMMA FunctionIsSeq ==
    ASSUME NEW S, NEW n \in Nat, NEW f \in [1 .. n -> S]
    PROVE  f \in Seq(S) /\ Len(f) = n /\ DOMAIN f = 1 .. n
  OBVIOUS

LEMMA LastOfAppend ==
    ASSUME NEW S, NEW seq \in Seq(S), NEW x
    PROVE  /\ DOMAIN Append(seq, x) = 1 .. Len(seq) + 1
           /\ \A i \in DOMAIN seq : Append(seq, x)[i] = seq[i]
           /\ Append(seq, x)[Len(seq) + 1] = x
           /\ ToSet(Append(seq, x)) = ToSet(seq) \cup {x}
<1> DEFINE app == Append(seq, x)
<1>1. Len(seq) \in Nat /\ DOMAIN seq = 1 .. Len(seq)  BY LenProperties
<1>2. /\ DOMAIN app = 1 .. Len(seq) + 1
      /\ \A i \in 1 .. Len(seq) + 1 : app[i] = IF i <= Len(seq) THEN seq[i] ELSE x
    OBVIOUS
<1> HIDE DEF app
<1>3. \A i \in DOMAIN seq : i \in 1 .. Len(seq) + 1 /\ app[i] = seq[i]  BY <1>1, <1>2
<1>4. Len(seq) + 1 \in 1 .. Len(seq) + 1 /\ app[Len(seq) + 1] = x  BY <1>1, <1>2
<1>5. ToSet(app) = ToSet(seq) \cup {x}
  <2>1. \A i \in DOMAIN app : i \in DOMAIN seq \/ i = Len(seq) + 1  BY <1>1, <1>2
  <2> QED  BY <1>2, <1>3, <1>4, <2>1 DEF ToSet
<1> QED  BY <1>2, <1>3, <1>4, <1>5 DEF app

------------------------------------------------------------------------------
(***************************************************************************)
(* Sums.  MapThenSumSet adds up the values of a set one by one, each of an *)
(* element chosen from those that are left.  What holds of it is shown of  *)
(* the smallest subset of which it would not hold.                         *)
(***************************************************************************)
Chosen(s) == CHOOSE x \in s : TRUE

\* What the fold makes of each subset on its way.
Partial(sum, F, S) ==
    sum = [s \in SUBSET S |-> IF s = {} THEN 0 ELSE F[Chosen(s)] + sum[s \ {Chosen(s)}]]

SumOver(F, S) == (CHOOSE sum : Partial(sum, F, S))[S]

LEMMA SmallestSet ==
    ASSUME NEW S, IsFiniteSet(S), NEW B, B \subseteq SUBSET S, B # {}
    PROVE  \E T \in B : \A U \in B : U \subseteq T => U = T
<1> DEFINE R == StrictSubsetOrdering(S)
<1>1. IsWellFoundedOn(R, FiniteSubsetsOf(S))  BY FS_StrictSubsetOrderingWellFounded
<1>2. B \subseteq FiniteSubsetsOf(S)
  <2> SUFFICES ASSUME NEW T \in B  PROVE T \in FiniteSubsetsOf(S)  OBVIOUS
  <2>1. T \subseteq S  OBVIOUS
  <2>2. IsFiniteSet(T)  BY <2>1, FS_Subset
  <2> QED  BY <2>1, <2>2 DEF FiniteSubsetsOf
<1> HIDE DEF R
<1>3. PICK T \in B : \A U \in B : ~(<<U, T>> \in R)  BY <1>1, <1>2, WFMin
<1>4. ASSUME NEW U \in B, U \subseteq T, U # T  PROVE FALSE
  <2>1. <<U, T>> \in R  BY <1>4 DEF R, StrictSubsetOrdering
  <2> QED  BY <1>3, <2>1
<1> QED  BY <1>4

LEMMA ChosenIsIn == ASSUME NEW s, s # {}  PROVE Chosen(s) \in s
  BY DEF Chosen

LEMMA PartialUnique ==
    ASSUME NEW F, NEW A, IsFiniteSet(A), NEW B, NEW a, NEW b, Partial(a, F, A), Partial(b, F, B),
           NEW C, C \subseteq A, C \subseteq B
    PROVE  a[C] = b[C]
<1> DEFINE Bad == {T \in SUBSET C : a[T] # b[T]}
<1>1. SUFFICES ASSUME Bad # {}  PROVE FALSE  OBVIOUS
<1>2. IsFiniteSet(C) /\ Bad \subseteq SUBSET C  BY FS_Subset
<1> HIDE DEF Bad
<1>3. PICK T \in Bad : \A U \in Bad : U \subseteq T => U = T  BY <1>1, <1>2, SmallestSet
<1>4. T \subseteq C /\ a[T] # b[T]  BY DEF Bad
<1>5. /\ a[T] = IF T = {} THEN 0 ELSE F[Chosen(T)] + a[T \ {Chosen(T)}]
      /\ b[T] = IF T = {} THEN 0 ELSE F[Chosen(T)] + b[T \ {Chosen(T)}]
    BY <1>4 DEF Partial
<1>6. T # {}  BY <1>4, <1>5
<1>7. Chosen(T) \in T  BY <1>6, ChosenIsIn
<1>8. T \ {Chosen(T)} \notin Bad  BY <1>3, <1>7
<1>9. a[T \ {Chosen(T)}] = b[T \ {Chosen(T)}]  BY <1>4, <1>8 DEF Bad
<1> QED  BY <1>4, <1>5, <1>6, <1>9

LEMMA PartialExists ==
    ASSUME NEW F, NEW S, IsFiniteSet(S)
    PROVE  \E sum : Partial(sum, F, S)
<1> DEFINE Bad == {T \in SUBSET S : ~\E sum : Partial(sum, F, T)}
<1>1. SUFFICES ASSUME Bad # {}  PROVE FALSE  OBVIOUS
<1>2. Bad \subseteq SUBSET S  OBVIOUS
<1> HIDE DEF Bad
<1>3. PICK T \in Bad : \A U \in Bad : U \subseteq T => U = T  BY <1>1, <1>2, SmallestSet
<1>4. T \subseteq S /\ ~\E sum : Partial(sum, F, T)  BY DEF Bad
<1> DEFINE Of(U) == CHOOSE sum : Partial(sum, F, U)
           all == [s \in SUBSET T |-> IF s = {} THEN 0 ELSE F[Chosen(s)] + Of(s \ {Chosen(s)})[s \ {Chosen(s)}]]
<1>5. ASSUME NEW U, U \subseteq T, U # T  PROVE Partial(Of(U), F, U) /\ IsFiniteSet(U)
  <2>1. U \notin Bad  BY <1>3, <1>5
  <2>2. U \in SUBSET S  BY <1>4, <1>5
  <2>3. \E sum : Partial(sum, F, U)  BY <2>1, <2>2 DEF Bad
  <2> QED  BY <2>2, <2>3, FS_Subset
<1>6. ASSUME NEW U, U \subseteq T, U # T  PROVE all[U] = Of(U)[U]
  <2>1. Partial(Of(U), F, U)  BY <1>5, <1>6
  <2> DEFINE W == U \ {Chosen(U)}
  <2>2. all[U] = IF U = {} THEN 0 ELSE F[Chosen(U)] + Of(W)[W]  BY <1>6
  <2>3. Of(U)[U] = IF U = {} THEN 0 ELSE F[Chosen(U)] + Of(U)[W]
    <3> HIDE DEF Of
    <3> QED  BY <2>1 DEF Partial
  <2>4. W \subseteq T /\ W \subseteq U /\ (U # {} => W # T)  BY <1>6, ChosenIsIn
  <2>5. ASSUME U # {}  PROVE Of(W)[W] = Of(U)[W]
    <3>1. Partial(Of(W), F, W) /\ IsFiniteSet(W)  BY <1>5, <2>4, <2>5
    <3> HIDE DEF Of, W
    <3> QED  BY <2>1, <2>4, <3>1, PartialUnique
  <2> QED  BY <2>2, <2>3, <2>5
<1>7. ASSUME NEW s \in SUBSET T
      PROVE  all[s] = IF s = {} THEN 0 ELSE F[Chosen(s)] + all[s \ {Chosen(s)}]
  <2>1. CASE s = {}  BY <2>1
  <2>2. CASE s # {}
    <3>1. s \ {Chosen(s)} \subseteq T /\ s \ {Chosen(s)} # T  BY <2>2, ChosenIsIn
    <3>2. all[s \ {Chosen(s)}] = Of(s \ {Chosen(s)})[s \ {Chosen(s)}]  BY <1>6, <3>1
    <3>3. all[s] = F[Chosen(s)] + Of(s \ {Chosen(s)})[s \ {Chosen(s)}]  BY <2>2
    <3> QED  BY <2>2, <3>2, <3>3
  <2> QED  BY <2>1, <2>2
<1>8. Partial(all, F, T)
  <2>1. all = [s \in SUBSET T |-> all[s]]  OBVIOUS
  <2> HIDE DEF all
  <2>2. [s \in SUBSET T |-> all[s]] =
            [s \in SUBSET T |-> IF s = {} THEN 0 ELSE F[Chosen(s)] + all[s \ {Chosen(s)}]]
      BY <1>7
  <2> QED  BY <2>1, <2>2 DEF Partial
<1> QED  BY <1>4, <1>8

LEMMA SumIsPartial ==
    ASSUME NEW F, NEW S, IsFiniteSet(S), NEW sum, NEW B, Partial(sum, F, B), S \subseteq B
    PROVE  sum[S] = SumOver(F, S)
<1> DEFINE own == CHOOSE it : Partial(it, F, S)
<1>1. Partial(own, F, S)  BY PartialExists
<1>2. SumOver(F, S) = own[S]  BY DEF SumOver
<1> HIDE DEF own
<1>3. own[S] = sum[S]
  <2>1. Partial(own, F, S) /\ Partial(sum, F, B) /\ IsFiniteSet(S) /\ S \subseteq S /\ S \subseteq B
      BY <1>1
  <2> QED  BY <2>1, PartialUnique
<1> QED  BY <1>2, <1>3

LEMMA SumSteps ==
    ASSUME NEW F, NEW S, IsFiniteSet(S)
    PROVE  /\ S = {} => SumOver(F, S) = 0
           /\ S # {} => SumOver(F, S) = F[Chosen(S)] + SumOver(F, S \ {Chosen(S)})
<1>1. PICK sum : Partial(sum, F, S)  BY PartialExists
<1>2. sum[S] = IF S = {} THEN 0 ELSE F[Chosen(S)] + sum[S \ {Chosen(S)}]  BY <1>1 DEF Partial
<1>3. sum[S] = SumOver(F, S)  BY <1>1, SumIsPartial
<1> DEFINE U == S \ {Chosen(S)}
<1>4. U \subseteq S /\ IsFiniteSet(U)  BY FS_Subset
<1> HIDE DEF U
<1>5. sum[U] = SumOver(F, U)  BY <1>1, <1>4, SumIsPartial
<1> QED  BY <1>2, <1>3, <1>5 DEF U

LEMMA SumIsInt ==
    ASSUME NEW S, IsFiniteSet(S), NEW F, \A x \in S : F[x] \in Int
    PROVE  SumOver(F, S) \in Int
<1> DEFINE Bad == {T \in SUBSET S : SumOver(F, T) \notin Int}
<1>1. SUFFICES ASSUME Bad # {}  PROVE FALSE  OBVIOUS
<1>2. Bad \subseteq SUBSET S  OBVIOUS
<1> HIDE DEF Bad
<1>3. PICK T \in Bad : \A U \in Bad : U \subseteq T => U = T  BY <1>1, <1>2, SmallestSet
<1>4. T \subseteq S /\ SumOver(F, T) \notin Int /\ IsFiniteSet(T)  BY FS_Subset DEF Bad
<1>5. T # {}
  <2>1. T = {} => SumOver(F, T) = 0  BY <1>4, SumSteps
  <2>2. 0 \in Int  OBVIOUS
  <2> QED  BY <1>4, <2>1, <2>2
<1>6. Chosen(T) \in T  BY <1>5, ChosenIsIn
<1>7. SumOver(F, T \ {Chosen(T)}) \in Int  BY <1>3, <1>4, <1>6 DEF Bad
<1>8. SumOver(F, T) = F[Chosen(T)] + SumOver(F, T \ {Chosen(T)})  BY <1>4, <1>5, SumSteps
<1> QED  BY <1>4, <1>6, <1>7, <1>8

\* Any element may be taken first.
LEMMA SumSplits ==
    ASSUME NEW S, IsFiniteSet(S), NEW F, \A z \in S : F[z] \in Int, NEW x \in S
    PROVE  SumOver(F, S) = F[x] + SumOver(F, S \ {x})
<1> DEFINE Bad == {T \in SUBSET S : \E t \in T : SumOver(F, T) # F[t] + SumOver(F, T \ {t})}
<1>1. SUFFICES ASSUME Bad # {}  PROVE FALSE
  <2>1. Bad = {} => S \notin Bad  OBVIOUS
  <2> QED  BY <2>1
<1>2. Bad \subseteq SUBSET S  OBVIOUS
<1> HIDE DEF Bad
<1>3. PICK T \in Bad : \A U \in Bad : U \subseteq T => U = T  BY <1>1, <1>2, SmallestSet
<1>4. PICK t \in T : SumOver(F, T) # F[t] + SumOver(F, T \ {t})  BY DEF Bad
<1>5. T \subseteq S /\ IsFiniteSet(T)  BY FS_Subset DEF Bad
<1> DEFINE c == Chosen(T)
           U == T \ {c}
           V == T \ {t}
           W == T \ {c, t}
<1>6. c \in T /\ SumOver(F, T) = F[c] + SumOver(F, U)  BY <1>5, SumSteps, ChosenIsIn
<1>7. c # t  BY <1>4, <1>6
<1>8. U \subseteq T /\ V \subseteq T /\ W \subseteq T /\ U # T /\ V # T /\ t \in U /\ c \in V
      /\ U \ {t} = W /\ V \ {c} = W
    BY <1>6, <1>7
<1> HIDE DEF c, U, V, W
<1>9. U \notin Bad /\ V \notin Bad  BY <1>3, <1>8
<1>10. SumOver(F, U) = F[t] + SumOver(F, W)  BY <1>5, <1>8, <1>9 DEF Bad
<1>11. SumOver(F, V) = F[c] + SumOver(F, W)  BY <1>5, <1>8, <1>9 DEF Bad
<1>12. SumOver(F, W) \in Int /\ F[c] \in Int /\ F[t] \in Int
  <2>1. IsFiniteSet(W) /\ \A z \in W : F[z] \in Int  BY <1>5, <1>8, FS_Subset
  <2> QED  BY <1>5, <1>6, <2>1, SumIsInt
<1>13. SumOver(F, T) # F[t] + SumOver(F, V)  BY <1>4 DEF V
<1> QED  BY <1>6, <1>10, <1>11, <1>12, <1>13

LEMMA SumAgrees ==
    ASSUME NEW S, IsFiniteSet(S), NEW F, NEW H, \A x \in S : F[x] = H[x]
    PROVE  SumOver(F, S) = SumOver(H, S)
<1>1. PICK sum : Partial(sum, F, S)  BY PartialExists
<1>2. ASSUME NEW s \in SUBSET S
      PROVE  (IF s = {} THEN 0 ELSE F[Chosen(s)] + sum[s \ {Chosen(s)}])
             = (IF s = {} THEN 0 ELSE H[Chosen(s)] + sum[s \ {Chosen(s)}])
    BY ChosenIsIn
<1>3. Partial(sum, H, S)  BY <1>1, <1>2 DEF Partial
<1> QED  BY <1>1, <1>3, SumIsPartial

\* Two of the values change.
LEMMA SumChanges ==
    ASSUME NEW S, IsFiniteSet(S), NEW F, NEW H,
           \A z \in S : F[z] \in Int /\ H[z] \in Int,
           NEW x \in S, NEW y \in S, x # y, \A z \in S \ {x, y} : F[z] = H[z]
    PROVE  /\ SumOver(F, S) \in Int /\ SumOver(H, S) \in Int
           /\ SumOver(H, S) = SumOver(F, S) - F[x] - F[y] + H[x] + H[y]
<1> DEFINE U == S \ {x}
           W == U \ {y}
<1>1. IsFiniteSet(U) /\ y \in U /\ IsFiniteSet(W) /\ W \subseteq S \ {x, y} /\ U \subseteq S
  <2>1. U \subseteq S /\ W \subseteq S  OBVIOUS
  <2>2. IsFiniteSet(U) /\ IsFiniteSet(W)
    <3> HIDE DEF U, W
    <3> QED  BY <2>1, FS_Subset
  <2> QED  BY <2>2
<1>2. SumOver(F, S) = F[x] + SumOver(F, U) /\ SumOver(H, S) = H[x] + SumOver(H, U)
    BY SumSplits
<1> HIDE DEF U
<1>3. SumOver(F, U) = F[y] + SumOver(F, W) /\ SumOver(H, U) = H[y] + SumOver(H, W)
    BY <1>1, SumSplits
<1> HIDE DEF W
<1>4. SumOver(F, W) = SumOver(H, W)  BY <1>1, SumAgrees
<1>5. SumOver(F, W) \in Int
  <2>1. \A z \in W : F[z] \in Int  BY <1>1
  <2> QED  BY <1>1, <2>1, SumIsInt
<1>6. F[x] \in Int /\ F[y] \in Int /\ H[x] \in Int /\ H[y] \in Int  OBVIOUS
<1> QED  BY <1>2, <1>3, <1>4, <1>5, <1>6

LEMMA SumOfZeros ==
    ASSUME NEW S, IsFiniteSet(S), NEW F, \A x \in S : F[x] = 0
    PROVE  SumOver(F, S) = 0
<1> DEFINE Bad == {T \in SUBSET S : SumOver(F, T) # 0}
<1>1. SUFFICES ASSUME Bad # {}  PROVE FALSE  OBVIOUS
<1>2. Bad \subseteq SUBSET S  OBVIOUS
<1> HIDE DEF Bad
<1>3. PICK T \in Bad : \A U \in Bad : U \subseteq T => U = T  BY <1>1, <1>2, SmallestSet
<1>4. T \subseteq S /\ SumOver(F, T) # 0 /\ IsFiniteSet(T)  BY FS_Subset DEF Bad
<1>5. T # {}  BY <1>4, SumSteps
<1>6. Chosen(T) \in T  BY <1>5, ChosenIsIn
<1>7. SumOver(F, T \ {Chosen(T)}) = 0  BY <1>3, <1>4, <1>6 DEF Bad
<1>8. SumOver(F, T) = F[Chosen(T)] + SumOver(F, T \ {Chosen(T)})  BY <1>4, <1>5, SumSteps
<1> QED  BY <1>4, <1>6, <1>7, <1>8

\* A value is taken from both elements that have it.
LEMMA SumZeroed ==
    ASSUME NEW S, IsFiniteSet(S), NEW F, \A z \in S : F[z] \in Int, NEW x \in S, NEW p,
           (p \in S /\ p # x /\ F[p] = F[x]) \/ (p \notin S /\ F[x] = 0),
           NEW H, \A z \in S : H[z] = IF z \in {x, p} THEN 0 ELSE F[z]
    PROVE  SumOver(F, S) \in Int /\ SumOver(H, S) = SumOver(F, S) - 2 * F[x]
<1>1. SumOver(F, S) \in Int  BY SumIsInt
<1>2. CASE p \in S /\ p # x /\ F[p] = F[x]
  <2>1. \A z \in S : F[z] \in Int /\ H[z] \in Int  OBVIOUS
  <2>2. H[x] = 0 /\ H[p] = 0 /\ \A z \in S \ {x, p} : F[z] = H[z]  BY <1>2
  <2>3. SumOver(H, S) = SumOver(F, S) - F[x] - F[p] + H[x] + H[p]
      BY <1>2, <2>1, <2>2, SumChanges
  <2> QED  BY <1>1, <1>2, <2>2, <2>3
<1>3. CASE p \notin S /\ F[x] = 0
  <2>1. \A z \in S : F[z] = H[z]  BY <1>3
  <2>2. SumOver(F, S) = SumOver(H, S)  BY <2>1, SumAgrees
  <2> QED  BY <1>1, <1>3, <2>2
<1> QED  BY <1>2, <1>3

\* A sum of natural numbers is one.
LEMMA SumIsNat ==
    ASSUME NEW S, IsFiniteSet(S), NEW F, \A x \in S : F[x] \in Nat
    PROVE  SumOver(F, S) \in Nat
<1> DEFINE Bad == {T \in SUBSET S : SumOver(F, T) \notin Nat}
<1>1. SUFFICES ASSUME Bad # {}  PROVE FALSE  OBVIOUS
<1>2. Bad \subseteq SUBSET S  OBVIOUS
<1> HIDE DEF Bad
<1>3. PICK T \in Bad : \A U \in Bad : U \subseteq T => U = T  BY <1>1, <1>2, SmallestSet
<1>4. T \subseteq S /\ SumOver(F, T) \notin Nat  BY DEF Bad
<1>5. IsFiniteSet(T)  BY <1>4, FS_Subset
<1>6. T # {}
  <2>1. T = {} => SumOver(F, T) = 0  BY <1>5, SumSteps
  <2> QED  BY <1>4, <2>1
<1>7. Chosen(T) \in T  BY <1>6, ChosenIsIn
<1>8. T \ {Chosen(T)} \notin Bad  BY <1>3, <1>7
<1>9. SumOver(F, T \ {Chosen(T)}) \in Nat  BY <1>4, <1>8 DEF Bad
<1>10. SumOver(F, T) = F[Chosen(T)] + SumOver(F, T \ {Chosen(T)})  BY <1>5, <1>6, SumSteps
<1>11. F[Chosen(T)] \in Nat  BY <1>4, <1>7
<1> QED  BY <1>4, <1>9, <1>10, <1>11

\* A sum grows by 1 for each element if each of its values does.
LEMMA SumOfSuccessors ==
    ASSUME NEW S, IsFiniteSet(S), NEW F, NEW H, \A x \in S : F[x] \in Int /\ H[x] = 1 + F[x]
    PROVE  SumOver(H, S) = Cardinality(S) + SumOver(F, S)
<1> DEFINE Bad == {T \in SUBSET S : SumOver(H, T) # Cardinality(T) + SumOver(F, T)}
<1>1. SUFFICES ASSUME Bad # {}  PROVE FALSE  OBVIOUS
<1>2. Bad \subseteq SUBSET S  OBVIOUS
<1> HIDE DEF Bad
<1>3. PICK T \in Bad : \A U \in Bad : U \subseteq T => U = T  BY <1>1, <1>2, SmallestSet
<1>4. T \subseteq S /\ SumOver(H, T) # Cardinality(T) + SumOver(F, T)  BY DEF Bad
<1>5. IsFiniteSet(T)  BY <1>4, FS_Subset
<1>6. T # {}
  <2>1. T = {} => SumOver(H, T) = 0 /\ SumOver(F, T) = 0 /\ Cardinality(T) = 0
      BY <1>5, SumSteps, FS_EmptySet
  <2> QED  BY <1>4, <2>1
<1> DEFINE x == Chosen(T)
           U == T \ {x}
<1>7. x \in T  BY <1>6, ChosenIsIn
<1>8. SumOver(H, U) = Cardinality(U) + SumOver(F, U)
  <2>1. U \notin Bad  BY <1>3, <1>7
  <2> QED  BY <1>4, <2>1 DEF Bad
<1>9. SumOver(F, T) = F[x] + SumOver(F, U) /\ SumOver(H, T) = H[x] + SumOver(H, U)
    BY <1>5, <1>6, SumSteps
<1>10. F[x] \in Int /\ H[x] = 1 + F[x]  BY <1>4, <1>7
<1>11. Cardinality(T) \in Nat /\ Cardinality(U) = Cardinality(T) - 1
    BY <1>5, <1>7, FS_RemoveElement, FS_CardinalityType
<1>12. SumOver(F, U) \in Int
  <2>1. IsFiniteSet(U) /\ \A z \in U : F[z] \in Int  BY <1>4, <1>5, FS_Subset
  <2> HIDE DEF U
  <2> QED  BY <2>1, SumIsInt
<1> HIDE DEF x, U
<1> QED  BY <1>4, <1>8, <1>9, <1>10, <1>11, <1>12

------------------------------------------------------------------------------
(***************************************************************************)
(* The sizes of graphs.                                                    *)
(***************************************************************************)
\* A graph may stand only inside graphs with lesser numbers.
Nested == \A g \in TaskGraphs : taskData[g] \in Seq({NoGraph} \cup {h \in TaskGraphs : h > g})

SizeParts(size, g) ==
    [k \in TaskIds(g) |-> IF SubGraph(g, k) = NoGraph THEN 1 ELSE 2 + size[SubGraph(g, k)]]

\* The tasks of a graph are numbered from 0 on, their sub-graphs are later graphs.
LEMMA TaskIdsOf ==
    ASSUME Nested, NEW g \in TaskGraphs
    PROVE  /\ TaskIds(g) \subseteq Nat /\ IsFiniteSet(TaskIds(g))
           /\ Len(taskData[g]) \in Nat /\ Cardinality(TaskIds(g)) = Len(taskData[g])
           /\ \A k \in TaskIds(g) : SubGraph(g, k) = NoGraph
                                    \/ (SubGraph(g, k) \in TaskGraphs /\ SubGraph(g, k) > g
                                        /\ SubGraph(g, k) # NoGraph)
<1>1. taskData[g] \in Seq({NoGraph} \cup {h \in TaskGraphs : h > g})  BY DEF Nested
<1> DEFINE n == Len(taskData[g])
<1>2. n \in Nat  BY <1>1, LenProperties
<1>3. IsFiniteSet(0 .. n - 1) /\ Cardinality(0 .. n - 1) = n
  <2> HIDE DEF n
  <2>1. n - 1 \in Int /\ 0 \in Int  BY <1>2
  <2>2. IsFiniteSet(0 .. n - 1) /\ Cardinality(0 .. n - 1) = IF 0 > n - 1 THEN 0 ELSE (n - 1) - 0 + 1
      BY <2>1, FS_Interval
  <2> QED  BY <1>2, <2>2
<1>4. ASSUME NEW k \in 0 .. n - 1
      PROVE  SubGraph(g, k) = NoGraph
             \/ (SubGraph(g, k) \in TaskGraphs /\ SubGraph(g, k) > g /\ SubGraph(g, k) # NoGraph)
  <2>1. k + 1 \in 1 .. n  BY <1>2
  <2>2. taskData[g][k + 1] \in {NoGraph} \cup {h \in TaskGraphs : h > g}
    <3> DEFINE S == {NoGraph} \cup {h \in TaskGraphs : h > g}
    <3> HIDE DEF S
    <3> QED  BY <1>1, <2>1, ElementOfSeq DEF S
  <2> QED  BY <2>2, TaskGraphsAssumption DEF SubGraph
<1>5. TaskIds(g) = 0 .. n - 1  BY DEF TaskIds
<1>6. 0 .. n - 1 \subseteq Nat  OBVIOUS
<1> HIDE DEF n
<1> QED  BY <1>2, <1>3, <1>4, <1>5, <1>6 DEF n

\* The fold over the tasks of a graph is a sum.
LEMMA SizeSummed ==
    ASSUME Nested, NEW g \in TaskGraphs, NEW size
    PROVE  MapThenSumSet(LAMBDA k : IF SubGraph(g, k) = NoGraph THEN 1 ELSE 2 + size[SubGraph(g, k)],
                         TaskIds(g))
           = SumOver(SizeParts(size, g), TaskIds(g))
<1> DEFINE D == TaskIds(g)
           part(k) == IF SubGraph(g, k) = NoGraph THEN 1 ELSE 2 + size[SubGraph(g, k)]
           Folded(sum) == sum = [s \in SUBSET D |->
                IF s = {} THEN 0 ELSE part(Chosen(s)) + sum[s \ {Chosen(s)}]]
<1>1. MapThenSumSet(LAMBDA k : IF SubGraph(g, k) = NoGraph THEN 1 ELSE 2 + size[SubGraph(g, k)], D)
        = (CHOOSE sum : Folded(sum))[D]
    BY DEF MapThenSumSet, MapThenFoldSet, Chosen
<1>2. ASSUME NEW sum  PROVE Folded(sum) <=> Partial(sum, SizeParts(size, g), D)
  <2>1. ASSUME NEW s \in SUBSET D
        PROVE  (IF s = {} THEN 0 ELSE part(Chosen(s)) + sum[s \ {Chosen(s)}])
               = (IF s = {} THEN 0 ELSE SizeParts(size, g)[Chosen(s)] + sum[s \ {Chosen(s)}])
    <3>1. s # {} => SizeParts(size, g)[Chosen(s)] = part(Chosen(s))  BY ChosenIsIn DEF SizeParts
    <3> QED  BY <3>1
  <2> QED  BY <2>1 DEF Partial
<1>0. IsFiniteSet(D)  BY TaskIdsOf
<1>3. \E sum : Folded(sum)
  <2>1. \E sum : Partial(sum, SizeParts(size, g), D)  BY <1>0, PartialExists
  <2> HIDE DEF Folded
  <2> QED  BY <1>2, <2>1
<1> DEFINE own == CHOOSE sum : Folded(sum)
<1>4. Folded(own)
  <2> HIDE DEF Folded
  <2> QED  BY <1>3
<1> HIDE DEF own
<1>5. Partial(own, SizeParts(size, g), D)  BY <1>2, <1>4
<1>6. own[D] = SumOver(SizeParts(size, g), D)
  <2> HIDE DEF D
  <2> QED  BY <1>0, <1>5, SumIsPartial DEF D
<1> QED  BY <1>1, <1>6 DEF own

\* A function that says so of each graph has the sizes of graphs.
Sized(size, U) ==
    \A g \in U : size[g] \in Nat /\ size[g] = SumOver(SizeParts(size, g), TaskIds(g))

Sizing(size) ==
    size = [g \in TaskGraphs |->
        MapThenSumSet(LAMBDA k : IF SubGraph(g, k) = NoGraph THEN 1 ELSE 2 + size[SubGraph(g, k)],
                      TaskIds(g))]

LEMMA SizeIsChosen == ResolveSize = CHOOSE size : Sizing(size)
  BY DEF ResolveSize, Sizing

\* It is a fixed point of what defines ResolveSize (317-326), and the other way round.
LEMMA SizedIsSizing ==
    ASSUME Nested, NEW size, size = [g \in TaskGraphs |-> size[g]]
    PROVE  /\ Sized(size, TaskGraphs) => Sizing(size)
           /\ Sizing(size) => \A g \in TaskGraphs : size[g] = SumOver(SizeParts(size, g), TaskIds(g))
<1>1. \A g \in TaskGraphs :
        MapThenSumSet(LAMBDA k : IF SubGraph(g, k) = NoGraph THEN 1 ELSE 2 + size[SubGraph(g, k)],
                      TaskIds(g)) = SumOver(SizeParts(size, g), TaskIds(g))
    BY SizeSummed
<1> QED  BY <1>1 DEF Sized, Sizing

\* The graphs from any of them on: what holds of none of them, and of all from one
\* on if of all after it, holds of all.
Upward(T) == T \subseteq TaskGraphs /\ \A g \in T, h \in TaskGraphs : h > g => h \in T

LEMMA FromTheLast ==
    ASSUME NEW Good, {} \in Good,
           \A T \in SUBSET TaskGraphs :
                Upward(T) /\ T # {} /\ T \ {Min(T)} \in Good => T \in Good
    PROVE  TaskGraphs \in Good
<1> DEFINE Bad == {T \in SUBSET TaskGraphs : Upward(T) /\ T \notin Good}
<1>1. SUFFICES ASSUME Bad # {}  PROVE FALSE  BY DEF Upward
<1>2. IsFiniteSet(TaskGraphs) /\ Bad \subseteq SUBSET TaskGraphs  BY TaskGraphsAssumption
<1> HIDE DEF Bad
<1>3. PICK T \in Bad : \A U \in Bad : U \subseteq T => U = T  BY <1>1, <1>2, SmallestSet
<1>4. T \subseteq TaskGraphs /\ Upward(T) /\ T \notin Good /\ T # {}  BY DEF Bad
<1> DEFINE m == Min(T)
<1>5. m \in T /\ \A g \in T : m <= g
  <2>1. T \subseteq Nat  BY <1>4, TaskGraphsAssumption
  <2> QED  BY <1>4, <2>1, MinOfNat
<1>6. Upward(T \ {m})
  <2> SUFFICES ASSUME NEW g \in T \ {m}, NEW h \in TaskGraphs, h > g  PROVE h \in T /\ h # m
      BY <1>4 DEF Upward
  <2>1. g \in Nat /\ h \in Nat /\ m \in Nat /\ m <= g  BY <1>4, <1>5, TaskGraphsAssumption
  <2> HIDE DEF m
  <2>2. h # m  BY <2>1
  <2> QED  BY <1>4, <2>2 DEF Upward
<1>7. T \ {m} \notin Bad  BY <1>3, <1>5
<1>8. T \ {m} \in Good  BY <1>4, <1>6, <1>7 DEF Bad
<1> QED  BY <1>4, <1>8

\* The parts of a graph's size are the sizes of later graphs.
LEMMA PartsAgree ==
    ASSUME Nested, NEW T, Upward(T), NEW g \in T, NEW a, NEW b,
           \A h \in T : h > g => a[h] = b[h]
    PROVE  SumOver(SizeParts(a, g), TaskIds(g)) = SumOver(SizeParts(b, g), TaskIds(g))
<1>1. g \in TaskGraphs  BY DEF Upward
<1>2. IsFiniteSet(TaskIds(g))  BY <1>1, TaskIdsOf
<1>3. ASSUME NEW k \in TaskIds(g)  PROVE SizeParts(a, g)[k] = SizeParts(b, g)[k]
  <2>1. SubGraph(g, k) # NoGraph => SubGraph(g, k) \in TaskGraphs /\ SubGraph(g, k) > g
      BY <1>1, TaskIdsOf
  <2>2. SubGraph(g, k) # NoGraph => a[SubGraph(g, k)] = b[SubGraph(g, k)]  BY <2>1 DEF Upward
  <2> QED  BY <2>2 DEF SizeParts
<1> QED  BY <1>2, <1>3, SumAgrees

\* There is one such function, built from the last graph to the first.
LEMMA SizesExist ==
    ASSUME Nested
    PROVE  \E size \in [TaskGraphs -> Nat] : Sized(size, TaskGraphs)
<1> DEFINE Good == {T \in SUBSET TaskGraphs : \E size \in [TaskGraphs -> Nat] : Sized(size, T)}
<1>1. {} \in Good
  <2>1. [g \in TaskGraphs |-> 0] \in [TaskGraphs -> Nat]  OBVIOUS
  <2> QED  BY <2>1 DEF Sized
<1>2. ASSUME NEW T \in SUBSET TaskGraphs, Upward(T), T # {}, T \ {Min(T)} \in Good
      PROVE  T \in Good
  <2> DEFINE m == Min(T)
  <2>1. m \in T /\ (\A g \in T : m <= g) /\ T \subseteq Nat
    <3>1. T \subseteq Nat  BY TaskGraphsAssumption
    <3> QED  BY <1>2, <3>1, MinOfNat
  <2>2. PICK size \in [TaskGraphs -> Nat] : Sized(size, T \ {m})  BY <1>2
  <2> HIDE DEF m
  <2> DEFINE val == SumOver(SizeParts(size, m), TaskIds(m))
             new == [size EXCEPT ![m] = val]
  <2>3. val \in Nat
    <3>1. m \in TaskGraphs /\ IsFiniteSet(TaskIds(m))  BY <2>1, TaskIdsOf
    <3>2. ASSUME NEW k \in TaskIds(m)  PROVE SizeParts(size, m)[k] \in Nat
      <4>1. SubGraph(m, k) # NoGraph => size[SubGraph(m, k)] \in Nat  BY <3>1, TaskIdsOf
      <4>2. SubGraph(m, k) # NoGraph => 2 + size[SubGraph(m, k)] \in Nat  BY <4>1
      <4> QED  BY <4>2 DEF SizeParts
    <3> QED  BY <3>1, <3>2, SumIsNat
  <2> HIDE DEF val
  <2>4. new \in [TaskGraphs -> Nat]  BY <2>3
  <2>5. m \in TaskGraphs /\ new[m] = val /\ \A g \in TaskGraphs : g # m => new[g] = size[g]  BY <2>1
  <2> HIDE DEF new
  <2>6. ASSUME NEW g \in T
        PROVE  new[g] \in Nat /\ new[g] = SumOver(SizeParts(new, g), TaskIds(g))
    <3>1. \A h \in T : h > g => new[h] = size[h]
      <4> SUFFICES ASSUME NEW h \in T, h > g  PROVE h # m /\ h \in TaskGraphs  BY <2>5
      <4>1. m \in Nat /\ g \in Nat /\ h \in Nat /\ m <= g  BY <2>1
      <4> QED  BY <4>1
    <3>2. SumOver(SizeParts(new, g), TaskIds(g)) = SumOver(SizeParts(size, g), TaskIds(g))
        BY <1>2, <3>1, PartsAgree
    <3>3. CASE g = m  BY <2>3, <2>5, <3>2, <3>3 DEF val
    <3>4. CASE g # m
      <4>1. size[g] \in Nat /\ size[g] = SumOver(SizeParts(size, g), TaskIds(g))
          BY <2>2, <3>4 DEF Sized
      <4> QED  BY <2>5, <3>2, <3>4, <4>1
    <3> QED  BY <3>3, <3>4
  <2>7. Sized(new, T)  BY <2>6 DEF Sized
  <2> QED  BY <2>4, <2>7
<1>3. TaskGraphs \in Good
  <2> HIDE DEF Good
  <2> QED  BY <1>1, <1>2, FromTheLast
<1> QED  BY <1>3

\* What is computed beforehand is this size.
LEMMA ResolveSizeIs ==
    ASSUME Nested, NEW size \in [TaskGraphs -> Nat], Sized(size, TaskGraphs)
    PROVE  \A g \in TaskGraphs : ResolveSize[g] = size[g]
<1>1. Sizing(size)  BY SizedIsSizing
<1>2. Sizing(ResolveSize)
  <2> HIDE DEF Sizing
  <2> QED  BY <1>1, SizeIsChosen
<1>3. ResolveSize = [g \in TaskGraphs |-> ResolveSize[g]]  BY <1>2 DEF Sizing
<1>4. \A g \in TaskGraphs : ResolveSize[g] = SumOver(SizeParts(ResolveSize, g), TaskIds(g))
    BY <1>2, <1>3, SizedIsSizing
<1> DEFINE own == ResolveSize
<1> HIDE DEF own
<1>5. \A g \in TaskGraphs : own[g] = SumOver(SizeParts(own, g), TaskIds(g))  BY <1>4 DEF own
<1> DEFINE Good == {T \in SUBSET TaskGraphs : \A g \in T : own[g] = size[g]}
<1>6. {} \in Good  OBVIOUS
<1>7. ASSUME NEW T \in SUBSET TaskGraphs, Upward(T), T # {}, T \ {Min(T)} \in Good
      PROVE  T \in Good
  <2> DEFINE m == Min(T)
  <2>1. m \in T /\ \A g \in T : m <= g
    <3>1. T \subseteq Nat  BY TaskGraphsAssumption
    <3> QED  BY <1>7, <3>1, MinOfNat
  <2> HIDE DEF m
  <2>2. \A h \in T : h # m => own[h] = size[h]  BY <1>7 DEF m
  <2>3. \A h \in T : h > m => own[h] = size[h]
    <3> SUFFICES ASSUME NEW h \in T, h > m  PROVE h # m  BY <2>2
    <3>1. m \in Nat /\ h \in Nat  BY <2>1, TaskGraphsAssumption
    <3> QED  BY <3>1
  <2>4. SumOver(SizeParts(own, m), TaskIds(m)) = SumOver(SizeParts(size, m), TaskIds(m))
      BY <1>7, <2>1, <2>3, PartsAgree
  <2>5. m \in TaskGraphs  BY <2>1
  <2>6. own[m] = size[m]  BY <1>5, <2>4, <2>5 DEF Sized
  <2> QED  BY <2>2, <2>6
<1>8. TaskGraphs \in Good
  <2> HIDE DEF Good
  <2> QED  BY <1>6, <1>7, FromTheLast
<1> QED  BY <1>8 DEF own

\* What the sub-graphs of a graph from a task on will take, with their exits.
LeftParts(size, g, next) ==
    [k \in TaskIds(g) |-> IF k >= next /\ SubGraph(g, k) # NoGraph
                          THEN 1 + size[SubGraph(g, k)] ELSE 0]

LEMMA LeftPartsTyped ==
    ASSUME Nested, NEW size \in [TaskGraphs -> Nat], NEW g \in TaskGraphs, NEW next
    PROVE  /\ IsFiniteSet(TaskIds(g))
           /\ \A k \in TaskIds(g) : LeftParts(size, g, next)[k] \in Int
           /\ SumOver(LeftParts(size, g, next), TaskIds(g)) \in Int
<1>1. IsFiniteSet(TaskIds(g))  BY TaskIdsOf
<1>2. ASSUME NEW k \in TaskIds(g)  PROVE LeftParts(size, g, next)[k] \in Int
  <2>1. SubGraph(g, k) # NoGraph => size[SubGraph(g, k)] \in Nat  BY TaskIdsOf
  <2>2. SubGraph(g, k) # NoGraph => 1 + size[SubGraph(g, k)] \in Int  BY <2>1
  <2> QED  BY <2>2 DEF LeftParts
<1> QED  BY <1>1, <1>2, SumIsInt

\* When its tasks are copied, a graph has its sub-graphs left.
LEMMA LeftWhenCopied ==
    ASSUME Nested, NEW size \in [TaskGraphs -> Nat], Sized(size, TaskGraphs), NEW g \in TaskGraphs
    PROVE  size[g] = Len(taskData[g]) + SumOver(LeftParts(size, g, 0), TaskIds(g))
<1> DEFINE F == LeftParts(size, g, 0)
           H == SizeParts(size, g)
<1>1. \A k \in TaskIds(g) : k >= 0  BY TaskIdsOf
<1>2. ASSUME NEW k \in TaskIds(g)  PROVE F[k] \in Int /\ H[k] = 1 + F[k]
  <2>1. F[k] \in Int  BY LeftPartsTyped
  <2>2. CASE SubGraph(g, k) = NoGraph  BY <2>2 DEF LeftParts, SizeParts
  <2>3. CASE SubGraph(g, k) # NoGraph
    <3> DEFINE n == size[SubGraph(g, k)]
    <3>1. n \in Nat  BY <2>3, TaskIdsOf
    <3>2. F[k] = 1 + n /\ H[k] = 2 + n  BY <1>1, <2>3 DEF LeftParts, SizeParts
    <3> HIDE DEF n, F, H
    <3> QED  BY <2>1, <3>1, <3>2
  <2> QED  BY <2>1, <2>2, <2>3
<1>3. IsFiniteSet(TaskIds(g)) /\ Cardinality(TaskIds(g)) = Len(taskData[g])  BY TaskIdsOf
<1>4. SumOver(H, TaskIds(g)) = Cardinality(TaskIds(g)) + SumOver(F, TaskIds(g))
  <2> HIDE DEF F, H
  <2> QED  BY <1>2, <1>3, SumOfSuccessors
<1> QED  BY <1>3, <1>4 DEF Sized

\* The next one takes an exit and what it holds, the others stay.
LEMMA LeftAfterNext ==
    ASSUME Nested, NEW size \in [TaskGraphs -> Nat], NEW g \in TaskGraphs, NEW next \in Nat,
           NEW k \in TaskIds(g), k >= next, SubGraph(g, k) # NoGraph,
           \A j \in TaskIds(g) : j >= next /\ SubGraph(g, j) # NoGraph => k <= j
    PROVE  SumOver(LeftParts(size, g, next), TaskIds(g))
           = 1 + size[SubGraph(g, k)] + SumOver(LeftParts(size, g, k + 1), TaskIds(g))
<1> DEFINE F == LeftParts(size, g, next)
           H == LeftParts(size, g, k + 1)
           D == TaskIds(g)
<1>1. IsFiniteSet(D) /\ D \subseteq Nat  BY TaskIdsOf
<1>2. \A j \in D : F[j] \in Int /\ H[j] \in Int  BY LeftPartsTyped
<1>3. F[k] = 1 + size[SubGraph(g, k)]  BY DEF LeftParts
<1>4. H[k] = 0
  <2>1. ~(k >= k + 1)  BY <1>1
  <2> QED  BY <2>1 DEF LeftParts
<1>5. ASSUME NEW j \in D \ {k}  PROVE F[j] = H[j]
  <2>1. j \in Nat /\ k \in Nat /\ j # k  BY <1>1
  <2>2. SubGraph(g, j) # NoGraph => (j >= next <=> j >= k + 1)  BY <2>1
  <2> QED  BY <2>2 DEF LeftParts
<1>6. SumOver(F, D) = F[k] + SumOver(F, D \ {k}) /\ SumOver(H, D) = H[k] + SumOver(H, D \ {k})
  <2> HIDE DEF F, H, D
  <2>1. k \in D  BY DEF D
  <2> QED  BY <1>1, <1>2, <2>1, SumSplits
<1>7. IsFiniteSet(D \ {k})  BY <1>1, FS_Subset
<1>8. SumOver(F, D \ {k}) = SumOver(H, D \ {k}) /\ SumOver(F, D \ {k}) \in Int
  <2> HIDE DEF F, H, D
  <2> QED  BY <1>2, <1>5, <1>7, SumAgrees, SumIsInt
<1>9. size[SubGraph(g, k)] \in Nat  BY TaskIdsOf
<1> DEFINE n == size[SubGraph(g, k)]
           rest == SumOver(F, D \ {k})
<1>10. SumOver(F, D) = 1 + n + rest /\ SumOver(H, D) = 0 + rest /\ n \in Nat /\ rest \in Int
    BY <1>3, <1>4, <1>6, <1>8, <1>9
<1> HIDE DEF n, rest, F, H, D
<1>11. SumOver(F, D) = 1 + n + SumOver(H, D)  BY <1>10
<1> QED  BY <1>11 DEF n, F, H, D

\* After the last sub-graph nothing is left.
LEMMA NothingLeft ==
    ASSUME Nested, NEW size, NEW g \in TaskGraphs, NEW next,
           \A k \in TaskIds(g) : ~(k >= next /\ SubGraph(g, k) # NoGraph)
    PROVE  SumOver(LeftParts(size, g, next), TaskIds(g)) = 0
<1>1. IsFiniteSet(TaskIds(g))  BY TaskIdsOf
<1>2. \A k \in TaskIds(g) : LeftParts(size, g, next)[k] = 0  BY DEF LeftParts
<1> QED  BY <1>1, <1>2, SumOfZeros

------------------------------------------------------------------------------
(***************************************************************************)
(* Nesting.                                                                *)
(***************************************************************************)
\* A call of the user puts no graph into itself.
LEMMA NestedKept ==
    ASSUME UserTypes, Nested, [UserNext]_userVars
    PROVE  Nested'
<1> DEFINE Inside(g) == {NoGraph} \cup {h \in TaskGraphs : h > g}
<1>1. \A g \in TaskGraphs : taskData[g] \in Seq(Inside(g))  BY DEF Nested
<1>2. DOMAIN taskData = TaskGraphs  BY DEF UserTypes
<1>3. ASSUME NEW g \in TaskGraphs, UserCall(g)  PROVE Nested'
  <2>1. CASE UNCHANGED taskData  BY <2>1 DEF Nested
  <2>2. ASSUME NEW h \in {NoGraph} \cup {h \in TaskGraphs : h > g}, AddTask(g, h)  PROVE Nested'
    <3>1. taskData' = [taskData EXCEPT ![g] = Append(@, h)]  BY <2>2 DEF AddTask
    <3>2. Append(taskData[g], h) \in Seq(Inside(g))
      <4> HIDE DEF Inside
      <4>1. taskData[g] \in Seq(Inside(g)) /\ h \in Inside(g)  BY <1>1 DEF Inside
      <4> QED  BY <4>1, AppendProperties
    <3> QED  BY <1>1, <1>2, <3>1, <3>2 DEF Nested
  <2>3. CASE Clear(g)
    <3>1. taskData' = [taskData EXCEPT ![g] = <<>>]  BY <2>3 DEF Clear
    <3>2. <<>> \in Seq(Inside(g))  OBVIOUS
    <3> QED  BY <1>1, <1>2, <3>1, <3>2 DEF Nested
  <2>4. ASSUME NEW h \in TaskGraphs, CopyFrom(g, h)  PROVE Nested'
    <3>1. taskData' = [taskData EXCEPT ![g] = taskData[h]] /\ \A sub \in SubGraphs(h) : sub > g
        BY <2>4 DEF CopyFrom
    <3>2. taskData[h] \in Seq(Inside(g))
      <4>1. ASSUME NEW i \in 1 .. Len(taskData[h])  PROVE taskData[h][i] \in Inside(g)
        <5>1. Len(taskData[h]) \in Nat  BY TaskIdsOf
        <5>2. i - 1 \in 0 .. Len(taskData[h]) - 1 /\ (i - 1) + 1 = i  BY <5>1
        <5>3. i - 1 \in TaskIds(h) /\ SubGraph(h, i - 1) = taskData[h][i]
            BY <5>2 DEF TaskIds, SubGraph
        <5>4. taskData[h][i] = NoGraph \/ taskData[h][i] \in SubGraphs(h)  BY <5>3 DEF SubGraphs
        <5>5. taskData[h][i] = NoGraph \/ taskData[h][i] \in TaskGraphs  BY <5>3, TaskIdsOf
        <5> QED  BY <3>1, <5>4, <5>5
      <4>2. taskData[h] \in [1 .. Len(taskData[h]) -> Inside(h)] /\ Len(taskData[h]) \in Nat
        <5> HIDE DEF Inside
        <5> QED  BY <1>1, LenProperties
      <4>3. taskData[h] \in [1 .. Len(taskData[h]) -> Inside(g)]  BY <4>1, <4>2
      <4> HIDE DEF Inside
      <4> QED  BY <4>2, <4>3, FunctionIsSeq
    <3> QED  BY <1>1, <1>2, <3>1, <3>2 DEF Nested
  <2>5. CASE (\E task, next \in TaskIds(g), set \in BOOLEAN : SetNext(g, task, next, set))
             \/ (\E task \in TaskIds(g), resource \in ResourcesOf[g], usage \in Usages \cup {"NOT_USED"} :
                    SetResourceUsage(g, task, resource, usage))
             \/ MoveNextRow(g) \/ Resize(g)
    <3>1. UNCHANGED taskData  BY <2>5 DEF SetNext, SetResourceUsage, MoveNextRow, Resize
    <3> QED  BY <2>1, <3>1
  <2> QED  BY <1>3, <2>2, <2>3, <2>4, <2>5 DEF UserCall
<1>4. CASE UNCHANGED userVars  BY <1>4 DEF userVars, Nested
<1>5. CASE WalkRange  BY <1>5 DEF WalkRange, Nested
<1> QED  BY <1>3, <1>4, <1>5 DEF UserNext

LEMMA GraphsAreNested == Spec => []Nested
<1>1. UserInit => Nested
  <2> SUFFICES ASSUME UserInit, NEW g \in TaskGraphs
               PROVE  taskData[g] \in Seq({NoGraph} \cup {h \in TaskGraphs : h > g})
      BY DEF Nested
  <2>1. taskData[g] = <<>>  BY DEF UserInit
  <2> QED  BY <2>1
<1>2. UserInv /\ Nested /\ [UserNext]_userVars => Nested'  BY NestedKept DEF UserInv
<1> QED  BY <1>1, <1>2, UserInvariant, CompilerLeavesGraphs, PTL DEF UserSpec

------------------------------------------------------------------------------
(***************************************************************************)
(* Paths.                                                                  *)
(***************************************************************************)
\* Whether a path leads further than another one.
Under(path, above) == Len(path) > Len(above) /\ \A i \in 1 .. Len(above) : path[i] = above[i]

\* A path that goes on from another is below all that this one is below.
LEMMA AppendIsUnder ==
    ASSUME NEW p \in Seq(Nat), NEW k \in Nat
    PROVE  /\ Append(p, k) \in Seq(Nat) /\ Append(p, k) # <<>> /\ Len(Append(p, k)) = Len(p) + 1
           /\ Under(Append(p, k), p) /\ Append(p, k)[Len(p) + 1] = k /\ Front(Append(p, k)) = p
           /\ \A q \in Seq(Nat) : Under(p, q) =>
                /\ Under(Append(p, k), q) /\ Append(p, k)[Len(q) + 1] = p[Len(q) + 1]
<1> DEFINE a == Append(p, k)
<1>1. /\ a \in Seq(Nat) /\ Len(a) = Len(p) + 1 /\ Len(p) \in Nat
      /\ \A i \in 1 .. Len(p) : a[i] = p[i]
      /\ a[Len(p) + 1] = k
    BY AppendProperties, LenProperties
<1> HIDE DEF a
<1>2. a # <<>>  BY <1>1, EmptySeq
<1>3. Under(a, p)  BY <1>1 DEF Under
<1>4. Front(a) = p
  <2>1. \A i \in 1 .. Len(p) : a[i] \in Nat  BY <1>1, ElementOfSeq
  <2>2. Len(a) - 1 = Len(p) /\ 1 \in Int /\ Len(p) \in Int  BY <1>1
  <2> DEFINE cut == SubSeq(a, 1, Len(p))
             l == Len(p)
  <2>3. /\ cut \in Seq(Nat) /\ Len(cut) = IF 1 <= l THEN l - 1 + 1 ELSE 0
        /\ \A i \in 1 .. l - 1 + 1 : cut[i] = a[1 + i - 1]
    <3> HIDE DEF l
    <3> QED  BY <2>1, <2>2, SubSeqProperties DEF l
  <2>4. Front(a) = cut  BY <2>2 DEF Front
  <2> HIDE DEF cut
  <2>5. Len(cut) = Len(p) /\ \A i \in 1 .. Len(cut) : cut[i] = p[i]  BY <1>1, <2>3
  <2>6. cut = p  BY <2>3, <2>5, SeqEqual
  <2> QED  BY <2>4, <2>6
<1>5. ASSUME NEW q \in Seq(Nat), Under(p, q)
      PROVE  Under(a, q) /\ a[Len(q) + 1] = p[Len(q) + 1]
  <2>1. Len(q) \in Nat /\ Len(p) > Len(q) /\ \A i \in 1 .. Len(q) : p[i] = q[i]
      BY <1>5, LenProperties DEF Under
  <2>2. Len(q) + 1 \in 1 .. Len(p) /\ Len(a) > Len(q)  BY <1>1, <2>1
  <2>3. \A i \in 1 .. Len(q) : i \in 1 .. Len(p)  BY <1>1, <2>1
  <2>4. \A i \in 1 .. Len(q) : a[i] = q[i]  BY <1>1, <2>1, <2>3
  <2> QED  BY <1>1, <2>2, <2>4 DEF Under
<1> QED  BY <1>1, <1>2, <1>3, <1>4, <1>5 DEF a

\* A path is below the path of the graph it is in.
LEMMA FrontIsAbove ==
    ASSUME NEW x \in Seq(Nat), x # <<>>
    PROVE  Front(x) \in Seq(Nat) /\ Len(x) = Len(Front(x)) + 1 /\ Under(x, Front(x))
<1>1. Len(x) \in Nat \ {0}  BY EmptySeq
<1> DEFINE l == Len(x) - 1
           cut == SubSeq(x, 1, l)
<1>2. \A i \in 1 .. l : x[i] \in Nat
  <2> SUFFICES ASSUME NEW i \in 1 .. l  PROVE x[i] \in Nat  OBVIOUS
  <2>1. i \in 1 .. Len(x)  BY <1>1
  <2> QED  BY <2>1, ElementOfSeq
<1>3. l \in Int /\ 1 \in Int  BY <1>1
<1>4. /\ cut \in Seq(Nat) /\ Len(cut) = IF 1 <= l THEN l - 1 + 1 ELSE 0
      /\ \A i \in 1 .. l - 1 + 1 : cut[i] = x[1 + i - 1]
  <2> HIDE DEF l
  <2> QED  BY <1>2, <1>3, SubSeqProperties
<1>5. Front(x) = cut  BY DEF Front
<1> HIDE DEF cut
<1>6. Len(cut) = l /\ \A i \in 1 .. l : cut[i] = x[i]
  <2>1. l \in Nat  BY <1>1
  <2> HIDE DEF l
  <2>2. l - 1 + 1 = l /\ \A i \in 1 .. l : 1 + i - 1 = i  BY <2>1
  <2>3. Len(cut) = l  BY <1>4, <2>1, <2>2
  <2> QED  BY <1>4, <2>2, <2>3
<1> QED  BY <1>1, <1>4, <1>5, <1>6 DEF Under

\* What is below a place in a graph is below the graph, at that place.
LEMMA UnderPlace ==
    ASSUME NEW x \in Seq(Nat), NEW p \in Seq(Nat), NEW k \in Nat, Under(x, Append(p, k))
    PROVE  Under(x, p) /\ Len(x) > Len(p) + 1 /\ x[Len(p) + 1] = k
<1> DEFINE a == Append(p, k)
<1>1. /\ Len(a) = Len(p) + 1 /\ Len(p) \in Nat /\ Len(x) \in Nat
      /\ (\A i \in 1 .. Len(p) : a[i] = p[i]) /\ a[Len(p) + 1] = k
    BY AppendProperties, LenProperties
<1>2. Len(x) > Len(a) /\ \A i \in 1 .. Len(a) : x[i] = a[i]  BY DEF Under
<1> HIDE DEF a
<1>3. Len(x) > Len(p) + 1 /\ Len(p) + 1 \in 1 .. Len(a)  BY <1>1, <1>2
<1>4. \A i \in 1 .. Len(p) : x[i] = p[i]  BY <1>1, <1>2
<1> QED  BY <1>1, <1>2, <1>3, <1>4 DEF Under

------------------------------------------------------------------------------
(***************************************************************************)
(* The resolution.                                                         *)
(***************************************************************************)
CallRecord == [graph : TaskGraphs, path : Seq(Nat), offset : Nat \cup {-1}, next : Nat]
SubGraphRecord == [entry : Nat, exit : Nat, body : SUBSET Nat]

ResolveTypes ==
    /\ NumTasks \in Nat /\ DOMAIN tasks = 0 .. NumTasks - 1
    /\ \A v \in DOMAIN tasks : tasks[v].path \in Seq(Nat) /\ tasks[v].path # <<>>
    /\ calls \in Seq(CallRecord) /\ calls # <<>>
    /\ subGraphData \in Seq(SubGraphRecord)

\* A call has copied its tasks or is about to; of what is below its graph,
\* there is what the sub-graphs resolved so far have.
CallOK(c, last) ==
    /\ c.offset = -1 => last /\ c.next = 0
    /\ c.offset # -1 => \A k \in TaskIds(c.graph) :
        /\ c.offset + k \in DOMAIN tasks
        /\ tasks[c.offset + k] = [path |-> Append(c.path, k),
                                  kind |-> IF SubGraph(c.graph, k) = NoGraph THEN "task" ELSE "entry"]
    /\ \A v \in DOMAIN tasks : Under(tasks[v].path, c.path) =>
        /\ c.offset # -1
        /\ Len(tasks[v].path) > Len(c.path) + 1 => tasks[v].path[Len(c.path) + 1] < c.next

\* A call made the calls above it for one of the tasks it has passed.
Made(c, d) == Under(d.path, c.path) /\ d.path[Len(c.path) + 1] < c.next

CallsOK ==
    /\ \A j \in DOMAIN calls : CallOK(calls[j], j = Len(calls))
    /\ \A i, j \in DOMAIN calls : i < j => Made(calls[i], calls[j])

\* The body of a sub-graph has been copied, or it is the next to be.
TableOK(sub) ==
    /\ sub.entry \in DOMAIN tasks /\ sub.exit \in DOMAIN tasks /\ sub.entry < sub.exit
    /\ tasks[sub.entry].kind = "entry" /\ tasks[sub.exit].kind = "exit"
    /\ \A v \in DOMAIN tasks :
        v \in sub.body <=> tasks[v].kind # "exit" /\ Front(tasks[v].path) = tasks[sub.entry].path
    /\ \E m \in Nat \ {0} :
        /\ sub.body = sub.exit + 1 .. sub.exit + m
        /\ \/ sub.exit + m < NumTasks
           \/ /\ Top.offset = -1 /\ Top.path = tasks[sub.entry].path
              /\ sub.exit = NumTasks - 1 /\ m = Len(taskData[Top.graph])

TablesOK == \A i \in DOMAIN subGraphData : TableOK(subGraphData[i])

\* What is left to a call.
Left(size, c) ==
    IF c.offset = -1 THEN size[c.graph]
    ELSE SumOver(LeftParts(size, c.graph, c.next), TaskIds(c.graph))

\* Each call ends where the calls above it do, and what is left to it then; the
\* first one ends with the last place that was reserved.
SizesFit ==
    \E size \in [TaskGraphs -> Nat], ends \in [DOMAIN calls -> Nat] :
        /\ Sized(size, TaskGraphs)
        /\ Vertices = 0 .. ends[1] - 1
        /\ \A j \in DOMAIN calls :
            ends[j] = Left(size, calls[j]) + (IF j = Len(calls) THEN NumTasks ELSE ends[j + 1])

NoneWithoutTasks == \A g \in TaskGraphs : \A sub \in SubGraphs(g) : taskData[sub] # <<>>

\* What holds between two steps of the resolution.
Resolving ==
    /\ NoneWithoutTasks
    /\ ResolveTypes /\ CallsOK /\ TablesOK /\ SizesFit

\* A graph that stays as it is has the same tasks, sub-graphs and sizes.
LEMMA GraphStays ==
    ASSUME UNCHANGED taskData
    PROVE  /\ \A g : TaskIds(g)' = TaskIds(g)
           /\ \A g, k : SubGraph(g, k)' = SubGraph(g, k)
           /\ \A size : Sized(size, TaskGraphs)' <=> Sized(size, TaskGraphs)
           /\ \A size, c : Left(size, c)' = Left(size, c)
           /\ NoneWithoutTasks' <=> NoneWithoutTasks
<1>1. \A g : TaskIds(g)' = TaskIds(g)  BY DEF TaskIds
<1>2. \A g, k : SubGraph(g, k)' = SubGraph(g, k)  BY DEF SubGraph
<1>3. \A size, g : SizeParts(size, g)' = SizeParts(size, g)  BY <1>1, <1>2 DEF SizeParts
<1>4. \A size, g, next : LeftParts(size, g, next)' = LeftParts(size, g, next)
    BY <1>1, <1>2 DEF LeftParts
<1>5. ASSUME NEW size  PROVE Sized(size, TaskGraphs)' <=> Sized(size, TaskGraphs)
  <2>1. ASSUME NEW g \in TaskGraphs
        PROVE  SumOver(SizeParts(size, g), TaskIds(g))' = SumOver(SizeParts(size, g), TaskIds(g))
    <3>1. TaskIds(g)' = TaskIds(g) /\ SizeParts(size, g)' = SizeParts(size, g)  BY <1>1, <1>3
    <3> QED  BY <3>1 DEF SumOver, Partial
  <2> QED  BY <2>1 DEF Sized
<1>6. ASSUME NEW size, NEW c  PROVE Left(size, c)' = Left(size, c)
  <2>1. TaskIds(c.graph)' = TaskIds(c.graph)
        /\ LeftParts(size, c.graph, c.next)' = LeftParts(size, c.graph, c.next)
      BY <1>1, <1>4
  <2>2. SumOver(LeftParts(size, c.graph, c.next), TaskIds(c.graph))'
        = SumOver(LeftParts(size, c.graph, c.next), TaskIds(c.graph))
      BY <2>1 DEF SumOver, Partial
  <2> QED  BY <2>2 DEF Left
<1>7. NoneWithoutTasks' <=> NoneWithoutTasks  BY <1>1, <1>2 DEF NoneWithoutTasks, SubGraphs
<1> QED  BY <1>1, <1>2, <1>5, <1>6, <1>7

\* The first call (410) has all of the reserved size ahead of it.
LEMMA StartResolves ==
    ASSUME Nested, tasks = <<>>, subGraphData = <<>>, StartPrebuild
    PROVE  Resolving'
<1>1. /\ UNCHANGED <<taskData, tasks, subGraphData>> /\ calls' = <<Call(Root, <<>>)>>
      /\ taskGraph' = [v \in 0 .. ResolveSize[Root] - 1 |-> {}] /\ NoneWithoutTasks
    BY DEF StartPrebuild, Compilable, userVars, NoneWithoutTasks
<1> DEFINE c == Call(Root, <<>>)
<1>2. c.graph = Root /\ c.path = <<>> /\ c.offset = -1 /\ c.next = 0 /\ c \in CallRecord
    BY PrebuildAssumption DEF Call, CallRecord
<1>3. DOMAIN tasks' = {} /\ NumTasks' = 0 /\ 0 .. 0 - 1 = {}  BY <1>1, FS_EmptySet DEF NumTasks
<1>4. Len(calls') = 1 /\ DOMAIN calls' = {1} /\ calls'[1] = c /\ calls' \in Seq(CallRecord)
      /\ calls' # <<>>
    BY <1>1, <1>2
<1>5. ResolveTypes'
  <2>1. subGraphData' \in Seq(SubGraphRecord)  BY <1>1
  <2> QED  BY <1>3, <1>4, <2>1 DEF ResolveTypes
<1>6. CallsOK'
  <2>1. CallOK(c, TRUE)'  BY <1>2, <1>3 DEF CallOK
  <2>2. \A j \in DOMAIN calls' : calls'[j] = c /\ (j = Len(calls')) = TRUE  BY <1>4
  <2>3. \A j \in DOMAIN calls' : CallOK(calls[j], j = Len(calls))'  BY <2>1, <2>2 DEF CallOK
  <2>4. \A i, j \in DOMAIN calls' : ~(i < j)  BY <1>4
  <2> QED  BY <2>3, <2>4 DEF CallsOK
<1>7. TablesOK'  BY <1>1 DEF TablesOK
<1>8. SizesFit'
  <2>1. PICK size \in [TaskGraphs -> Nat] : Sized(size, TaskGraphs)  BY SizesExist
  <2>2. ResolveSize[Root] = size[Root] /\ size[Root] \in Nat
      BY <2>1, ResolveSizeIs, PrebuildAssumption
  <2> DEFINE ends == [j \in {1} |-> size[Root]]
  <2>3. ends \in [DOMAIN calls' -> Nat]  BY <1>4, <2>2
  <2>4. Vertices' = 0 .. ends[1] - 1  BY <1>1, <2>2 DEF Vertices
  <2>6. Sized(size, TaskGraphs)'  BY <1>1, <2>1, GraphStays
  <2>7. Left(size, calls[1])' = size[Root]
    <3>1. calls'[1].offset = -1 /\ calls'[1].graph = Root  BY <1>2, <1>4
    <3> QED  BY <3>1 DEF Left
  <2>8. ends[1] = Left(size, calls[1])' + NumTasks'  BY <1>3, <2>2, <2>7
  <2>9. \A j \in DOMAIN calls' :
            ends[j] = (Left(size, calls[j]) + (IF j = Len(calls) THEN NumTasks ELSE ends[j + 1]))'
    <3> SUFFICES ASSUME NEW j \in DOMAIN calls'
                 PROVE  ends[j] = (Left(size, calls[j]) + (IF j = Len(calls) THEN NumTasks ELSE ends[j + 1]))'
        OBVIOUS
    <3>1. j = 1 /\ j = Len(calls')  BY <1>4
    <3> HIDE DEF ends
    <3> QED  BY <2>8, <3>1
  <2> HIDE DEF ends
  <2> QED  BY <2>3, <2>4, <2>6, <2>9 DEF SizesFit
<1>9. NoneWithoutTasks'  BY <1>1, GraphStays
<1> QED  BY <1>5, <1>6, <1>7, <1>8, <1>9 DEF Resolving

\* A list that grows has the old elements where they were, then the new ones.
LEMMA AppendAllIs ==
    ASSUME NumTasks \in Nat, DOMAIN tasks = 0 .. NumTasks - 1, NEW more, Len(more) \in Nat
    PROVE  /\ DOMAIN AppendAll(tasks, more) = 0 .. NumTasks + Len(more) - 1
           /\ Cardinality(DOMAIN AppendAll(tasks, more)) = NumTasks + Len(more)
           /\ \A i \in DOMAIN tasks : AppendAll(tasks, more)[i] = tasks[i]
           /\ \A i \in 0 .. Len(more) - 1 : AppendAll(tasks, more)[NumTasks + i] = more[i + 1]
<1> DEFINE n == NumTasks
           m == Len(more)
<1>1. n \in Nat /\ m \in Nat /\ DOMAIN tasks = 0 .. n - 1 /\ Cardinality(DOMAIN tasks) = n
    BY DEF NumTasks
<1>2. AppendAll(tasks, more) = [i \in 0 .. n + m - 1 |-> IF i < n THEN tasks[i] ELSE more[i - n + 1]]
    BY <1>1 DEF AppendAll
<1> HIDE DEF n, m
<1>3. Cardinality(0 .. n + m - 1) = n + m
  <2>1. n + m - 1 \in Int /\ 0 \in Int  BY <1>1
  <2>2. Cardinality(0 .. n + m - 1) = IF 0 > n + m - 1 THEN 0 ELSE (n + m - 1) - 0 + 1
      BY <2>1, FS_Interval
  <2> QED  BY <1>1, <2>2
<1>4. \A i \in 0 .. n - 1 : AppendAll(tasks, more)[i] = tasks[i]  BY <1>1, <1>2
<1>5. ASSUME NEW i \in 0 .. m - 1  PROVE AppendAll(tasks, more)[n + i] = more[i + 1]
  <2>1. n + i \in 0 .. n + m - 1 /\ ~(n + i < n) /\ (n + i) - n + 1 = i + 1  BY <1>1
  <2> QED  BY <1>2, <2>1
<1> QED  BY <1>1, <1>2, <1>3, <1>4, <1>5 DEF n, m

\* The call at work is the last one.
LEMMA TopCall ==
    ASSUME ResolveTypes
    PROVE  /\ Len(calls) \in Nat \ {0} /\ DOMAIN calls = 1 .. Len(calls)
           /\ Top = calls[Len(calls)] /\ Len(calls) \in DOMAIN calls
           /\ \A j \in DOMAIN calls :
                /\ calls[j] \in CallRecord /\ calls[j].graph \in TaskGraphs
                /\ calls[j].path \in Seq(Nat) /\ Len(calls[j].path) \in Nat
                /\ calls[j].offset \in Nat \cup {-1} /\ calls[j].next \in Nat
<1>1. calls \in Seq(CallRecord) /\ calls # <<>>  BY DEF ResolveTypes
<1>2. Len(calls) \in Nat \ {0}  BY <1>1, EmptySeq
<1>3. DOMAIN calls = 1 .. Len(calls)  BY <1>1, LenProperties
<1>4. \A j \in DOMAIN calls : calls[j] \in CallRecord  BY <1>1, <1>3, ElementOfSeq
<1>5. \A j \in DOMAIN calls : Len(calls[j].path) \in Nat  BY <1>4, LenProperties DEF CallRecord
<1> QED  BY <1>2, <1>3, <1>4, <1>5 DEF Top, Last, CallRecord

\* More tasks change nothing for a call, if they are not below it out of turn.
LEMMA CallGrows ==
    ASSUME UNCHANGED taskData,
           \A v \in DOMAIN tasks : v \in DOMAIN tasks' /\ tasks'[v] = tasks[v],
           NEW c, NEW last, NEW lastNow, CallOK(c, last), c.offset = -1 => lastNow,
           \A v \in DOMAIN tasks' \ DOMAIN tasks : Under(tasks'[v].path, c.path) =>
                /\ c.offset # -1
                /\ Len(tasks'[v].path) > Len(c.path) + 1 => tasks'[v].path[Len(c.path) + 1] < c.next
    PROVE  CallOK(c, lastNow)'
<1>1. TaskIds(c.graph)' = TaskIds(c.graph) /\ \A k : SubGraph(c.graph, k)' = SubGraph(c.graph, k)
    BY GraphStays
<1>2. ASSUME c.offset # -1, NEW k \in TaskIds(c.graph)
      PROVE  /\ c.offset + k \in DOMAIN tasks'
             /\ tasks'[c.offset + k] =
                  [path |-> Append(c.path, k),
                   kind |-> IF SubGraph(c.graph, k)' = NoGraph THEN "task" ELSE "entry"]
    BY <1>1, <1>2 DEF CallOK
<1>3. ASSUME NEW v \in DOMAIN tasks', Under(tasks'[v].path, c.path)
      PROVE  /\ c.offset # -1
             /\ Len(tasks'[v].path) > Len(c.path) + 1 => tasks'[v].path[Len(c.path) + 1] < c.next
  <2>1. CASE v \in DOMAIN tasks  BY <1>3, <2>1 DEF CallOK
  <2>2. CASE v \notin DOMAIN tasks  BY <1>3, <2>2
  <2> QED  BY <2>1, <2>2
<1>4. c.offset = -1 => c.next = 0  BY DEF CallOK
<1> QED  BY <1>1, <1>2, <1>3, <1>4 DEF CallOK

\* A path through the top call is in the turn of the calls before it.
LEMMA InTurn ==
    ASSUME ResolveTypes, CallsOK, NEW j \in DOMAIN calls, j < Len(calls), NEW k \in Nat
    PROVE  /\ calls[j].offset # -1
           /\ Under(Append(Top.path, k), calls[j].path)
           /\ Append(Top.path, k)[Len(calls[j].path) + 1] < calls[j].next
<1> DEFINE L == Len(calls)
           c == calls[j]
<1>1. /\ L \in DOMAIN calls /\ Top = calls[L] /\ Top.path \in Seq(Nat) /\ c.path \in Seq(Nat)
      /\ L \in Nat /\ j \in Nat
    BY TopCall
<1>2. Made(c, Top)  BY <1>1 DEF CallsOK
<1>3. CallOK(c, j = L)  BY DEF CallsOK
<1>4. c.offset # -1  BY <1>1, <1>3 DEF CallOK
<1> HIDE DEF c
<1>5. /\ Under(Append(Top.path, k), c.path)
      /\ Append(Top.path, k)[Len(c.path) + 1] = Top.path[Len(c.path) + 1]
  <2> DEFINE p == Top.path
             q == c.path
  <2>1. p \in Seq(Nat) /\ q \in Seq(Nat) /\ Under(p, q)  BY <1>1, <1>2 DEF Made
  <2> HIDE DEF p, q
  <2>2. k \in Nat  OBVIOUS
  <2>3. \A x \in Seq(Nat) : Under(p, x) =>
            Under(Append(p, k), x) /\ Append(p, k)[Len(x) + 1] = p[Len(x) + 1]
      BY ONLY <2>1, <2>2, AppendIsUnder
  <2>4. Under(Append(p, k), q) /\ Append(p, k)[Len(q) + 1] = p[Len(q) + 1]  BY <2>1, <2>3
  <2> QED  BY <2>4 DEF p, q
<1> QED  BY <1>2, <1>4, <1>5 DEF Made, c

\* The copied tasks (331-335) follow those there are, under the path of the call.
LEMMA CopyTasksCopies ==
    ASSUME Nested, Resolving, CopyTasks
    PROVE  /\ Top.offset = -1 /\ Top.graph \in TaskGraphs /\ Len(taskData[Top.graph]) \in Nat
           /\ TaskIds(Top.graph) = 0 .. Len(taskData[Top.graph]) - 1
           /\ UNCHANGED <<taskData, subGraphData, Vertices>>
           /\ NumTasks' = NumTasks + Len(taskData[Top.graph])
           /\ DOMAIN tasks' = 0 .. NumTasks' - 1
           /\ \A v \in DOMAIN tasks : v \in DOMAIN tasks' /\ tasks'[v] = tasks[v]
           /\ \A k \in TaskIds(Top.graph) :
                tasks'[NumTasks + k] =
                    [path |-> Append(Top.path, k),
                     kind |-> IF SubGraph(Top.graph, k) = NoGraph THEN "task" ELSE "entry"]
           /\ \A v \in DOMAIN tasks' \ DOMAIN tasks :
                \E k \in TaskIds(Top.graph) : v = NumTasks + k
           /\ calls' = [calls EXCEPT ![Len(calls)].offset = NumTasks]
<1> DEFINE g == Top.graph
           n == NumTasks
           m == Len(taskData[g])
           copies == CopiesOf(Top)
<1>1. ResolveTypes /\ n \in Nat /\ DOMAIN tasks = 0 .. n - 1  BY DEF Resolving, ResolveTypes
<1>2. g \in TaskGraphs  BY <1>1, TopCall
<1>3. m \in Nat /\ TaskIds(g) = 0 .. m - 1  BY <1>2, TaskIdsOf DEF TaskIds
<1>4. /\ Top.offset = -1 /\ UNCHANGED <<taskData, subGraphData>>
      /\ tasks' = AppendAll(tasks, copies) /\ DOMAIN taskGraph' = DOMAIN taskGraph
      /\ calls' = [calls EXCEPT ![Len(calls)].offset = n]
    BY DEF CopyTasks, userVars, Vertices
<1>5. copies = [i \in 1 .. m |->
        [path |-> Append(Top.path, i - 1),
         kind |-> IF SubGraph(g, i - 1) = NoGraph THEN "task" ELSE "entry"]]
    BY DEF CopiesOf
<1> HIDE DEF g, m, copies
<1>6. Len(copies) = m
  <2> DEFINE S == {copies[i] : i \in 1 .. m}
  <2>1. copies \in [1 .. m -> S]  BY <1>5
  <2> HIDE DEF S
  <2> QED  BY <1>3, <2>1, FunctionIsSeq
<1> DEFINE new == AppendAll(tasks, copies)
<1>7. /\ DOMAIN new = 0 .. n + m - 1 /\ Cardinality(DOMAIN new) = n + m
      /\ \A i \in 0 .. n - 1 : new[i] = tasks[i]
      /\ \A i \in 0 .. m - 1 : new[n + i] = copies[i + 1]
    BY <1>1, <1>3, <1>6, AppendAllIs
<1> HIDE DEF new
<1>8. tasks' = new  BY <1>4 DEF new
<1>9. NumTasks' = n + m /\ DOMAIN tasks' = 0 .. NumTasks' - 1
  <2>1. NumTasks' = Cardinality(DOMAIN tasks')  BY DEF NumTasks
  <2>2. DOMAIN tasks' = 0 .. n + m - 1  BY <1>7, <1>8
  <2>3. NumTasks' = n + m  BY <1>7, <1>8, <2>1
  <2>4. \A x, y \in Nat : x = y => 0 .. x - 1 = 0 .. y - 1  OBVIOUS
  <2> DEFINE now == NumTasks'
             sum == n + m
  <2>5. now = sum /\ sum \in Nat  BY <1>1, <1>3, <2>3
  <2>6. DOMAIN tasks' = 0 .. sum - 1  BY <1>1, <1>3, <2>2
  <2> HIDE DEF now, sum
  <2>7. DOMAIN tasks' = 0 .. now - 1  BY <2>4, <2>5, <2>6
  <2> QED  BY <2>3, <2>7 DEF now
<1>10. \A v \in DOMAIN tasks : v \in DOMAIN tasks' /\ tasks'[v] = tasks[v]
  <2> HIDE DEF n
  <2> QED  BY <1>1, <1>3, <1>7, <1>8
<1>11. \A k \in TaskIds(g) :
        tasks'[n + k] = [path |-> Append(Top.path, k),
                         kind |-> IF SubGraph(g, k) = NoGraph THEN "task" ELSE "entry"]
  <2> SUFFICES ASSUME NEW k \in 0 .. m - 1
               PROVE  tasks'[n + k] = [path |-> Append(Top.path, k),
                         kind |-> IF SubGraph(g, k) = NoGraph THEN "task" ELSE "entry"]
      BY <1>3
  <2>1. k + 1 \in 1 .. m /\ (k + 1) - 1 = k  BY <1>3
  <2>2. copies[k + 1] = [path |-> Append(Top.path, k),
                         kind |-> IF SubGraph(g, k) = NoGraph THEN "task" ELSE "entry"]
      BY <1>5, <2>1
  <2> QED  BY <1>7, <1>8, <2>2
<1>12. \A v \in DOMAIN tasks' \ DOMAIN tasks : \E k \in TaskIds(g) : v = n + k
  <2> HIDE DEF n
  <2> SUFFICES ASSUME NEW v \in 0 .. n + m - 1, v \notin 0 .. n - 1
               PROVE  \E k \in 0 .. m - 1 : v = n + k
      BY <1>1, <1>3, <1>7, <1>8
  <2>1. v - n \in 0 .. m - 1 /\ v = n + (v - n)  BY <1>1, <1>3
  <2> QED  BY <2>1
<1>13. UNCHANGED Vertices  BY <1>4 DEF Vertices
<1> QED  BY <1>2, <1>3, <1>4, <1>9, <1>10, <1>11, <1>12, <1>13 DEF g, m

\* The tasks that are copied are below the call at work, in the turn of all others.
LEMMA CopyTasksCalls ==
    ASSUME Nested, Resolving, CopyTasks
    PROVE  CallsOK'
<1> DEFINE n == NumTasks
<1>0. PICK g, L : g = Top.graph /\ L = Len(calls)  OBVIOUS
<1>1. ResolveTypes /\ CallsOK /\ n \in Nat /\ DOMAIN tasks = 0 .. n - 1
    BY DEF Resolving, ResolveTypes
<1>2. /\ Top.offset = -1 /\ TaskIds(g) = 0 .. Len(taskData[g]) - 1 /\ Len(taskData[g]) \in Nat
      /\ UNCHANGED taskData
      /\ NumTasks' = n + Len(taskData[g]) /\ DOMAIN tasks' = 0 .. NumTasks' - 1
      /\ \A v \in DOMAIN tasks : v \in DOMAIN tasks' /\ tasks'[v] = tasks[v]
      /\ \A k \in TaskIds(g) :
            tasks'[n + k] = [path |-> Append(Top.path, k),
                             kind |-> IF SubGraph(g, k) = NoGraph THEN "task" ELSE "entry"]
      /\ \A v \in DOMAIN tasks' \ DOMAIN tasks : \E k \in TaskIds(g) : v = n + k
      /\ calls' = [calls EXCEPT ![L].offset = n]
    BY <1>0, CopyTasksCopies
<1>3. /\ L \in Nat \ {0} /\ DOMAIN calls = 1 .. L /\ Top = calls[L] /\ Top.path \in Seq(Nat)
      /\ \A j \in DOMAIN calls : calls[j] \in CallRecord
    BY <1>0, <1>1, TopCall
<1>4. /\ DOMAIN calls' = DOMAIN calls /\ Len(calls') = L
      /\ \A j \in 1 .. L : j # L => calls'[j] = calls[j]
      /\ calls'[L].offset = n /\ calls'[L].graph = g /\ calls'[L].path = Top.path
      /\ calls'[L].next = Top.next
  <2>1. calls \in Seq(CallRecord)  BY <1>1 DEF ResolveTypes
  <2>2. DOMAIN calls' = DOMAIN calls /\ \A j \in 1 .. L : j # L => calls'[j] = calls[j]  BY <1>2
  <2>3. calls'[L] = [Top EXCEPT !.offset = n]  BY <1>2, <1>3
  <2>4. Len(calls') = L
    <3>1. calls' \in [1 .. L -> {calls'[i] : i \in 1 .. L}]  BY <1>2, <1>3
    <3> QED  BY <1>3, <3>1, FunctionIsSeq
  <2> QED  BY <1>0, <1>3, <2>2, <2>3, <2>4 DEF CallRecord
<1>5. ASSUME NEW v \in DOMAIN tasks' \ DOMAIN tasks
      PROVE  \E k \in TaskIds(g) : k \in Nat /\ v = n + k /\ tasks'[v].path = Append(Top.path, k)
  <2>1. PICK k \in TaskIds(g) : v = n + k  BY <1>2
  <2>2. tasks'[n + k] = [path |-> Append(Top.path, k),
                         kind |-> IF SubGraph(g, k) = NoGraph THEN "task" ELSE "entry"]
      BY <1>2
  <2>3. k \in Nat  BY <1>2
  <2> QED  BY <2>1, <2>2, <2>3
<1>6. ASSUME NEW j \in DOMAIN calls, j < L  PROVE CallOK(calls[j], j = Len(calls))'
  <2>0. PICK c : c = calls[j]  OBVIOUS
  <2>1. CallOK(c, FALSE)
    <3>1. CallOK(calls[j], j = Len(calls))  BY <1>1 DEF CallsOK
    <3>2. (j = Len(calls)) = FALSE  BY <1>0, <1>3, <1>6
    <3> QED  BY <2>0, <3>1, <3>2
  <2>2. c.offset # -1  BY <2>1 DEF CallOK
  <2>3. ASSUME NEW v \in DOMAIN tasks' \ DOMAIN tasks
        PROVE  Len(tasks'[v].path) > Len(c.path) + 1 => tasks'[v].path[Len(c.path) + 1] < c.next
    <3>1. PICK k \in TaskIds(g) : k \in Nat /\ tasks'[v].path = Append(Top.path, k)  BY <1>5
    <3>2. Append(Top.path, k)[Len(c.path) + 1] < c.next  BY <1>0, <1>1, <1>6, <2>0, <3>1, InTurn
    <3> QED  BY <3>1, <3>2
  <2>4. CallOK(c, FALSE)'
    <3>1. c.offset = -1 => FALSE  BY <2>2
    <3> QED  BY <1>2, <2>1, <2>2, <2>3, <3>1, CallGrows
  <2>5. calls'[j] = c
    <3>1. j \in 1 .. L /\ j # L  BY <1>3, <1>6
    <3> QED  BY <1>4, <2>0, <3>1
  <2>6. (j = Len(calls')) = FALSE
    <3>1. j # L  BY <1>3, <1>6
    <3> QED  BY <1>4, <3>1
  <2> QED  BY <2>4, <2>5, <2>6 DEF CallOK
<1>7. CallOK(calls[L], L = Len(calls))'
  <2>0. PICK c : c = calls'[L]  OBVIOUS
  <2>1. c.offset = n /\ c.graph = g /\ c.path = Top.path /\ c.next = Top.next  BY <1>4, <2>0
  <2>9. n # -1  BY <1>1
  <2>2. TaskIds(g)' = TaskIds(g) /\ \A k : SubGraph(g, k)' = SubGraph(g, k)
    <3>1. UNCHANGED taskData  BY <1>2
    <3> QED  BY <3>1, GraphStays
  <2>3. ASSUME NEW k \in TaskIds(g)
        PROVE  n + k \in DOMAIN tasks'
    <3> HIDE DEF n
    <3> QED  BY <1>1, <1>2
  <2>4. ASSUME NEW v \in DOMAIN tasks', Under(tasks'[v].path, Top.path)
        PROVE  ~(Len(tasks'[v].path) > Len(Top.path) + 1)
    <3>1. CASE v \in DOMAIN tasks
      <4>1. CallOK(Top, L = Len(calls))  BY <1>0, <1>1, <1>3 DEF CallsOK
      <4>2. tasks[v] = tasks'[v]  BY <1>2, <3>1
      <4> QED  BY <1>2, <2>4, <3>1, <4>1, <4>2 DEF CallOK
    <3>2. CASE v \notin DOMAIN tasks
      <4>1. PICK k \in TaskIds(g) : k \in Nat /\ tasks'[v].path = Append(Top.path, k)  BY <1>5, <3>2
      <4>2. Len(Append(Top.path, k)) = Len(Top.path) + 1 /\ Len(Top.path) \in Nat
          BY <1>3, <4>1, AppendProperties, LenProperties
      <4> QED  BY <4>1, <4>2
    <3> QED  BY <3>1, <3>2
  <2>5. \A k \in TaskIds(g) :
            tasks'[n + k] = [path |-> Append(Top.path, k),
                             kind |-> IF SubGraph(g, k)' = NoGraph THEN "task" ELSE "entry"]
      BY <1>2, <2>2
  <2> HIDE DEF n
  <2>6. CallOK(c, TRUE)'  BY <2>1, <2>2, <2>3, <2>4, <2>5, <2>9 DEF CallOK
  <2>7. (L = Len(calls')) = TRUE  BY <1>4
  <2> QED  BY <2>0, <2>6, <2>7 DEF CallOK
<1>8. \A j \in DOMAIN calls' : CallOK(calls[j], j = Len(calls))'
  <2> SUFFICES ASSUME NEW j \in DOMAIN calls'  PROVE CallOK(calls[j], j = Len(calls))'  OBVIOUS
  <2>1. j \in DOMAIN calls /\ j \in 1 .. L  BY <1>3, <1>4
  <2>2. j = L \/ j < L  BY <1>3, <2>1
  <2>3. CASE j < L  BY <1>6, <2>1, <2>3
  <2>4. CASE j = L  BY <1>7, <2>4
  <2> QED  BY <2>2, <2>3, <2>4
<1>9. \A i, j \in DOMAIN calls' : i < j => Made(calls[i], calls[j])'
  <2> SUFFICES ASSUME NEW i \in DOMAIN calls, NEW j \in DOMAIN calls, i < j
               PROVE  Made(calls[i], calls[j])'
      BY <1>4
  <2>1. Made(calls[i], calls[j])  BY <1>1 DEF CallsOK
  <2>2. \A l \in DOMAIN calls : calls'[l].path = calls[l].path /\ calls'[l].next = calls[l].next
      BY <1>3, <1>4
  <2> QED  BY <2>1, <2>2 DEF Made
<1> QED  BY <1>8, <1>9 DEF CallsOK

\* The body of the sub-graph that waits for them is exactly the tasks that are copied.
LEMMA CopyTasksTables ==
    ASSUME Nested, Resolving, CopyTasks
    PROVE  TablesOK'
<1> DEFINE n == NumTasks
<1>0. PICK g, m : g = Top.graph /\ m = Len(taskData[g])  OBVIOUS
<1>1. /\ ResolveTypes /\ CallsOK /\ TablesOK /\ n \in Nat /\ DOMAIN tasks = 0 .. n - 1
      /\ \A v \in DOMAIN tasks : tasks[v].path \in Seq(Nat) /\ tasks[v].path # <<>>
    BY DEF Resolving, ResolveTypes
<1>2. /\ Top.offset = -1 /\ TaskIds(g) = 0 .. m - 1 /\ m \in Nat
      /\ UNCHANGED <<taskData, subGraphData>>
      /\ NumTasks' = n + m /\ DOMAIN tasks' = 0 .. NumTasks' - 1
      /\ \A v \in DOMAIN tasks : v \in DOMAIN tasks' /\ tasks'[v] = tasks[v]
      /\ \A k \in TaskIds(g) :
            tasks'[n + k] = [path |-> Append(Top.path, k),
                             kind |-> IF SubGraph(g, k) = NoGraph THEN "task" ELSE "entry"]
      /\ \A v \in DOMAIN tasks' \ DOMAIN tasks : \E k \in TaskIds(g) : v = n + k
    BY <1>0, CopyTasksCopies
<1>3. Top.path \in Seq(Nat) /\ CallOK(Top, TRUE)
  <2>1. Top = calls[Len(calls)] /\ Len(calls) \in DOMAIN calls /\ Top.path \in Seq(Nat)
      BY <1>1, TopCall
  <2> QED  BY <1>1, <2>1 DEF CallsOK
<1>4. ASSUME NEW v \in DOMAIN tasks, Front(tasks[v].path) = Top.path  PROVE FALSE
  <2>1. tasks[v].path \in Seq(Nat) /\ tasks[v].path # <<>>  BY <1>1
  <2>2. Under(tasks[v].path, Top.path)  BY <1>4, <2>1, FrontIsAbove
  <2> QED  BY <1>2, <1>3, <2>2 DEF CallOK
<1>5. ASSUME NEW v \in DOMAIN tasks' \ DOMAIN tasks
      PROVE  /\ v \in n .. n + m - 1
             /\ tasks'[v].kind # "exit" /\ Front(tasks'[v].path) = Top.path
  <2>1. PICK k \in TaskIds(g) : v = n + k  BY <1>2
  <2>2. tasks'[n + k] = [path |-> Append(Top.path, k),
                         kind |-> IF SubGraph(g, k) = NoGraph THEN "task" ELSE "entry"]
      BY <1>2
  <2>3. k \in 0 .. m - 1 /\ k \in Nat  BY <1>2
  <2>4. Front(Append(Top.path, k)) = Top.path  BY <1>3, <2>3, AppendIsUnder
  <2>5. n + k \in n .. n + m - 1
    <3> HIDE DEF n
    <3> QED  BY <1>1, <1>2, <2>3
  <2> QED  BY <2>1, <2>2, <2>4, <2>5
<1>6. ASSUME NEW sub, TableOK(sub)  PROVE TableOK(sub)'
  <2>1. /\ sub.entry \in DOMAIN tasks /\ sub.exit \in DOMAIN tasks /\ sub.entry < sub.exit
        /\ tasks[sub.entry].kind = "entry" /\ tasks[sub.exit].kind = "exit"
        /\ \A v \in DOMAIN tasks :
            v \in sub.body <=> tasks[v].kind # "exit" /\ Front(tasks[v].path) = tasks[sub.entry].path
      BY <1>6 DEF TableOK
  <2>2. PICK mm \in Nat \ {0} :
        /\ sub.body = sub.exit + 1 .. sub.exit + mm
        /\ \/ sub.exit + mm < n
           \/ /\ Top.path = tasks[sub.entry].path
              /\ sub.exit = n - 1 /\ mm = m
      BY <1>0, <1>6 DEF TableOK
  <2>3. sub.exit \in Nat /\ sub.exit < n
    <3> HIDE DEF n
    <3> QED  BY <1>1, <2>1
  <2>4. sub.entry \in DOMAIN tasks' /\ sub.exit \in DOMAIN tasks'
        /\ tasks'[sub.entry] = tasks[sub.entry] /\ tasks'[sub.exit] = tasks[sub.exit]
      BY <1>2, <2>1
  <2>5. sub.exit + mm < n + m
    <3> HIDE DEF n
    <3>1. CASE sub.exit + mm < n  BY <1>1, <1>2, <2>3, <3>1
    <3>2. CASE sub.exit = n - 1 /\ mm = m  BY <1>1, <1>2, <2>3, <3>2
    <3> QED  BY <2>2, <3>1, <3>2
  <2>6. ASSUME NEW v \in DOMAIN tasks' \ DOMAIN tasks
        PROVE  v \in sub.body <=> Top.path = tasks[sub.entry].path
    <3>1. v \in n .. n + m - 1  BY <1>5
    <3>2. CASE sub.exit + mm < n
      <4>1. v \notin sub.body
        <5> HIDE DEF n
        <5> QED  BY <1>1, <1>2, <2>2, <2>3, <3>1, <3>2
      <4>2. sub.exit + 1 \in sub.body /\ sub.exit + 1 \in 0 .. n - 1
        <5> HIDE DEF n
        <5> QED  BY <1>1, <2>2, <2>3, <3>2
      <4>3. Top.path # tasks[sub.entry].path  BY <1>1, <1>4, <2>1, <4>2
      <4> QED  BY <4>1, <4>3
    <3>3. CASE Top.path = tasks[sub.entry].path /\ sub.exit = n - 1 /\ mm = m
      <4>1. v \in sub.body
        <5> HIDE DEF n
        <5> QED  BY <1>1, <1>2, <2>2, <2>3, <3>1, <3>3
      <4> QED  BY <3>3, <4>1
    <3> QED  BY <2>2, <3>2, <3>3
  <2>7. ASSUME NEW v \in DOMAIN tasks'
        PROVE  v \in sub.body <=> tasks'[v].kind # "exit" /\ Front(tasks'[v].path) = tasks'[sub.entry].path
    <3>1. CASE v \in DOMAIN tasks
      <4>1. tasks'[v] = tasks[v]  BY <1>2, <3>1
      <4> QED  BY <2>1, <2>4, <3>1, <4>1
    <3>2. CASE v \notin DOMAIN tasks  BY <1>5, <2>4, <2>6, <3>2
    <3> QED  BY <3>1, <3>2
  <2>8. sub.exit + mm < NumTasks'  BY <1>2, <2>5
  <2> QED  BY <2>1, <2>2, <2>4, <2>7, <2>8 DEF TableOK
<1> QED  BY <1>1, <1>2, <1>6 DEF TablesOK

\* A call copies its tasks out of what is left to it.
LEMMA CopyTasksSizes ==
    ASSUME Nested, Resolving, CopyTasks
    PROVE  SizesFit'
<1> DEFINE n == NumTasks
<1>0. PICK g, m, L : g = Top.graph /\ m = Len(taskData[g]) /\ L = Len(calls)  OBVIOUS
<1>1. ResolveTypes /\ CallsOK /\ SizesFit /\ n \in Nat  BY DEF Resolving, ResolveTypes
<1>2. /\ Top.offset = -1 /\ g \in TaskGraphs /\ m \in Nat /\ UNCHANGED <<taskData, Vertices>>
      /\ NumTasks' = n + m /\ calls' = [calls EXCEPT ![L].offset = n]
    BY <1>0, CopyTasksCopies
<1>3. /\ L \in Nat \ {0} /\ DOMAIN calls = 1 .. L /\ Top = calls[L] /\ L \in DOMAIN calls
      /\ \A j \in DOMAIN calls : calls[j] \in CallRecord
    BY <1>0, <1>1, TopCall
<1>4. Top.next = 0
  <2>1. CallOK(Top, L = Len(calls))  BY <1>1, <1>3 DEF CallsOK
  <2> QED  BY <1>2, <2>1 DEF CallOK
<1>5. /\ DOMAIN calls' = DOMAIN calls /\ Len(calls') = L
      /\ \A j \in DOMAIN calls : j # L => calls'[j] = calls[j]
      /\ calls'[L].offset = n /\ calls'[L].graph = g /\ calls'[L].next = 0
  <2>1. DOMAIN calls' = DOMAIN calls /\ \A j \in 1 .. L : j # L => calls'[j] = calls[j]  BY <1>2, <1>3
  <2>2. calls'[L] = [Top EXCEPT !.offset = n]  BY <1>2, <1>3
  <2>3. Len(calls') = L
    <3>1. calls' \in [1 .. L -> {calls'[i] : i \in 1 .. L}]  BY <1>2, <1>3
    <3> QED  BY <1>3, <3>1, FunctionIsSeq
  <2> QED  BY <1>0, <1>3, <1>4, <2>1, <2>2, <2>3 DEF CallRecord
<1>6. PICK size \in [TaskGraphs -> Nat], ends \in [DOMAIN calls -> Nat] :
        /\ Sized(size, TaskGraphs)
        /\ Vertices = 0 .. ends[1] - 1
        /\ \A j \in DOMAIN calls :
            ends[j] = Left(size, calls[j]) + (IF j = L THEN n ELSE ends[j + 1])
    BY <1>0, <1>1 DEF SizesFit
<1>7. Sized(size, TaskGraphs)' /\ \A c : Left(size, c)' = Left(size, c)  BY <1>2, <1>6, GraphStays
<1>8. ASSUME NEW j \in DOMAIN calls
      PROVE  ends[j] = (Left(size, calls[j]) + (IF j = Len(calls) THEN NumTasks ELSE ends[j + 1]))'
  <2>1. CASE j # L
    <3>1. ends[j] = Left(size, calls[j]) + ends[j + 1]  BY <1>6, <2>1
    <3>2. calls'[j] = calls[j] /\ j # Len(calls')  BY <1>5, <2>1
    <3>3. (Left(size, calls[j]))' = Left(size, calls[j])
      <4>1. PICK c : c = calls[j]  OBVIOUS
      <4>2. Left(size, c)' = Left(size, c)  BY <1>7
      <4> QED  BY <3>2, <4>1, <4>2 DEF Left
    <3> QED  BY <3>1, <3>2, <3>3
  <2>2. CASE j = L
    <3>1. ends[L] = size[g] + n
      <4>1. Left(size, calls[L]) = size[g]  BY <1>0, <1>2, <1>3 DEF Left
      <4> QED  BY <1>3, <1>6, <4>1
    <3> DEFINE rest == SumOver(LeftParts(size, g, 0), TaskIds(g))
    <3>2. size[g] = m + rest  BY <1>0, <1>2, <1>6, LeftWhenCopied
    <3>3. rest \in Int  BY <1>2, <1>6, LeftPartsTyped
    <3>4. (Left(size, calls[L]))' = rest
      <4>1. PICK c : c = calls'[L]  OBVIOUS
      <4>2. c.offset = n /\ n # -1 /\ c.graph = g /\ c.next = 0  BY <1>1, <1>5, <4>1
      <4>3. Left(size, c) = rest  BY <4>2 DEF Left
      <4>4. Left(size, c)' = rest
        <5> HIDE DEF rest
        <5> QED  BY <1>7, <4>3
      <4> QED  BY <4>1, <4>4 DEF Left
    <3>5. size[g] + n = rest + (n + m)
      <4> HIDE DEF rest, n
      <4> QED  BY <1>1, <1>2, <3>2, <3>3
    <3> HIDE DEF rest
    <3>6. ends[L] = (Left(size, calls[L]))' + NumTasks'  BY <1>2, <3>1, <3>4, <3>5
    <3> QED  BY <1>5, <2>2, <3>6
  <2> QED  BY <2>1, <2>2
<1>9. ends \in [DOMAIN calls' -> Nat] /\ Vertices' = 0 .. ends[1] - 1  BY <1>2, <1>5, <1>6
<1> QED  BY <1>5, <1>6, <1>7, <1>8, <1>9 DEF SizesFit

LEMMA CopyTasksResolves ==
    ASSUME Nested, Resolving, CopyTasks
    PROVE  Resolving'
<1>1. CallsOK' /\ TablesOK' /\ SizesFit'  BY CopyTasksCalls, CopyTasksTables, CopyTasksSizes
<1>2. NoneWithoutTasks'
  <2>1. UNCHANGED taskData  BY CopyTasksCopies
  <2> QED  BY <2>1, GraphStays DEF Resolving
<1>3. ResolveTypes'
  <2>0. PICK g, m, n : g = Top.graph /\ m = Len(taskData[g]) /\ n = NumTasks  OBVIOUS
  <2>1. ResolveTypes  BY DEF Resolving
  <2>2. /\ m \in Nat /\ TaskIds(g) = 0 .. m - 1
        /\ NumTasks' = n + m /\ DOMAIN tasks' = 0 .. NumTasks' - 1
        /\ \A v \in DOMAIN tasks : v \in DOMAIN tasks' /\ tasks'[v] = tasks[v]
        /\ \A k \in TaskIds(g) :
              tasks'[n + k] = [path |-> Append(Top.path, k),
                               kind |-> IF SubGraph(g, k) = NoGraph THEN "task" ELSE "entry"]
        /\ \A v \in DOMAIN tasks' \ DOMAIN tasks : \E k \in TaskIds(g) : v = n + k
        /\ calls' = [calls EXCEPT ![Len(calls)].offset = n]
      BY <2>0, CopyTasksCopies
  <2>3. n \in Nat /\ calls \in Seq(CallRecord) /\ calls # <<>>
        /\ \A v \in DOMAIN tasks : tasks[v].path \in Seq(Nat) /\ tasks[v].path # <<>>
      BY <2>0, <2>1 DEF ResolveTypes
  <2>4. NumTasks' \in Nat  BY <2>2, <2>3
  <2>5. Top.path \in Seq(Nat) /\ Len(calls) \in DOMAIN calls  BY <2>1, TopCall
  <2>6. ASSUME NEW v \in DOMAIN tasks'  PROVE tasks'[v].path \in Seq(Nat) /\ tasks'[v].path # <<>>
    <3>1. CASE v \in DOMAIN tasks
      <4>1. tasks'[v] = tasks[v]  BY <2>2, <3>1
      <4> QED  BY <2>3, <3>1, <4>1
    <3>2. CASE v \notin DOMAIN tasks
      <4>1. PICK k \in TaskIds(g) : v = n + k  BY <2>2, <3>2
      <4>2. tasks'[n + k] = [path |-> Append(Top.path, k),
                             kind |-> IF SubGraph(g, k) = NoGraph THEN "task" ELSE "entry"]
          BY <2>2
      <4>3. k \in Nat  BY <2>2
      <4>4. Append(Top.path, k) \in Seq(Nat) /\ Append(Top.path, k) # <<>>  BY <2>5, <4>3, AppendIsUnder
      <4> QED  BY <4>1, <4>2, <4>4
    <3> QED  BY <3>1, <3>2
  <2>7. calls' \in Seq(CallRecord) /\ calls' # <<>>
    <3>0. PICK L : L = Len(calls)  OBVIOUS
    <3>1. L \in Nat \ {0} /\ calls \in [1 .. L -> CallRecord] /\ L \in 1 .. L
        BY <2>3, <2>5, <3>0, EmptySeq, LenProperties
    <3>2. [calls[L] EXCEPT !.offset = n] \in CallRecord
      <4>1. calls[L] \in CallRecord  BY <3>1
      <4> QED  BY <2>3, <4>1 DEF CallRecord
    <3>3. calls' = [calls EXCEPT ![L] = [calls[L] EXCEPT !.offset = n]]  BY <2>2, <3>0
    <3>4. calls' \in [1 .. L -> CallRecord]  BY <3>1, <3>2, <3>3
    <3>5. calls' \in Seq(CallRecord) /\ Len(calls') = L  BY <3>1, <3>4, FunctionIsSeq
    <3> QED  BY <3>1, <3>5, EmptySeq
  <2>8. subGraphData' \in Seq(SubGraphRecord)
    <3>1. UNCHANGED subGraphData  BY CopyTasksCopies
    <3> QED  BY <2>1, <3>1 DEF ResolveTypes
  <2> QED  BY <2>2, <2>4, <2>6, <2>7, <2>8 DEF ResolveTypes
<1> QED  BY <1>1, <1>2, <1>3 DEF Resolving

\* The exit (362-366) follows the tasks there are, and the call for the sub-graph
\* the calls there are.
LEMMA ResolveSubGraphEnters ==
    ASSUME Nested, Resolving, ResolveSubGraph
    PROVE  \E k \in TaskIds(Top.graph), sub \in TaskGraphs :
        /\ Top.offset # -1 /\ k \in Nat /\ k >= Top.next
        /\ SubGraph(Top.graph, k) = sub /\ sub # NoGraph
        /\ \A j \in TaskIds(Top.graph) : j >= Top.next /\ SubGraph(Top.graph, j) # NoGraph => k <= j
        /\ Len(taskData[sub]) \in Nat \ {0}
        /\ UNCHANGED <<taskData, Vertices>>
        /\ NumTasks' = NumTasks + 1 /\ DOMAIN tasks' = 0 .. NumTasks
        /\ \A v \in DOMAIN tasks : v \in DOMAIN tasks' /\ tasks'[v] = tasks[v]
        /\ tasks'[NumTasks] = [path |-> Append(Top.path, k), kind |-> "exit"]
        /\ \A v \in DOMAIN tasks' \ DOMAIN tasks : v = NumTasks
        /\ subGraphData' = Append(subGraphData,
                [entry |-> Top.offset + k, exit |-> NumTasks,
                 body |-> NumTasks + 1 .. NumTasks + Len(taskData[sub])])
        /\ calls' \in Seq(CallRecord) /\ calls' # <<>>
        /\ Len(calls') = Len(calls) + 1 /\ DOMAIN calls' = 1 .. Len(calls) + 1
        /\ \A j \in 1 .. Len(calls) : j # Len(calls) => calls'[j] = calls[j]
        /\ calls'[Len(calls)] = [Top EXCEPT !.next = k + 1]
        /\ calls'[Len(calls) + 1] = Call(sub, Append(Top.path, k))
<1>0. PICK g, L, n : g = Top.graph /\ L = Len(calls) /\ n = NumTasks  OBVIOUS
<1> DEFINE k == Min(SubGraphsLeft)
           sub == SubGraph(g, k)
           path == Append(Top.path, k)
           more == <<[path |-> path, kind |-> "exit"]>>
           moved == [calls EXCEPT ![L].next = k + 1]
<1>1. /\ Top.offset # -1 /\ SubGraphsLeft # {} /\ UNCHANGED taskData
      /\ tasks' = AppendAll(tasks, more)
      /\ subGraphData' = Append(subGraphData,
                [entry |-> Top.offset + k, exit |-> n, body |-> n + 1 .. n + Len(taskData[sub])])
      /\ calls' = Append(moved, Call(sub, path))
    BY <1>0 DEF ResolveSubGraph, userVars, BodyAfter
<1>2. /\ ResolveTypes /\ NoneWithoutTasks /\ n \in Nat /\ DOMAIN tasks = 0 .. n - 1
      /\ calls \in Seq(CallRecord)
    BY <1>0 DEF Resolving, ResolveTypes
<1>3. UNCHANGED Vertices
  <2>1. taskGraph' = Wired(Top.offset + k, NumTasks, BodyAfter(sub, NumTasks))
      BY <1>0 DEF ResolveSubGraph
  <2> QED  BY <2>1 DEF Wired, Vertices
<1>4. /\ g \in TaskGraphs /\ L \in Nat \ {0} /\ DOMAIN calls = 1 .. L /\ Top = calls[L]
      /\ L \in 1 .. L /\ Top.path \in Seq(Nat) /\ Top \in CallRecord
    BY <1>0, <1>2, TopCall
<1>5. TaskIds(g) \subseteq Nat  BY <1>4, TaskIdsOf
<1>6. /\ k \in TaskIds(g) /\ k >= Top.next /\ SubGraph(g, k) # NoGraph
      /\ \A j \in TaskIds(g) : j >= Top.next /\ SubGraph(g, j) # NoGraph => k <= j
  <2>1. SubGraphsLeft = {j \in TaskIds(g) : j >= Top.next /\ SubGraph(g, j) # NoGraph}
      BY <1>0 DEF SubGraphsLeft
  <2>2. SubGraphsLeft \subseteq Nat  BY <1>5, <2>1
  <2>3. Min(SubGraphsLeft) \in SubGraphsLeft /\ \A j \in SubGraphsLeft : Min(SubGraphsLeft) <= j
      BY <1>1, <2>2, MinOfNat
  <2> QED  BY <2>1, <2>3
<1> HIDE DEF k
<1>7. k \in Nat /\ sub \in TaskGraphs /\ sub # NoGraph  BY <1>4, <1>5, <1>6, TaskIdsOf
<1>8. Len(taskData[sub]) \in Nat \ {0}
  <2>1. sub \in SubGraphs(g)  BY <1>6 DEF SubGraphs
  <2>2. taskData[sub] # <<>>  BY <1>2, <1>4, <2>1 DEF NoneWithoutTasks
  <2>3. taskData[sub] \in Seq({NoGraph} \cup {h \in TaskGraphs : h > sub})  BY <1>7 DEF Nested
  <2> HIDE DEF sub
  <2> QED  BY <2>2, <2>3, EmptySeq
<1> HIDE DEF sub
<1>9. path \in Seq(Nat)  BY <1>4, <1>7, AppendIsUnder
<1>10. Len(more) = 1 /\ more[1] = [path |-> path, kind |-> "exit"]  OBVIOUS
<1> HIDE DEF path, more
<1> DEFINE new == AppendAll(tasks, more)
<1>11. /\ DOMAIN new = 0 .. n /\ Cardinality(DOMAIN new) = n + 1
       /\ \A v \in 0 .. n - 1 : new[v] = tasks[v]
       /\ new[n] = more[1]
  <2>0. NumTasks \in Nat /\ DOMAIN tasks = 0 .. NumTasks - 1 /\ Len(more) \in Nat
      BY <1>0, <1>2, <1>10
  <2>9. /\ DOMAIN new = 0 .. NumTasks + Len(more) - 1
        /\ Cardinality(DOMAIN new) = NumTasks + Len(more)
        /\ \A v \in DOMAIN tasks : new[v] = tasks[v]
        /\ \A i \in 0 .. Len(more) - 1 : new[NumTasks + i] = more[i + 1]
      BY ONLY <2>0, AppendAllIs
  <2>1. /\ DOMAIN new = 0 .. n + 1 - 1 /\ Cardinality(DOMAIN new) = n + 1
        /\ \A v \in 0 .. n - 1 : new[v] = tasks[v]
        /\ \A i \in 0 .. 1 - 1 : new[n + i] = more[i + 1]
    <3> HIDE DEF new
    <3> QED  BY <1>0, <1>2, <1>10, <2>9
  <2> HIDE DEF new
  <2>2. n + 1 - 1 = n /\ 0 \in 0 .. 1 - 1 /\ n + 0 = n /\ 0 + 1 = 1  BY <1>2
  <2>3. new[n + 0] = more[0 + 1]  BY <2>1, <2>2
  <2> QED  BY <2>1, <2>2, <2>3
<1> HIDE DEF new
<1>12. tasks' = new  BY <1>1 DEF new
<1>13. /\ NumTasks' = n + 1 /\ DOMAIN tasks' = 0 .. n
       /\ \A v \in DOMAIN tasks : v \in DOMAIN tasks' /\ tasks'[v] = tasks[v]
       /\ tasks'[n] = [path |-> path, kind |-> "exit"]
       /\ \A v \in DOMAIN tasks' \ DOMAIN tasks : v = n
  <2>1. NumTasks' = Cardinality(DOMAIN tasks')  BY DEF NumTasks
  <2>2. \A v \in 0 .. n : v \in 0 .. n - 1 \/ v = n  BY <1>2
  <2>3. 0 .. n - 1 \subseteq 0 .. n  BY <1>2
  <2> QED  BY <1>2, <1>10, <1>11, <1>12, <2>1, <2>2, <2>3
<1>14. moved \in Seq(CallRecord) /\ Len(moved) = L /\ DOMAIN moved = 1 .. L
       /\ (\A j \in 1 .. L : j # L => moved[j] = calls[j]) /\ moved[L] = [Top EXCEPT !.next = k + 1]
  <2>1. [calls[L] EXCEPT !.next = k + 1] \in CallRecord
    <3>1. calls[L] \in CallRecord  BY <1>4
    <3> QED  BY <1>7, <3>1 DEF CallRecord
  <2>2. calls \in [1 .. L -> CallRecord]  BY <1>0, <1>2, LenProperties
  <2>3. moved = [calls EXCEPT ![L] = [calls[L] EXCEPT !.next = k + 1]]  OBVIOUS
  <2>4. moved \in [1 .. L -> CallRecord]  BY <2>1, <2>2, <2>3
  <2>5. moved \in Seq(CallRecord) /\ Len(moved) = L  BY <1>4, <2>4, FunctionIsSeq
  <2> QED  BY <1>4, <2>4, <2>5
<1> HIDE DEF moved
<1>15. Call(sub, path) \in CallRecord  BY <1>7, <1>9 DEF Call, CallRecord
<1>16. /\ calls' \in Seq(CallRecord) /\ Len(calls') = L + 1 /\ DOMAIN calls' = 1 .. L + 1
       /\ \A j \in 1 .. L : calls'[j] = moved[j]
       /\ calls'[L + 1] = Call(sub, path)
  <2> DEFINE call == Call(sub, path)
             more2 == Append(moved, call)
  <2>1. call \in CallRecord  BY <1>15
  <2> HIDE DEF call
  <2>2. /\ more2 \in Seq(CallRecord) /\ Len(more2) = Len(moved) + 1
        /\ \A j \in 1 .. Len(moved) : more2[j] = moved[j]
        /\ more2[Len(moved) + 1] = call
      BY <1>14, <2>1, AppendProperties
  <2>3. calls' = more2  BY <1>1 DEF call
  <2> HIDE DEF more2
  <2>4. DOMAIN calls' = 1 .. Len(calls')  BY <2>2, <2>3, LenProperties
  <2> QED  BY <1>14, <2>2, <2>3, <2>4 DEF call
<1>17. calls' # <<>>
  <2>1. Len(calls') # 0  BY <1>4, <1>16
  <2> QED  BY <1>16, <2>1, EmptySeq
<1>18. \A j \in 1 .. L : j # L => calls'[j] = calls[j]  BY <1>14, <1>16
<1>19. calls'[L] = [Top EXCEPT !.next = k + 1]  BY <1>4, <1>14, <1>16
<1>20. SubGraph(g, k) = sub  BY DEF sub
<1> QED  BY <1>0, <1>1, <1>3, <1>6, <1>7, <1>8, <1>13, <1>16, <1>17, <1>18, <1>19, <1>20 DEF path

\* Nothing is below the sub-graph that is next.
LEMMA NothingBelow ==
    ASSUME ResolveTypes, CallsOK, Top.offset # -1, NEW k \in Nat, k >= Top.next, NEW v \in DOMAIN tasks
    PROVE  /\ ~Under(tasks[v].path, Append(Top.path, k))
           /\ Front(tasks[v].path) # Append(Top.path, k)
<1>1. /\ Top = calls[Len(calls)] /\ Len(calls) \in DOMAIN calls /\ Top.path \in Seq(Nat)
      /\ Top.next \in Nat
    BY TopCall
<1>2. CallOK(Top, TRUE)  BY <1>1 DEF CallsOK
<1>3. tasks[v].path \in Seq(Nat) /\ tasks[v].path # <<>>  BY DEF ResolveTypes
<1>4. ASSUME Under(tasks[v].path, Append(Top.path, k))  PROVE FALSE
  <2> DEFINE x == tasks[v].path
             p == Top.path
  <2>1. x \in Seq(Nat) /\ p \in Seq(Nat) /\ Under(x, Append(p, k))  BY <1>1, <1>3, <1>4
  <2> HIDE DEF x, p
  <2>2. Under(x, p) /\ Len(x) > Len(p) + 1 /\ x[Len(p) + 1] = k  BY <2>1, UnderPlace
  <2>3. Under(x, p) => (Len(x) > Len(p) + 1 => x[Len(p) + 1] < Top.next)  BY <1>2 DEF CallOK, x, p
  <2> QED  BY <1>1, <2>2, <2>3
<1>5. Under(tasks[v].path, Front(tasks[v].path))  BY <1>3, FrontIsAbove
<1> QED  BY <1>4, <1>5

\* The new call is below the one that makes it, at a task it has then passed.
LEMMA ResolveSubGraphCalls ==
    ASSUME Nested, Resolving, ResolveSubGraph
    PROVE  CallsOK'
<1>0. PICK g, L, n, p : g = Top.graph /\ L = Len(calls) /\ n = NumTasks /\ p = Top.path  OBVIOUS
<1>1. ResolveTypes /\ CallsOK /\ n \in Nat /\ DOMAIN tasks = 0 .. n - 1
    BY <1>0 DEF Resolving, ResolveTypes
<1>2. PICK k \in TaskIds(g), sub \in TaskGraphs :
        /\ Top.offset # -1 /\ k \in Nat /\ k >= Top.next /\ UNCHANGED taskData
        /\ DOMAIN tasks' = 0 .. n
        /\ \A v \in DOMAIN tasks : v \in DOMAIN tasks' /\ tasks'[v] = tasks[v]
        /\ tasks'[n] = [path |-> Append(p, k), kind |-> "exit"]
        /\ \A v \in DOMAIN tasks' \ DOMAIN tasks : v = n
        /\ Len(calls') = L + 1 /\ DOMAIN calls' = 1 .. L + 1
        /\ \A j \in 1 .. L : j # L => calls'[j] = calls[j]
        /\ calls'[L] = [Top EXCEPT !.next = k + 1]
        /\ calls'[L + 1] = Call(sub, Append(p, k))
    BY <1>0, ResolveSubGraphEnters
<1>3. /\ L \in Nat \ {0} /\ DOMAIN calls = 1 .. L /\ Top = calls[L] /\ L \in 1 .. L
      /\ p \in Seq(Nat) /\ Len(p) \in Nat /\ Top.next \in Nat
      /\ \A j \in DOMAIN calls : calls[j] \in CallRecord
    BY <1>0, <1>1, TopCall
<1>4. PICK path : path = Append(p, k)  OBVIOUS
<1>5. path \in Seq(Nat) /\ Len(path) = Len(p) + 1 /\ Under(path, p) /\ path[Len(p) + 1] = k
    BY <1>2, <1>3, <1>4, AppendIsUnder
<1>6. ASSUME NEW v \in DOMAIN tasks' \ DOMAIN tasks  PROVE tasks'[v].path = path
    BY <1>2, <1>4
<1>7. ASSUME NEW j \in 1 .. L, j # L
      PROVE  /\ calls[j].offset # -1
             /\ Under(path, calls[j].path)
             /\ path[Len(calls[j].path) + 1] < calls[j].next
  <2>1. j \in DOMAIN calls /\ j < L  BY <1>3, <1>7
  <2> QED  BY <1>0, <1>1, <1>2, <1>4, <2>1, InTurn
<1>8. ASSUME NEW j \in 1 .. L, j # L  PROVE CallOK(calls[j], j = Len(calls))'
  <2>0. PICK c : c = calls[j]  OBVIOUS
  <2>1. CallOK(c, FALSE)
    <3>1. CallOK(calls[j], j = Len(calls))  BY <1>1, <1>3 DEF CallsOK
    <3>2. (j = Len(calls)) = FALSE  BY <1>0, <1>8
    <3> QED  BY <2>0, <3>1, <3>2
  <2>2. c.offset # -1 /\ path[Len(c.path) + 1] < c.next  BY <1>7, <1>8, <2>0
  <2>3. ASSUME NEW v \in DOMAIN tasks' \ DOMAIN tasks
        PROVE  Len(tasks'[v].path) > Len(c.path) + 1 => tasks'[v].path[Len(c.path) + 1] < c.next
      BY <1>6, <2>2
  <2>4. CallOK(c, FALSE)'
    <3>1. c.offset = -1 => FALSE  BY <2>2
    <3> QED  BY <1>2, <2>1, <2>2, <2>3, <3>1, CallGrows
  <2>5. calls'[j] = c  BY <1>2, <1>8, <2>0
  <2>6. (j = Len(calls')) = FALSE
    <3>1. j # L + 1  BY <1>3
    <3> QED  BY <1>2, <3>1
  <2> QED  BY <2>4, <2>5, <2>6 DEF CallOK
<1>9. CallOK(calls[L], FALSE)'
  <2>0. PICK c, was : c = calls'[L] /\ was = Top  OBVIOUS
  <2>1. /\ c.offset = was.offset /\ c.graph = was.graph /\ c.path = was.path /\ c.next = k + 1
        /\ was \in CallRecord
    <3>1. was \in CallRecord  BY <1>3, <2>0
    <3>2. c = [was EXCEPT !.next = k + 1]  BY <1>2, <2>0
    <3> QED  BY <3>1, <3>2 DEF CallRecord
  <2>2. CallOK(was, TRUE)  BY <1>0, <1>1, <1>3, <2>0 DEF CallsOK
  <2>3. /\ \A i \in TaskIds(was.graph) :
            /\ was.offset + i \in DOMAIN tasks
            /\ tasks[was.offset + i] =
                    [path |-> Append(was.path, i),
                     kind |-> IF SubGraph(was.graph, i) = NoGraph THEN "task" ELSE "entry"]
        /\ \A v \in DOMAIN tasks : Under(tasks[v].path, was.path) =>
            (Len(tasks[v].path) > Len(was.path) + 1 => tasks[v].path[Len(was.path) + 1] < was.next)
        /\ was.offset # -1
      BY <1>2, <2>0, <2>2 DEF CallOK
  <2>4. TaskIds(was.graph)' = TaskIds(was.graph) /\ \A i : SubGraph(was.graph, i)' = SubGraph(was.graph, i)
      BY <1>2, GraphStays
  <2>5. ASSUME NEW i \in TaskIds(was.graph)
        PROVE  /\ was.offset + i \in DOMAIN tasks'
               /\ tasks'[was.offset + i] =
                    [path |-> Append(was.path, i),
                     kind |-> IF SubGraph(was.graph, i)' = NoGraph THEN "task" ELSE "entry"]
    <3>1. was.offset + i \in DOMAIN tasks  BY <2>3
    <3>2. tasks'[was.offset + i] = tasks[was.offset + i] /\ was.offset + i \in DOMAIN tasks'  BY <1>2, <3>1
    <3> QED  BY <2>3, <2>4, <3>2
  <2>6. ASSUME NEW v \in DOMAIN tasks', Under(tasks'[v].path, was.path),
               Len(tasks'[v].path) > Len(was.path) + 1
        PROVE  tasks'[v].path[Len(was.path) + 1] < k + 1
    <3>0. was.path = p /\ was.next \in Nat /\ was.next <= k  BY <1>0, <1>2, <1>3, <2>0
    <3>1. CASE v \in DOMAIN tasks
      <4>1. tasks'[v] = tasks[v]  BY <1>2, <3>1
      <4>2. tasks[v].path[Len(was.path) + 1] < was.next  BY <2>3, <2>6, <3>1, <4>1
      <4>3. tasks[v].path[Len(was.path) + 1] \in Nat
        <5>1. tasks[v].path \in Seq(Nat)  BY <1>1, <3>1 DEF ResolveTypes
        <5>2. Len(tasks[v].path) > Len(p) + 1  BY <2>6, <3>0, <4>1
        <5>3. Len(tasks[v].path) \in Nat  BY <5>1, LenProperties
        <5>4. Len(p) + 1 \in 1 .. Len(tasks[v].path)  BY <1>3, <5>2, <5>3
        <5> QED  BY <3>0, <5>1, <5>4, ElementOfSeq
      <4> QED  BY <1>2, <3>0, <4>1, <4>2, <4>3
    <3>2. CASE v \notin DOMAIN tasks
      <4>1. tasks'[v].path = path  BY <1>6, <3>2
      <4> QED  BY <1>3, <1>5, <2>6, <3>0, <4>1
    <3> QED  BY <3>1, <3>2
  <2>7. CallOK(c, FALSE)'  BY <2>1, <2>3, <2>4, <2>5, <2>6 DEF CallOK
  <2> QED  BY <2>0, <2>7 DEF CallOK
<1>10. CallOK(calls[L + 1], TRUE)'
  <2>0. PICK c : c = calls'[L + 1]  OBVIOUS
  <2>1. c.offset = -1 /\ c.next = 0 /\ c.path = path  BY <1>2, <1>4, <2>0 DEF Call
  <2>2. ASSUME NEW v \in DOMAIN tasks', Under(tasks'[v].path, path)  PROVE FALSE
    <3>1. CASE v \in DOMAIN tasks
      <4>1. ~Under(tasks[v].path, path)  BY <1>0, <1>1, <1>2, <1>4, <3>1, NothingBelow
      <4>2. tasks'[v] = tasks[v]  BY <1>2, <3>1
      <4> QED  BY <2>2, <4>1, <4>2
    <3>2. CASE v \notin DOMAIN tasks
      <4>1. tasks'[v].path = path /\ Len(path) \in Nat  BY <1>3, <1>5, <1>6, <3>2
      <4> QED  BY <2>2, <4>1 DEF Under
    <3> QED  BY <3>1, <3>2
  <2>3. CallOK(c, TRUE)'  BY <2>1, <2>2 DEF CallOK
  <2> QED  BY <2>0, <2>3 DEF CallOK
<1>11. ASSUME NEW j \in DOMAIN calls'  PROVE CallOK(calls[j], j = Len(calls))'
  <2>1. j \in 1 .. L + 1  BY <1>2
  <2>2. CASE j = L + 1
    <3>1. (j = Len(calls')) = TRUE  BY <1>2, <2>2
    <3> QED  BY <1>10, <2>2, <3>1 DEF CallOK
  <2>3. CASE j = L
    <3>1. (j = Len(calls')) = FALSE
      <4>1. L # L + 1  BY <1>3
      <4> QED  BY <1>2, <2>3, <4>1
    <3> QED  BY <1>9, <2>3, <3>1 DEF CallOK
  <2>4. CASE j # L /\ j # L + 1
    <3>1. j \in 1 .. L  BY <1>3, <2>1, <2>4
    <3> QED  BY <1>8, <2>4, <3>1
  <2> QED  BY <2>2, <2>3, <2>4
<1>12. ASSUME NEW i \in DOMAIN calls', NEW j \in DOMAIN calls', i < j  PROVE Made(calls[i], calls[j])'
  <2>1. i \in 1 .. L /\ j \in 1 .. L + 1  BY <1>2, <1>3, <1>12
  <2>2. Top \in CallRecord  BY <1>3
  <2>3. calls'[L].path = p /\ calls'[L].next = k + 1  BY <1>0, <1>2, <2>2 DEF CallRecord
  <2>4. CASE j = L + 1
    <3>1. calls'[j].path = path  BY <1>2, <1>4, <2>4 DEF Call
    <3>2. CASE i = L
      <4>1. k < k + 1  BY <1>2
      <4>2. calls'[i].path = p /\ calls'[i].next = k + 1  BY <2>3, <3>2
      <4> QED  BY <1>5, <3>1, <4>1, <4>2 DEF Made
    <3>3. CASE i # L
      <4>1. calls'[i] = calls[i]  BY <1>2, <2>1, <3>3
      <4>2. Under(path, calls[i].path) /\ path[Len(calls[i].path) + 1] < calls[i].next
          BY <1>7, <2>1, <3>3
      <4> QED  BY <3>1, <4>1, <4>2 DEF Made
    <3> QED  BY <3>2, <3>3
  <2>5. CASE j # L + 1
    <3>1. j \in 1 .. L /\ i # L  BY <1>3, <1>12, <2>1, <2>5
    <3>2. Made(calls[i], calls[j])  BY <1>1, <1>3, <1>12, <2>1, <3>1 DEF CallsOK
    <3>3. calls'[i] = calls[i]  BY <1>2, <2>1, <3>1
    <3>4. calls'[j].path = calls[j].path
      <4>1. CASE j = L  BY <1>0, <1>3, <2>3, <4>1
      <4>2. CASE j # L  BY <1>2, <3>1, <4>2
      <4> QED  BY <4>1, <4>2
    <3> QED  BY <3>2, <3>3, <3>4 DEF Made
  <2> QED  BY <2>4, <2>5
<1> QED  BY <1>11, <1>12 DEF CallsOK

\* The new table waits for the new call, the others wait for nothing.
LEMMA ResolveSubGraphTables ==
    ASSUME Nested, Resolving, ResolveSubGraph
    PROVE  TablesOK' /\ subGraphData' \in Seq(SubGraphRecord)
<1>0. PICK g, L, n, p, off : g = Top.graph /\ L = Len(calls) /\ n = NumTasks /\ p = Top.path
                             /\ off = Top.offset
    OBVIOUS
<1>1. /\ ResolveTypes /\ CallsOK /\ TablesOK /\ n \in Nat /\ DOMAIN tasks = 0 .. n - 1
      /\ subGraphData \in Seq(SubGraphRecord)
    BY <1>0 DEF Resolving, ResolveTypes
<1>2. PICK k \in TaskIds(g), sub \in TaskGraphs :
        /\ off # -1 /\ k \in Nat /\ k >= Top.next
        /\ SubGraph(g, k) = sub /\ sub # NoGraph /\ Len(taskData[sub]) \in Nat \ {0}
        /\ UNCHANGED taskData
        /\ NumTasks' = n + 1 /\ DOMAIN tasks' = 0 .. n
        /\ \A v \in DOMAIN tasks : v \in DOMAIN tasks' /\ tasks'[v] = tasks[v]
        /\ tasks'[n] = [path |-> Append(p, k), kind |-> "exit"]
        /\ \A v \in DOMAIN tasks' \ DOMAIN tasks : v = n
        /\ subGraphData' = Append(subGraphData,
                [entry |-> off + k, exit |-> n, body |-> n + 1 .. n + Len(taskData[sub])])
        /\ calls' # <<>> /\ Len(calls') = L + 1
        /\ calls'[L + 1] = Call(sub, Append(p, k))
    BY <1>0, ResolveSubGraphEnters
<1>3. PICK new, m : /\ m = Len(taskData[sub])
                    /\ new = [entry |-> off + k, exit |-> n, body |-> n + 1 .. n + m]
    OBVIOUS
<1>4. off + k \in DOMAIN tasks /\ tasks[off + k] = [path |-> Append(p, k), kind |-> "entry"]
  <2>1. CallOK(Top, TRUE)
    <3>1. Top = calls[Len(calls)] /\ Len(calls) \in DOMAIN calls  BY <1>1, TopCall
    <3> QED  BY <1>1, <3>1 DEF CallsOK
  <2> QED  BY <1>0, <1>2, <2>1 DEF CallOK
<1>5. off + k \in Nat /\ off + k < n /\ m \in Nat \ {0}  BY <1>1, <1>2, <1>3, <1>4
<1>6. new \in SubGraphRecord /\ new.entry = off + k /\ new.exit = n /\ new.body = n + 1 .. n + m
  <2>1. n + 1 .. n + m \subseteq Nat  BY <1>1, <1>5
  <2> QED  BY <1>1, <1>3, <1>5, <2>1 DEF SubGraphRecord
<1>7. /\ subGraphData' \in Seq(SubGraphRecord)
      /\ \A i \in DOMAIN subGraphData' :
            (i \in DOMAIN subGraphData /\ subGraphData'[i] = subGraphData[i]) \/ subGraphData'[i] = new
  <2>1. subGraphData' = Append(subGraphData, new)  BY <1>2, <1>3
  <2>2. /\ Append(subGraphData, new) \in Seq(SubGraphRecord)
        /\ DOMAIN Append(subGraphData, new) = 1 .. Len(subGraphData) + 1
        /\ \A i \in DOMAIN subGraphData : Append(subGraphData, new)[i] = subGraphData[i]
        /\ Append(subGraphData, new)[Len(subGraphData) + 1] = new
      BY <1>1, <1>6, AppendProperties, LastOfAppend
  <2>3. Len(subGraphData) \in Nat /\ DOMAIN subGraphData = 1 .. Len(subGraphData)
      BY <1>1, LenProperties
  <2>4. \A i \in 1 .. Len(subGraphData) + 1 : i \in DOMAIN subGraphData \/ i = Len(subGraphData) + 1
      BY <2>3
  <2> QED  BY <2>1, <2>2, <2>4
<1>8. ASSUME NEW s, TableOK(s)  PROVE TableOK(s)'
  <2>1. /\ s.entry \in DOMAIN tasks /\ s.exit \in DOMAIN tasks /\ s.entry < s.exit
        /\ tasks[s.entry].kind = "entry" /\ tasks[s.exit].kind = "exit"
        /\ \A v \in DOMAIN tasks :
            v \in s.body <=> tasks[v].kind # "exit" /\ Front(tasks[v].path) = tasks[s.entry].path
      BY <1>8 DEF TableOK
  <2>2. PICK mm \in Nat \ {0} : s.body = s.exit + 1 .. s.exit + mm /\ s.exit + mm < n
      BY <1>0, <1>2, <1>8 DEF TableOK
  <2>3. s.exit \in Nat  BY <1>1, <2>1
  <2>4. /\ s.entry \in DOMAIN tasks' /\ s.exit \in DOMAIN tasks'
        /\ tasks'[s.entry] = tasks[s.entry] /\ tasks'[s.exit] = tasks[s.exit]
      BY <1>2, <2>1
  <2>5. n \notin s.body /\ s.exit + mm < n + 1  BY <1>1, <2>2, <2>3
  <2>6. ASSUME NEW v \in DOMAIN tasks'
        PROVE  v \in s.body <=> tasks'[v].kind # "exit" /\ Front(tasks'[v].path) = tasks'[s.entry].path
    <3>1. CASE v \in DOMAIN tasks
      <4>1. tasks'[v] = tasks[v]  BY <1>2, <3>1
      <4> QED  BY <2>1, <2>4, <3>1, <4>1
    <3>2. CASE v \notin DOMAIN tasks
      <4>1. v = n  BY <1>2, <3>2
      <4> QED  BY <1>2, <2>5, <4>1
    <3> QED  BY <3>1, <3>2
  <2>7. s.exit + mm < NumTasks'  BY <1>2, <2>5
  <2> QED  BY <2>1, <2>2, <2>4, <2>6, <2>7 DEF TableOK
<1>9. TableOK(new)'
  <2>1. /\ off + k \in DOMAIN tasks' /\ n \in DOMAIN tasks'
        /\ tasks'[off + k] = [path |-> Append(p, k), kind |-> "entry"]
    <3>1. n \in 0 .. n  BY <1>1
    <3> QED  BY <1>2, <1>4, <3>1
  <2>2. ASSUME NEW v \in DOMAIN tasks'
        PROVE  v \in new.body <=> tasks'[v].kind # "exit" /\ Front(tasks'[v].path) = tasks'[new.entry].path
    <3>1. v \notin new.body  BY <1>1, <1>2, <1>5, <1>6
    <3>2. CASE v \in DOMAIN tasks
      <4>1. tasks'[v] = tasks[v]  BY <1>2, <3>2
      <4>2. Front(tasks[v].path) # Append(p, k)  BY <1>0, <1>1, <1>2, <3>2, NothingBelow
      <4> QED  BY <1>6, <2>1, <3>1, <4>1, <4>2
    <3>3. CASE v \notin DOMAIN tasks
      <4>1. v = n  BY <1>2, <3>3
      <4> QED  BY <1>2, <3>1, <4>1
    <3> QED  BY <3>2, <3>3
  <2>3. Top' = Call(sub, Append(p, k))  BY <1>2 DEF Top, Last
  <2>4. Top'.offset = -1 /\ Top'.path = Append(p, k) /\ Top'.graph = sub  BY <2>3 DEF Call
  <2>5. n = NumTasks' - 1  BY <1>1, <1>2
  <2>6. m = Len(taskData'[Top'.graph])  BY <1>2, <1>3, <2>4
  <2>7. /\ new.body = new.exit + 1 .. new.exit + m
        /\ Top'.offset = -1 /\ Top'.path = tasks'[new.entry].path /\ new.exit = NumTasks' - 1
      BY <1>6, <2>1, <2>4, <2>5
  <2>8. tasks'[new.entry].kind = "entry" /\ tasks'[new.exit].kind = "exit"  BY <1>2, <1>6, <2>1
  <2> QED  BY <1>5, <1>6, <2>1, <2>2, <2>6, <2>7, <2>8 DEF TableOK
<1> QED  BY <1>1, <1>7, <1>8, <1>9 DEF TablesOK

\* What is left to a call is split into the exit, the sub-graph and the rest.
LEMMA ResolveSubGraphSizes ==
    ASSUME Nested, Resolving, ResolveSubGraph
    PROVE  SizesFit'
<1>0. PICK g, L, n, p : g = Top.graph /\ L = Len(calls) /\ n = NumTasks /\ p = Top.path  OBVIOUS
<1>1. ResolveTypes /\ SizesFit /\ n \in Nat  BY <1>0 DEF Resolving, ResolveTypes
<1>2. PICK k \in TaskIds(g), sub \in TaskGraphs :
        /\ Top.offset # -1 /\ k \in Nat /\ k >= Top.next
        /\ SubGraph(g, k) = sub /\ sub # NoGraph
        /\ \A j \in TaskIds(g) : j >= Top.next /\ SubGraph(g, j) # NoGraph => k <= j
        /\ UNCHANGED <<taskData, Vertices>>
        /\ NumTasks' = n + 1
        /\ Len(calls') = L + 1 /\ DOMAIN calls' = 1 .. L + 1
        /\ \A j \in 1 .. L : j # L => calls'[j] = calls[j]
        /\ calls'[L] = [Top EXCEPT !.next = k + 1]
        /\ calls'[L + 1] = Call(sub, Append(p, k))
    BY <1>0, ResolveSubGraphEnters
<1>3. /\ L \in Nat \ {0} /\ DOMAIN calls = 1 .. L /\ Top = calls[L] /\ L \in 1 .. L
      /\ g \in TaskGraphs /\ Top \in CallRecord /\ Top.next \in Nat
    BY <1>0, <1>1, TopCall
<1>4. calls'[L].offset # -1 /\ calls'[L].graph = g /\ calls'[L].next = k + 1
      /\ calls'[L + 1].offset = -1 /\ calls'[L + 1].graph = sub
    BY <1>0, <1>2, <1>3 DEF CallRecord, Call
<1>5. PICK size \in [TaskGraphs -> Nat], ends \in [DOMAIN calls -> Nat] :
        /\ Sized(size, TaskGraphs)
        /\ Vertices = 0 .. ends[1] - 1
        /\ \A j \in DOMAIN calls :
            ends[j] = Left(size, calls[j]) + (IF j = L THEN n ELSE ends[j + 1])
    BY <1>0, <1>1 DEF SizesFit
<1>6. Sized(size, TaskGraphs)' /\ \A c : Left(size, c)' = Left(size, c)  BY <1>2, <1>5, GraphStays
<1>7. size[sub] \in Nat  BY <1>5
<1>8. PICK now : now = [j \in 1 .. L + 1 |-> IF j = L + 1 THEN size[sub] + (n + 1) ELSE ends[j]]  OBVIOUS
<1>9. /\ now[L + 1] = size[sub] + (n + 1)
      /\ \A j \in 1 .. L : now[j] = ends[j] /\ j \in 1 .. L + 1 /\ j # L + 1
  <2>1. L + 1 \in 1 .. L + 1 /\ \A j \in 1 .. L : j \in 1 .. L + 1 /\ j # L + 1  BY <1>3
  <2> QED  BY <1>8, <2>1
<1>10. now \in [DOMAIN calls' -> Nat]
  <2>1. \A j \in 1 .. L : ends[j] \in Nat  BY <1>3, <1>5
  <2>2. \A j \in 1 .. L + 1 : j # L + 1 => j \in 1 .. L  BY <1>3
  <2>3. size[sub] + (n + 1) \in Nat  BY <1>1, <1>7
  <2> QED  BY <1>2, <1>8, <2>1, <2>2, <2>3
<1>11. Vertices' = 0 .. now[1] - 1
  <2>1. 1 \in 1 .. L  BY <1>3
  <2> QED  BY <1>2, <1>5, <1>9, <2>1
<1>12. ASSUME NEW j \in 1 .. L, j # L
       PROVE  now[j] = (Left(size, calls[j]))' + now[j + 1]
  <2>1. j + 1 \in 1 .. L  BY <1>3, <1>12
  <2>2. ends[j] = Left(size, calls[j]) + ends[j + 1]  BY <1>3, <1>5, <1>12
  <2>3. (Left(size, calls[j]))' = Left(size, calls[j])
    <3>1. PICK c : c = calls[j]  OBVIOUS
    <3>2. Left(size, c)' = Left(size, c)  BY <1>6
    <3> QED  BY <1>2, <1>12, <3>1, <3>2 DEF Left
  <2> QED  BY <1>9, <2>1, <2>2, <2>3
<1>13. now[L] = (Left(size, calls[L]))' + now[L + 1]
  <2> DEFINE before == SumOver(LeftParts(size, g, Top.next), TaskIds(g))
             after == SumOver(LeftParts(size, g, k + 1), TaskIds(g))
  <2>1. ends[L] = before + n
    <3>1. Left(size, calls[L]) = before  BY <1>0, <1>2, <1>3 DEF Left
    <3> QED  BY <1>3, <1>5, <3>1
  <2>2. before = 1 + size[sub] + after
    <3> DEFINE next == Top.next
    <3>1. /\ next \in Nat /\ k >= next /\ SubGraph(g, k) # NoGraph /\ SubGraph(g, k) = sub
          /\ \A j \in TaskIds(g) : j >= next /\ SubGraph(g, j) # NoGraph => k <= j
        BY <1>2, <1>3
    <3> HIDE DEF next
    <3>2. SumOver(LeftParts(size, g, next), TaskIds(g))
          = 1 + size[SubGraph(g, k)] + SumOver(LeftParts(size, g, k + 1), TaskIds(g))
        BY <1>3, <1>5, <3>1, LeftAfterNext
    <3> QED  BY <3>1, <3>2 DEF next
  <2>3. after \in Int  BY <1>3, <1>5, LeftPartsTyped
  <2>4. (Left(size, calls[L]))' = after
    <3>1. PICK c : c = calls'[L]  OBVIOUS
    <3>2. c.offset # -1 /\ c.graph = g /\ c.next = k + 1  BY <1>4, <3>1
    <3>3. Left(size, c) = after  BY <3>2 DEF Left
    <3>4. Left(size, c)' = after
      <4> HIDE DEF after
      <4> QED  BY <1>6, <3>3
    <3> QED  BY <3>1, <3>4 DEF Left
  <2>5. before + n = after + (size[sub] + (n + 1))
    <3> HIDE DEF before, after
    <3> QED  BY <1>1, <1>7, <2>2, <2>3
  <2> HIDE DEF before, after
  <2>6. now[L] = ends[L]  BY <1>3, <1>9
  <2> QED  BY <1>9, <2>1, <2>4, <2>5, <2>6
<1>14. now[L + 1] = (Left(size, calls[L + 1]))' + NumTasks'
  <2>1. PICK c : c = calls'[L + 1]  OBVIOUS
  <2>2. Left(size, c) = size[sub]  BY <1>4, <2>1 DEF Left
  <2>3. Left(size, c)' = size[sub]  BY <1>6, <2>2
  <2>4. (Left(size, calls[L + 1]))' = size[sub]  BY <2>1, <2>3 DEF Left
  <2> QED  BY <1>2, <1>9, <2>4
<1>15. ASSUME NEW j \in DOMAIN calls'
       PROVE  now[j] = (Left(size, calls[j]))' + (IF j = Len(calls') THEN NumTasks' ELSE now[j + 1])
  <2>1. CASE j = L + 1  BY <1>2, <1>14, <2>1
  <2>2. CASE j = L
    <3>1. j # Len(calls')  BY <1>2, <1>3, <2>2
    <3> QED  BY <1>13, <2>2, <3>1
  <2>3. CASE j # L + 1 /\ j # L
    <3>1. j \in 1 .. L /\ j # Len(calls')  BY <1>2, <1>3, <2>3
    <3> QED  BY <1>12, <2>3, <3>1
  <2> QED  BY <2>1, <2>2, <2>3
<1> QED  BY <1>6, <1>10, <1>11, <1>15 DEF SizesFit

LEMMA ResolveSubGraphResolves ==
    ASSUME Nested, Resolving, ResolveSubGraph
    PROVE  Resolving'
<1>1. CallsOK' /\ TablesOK' /\ SizesFit' /\ subGraphData' \in Seq(SubGraphRecord)
    BY ResolveSubGraphCalls, ResolveSubGraphTables, ResolveSubGraphSizes
<1>2. PICK n, p : n = NumTasks /\ p = Top.path  OBVIOUS
<1>3. PICK k \in Nat :
        /\ UNCHANGED taskData
        /\ NumTasks' = n + 1 /\ DOMAIN tasks' = 0 .. n
        /\ \A v \in DOMAIN tasks : v \in DOMAIN tasks' /\ tasks'[v] = tasks[v]
        /\ tasks'[n] = [path |-> Append(p, k), kind |-> "exit"]
        /\ \A v \in DOMAIN tasks' \ DOMAIN tasks : v = n
        /\ calls' \in Seq(CallRecord) /\ calls' # <<>>
    BY <1>2, ResolveSubGraphEnters
<1>4. /\ ResolveTypes /\ n \in Nat
      /\ \A v \in DOMAIN tasks : tasks[v].path \in Seq(Nat) /\ tasks[v].path # <<>>
    BY <1>2 DEF Resolving, ResolveTypes
<1>5. p \in Seq(Nat)  BY <1>2, <1>4, TopCall
<1>6. ASSUME NEW v \in DOMAIN tasks'  PROVE tasks'[v].path \in Seq(Nat) /\ tasks'[v].path # <<>>
  <2>1. CASE v \in DOMAIN tasks
    <3>1. tasks'[v] = tasks[v]  BY <1>3, <2>1
    <3> QED  BY <1>4, <2>1, <3>1
  <2>2. CASE v \notin DOMAIN tasks
    <3>1. tasks'[v].path = Append(p, k)  BY <1>3, <2>2
    <3>2. Append(p, k) \in Seq(Nat) /\ Append(p, k) # <<>>  BY <1>5, AppendIsUnder
    <3> QED  BY <3>1, <3>2
  <2> QED  BY <2>1, <2>2
<1>7. NumTasks' \in Nat /\ DOMAIN tasks' = 0 .. NumTasks' - 1
  <2>1. NumTasks' \in Nat /\ NumTasks' - 1 = n  BY <1>3, <1>4
  <2> QED  BY <1>3, <2>1
<1>8. ResolveTypes'  BY <1>1, <1>3, <1>6, <1>7 DEF ResolveTypes
<1>9. NoneWithoutTasks'  BY <1>3, GraphStays DEF Resolving
<1> QED  BY <1>1, <1>8, <1>9 DEF Resolving

\* A call that returns has nothing left, and no table waits for it.
LEMMA ReturnedHasDone ==
    ASSUME Nested, Resolving, ReturnFromGraph
    PROVE  /\ Top.offset # -1 /\ calls' = Front(calls)
           /\ UNCHANGED <<taskData, tasks, taskGraph, subGraphData>>
           /\ \A size : Left(size, Top) = 0
           /\ \A i \in DOMAIN subGraphData :
                LET sub == subGraphData[i]
                IN  /\ TableOK(sub)
                    /\ \E m \in Nat \ {0} : sub.body = sub.exit + 1 .. sub.exit + m
                                            /\ sub.exit + m < NumTasks
<1>1. /\ Top.offset # -1 /\ SubGraphsLeft = {} /\ calls' = Front(calls)
      /\ UNCHANGED <<taskData, tasks, taskGraph, subGraphData>>
    BY DEF ReturnFromGraph, userVars
<1>2. ResolveTypes /\ TablesOK  BY DEF Resolving
<1>3. Top.graph \in TaskGraphs
  <2>1. Top = calls[Len(calls)] /\ Len(calls) \in DOMAIN calls  BY <1>2, TopCall
  <2> QED  BY <1>2, <2>1, TopCall
<1>4. ASSUME NEW size  PROVE Left(size, Top) = 0
  <2>0. PICK g, next : g = Top.graph /\ next = Top.next  OBVIOUS
  <2>1. \A k \in TaskIds(g) : ~(k >= next /\ SubGraph(g, k) # NoGraph)
      BY <1>1, <2>0 DEF SubGraphsLeft
  <2>2. SumOver(LeftParts(size, g, next), TaskIds(g)) = 0  BY <1>3, <2>0, <2>1, NothingLeft
  <2> QED  BY <1>1, <2>0, <2>2 DEF Left
<1>5. \A i \in DOMAIN subGraphData :
        LET sub == subGraphData[i]
        IN  /\ TableOK(sub)
            /\ \E m \in Nat \ {0} : sub.body = sub.exit + 1 .. sub.exit + m /\ sub.exit + m < NumTasks
    BY <1>1, <1>2 DEF TablesOK, TableOK
<1> QED  BY <1>1, <1>4, <1>5

\* When the first call returns, the reserved size is used up and all tables are filled.
LEMMA LastReturnResolves ==
    ASSUME Nested, Resolving, ReturnFromGraph, Len(calls) = 1
    PROVE  SubGraphsResolved'
<1>0. PICK n : n = NumTasks  OBVIOUS
<1>1. /\ UNCHANGED <<tasks, taskGraph, subGraphData>>
      /\ \A size : Left(size, Top) = 0
      /\ \A i \in DOMAIN subGraphData :
            LET sub == subGraphData[i]
            IN  /\ TableOK(sub)
                /\ \E m \in Nat \ {0} : sub.body = sub.exit + 1 .. sub.exit + m
                                        /\ sub.exit + m < n
    BY <1>0, ReturnedHasDone
<1>2. ResolveTypes /\ SizesFit /\ n \in Nat /\ DOMAIN tasks = 0 .. n - 1
    BY <1>0 DEF Resolving, ResolveTypes
<1>3. DOMAIN calls = 1 .. 1 /\ Top = calls[1] /\ 1 \in DOMAIN calls  BY <1>2, TopCall
<1>4. Vertices = DOMAIN tasks
  <2>1. PICK size \in [TaskGraphs -> Nat], ends \in [DOMAIN calls -> Nat] :
        /\ Vertices = 0 .. ends[1] - 1
        /\ ends[1] = Left(size, calls[1]) + n
      BY <1>0, <1>2, <1>3 DEF SizesFit
  <2>2. ends[1] = n  BY <1>1, <1>2, <1>3, <2>1
  <2> QED  BY <1>2, <2>1, <2>2
<1>5. ASSUME NEW i \in DOMAIN subGraphData, NEW sub, sub = subGraphData[i]
      PROVE  /\ tasks[sub.entry].kind = "entry" /\ tasks[sub.exit].kind = "exit"
             /\ sub.body # {}
             /\ sub.body = {v \in Vertices : /\ tasks[v].kind # "exit"
                                             /\ Front(tasks[v].path) = tasks[sub.entry].path
                                             /\ v \in sub.entry .. n}
  <2>1. /\ sub.entry \in DOMAIN tasks /\ sub.exit \in DOMAIN tasks /\ sub.entry < sub.exit
        /\ tasks[sub.entry].kind = "entry" /\ tasks[sub.exit].kind = "exit"
        /\ \A v \in DOMAIN tasks :
            v \in sub.body <=> tasks[v].kind # "exit" /\ Front(tasks[v].path) = tasks[sub.entry].path
      BY <1>1, <1>5 DEF TableOK
  <2>2. PICK m \in Nat \ {0} : sub.body = sub.exit + 1 .. sub.exit + m /\ sub.exit + m < n
      BY <1>1, <1>5
  <2>3. sub.entry \in Nat /\ sub.exit \in Nat  BY <1>2, <2>1
  <2>4. sub.exit + 1 \in sub.body  BY <2>2, <2>3
  <2>5. \A v \in sub.body : v \in DOMAIN tasks /\ v \in sub.entry .. n  BY <1>2, <2>1, <2>2, <2>3
  <2> QED  BY <1>4, <2>1, <2>4, <2>5
<1>6. DOMAIN tasks' = Vertices' /\ Vertices' = Vertices /\ NumTasks' = n
    BY <1>0, <1>1, <1>4 DEF Vertices, NumTasks
<1>7. ASSUME NEW i \in DOMAIN subGraphData'
      PROVE  LET sub == subGraphData'[i]
             IN  /\ tasks'[sub.entry].kind = "entry" /\ tasks'[sub.exit].kind = "exit"
                 /\ sub.body # {}
                 /\ sub.body = {v \in Vertices' : /\ tasks'[v].kind # "exit"
                                                  /\ Front(tasks'[v].path) = tasks'[sub.entry].path
                                                  /\ v \in sub.entry .. NumTasks'}
  <2>1. PICK sub : sub = subGraphData[i]  OBVIOUS
  <2> QED  BY <1>1, <1>5, <1>6, <2>1
<1> QED  BY <1>6, <1>7 DEF SubGraphsResolved

\* The calls below the last one.
LEMMA CallsBelow ==
    ASSUME ResolveTypes, Len(calls) # 1, calls' = Front(calls)
    PROVE  \E l \in Nat \ {0} :
            /\ Len(calls) = l + 1
            /\ calls' \in Seq(CallRecord) /\ Len(calls') = l /\ DOMAIN calls' = 1 .. l /\ calls' # <<>>
            /\ \A j \in 1 .. l : calls'[j] = calls[j] /\ j \in DOMAIN calls /\ j < Len(calls)
<1>1. Len(calls) \in Nat \ {0, 1} /\ DOMAIN calls = 1 .. Len(calls)  BY TopCall
<1>2. PICK L : L = Len(calls)  OBVIOUS
<1>3. calls \in Seq(CallRecord) /\ DOMAIN calls = 1 .. L  BY <1>1, <1>2 DEF ResolveTypes
<1>4. PICK l \in Nat \ {0} : L = l + 1
  <2>1. L - 1 \in Nat \ {0} /\ L = (L - 1) + 1  BY <1>1, <1>2
  <2> QED  BY <2>1
<1>5. /\ calls' \in Seq(CallRecord) /\ Len(calls') = l /\ DOMAIN calls' = 1 .. l /\ calls' # <<>>
      /\ \A j \in 1 .. l : calls'[j] = calls[j] /\ j \in DOMAIN calls /\ j < L
  <2> DEFINE cut == SubSeq(calls, 1, l)
  <2>1. \A j \in 1 .. l : calls[j] \in CallRecord
    <3>1. \A j \in 1 .. l : j \in 1 .. Len(calls)  BY <1>2, <1>4
    <3> QED  BY <1>3, <3>1, ElementOfSeq
  <2>2. 1 \in Int /\ l \in Int  OBVIOUS
  <2>3. /\ cut \in Seq(CallRecord) /\ Len(cut) = IF 1 <= l THEN l - 1 + 1 ELSE 0
        /\ \A j \in 1 .. l - 1 + 1 : cut[j] = calls[1 + j - 1]
      BY <2>1, <2>2, SubSeqProperties
  <2>4. calls' = cut
    <3>1. Len(calls) - 1 = l  BY <1>2, <1>4
    <3> QED  BY <3>1 DEF Front
  <2> HIDE DEF cut
  <2>5. 1 <= l /\ l - 1 + 1 = l /\ \A j \in 1 .. l : 1 + j - 1 = j  OBVIOUS
  <2>6. Len(cut) = l /\ \A j \in 1 .. l : cut[j] = calls[j]  BY <2>3, <2>5
  <2>7. calls' # <<>>
    <3>1. Len(calls') # 0  BY <2>4, <2>6
    <3> QED  BY <2>3, <2>4, <3>1, EmptySeq
  <2>8. \A j \in 1 .. l : j \in 1 .. L /\ j < L  BY <1>4
  <2> QED  BY <1>3, <2>3, <2>4, <2>6, <2>7, <2>8, LenProperties
<1> QED  BY <1>2, <1>4, <1>5

\* When another one returns, the call below it goes on.
LEMMA ReturnResolves ==
    ASSUME Nested, Resolving, ReturnFromGraph, Len(calls) # 1
    PROVE  Resolving'
<1>0. PICK n, L : n = NumTasks /\ L = Len(calls)  OBVIOUS
<1>1. /\ Top.offset # -1 /\ calls' = Front(calls)
      /\ UNCHANGED <<taskData, tasks, taskGraph, subGraphData>>
      /\ \A size : Left(size, Top) = 0
      /\ \A i \in DOMAIN subGraphData :
            LET sub == subGraphData[i]
            IN  /\ TableOK(sub)
                /\ \E m \in Nat \ {0} : sub.body = sub.exit + 1 .. sub.exit + m
                                        /\ sub.exit + m < n
    BY <1>0, ReturnedHasDone
<1>2. /\ ResolveTypes /\ CallsOK /\ SizesFit /\ NoneWithoutTasks /\ n \in Nat
      /\ calls \in Seq(CallRecord) /\ calls # <<>>
    BY <1>0 DEF Resolving, ResolveTypes
<1>3. L \in Nat \ {0, 1} /\ DOMAIN calls = 1 .. L /\ Top = calls[L]
    BY <1>0, <1>2, TopCall
<1>4. PICK l \in Nat \ {0} :
        /\ L = l + 1
        /\ calls' \in Seq(CallRecord) /\ Len(calls') = l /\ DOMAIN calls' = 1 .. l /\ calls' # <<>>
        /\ \A j \in 1 .. l : calls'[j] = calls[j] /\ j \in DOMAIN calls /\ j < L
    BY <1>0, <1>1, <1>2, CallsBelow
<1>5. NumTasks' = n /\ Vertices' = Vertices  BY <1>0, <1>1 DEF NumTasks, Vertices
<1>6. ResolveTypes'  BY <1>0, <1>1, <1>2, <1>4, <1>5 DEF ResolveTypes
<1>7. CallsOK'
  <2>1. ASSUME NEW j \in DOMAIN calls'  PROVE CallOK(calls[j], j = Len(calls))'
    <3>0. PICK c, last : c = calls[j] /\ last = (j = l)  OBVIOUS
    <3>1. CallOK(c, FALSE)
      <4>1. CallOK(calls[j], j = Len(calls))  BY <1>2, <1>4 DEF CallsOK
      <4>2. (j = Len(calls)) = FALSE  BY <1>0, <1>3, <1>4
      <4> QED  BY <3>0, <4>1, <4>2
    <3>2. c.offset = -1 => last  BY <3>1 DEF CallOK
    <3>3. \A v \in DOMAIN tasks' \ DOMAIN tasks : FALSE  BY <1>1
    <3>4. \A v \in DOMAIN tasks : v \in DOMAIN tasks' /\ tasks'[v] = tasks[v]  BY <1>1
    <3>5. CallOK(c, last)'  BY <1>1, <3>1, <3>2, <3>3, <3>4, CallGrows
    <3>6. calls'[j] = c /\ (j = Len(calls')) = last  BY <1>4, <3>0
    <3> QED  BY <3>5, <3>6 DEF CallOK
  <2>2. ASSUME NEW i \in DOMAIN calls', NEW j \in DOMAIN calls', i < j  PROVE Made(calls[i], calls[j])'
    <3>1. Made(calls[i], calls[j])  BY <1>2, <1>4, <2>2 DEF CallsOK
    <3>2. calls'[i] = calls[i] /\ calls'[j] = calls[j]  BY <1>4
    <3> QED  BY <3>1, <3>2 DEF Made
  <2> QED  BY <2>1, <2>2 DEF CallsOK
<1>8. TablesOK'
  <2>1. ASSUME NEW i \in DOMAIN subGraphData  PROVE TableOK(subGraphData[i])'
    <3>1. PICK s : s = subGraphData[i]  OBVIOUS
    <3>2. TableOK(s)  BY <1>1, <3>1
    <3>3. PICK m \in Nat \ {0} : s.body = s.exit + 1 .. s.exit + m /\ s.exit + m < n  BY <1>1, <3>1
    <3>4. /\ s.entry \in DOMAIN tasks' /\ s.exit \in DOMAIN tasks' /\ s.entry < s.exit
          /\ tasks'[s.entry].kind = "entry" /\ tasks'[s.exit].kind = "exit"
          /\ \A v \in DOMAIN tasks' :
              v \in s.body <=> tasks'[v].kind # "exit" /\ Front(tasks'[v].path) = tasks'[s.entry].path
        BY <1>1, <3>2 DEF TableOK
    <3>5. TableOK(s)'  BY <1>5, <3>3, <3>4 DEF TableOK
    <3>6. subGraphData'[i] = s  BY <1>1, <3>1
    <3> QED  BY <3>5, <3>6 DEF TableOK
  <2> QED  BY <1>1, <2>1 DEF TablesOK
<1>9. SizesFit'
  <2>1. PICK size \in [TaskGraphs -> Nat], ends \in [DOMAIN calls -> Nat] :
        /\ Sized(size, TaskGraphs)
        /\ Vertices = 0 .. ends[1] - 1
        /\ \A j \in DOMAIN calls :
            ends[j] = Left(size, calls[j]) + (IF j = L THEN n ELSE ends[j + 1])
      BY <1>0, <1>2 DEF SizesFit
  <2>2. Sized(size, TaskGraphs)' /\ \A c : Left(size, c)' = Left(size, c)  BY <1>1, <2>1, GraphStays
  <2>3. ends[l + 1] = n
    <3>1. L \in DOMAIN calls  BY <1>3
    <3>2. ends[L] = Left(size, calls[L]) + n  BY <2>1, <3>1
    <3> QED  BY <1>1, <1>2, <1>3, <1>4, <3>2
  <2>4. PICK now : now = [j \in 1 .. l |-> ends[j]]  OBVIOUS
  <2>5. now \in [DOMAIN calls' -> Nat]  BY <1>4, <2>1, <2>4
  <2>6. Vertices' = 0 .. now[1] - 1
    <3>1. 1 \in 1 .. l  OBVIOUS
    <3> QED  BY <1>5, <2>1, <2>4, <3>1
  <2>7. ASSUME NEW j \in DOMAIN calls'
        PROVE  now[j] = (Left(size, calls[j]))' + (IF j = Len(calls') THEN NumTasks' ELSE now[j + 1])
    <3>1. j \in 1 .. l /\ j # L /\ j \in DOMAIN calls  BY <1>4
    <3>2. now[j] = Left(size, calls[j]) + ends[j + 1]  BY <2>1, <2>4, <3>1
    <3>3. (Left(size, calls[j]))' = Left(size, calls[j])
      <4>1. PICK c : c = calls[j]  OBVIOUS
      <4>2. Left(size, c)' = Left(size, c)  BY <2>2
      <4> QED  BY <1>4, <3>1, <4>1, <4>2 DEF Left
    <3>4. CASE j = l
      <4>1. ends[j + 1] = NumTasks' /\ j = Len(calls')  BY <1>4, <1>5, <2>3, <3>4
      <4> QED  BY <3>2, <3>3, <4>1
    <3>5. CASE j # l
      <4>1. j + 1 \in 1 .. l  BY <3>1, <3>5
      <4>2. ends[j + 1] = now[j + 1] /\ j # Len(calls')  BY <1>4, <2>4, <3>5, <4>1
      <4> QED  BY <3>2, <3>3, <4>2
    <3> QED  BY <3>4, <3>5
  <2> QED  BY <2>2, <2>5, <2>6, <2>7 DEF SizesFit
<1>10. NoneWithoutTasks'  BY <1>1, <1>2, GraphStays
<1> QED  BY <1>6, <1>7, <1>8, <1>9, <1>10 DEF Resolving
\* Before the resolution there is nothing, after it all is as it has to be.
ResolveInv ==
    /\ phase = "user" => tasks = <<>> /\ subGraphData = <<>>
    /\ phase = "resolve" => Resolving
    /\ SubGraphsResolved

LEMMA StutterResolves ==
    ASSUME Resolving, UNCHANGED <<taskData, tasks, taskGraph, subGraphData, calls>>
    PROVE  Resolving'
<1>1. NumTasks' = NumTasks /\ Vertices' = Vertices /\ Top' = Top  BY DEF NumTasks, Vertices, Top
<1>2. ResolveTypes /\ CallsOK /\ TablesOK /\ SizesFit /\ NoneWithoutTasks  BY DEF Resolving
<1>3. ResolveTypes'  BY <1>1, <1>2 DEF ResolveTypes
<1>4. CallsOK'
  <2>1. ASSUME NEW j \in DOMAIN calls  PROVE CallOK(calls[j], j = Len(calls))'
    <3>0. PICK c, last : c = calls[j] /\ last = (j = Len(calls))  OBVIOUS
    <3>1. CallOK(c, last)  BY <1>2, <3>0 DEF CallsOK
    <3>2. c.offset = -1 => last  BY <3>1 DEF CallOK
    <3>3. \A v \in DOMAIN tasks' \ DOMAIN tasks : FALSE  OBVIOUS
    <3>4. \A v \in DOMAIN tasks : v \in DOMAIN tasks' /\ tasks'[v] = tasks[v]  OBVIOUS
    <3>5. CallOK(c, last)'  BY <3>1, <3>2, <3>3, <3>4, CallGrows
    <3>6. calls'[j] = c /\ (j = Len(calls')) = last  BY <3>0
    <3> QED  BY <3>5, <3>6 DEF CallOK
  <2>2. \A i, j \in DOMAIN calls : i < j => Made(calls[i], calls[j])'  BY <1>2 DEF CallsOK, Made
  <2> QED  BY <2>1, <2>2 DEF CallsOK
<1>5. TablesOK'
  <2>1. Len(taskData'[Top'.graph]) = Len(taskData[Top.graph])  BY <1>1
  <2> QED  BY <1>1, <1>2, <2>1 DEF TablesOK, TableOK
<1>6. SizesFit'
  <2>0. PICK n : n = NumTasks  OBVIOUS
  <2>1. PICK size \in [TaskGraphs -> Nat], ends \in [DOMAIN calls -> Nat] :
        /\ Sized(size, TaskGraphs)
        /\ Vertices = 0 .. ends[1] - 1
        /\ \A j \in DOMAIN calls :
            ends[j] = Left(size, calls[j]) + (IF j = Len(calls) THEN n ELSE ends[j + 1])
      BY <1>2, <2>0 DEF SizesFit
  <2>2. Sized(size, TaskGraphs)' /\ \A c : Left(size, c)' = Left(size, c)  BY <2>1, GraphStays
  <2>3. ASSUME NEW j \in DOMAIN calls'
        PROVE  ends[j] = (Left(size, calls[j]))' + (IF j = Len(calls') THEN NumTasks' ELSE ends[j + 1])
    <3>1. (Left(size, calls[j]))' = Left(size, calls[j])
      <4>1. PICK c : c = calls[j]  OBVIOUS
      <4>2. Left(size, c)' = Left(size, c)  BY <2>2
      <4> QED  BY <4>1, <4>2 DEF Left
    <3> QED  BY <1>1, <2>0, <2>1, <3>1
  <2> QED  BY <1>1, <2>1, <2>2, <2>3 DEF SizesFit
<1>7. NoneWithoutTasks'  BY <1>2, GraphStays
<1> QED  BY <1>3, <1>4, <1>5, <1>6, <1>7 DEF Resolving

\* The prebuilding, phase by phase.
LEMMA PrebuildKeepsResolved ==
    ASSUME Nested, ResolveInv, PrebuildNext
    PROVE  ResolveInv'
<1>1. CASE phase = "user" /\ UserNext /\ UNCHANGED prebuildVars
  <2>1. phase' = phase /\ tasks' = tasks /\ subGraphData' = subGraphData
      BY <1>1 DEF prebuildVars, prebuiltVars
  <2> QED  BY <1>1, <2>1 DEF ResolveInv, SubGraphsResolved
<1>2. CASE StartPrebuild
  <2>1. phase = "user" /\ phase' = "resolve"  BY <1>2 DEF StartPrebuild
  <2>2. Resolving'  BY <1>2, <2>1, StartResolves DEF ResolveInv
  <2> QED  BY <2>1, <2>2 DEF ResolveInv, SubGraphsResolved
<1>3. CASE CopyTasks
  <2>1. phase = "resolve" /\ phase' = "resolve"  BY <1>3 DEF CopyTasks
  <2>2. Resolving'  BY <1>3, <2>1, CopyTasksResolves DEF ResolveInv
  <2> QED  BY <2>1, <2>2 DEF ResolveInv, SubGraphsResolved
<1>4. CASE ResolveSubGraph
  <2>1. phase = "resolve" /\ phase' = "resolve"  BY <1>4 DEF ResolveSubGraph
  <2>2. Resolving'  BY <1>4, <2>1, ResolveSubGraphResolves DEF ResolveInv
  <2> QED  BY <2>1, <2>2 DEF ResolveInv, SubGraphsResolved
<1>5. CASE ReturnFromGraph
  <2>1. phase = "resolve" /\ phase' = IF Len(calls) = 1 THEN "validate" ELSE "resolve"
      BY <1>5 DEF ReturnFromGraph
  <2>2. CASE Len(calls) = 1
    <3>1. SubGraphsResolved'  BY <1>5, <2>1, <2>2, LastReturnResolves DEF ResolveInv
    <3> QED  BY <2>1, <2>2, <3>1 DEF ResolveInv
  <2>3. CASE Len(calls) # 1
    <3>1. Resolving'  BY <1>5, <2>1, <2>3, ReturnResolves DEF ResolveInv
    <3> QED  BY <2>1, <2>3, <3>1 DEF ResolveInv, SubGraphsResolved
  <2> QED  BY <2>2, <2>3
<1>6. CASE ValidateTask
  <2>1. phase = "validate" /\ phase' = "validate" /\ UNCHANGED <<tasks, taskGraph, subGraphData>>
      BY <1>6 DEF ValidateTask
  <2>2. NumTasks' = NumTasks /\ Vertices' = Vertices  BY <2>1 DEF NumTasks, Vertices
  <2>3. SubGraphsResolved'  BY <2>1, <2>2 DEF ResolveInv, SubGraphsResolved
  <2> QED  BY <2>1, <2>3 DEF ResolveInv
<1>7. CASE Validated \/ NormalizeLevel \/ NormalizeEdges
  <2>1. phase' \in {"normalize", "refused", "prebuilt"}
      BY <1>7 DEF Validated, NormalizeLevel, NormalizeEdges
  <2> QED  BY <2>1 DEF ResolveInv, SubGraphsResolved
<1> QED  BY <1>1, <1>2, <1>3, <1>4, <1>5, <1>6, <1>7 DEF PrebuildNext, PrebuildStep

\* The merging is another phase.
LEMMA MergeStepPhases ==
    MergeStep => phase' \in {"group", "select", "pair", "join", "small", "write", "compiled"}
  BY DEF MergeStep, Goto, StartMerging, GroupTask, Grouped, SelectCandidates, PairStep,
     EndPass, JoinPair, EndRound, AllInLimit, SmallStep, EndSmallPass, WriteCompiled

LEMMA ResolveIsKept == Nested /\ ResolveInv /\ [Next]_vars => ResolveInv'
<1> SUFFICES ASSUME Nested, ResolveInv, [Next]_vars  PROVE ResolveInv'  OBVIOUS
<1>1. CASE PrebuildNext  BY <1>1, PrebuildKeepsResolved
<1>2. CASE MergeStep
  <2>1. phase' \in {"group", "select", "pair", "join", "small", "write", "compiled"}
      BY <1>2, MergeStepPhases
  <2> QED  BY <2>1 DEF ResolveInv, SubGraphsResolved
<1>3. CASE UNCHANGED vars
  <2>1. UNCHANGED <<phase, taskData, tasks, taskGraph, subGraphData, calls>>
      BY <1>3 DEF vars, userVars, prebuildVars, prebuiltVars
  <2>2. Resolving => Resolving'  BY <2>1, StutterResolves
  <2>3. NumTasks' = NumTasks /\ Vertices' = Vertices  BY <2>1 DEF NumTasks, Vertices
  <2>4. SubGraphsResolved => SubGraphsResolved'  BY <2>1, <2>3 DEF SubGraphsResolved
  <2> QED  BY <2>1, <2>2, <2>4 DEF ResolveInv
<1> QED  BY <1>1, <1>2, <1>3 DEF Next

\* The size that is reserved beforehand is the number of tasks in the end
\* (asserted at 411), and the tables that are filled with indices before the
\* recursive call (379-390) name the tasks that it then copies, for every nesting
\* of graphs, however often each stands in others.
THEOREM SubGraphsAreResolved == Spec => []SubGraphsResolved
<1>1. PrebuildInit => ResolveInv  BY DEF PrebuildInit, ResolveInv, SubGraphsResolved
<1>2. Nested /\ ResolveInv /\ [Next]_vars => ResolveInv'  BY ResolveIsKept
<1>3. ResolveInv => SubGraphsResolved  BY DEF ResolveInv
<1> QED  BY <1>1, <1>2, <1>3, GraphsAreNested, PTL DEF Spec

==============================================================================
