--------------------------- MODULE MergeSubgroups ---------------------------
(***************************************************************************)
(* compile_task_graph<MergeSubgroups> (task_graph_compile.cpp 534-918):    *)
(* the prebuilt graph becomes a CompiledTaskGraph.                         *)
(*                                                                         *)
(* 1. "group": tasks that exclude each other, directly or through others,  *)
(*    form a group; each one is a subgroup of its own.                     *)
(* 2. "select", "pair", "join": a group of more than MaxSubgroups loses    *)
(*    subgroups, pair by pair, since a mask has no more bits.              *)
(* 3. "small": groups are joined while they are small.                     *)
(* 4. "write": tasks, subgroups and masks get their numbers.               *)
(*                                                                         *)
(* Subgroups have the numbers that the code gives them inside their group, *)
(* from 1 on.  A subgroup that was merged into another one is empty.       *)
(***************************************************************************)
EXTENDS PrebuiltTaskGraph

CONSTANTS
    MaxSubgroups,    \* 64 in the code
    MinGroupSize     \* 32 in the code

ASSUME MergeAssumption == MaxSubgroups \in Nat \ {0} /\ MinGroupSize \in 0 .. MaxSubgroups

VARIABLES
    groups,          \* c_state.groups: subgroups, subgroupExclusionGraph, subgroupCnt
    cur,             \* the large group at work
    toMerge,         \* subgroupsToMerge
    sgPair, totalValue, pairCnt,   \* MergeState
    valueChange,     \* of the pass at work
    pos,             \* where a loop is, in toMerge, in the subgroups or in the groups
    passes,          \* history: the passes over toMerge
    candidate,       \* prevCandidateIdx
    anyMerged,
    compiled         \* the CompiledTaskGraph, as CompiledGraph has it

pairVars  == <<toMerge, sgPair, totalValue, pairCnt, valueChange, passes>>
smallVars == <<candidate, anyMerged>>
mergeVars == <<groups, cur, pos, pairVars, smallVars, compiled>>
vars      == <<userVars, prebuildVars, mergeVars>>

MergeInit ==
    /\ groups = <<>> /\ cur = 0 /\ pos = 0 /\ toMerge = <<>> /\ sgPair = <<>>
    /\ totalValue = 0 /\ pairCnt = 0 /\ valueChange = 0 /\ passes = 0
    /\ candidate = 0 /\ anyMerged = FALSE /\ compiled = <<>>

Goto(p) == phase' = p /\ UNCHANGED <<userVars, prebuiltVars, calls, levelVars>>

StartMerging ==
    /\ phase = "prebuilt"
    /\ Goto("group")
    /\ visited' = {} /\ stack' = <<>>
    /\ UNCHANGED <<isValid, mergeVars>>

------------------------------------------------------------------------------
(***************************************************************************)
(* Building groups.                                                        *)
(***************************************************************************)

\* The root of a search opens a group.
GroupTask ==
    /\ phase = "group" /\ Offered(exclusionGraph) # {}
    /\ LET v == Min(Offered(exclusionGraph))
       IN  /\ Visit(exclusionGraph, v)
           /\ groups' = IF Searching(exclusionGraph) = <<>>
                        THEN Append(groups, [subgroups |-> <<<<v>>>>, excl |-> <<>>, cnt |-> 0])
                        ELSE [groups EXCEPT ![Len(groups)].subgroups = Append(@, <<v>>)]
    /\ Goto("group")
    /\ UNCHANGED <<isValid, cur, pos, pairVars, smallVars, compiled>>

Excluding(subgroups, i, j) ==
    Head(subgroups[Max({i, j})]) \in exclusionGraph[Head(subgroups[Min({i, j})])]

WithExclusion(g) ==
    [g EXCEPT !.cnt = Len(g.subgroups),
              !.excl = [i \in DOMAIN g.subgroups |->
                            {i} \cup {j \in DOMAIN g.subgroups : Excluding(g.subgroups, i, j)}]]

Grouped ==
    /\ phase = "group" /\ Offered(exclusionGraph) = {}
    /\ groups' = [i \in DOMAIN groups |-> WithExclusion(groups[i])]
    /\ Goto("select")
    /\ UNCHANGED <<searchVars, cur, pos, pairVars, smallVars, compiled>>

------------------------------------------------------------------------------
(***************************************************************************)
(* Merging the subgroups of large groups.                                  *)
(***************************************************************************)
Live(g) == {s \in DOMAIN g.subgroups : g.subgroups[s] # <<>>}

LargeGroups == {i \in DOMAIN groups : groups[i].cnt > MaxSubgroups}

\* Mutant: the candidates are not cut.
CandidatesUncut(g, order) == order

\* Of the sorted subgroups as many as may be merged and not fall below the limit.
Candidates(g, order) ==
    SubSeq(order, 1, Max({n \in 0 .. Len(order) : g.cnt - n \div 2 >= MaxSubgroups}))

\* std::sort by the number of edges; subgroups with as many are in any order.
SortedOrders(g) ==
    {o \in SetToSeqs(Live(g)) : \A i, j \in DOMAIN o :
        i < j => Cardinality(g.excl[o[i]]) >= Cardinality(g.excl[o[j]])}

SelectCandidates ==
    /\ phase = "select" /\ LargeGroups # {}
    /\ cur' = Min(LargeGroups)
    /\ LET g == groups[cur']
       IN  /\ \E order \in SortedOrders(g) : toMerge' = Candidates(g, order)
           /\ sgPair' = [s \in DOMAIN g.subgroups |-> 0]
    /\ totalValue' = 0 /\ pairCnt' = 0 /\ valueChange' = 0 /\ passes' = 1 /\ pos' = 1
    /\ Goto("pair")
    /\ UNCHANGED <<searchVars, groups, smallVars, compiled>>

G == groups[cur]

\* calcPairMergeValue: the edges that merging two subgroups saves.
PairMergeValue(g, a, b) ==
    (IF b \in g.excl[a] THEN 1 ELSE 0) + Cardinality((g.excl[a] \ {b}) \cap (g.excl[b] \ {a}))

ValueOfPair(s) == IF sgPair[s] = 0 THEN 0 ELSE PairMergeValue(G, s, sgPair[s])

\* calcPairSetValue: what pairing two subgroups gains, with the pairs that it breaks.
PairSetValue(a, b) ==
    IF sgPair[a] = b THEN 0 ELSE PairMergeValue(G, a, b) - ValueOfPair(a) - ValueOfPair(b)

Broken(a, b) == {{s, sgPair[s]} : s \in {s \in {a, b} : sgPair[s] # 0}}

\* Mutant: the partners before keep their pairs.
PairedTwice(a, b) == [sgPair EXCEPT ![a] = b, ![b] = a]

Paired(a, b) ==
    [s \in DOMAIN sgPair |-> CASE s = a -> b [] s = b -> a
                               [] s \in {sgPair[a], sgPair[b]} \ {a, b} -> 0
                               [] OTHER -> sgPair[s]]

\* The first of the best partners that lose nothing, as a set of at most one.
BestPartner(a) ==
    LET gain(i) == PairSetValue(a, toMerge[i])
        usable  == {i \in DOMAIN toMerge : toMerge[i] # a /\ gain(i) >= 0}
        best    == {i \in usable : \A j \in usable : gain(j) <= gain(i)}
    IN  IF best = {} THEN {} ELSE {toMerge[Min(best)]}

PairStep ==
    /\ phase = "pair" /\ pos <= Len(toMerge)
    /\ LET a == toMerge[pos]
       IN  IF BestPartner(a) = {}
           THEN UNCHANGED <<sgPair, totalValue, valueChange, pairCnt>>
           ELSE \E b \in BestPartner(a) :
                    /\ sgPair' = Paired(a, b)
                    /\ totalValue' = totalValue + PairSetValue(a, b)
                    /\ valueChange' = valueChange + PairSetValue(a, b)
                    /\ pairCnt' = pairCnt + 1 - Cardinality(Broken(a, b))
    /\ pos' = pos + 1
    /\ Goto("pair")
    /\ UNCHANGED <<searchVars, groups, cur, toMerge, passes, smallVars, compiled>>

EndPass ==
    /\ phase = "pair" /\ pos > Len(toMerge)
    /\ pos' = 1
    /\ IF valueChange = 0
       THEN Goto("join") /\ UNCHANGED <<valueChange, passes>>
       ELSE Goto("pair") /\ valueChange' = 0 /\ passes' = passes + 1
    /\ UNCHANGED <<searchVars, groups, cur, toMerge, sgPair, totalValue, pairCnt, smallVars, compiled>>

\* Mutant: the neighbours of src are not handed on.
ExclusionForgotten(excl, dst, src) ==
    [s \in DOMAIN excl |-> IF s = src THEN {src} ELSE excl[s] \ {src}]

\* mergeSubgroups: src keeps no edge but its own, its neighbours become those of dst.
ExclusionMerged(excl, dst, src) ==
    LET neighbours == excl[src] \ {src, dst}
    IN  [s \in DOMAIN excl |->
            CASE s = dst -> (excl[s] \ {src}) \cup neighbours
              [] s = src -> excl[s] \ (neighbours \cup {dst})
              [] s \in neighbours -> (excl[s] \ {src}) \cup {dst}
              [] OTHER -> excl[s]]

Merged(g, dst, src) ==
    [subgroups |-> [g.subgroups EXCEPT ![dst] = @ \o g.subgroups[src], ![src] = <<>>],
     excl      |-> ExclusionMerged(g.excl, dst, src),
     cnt       |-> g.cnt - 1]

PairsLeft == {s \in Live(G) : s >= pos /\ sgPair[s] # 0}

JoinPair ==
    /\ phase = "join" /\ PairsLeft # {}
    /\ LET dst == Min(PairsLeft)
       IN  /\ groups' = [groups EXCEPT ![cur] = Merged(@, dst, sgPair[dst])]
           /\ pos' = dst + 1
    /\ Goto("join")
    /\ UNCHANGED <<searchVars, cur, pairVars, smallVars, compiled>>

EndRound ==
    /\ phase = "join" /\ PairsLeft = {}
    /\ Goto("select")
    /\ UNCHANGED <<searchVars, mergeVars>>

------------------------------------------------------------------------------
(***************************************************************************)
(* Merging small groups.                                                   *)
(***************************************************************************)
StartSmallPass == pos' = 1 /\ candidate' = 0 /\ anyMerged' = FALSE

AllInLimit ==
    /\ phase = "select" /\ LargeGroups = {}
    /\ Goto("small") /\ StartSmallPass
    /\ UNCHANGED <<searchVars, groups, cur, pairVars, compiled>>

\* The subgroups of src follow those of dst.
Joined(dst, src) ==
    LET n == Len(dst.subgroups)
    IN  [subgroups |-> dst.subgroups \o src.subgroups,
         excl |-> dst.excl \o [s \in DOMAIN src.excl |->
                                    IF s \in Live(src) THEN {n + r : r \in src.excl[s]} ELSE {}],
         cnt |-> dst.cnt + src.cnt]

NoSubgroups == [subgroups |-> <<>>, excl |-> <<>>, cnt |-> 0]

Fits(i) == candidate # 0 /\ groups[i].cnt + groups[candidate].cnt <= MinGroupSize

\* Mutant: the last group that did not fit is the next candidate.
AnyCandidate(i) == groups[i].cnt < MinGroupSize

BetterCandidate(i) ==
    /\ candidate = 0 \/ groups[i].cnt < groups[candidate].cnt
    /\ groups[i].cnt < MinGroupSize

SmallStep ==
    /\ phase = "small" /\ pos <= Len(groups)
    /\ IF Fits(pos)
       THEN /\ groups' = [groups EXCEPT ![candidate] = Joined(@, groups[pos]), ![pos] = NoSubgroups]
            /\ anyMerged' = TRUE
            /\ UNCHANGED candidate
       ELSE /\ candidate' = IF BetterCandidate(pos) THEN pos ELSE candidate
            /\ UNCHANGED <<groups, anyMerged>>
    /\ pos' = pos + 1
    /\ Goto("small")
    /\ UNCHANGED <<searchVars, cur, pairVars, compiled>>

\* std::remove_if of the groups that were joined with another one: what is left
\* keeps its order.
GroupsLeft == {i \in DOMAIN groups : groups[i].subgroups # <<>>}
NthLeft(n) == CHOOSE i \in GroupsLeft : Cardinality({j \in GroupsLeft : j <= i}) = n

EndSmallPass ==
    /\ phase = "small" /\ pos > Len(groups)
    /\ groups' = [n \in 1 .. Cardinality(GroupsLeft) |-> groups[NthLeft(n)]]
    /\ IF anyMerged
       THEN Goto("small") /\ StartSmallPass
       ELSE Goto("write") /\ UNCHANGED <<pos, smallVars>>
    /\ UNCHANGED <<searchVars, cur, pairVars, compiled>>

------------------------------------------------------------------------------
(***************************************************************************)
(* Writing the compiled graph.                                             *)
(***************************************************************************)

\* The pairs of a set in their order, by the first part and then by the second:
\* the order that nested loops over both come to.
NotAfter(a, b) == a[1] < b[1] \/ (a[1] = b[1] /\ a[2] <= b[2])

InOrder(pairs) ==
    [n \in 1 .. Cardinality(pairs) |->
        CHOOSE a \in pairs : Cardinality({b \in pairs : NotAfter(b, a)}) = n]

\* The subgroups that are left, as pairs of a group and a number, in their order.
AllSubGroups == InOrder(UNION {{i} \X Live(groups[i]) : i \in DOMAIN groups})

TasksIn(sg) == groups[sg[1]].subgroups[sg[2]]

\* The prebuilt tasks in their new order, subgroup by subgroup.
AllTasks ==
    LET sgs    == AllSubGroups
        places == InOrder(UNION {{j} \X DOMAIN TasksIn(sgs[j]) : j \in DOMAIN sgs})
    IN  [n \in DOMAIN places |-> TasksIn(sgs[places[n][1]])[places[n][2]]]

\* Mutant: the groups are not told apart.
MaskOfAll(sgs, s) ==
    {s} \cup {r \in 0 .. Len(sgs) - 1 : sgs[r + 1][2] \in groups[sgs[s + 1][1]].excl[sgs[s + 1][2]]}

\* The mask of a subgroup, with the numbers that subgroups have in the compiled graph.
MaskOf(sgs, s) ==
    {s} \cup {r \in 0 .. Len(sgs) - 1 :
                /\ sgs[r + 1][1] = sgs[s + 1][1]
                /\ sgs[r + 1][2] \in groups[sgs[s + 1][1]].excl[sgs[s + 1][2]]}

\* isPendingOnStart: the flag of the validation, or no predecessor.
StartsPending(v) == v \in start \/ \A u \in Vertices : v \notin taskGraph[u]

Written ==
    LET sgs   == AllSubGroups
        order == AllTasks
        remap == [v \in Vertices |-> (CHOOSE i \in DOMAIN order : order[i] = v) - 1]
        New(vs) == {remap[v] : v \in vs}
        ids(seq) == 0 .. Len(seq) - 1
        sub(i) == subGraphData[i + 1]
    IN  [groupOf   |-> [s \in ids(sgs) |-> sgs[s + 1][1] - 1],
         excluded  |-> [s \in ids(sgs) |-> MaskOf(sgs, s)],
         subGroupOf |-> [k \in ids(order) |->
                            CHOOSE s \in ids(sgs) : order[k + 1] \in ToSet(TasksIn(sgs[s + 1]))],
         next      |-> [k \in ids(order) |-> New(taskGraph[order[k + 1]])],
         start     |-> New({v \in Vertices : StartsPending(v)}),
         selfParallel |-> New({v \in Vertices : v \notin exclusionGraph[v]}),
         taskNum   |-> [k \in ids(order) |-> {1}],
         entry     |-> [i \in ids(subGraphData) |-> remap[sub(i).entry]],
         exit      |-> [i \in ids(subGraphData) |-> remap[sub(i).exit]],
         body      |-> [i \in ids(subGraphData) |-> New(sub(i).body)],
         task      |-> [k \in ids(order) |-> order[k + 1]]]

WriteCompiled ==
    /\ phase = "write"
    /\ compiled' = Written
    /\ Goto("compiled")
    /\ UNCHANGED <<searchVars, groups, cur, pos, pairVars, smallVars>>

MergeStep ==
    \/ StartMerging \/ GroupTask \/ Grouped
    \/ SelectCandidates \/ PairStep \/ EndPass \/ JoinPair \/ EndRound
    \/ AllInLimit \/ SmallStep \/ EndSmallPass
    \/ WriteCompiled

Next == (PrebuildNext /\ UNCHANGED mergeVars) \/ MergeStep

Spec == UserInit /\ PrebuildInit /\ MergeInit /\ [][Next]_vars

------------------------------------------------------------------------------
(***************************************************************************)
(* Properties                                                              *)
(***************************************************************************)
Grouping == phase \in {"select", "pair", "join", "small", "write", "compiled"}

Cell(i, s) == ToSet(groups[i].subgroups[s])

\* Through every merge, of subgroups (595-611) and of groups (777-788), two
\* subgroups exclude each other exactly if a task of one excludes a task of the
\* other; tasks of different groups never do; no task is lost or in two places.
\* An edge to a subgroup that is empty would be a bit for nobody (asserted at 758 and 819).
ExclusionKept ==
    Grouping =>
        /\ \A i \in DOMAIN groups : \A s \in Live(groups[i]) :
            /\ groups[i].excl[s] = {s} \cup {r \in Live(groups[i]) :
                    \E t \in Cell(i, s), u \in Cell(i, r) : u \in exclusionGraph[t]}
            /\ \A t \in Cell(i, s) : \A u \in exclusionGraph[t] : \E r \in Live(groups[i]) : u \in Cell(i, r)
            /\ IsInjective(groups[i].subgroups[s])
        /\ \A i, j \in DOMAIN groups : \A s \in Live(groups[i]), r \in Live(groups[j]) :
            Cell(i, s) \cap Cell(j, r) # {} => i = j /\ s = r
        /\ Vertices = UNION {UNION {Cell(i, s) : s \in Live(groups[i])} : i \in DOMAIN groups}

\* The candidates are cut (686) so that a group that is too large is merged
\* down to the limit of a mask and not below it, in however many rounds;
\* subgroupCnt counts the subgroups that are left.
MergedToTheLimit ==
    /\ Grouping => \A i \in DOMAIN groups : groups[i].cnt = Cardinality(Live(groups[i]))
    /\ phase \in {"pair", "join"} => groups[cur].cnt >= MaxSubgroups
    /\ phase \in {"small", "write", "compiled"} => \A i \in DOMAIN groups : groups[i].cnt <= MaxSubgroups

\* Pairs are mutual and of candidates; pairCnt and totalValue, which are kept up
\* by differences through breaking and making of pairs (642-660), agree with
\* them; and every pass but the last one gained, so that runSinglePass ends, with
\* a pair to merge.
PairsAccounted ==
    /\ phase = "pair" =>
        /\ \A s \in DOMAIN sgPair : sgPair[s] # 0 =>
                s \in ToSet(toMerge) /\ sgPair[s] # s /\ sgPair[sgPair[s]] = s
        /\ 2 * pairCnt = Cardinality({s \in DOMAIN sgPair : sgPair[s] # 0})
        /\ 2 * totalValue = MapThenSumSet(ValueOfPair, DOMAIN sgPair)
        /\ passes <= totalValue + 1
    /\ phase = "join" => pairCnt > 0

\* Joining small groups with one candidate at a time, the smallest so far, joins
\* all that can be: no two groups are left that fit together (767-799).
GroupsPacked ==
    phase = "compiled" =>
        \A i, j \in DOMAIN groups : i # j => groups[i].cnt + groups[j].cnt > MinGroupSize

\* What the compiler writes is what the executor assumes of a graph, with its
\* tasks renumbered: the same order, nothing that excludes each other outside the
\* masks, and the ends of every sub-graph.  It starts with the tasks that have no
\* predecessor if tasks are ordered as they were added, it has no cycle, and no
\* sub-graph is in another one if so it was.
Output == INSTANCE CompiledGraph WITH Graph <- compiled

CompiledIsAssumed ==
    phase = "compiled" =>
        /\ Output!WellFormed
        /\ \A x, y \in Output!Tasks :
            LET v == compiled.task[x]
                w == compiled.task[y]
            IN  /\ y \in compiled.next[x] <=> w \in taskGraph[v]
                /\ w \in exclusionGraph[v] =>
                        compiled.subGroupOf[y] \in compiled.excluded[compiled.subGroupOf[x]]
        /\ \A i \in DOMAIN subGraphData :
            /\ compiled.task[compiled.entry[i - 1]] = subGraphData[i].entry
            /\ compiled.task[compiled.exit[i - 1]] = subGraphData[i].exit
        /\ (\A g \in TaskGraphs : \A e \in stated[g].order : e[1] < e[2]) => Output!StartedInOrder
        /\ Output!Acyclic
        /\ (\A sub \in SubGraphs(Root) : SubGraphs(sub) = {}) => Output!NotNested
==============================================================================
