------------------------- MODULE PrebuiltOrderProofs -------------------------
(***************************************************************************)
(* Theorems about the order of the prebuilt graph: the resolution sets the *)
(* edges that the user's calls mean, a task that the validation leaves     *)
(* flagged for the start has none before it, and the normalization keeps   *)
(* what can be reached and takes away the exclusion of what is ordered.    *)
(***************************************************************************)
EXTENDS PrebuiltTaskGraphProofs

------------------------------------------------------------------------------
(***************************************************************************)
(* Reachability.  Ahead takes in the vertices one by one; with each of     *)
(* them, what is ahead of a vertex is the least set that holds its next    *)
(* ones and is closed under those taken in.                                *)
(***************************************************************************)
\* The vertex k is taken in.
Opened(next, k, ahead) ==
    [v \in DOMAIN next |-> IF k \in ahead[v] THEN ahead[v] \cup ahead[k] ELSE ahead[v]]

Opening(it, next, S) ==
    it = [s \in SUBSET S |-> IF s = {} THEN next
                             ELSE Opened(next, Chosen(s), it[s \ {Chosen(s)}])]

LEMMA OpeningUnique ==
    ASSUME NEW next, NEW A, IsFiniteSet(A), NEW B, NEW a, NEW b, Opening(a, next, A), Opening(b, next, B),
           NEW C, C \subseteq A, C \subseteq B
    PROVE  a[C] = b[C]
<1> DEFINE Bad == {T \in SUBSET C : a[T] # b[T]}
<1>1. SUFFICES ASSUME Bad # {}  PROVE FALSE  OBVIOUS
<1>2. IsFiniteSet(C) /\ Bad \subseteq SUBSET C  BY FS_Subset
<1> HIDE DEF Bad
<1>3. PICK T \in Bad : \A U \in Bad : U \subseteq T => U = T  BY <1>1, <1>2, SmallestSet
<1>4. T \subseteq C /\ a[T] # b[T]  BY DEF Bad
<1>5. /\ a[T] = IF T = {} THEN next ELSE Opened(next, Chosen(T), a[T \ {Chosen(T)}])
      /\ b[T] = IF T = {} THEN next ELSE Opened(next, Chosen(T), b[T \ {Chosen(T)}])
    BY <1>4 DEF Opening
<1>6. T # {}  BY <1>4, <1>5
<1>7. Chosen(T) \in T  BY <1>6, ChosenIsIn
<1>8. T \ {Chosen(T)} \notin Bad  BY <1>3, <1>7
<1>9. a[T \ {Chosen(T)}] = b[T \ {Chosen(T)}]  BY <1>4, <1>8 DEF Bad
<1> QED  BY <1>4, <1>5, <1>6, <1>9

LEMMA OpeningExists ==
    ASSUME NEW next, NEW S, IsFiniteSet(S)
    PROVE  \E it : Opening(it, next, S)
<1> DEFINE Bad == {T \in SUBSET S : ~\E it : Opening(it, next, T)}
<1>1. SUFFICES ASSUME Bad # {}  PROVE FALSE  OBVIOUS
<1>2. Bad \subseteq SUBSET S  OBVIOUS
<1> HIDE DEF Bad
<1>3. PICK T \in Bad : \A U \in Bad : U \subseteq T => U = T  BY <1>1, <1>2, SmallestSet
<1>4. T \subseteq S /\ ~\E it : Opening(it, next, T)  BY DEF Bad
<1> DEFINE Of(U) == CHOOSE it : Opening(it, next, U)
           all == [s \in SUBSET T |-> IF s = {} THEN next
                        ELSE Opened(next, Chosen(s), Of(s \ {Chosen(s)})[s \ {Chosen(s)}])]
<1>5. ASSUME NEW U, U \subseteq T, U # T  PROVE Opening(Of(U), next, U) /\ IsFiniteSet(U)
  <2>1. U \notin Bad  BY <1>3, <1>5
  <2>2. U \in SUBSET S  BY <1>4, <1>5
  <2>3. \E it : Opening(it, next, U)  BY <2>1, <2>2 DEF Bad
  <2> QED  BY <2>2, <2>3, FS_Subset
<1>6. ASSUME NEW U, U \subseteq T, U # T  PROVE all[U] = Of(U)[U]
  <2>1. Opening(Of(U), next, U)  BY <1>5, <1>6
  <2> DEFINE W == U \ {Chosen(U)}
  <2>2. all[U] = IF U = {} THEN next ELSE Opened(next, Chosen(U), Of(W)[W])  BY <1>6
  <2>3. Of(U)[U] = IF U = {} THEN next ELSE Opened(next, Chosen(U), Of(U)[W])
    <3> HIDE DEF Of
    <3> QED  BY <2>1 DEF Opening
  <2>4. W \subseteq T /\ W \subseteq U /\ (U # {} => W # T)  BY <1>6, ChosenIsIn
  <2>5. ASSUME U # {}  PROVE Of(W)[W] = Of(U)[W]
    <3>1. Opening(Of(W), next, W) /\ IsFiniteSet(W)  BY <1>5, <2>4, <2>5
    <3> HIDE DEF Of, W
    <3> QED  BY <2>1, <2>4, <3>1, OpeningUnique
  <2> QED  BY <2>2, <2>3, <2>5
<1>7. ASSUME NEW s \in SUBSET T
      PROVE  all[s] = IF s = {} THEN next ELSE Opened(next, Chosen(s), all[s \ {Chosen(s)}])
  <2>1. CASE s = {}  BY <2>1
  <2>2. CASE s # {}
    <3>1. s \ {Chosen(s)} \subseteq T /\ s \ {Chosen(s)} # T  BY <2>2, ChosenIsIn
    <3>2. all[s \ {Chosen(s)}] = Of(s \ {Chosen(s)})[s \ {Chosen(s)}]  BY <1>6, <3>1
    <3>3. all[s] = Opened(next, Chosen(s), Of(s \ {Chosen(s)})[s \ {Chosen(s)}])  BY <2>2
    <3> QED  BY <2>2, <3>2, <3>3
  <2> QED  BY <2>1, <2>2
<1>8. Opening(all, next, T)
  <2>1. all = [s \in SUBSET T |-> all[s]]  OBVIOUS
  <2> HIDE DEF all
  <2>2. [s \in SUBSET T |-> all[s]] =
            [s \in SUBSET T |-> IF s = {} THEN next ELSE Opened(next, Chosen(s), all[s \ {Chosen(s)}])]
      BY <1>7
  <2> QED  BY <2>1, <2>2 DEF Opening
<1> QED  BY <1>4, <1>8

\* What a set holds if it holds the next vertices of v and of all its members in S.
ClosedFrom(next, v, S, T) == next[v] \subseteq T /\ \A u \in T \cap S : next[u] \subseteq T

\* What is ahead, if the paths lead through S only.
Least(next, D, S, ahead) ==
    /\ ahead \in [D -> SUBSET D]
    /\ \A v \in D : /\ ClosedFrom(next, v, S, ahead[v])
                    /\ \A T : ClosedFrom(next, v, S, T) => ahead[v] \subseteq T

LEMMA OpenedIsLeast ==
    ASSUME NEW D, NEW next \in [D -> SUBSET D], NEW S, NEW k \in D, NEW ahead, Least(next, D, S, ahead)
    PROVE  Least(next, D, S \cup {k}, Opened(next, k, ahead))
<1> DEFINE now == Opened(next, k, ahead)
<1>1. ahead \in [D -> SUBSET D]  BY DEF Least
<1>2. /\ now \in [D -> SUBSET D]
      /\ \A v \in D : now[v] = IF k \in ahead[v] THEN ahead[v] \cup ahead[k] ELSE ahead[v]
    BY <1>1 DEF Opened
<1> HIDE DEF now
<1>3. ASSUME NEW v \in D  PROVE ClosedFrom(next, v, S \cup {k}, now[v])
  <2>1. /\ next[v] \subseteq ahead[v] /\ \A u \in ahead[v] \cap S : next[u] \subseteq ahead[v]
        /\ next[k] \subseteq ahead[k] /\ \A u \in ahead[k] \cap S : next[u] \subseteq ahead[k]
      BY DEF Least, ClosedFrom
  <2>2. CASE k \notin ahead[v]  BY <1>2, <2>1, <2>2 DEF ClosedFrom
  <2>3. CASE k \in ahead[v]
    <3>1. now[v] = ahead[v] \cup ahead[k]  BY <1>2, <2>3
    <3>2. ASSUME NEW u \in now[v] \cap (S \cup {k})  PROVE next[u] \subseteq now[v]
      <4>1. CASE u = k  BY <2>1, <3>1, <4>1
      <4>2. CASE u \in ahead[v] /\ u \in S  BY <2>1, <3>1, <4>2
      <4>3. CASE u \in ahead[k] /\ u \in S  BY <2>1, <3>1, <4>3
      <4> QED  BY <3>1, <4>1, <4>2, <4>3
    <3> QED  BY <2>1, <3>1, <3>2 DEF ClosedFrom
  <2> QED  BY <2>2, <2>3
<1>4. ASSUME NEW v \in D, NEW T, ClosedFrom(next, v, S \cup {k}, T)  PROVE now[v] \subseteq T
  <2>1. ClosedFrom(next, v, S, T)  BY <1>4 DEF ClosedFrom
  <2>2. ahead[v] \subseteq T  BY <2>1 DEF Least
  <2>3. ASSUME k \in ahead[v]  PROVE ahead[k] \subseteq T
    <3>1. k \in T  BY <2>2, <2>3
    <3>2. ClosedFrom(next, k, S, T)  BY <1>4, <3>1 DEF ClosedFrom
    <3> QED  BY <3>2 DEF Least
  <2> QED  BY <1>2, <2>2, <2>3
<1> QED  BY <1>2, <1>3, <1>4 DEF Least, now

\* All vertices are taken in: Ahead is reachability.
LEMMA AheadIsLeast ==
    ASSUME NEW D, IsFiniteSet(D), NEW next \in [D -> SUBSET D]
    PROVE  Least(next, D, D, Ahead(next))
<1> DEFINE Folding(it) == it = [s \in SUBSET D |-> IF s = {} THEN next
                                    ELSE Opened(next, Chosen(s), it[s \ {Chosen(s)}])]
<1>0. DOMAIN next = D  OBVIOUS
<1>1. Ahead(next) = (CHOOSE it : Folding(it))[D]
    BY <1>0 DEF Ahead, FoldSet, MapThenFoldSet, Chosen, Opened
<1>2. \A it : Folding(it) <=> Opening(it, next, D)  BY DEF Opening
<1>3. \E it : Folding(it)
  <2>1. \E it : Opening(it, next, D)  BY OpeningExists
  <2> HIDE DEF Folding
  <2> QED  BY <1>2, <2>1
<1> DEFINE all == CHOOSE it : Folding(it)
<1>4. Opening(all, next, D)
  <2> HIDE DEF Folding
  <2> QED  BY <1>2, <1>3
<1> HIDE DEF all
<1> DEFINE Bad == {S \in SUBSET D : ~Least(next, D, S, all[S])}
<1>5. ASSUME Bad # {}  PROVE FALSE
  <2>1. Bad \subseteq SUBSET D  OBVIOUS
  <2> HIDE DEF Bad
  <2>2. PICK S \in Bad : \A U \in Bad : U \subseteq S => U = S  BY <1>5, <2>1, SmallestSet
  <2>3. S \subseteq D /\ ~Least(next, D, S, all[S])  BY DEF Bad
  <2>4. all[S] = IF S = {} THEN next ELSE Opened(next, Chosen(S), all[S \ {Chosen(S)}])
      BY <1>4, <2>3 DEF Opening
  <2>5. CASE S = {}
    <3>1. Least(next, D, {}, next)  BY DEF Least, ClosedFrom
    <3> QED  BY <2>3, <2>4, <2>5, <3>1
  <2>6. CASE S # {}
    <3>1. PICK k, W : k = Chosen(S) /\ W = S \ {k}  OBVIOUS
    <3>2. k \in S /\ k \in D /\ W \subseteq D /\ W # S /\ W \subseteq S /\ W \cup {k} = S
        BY <2>3, <2>6, <3>1, ChosenIsIn
    <3>3. Least(next, D, W, all[W])  BY <2>2, <3>2 DEF Bad
    <3>4. Least(next, D, W \cup {k}, Opened(next, k, all[W]))  BY <3>2, <3>3, OpenedIsLeast
    <3>5. all[S] = Opened(next, k, all[W])  BY <2>4, <2>6, <3>1
    <3> QED  BY <2>3, <3>2, <3>4, <3>5
  <2> QED  BY <2>5, <2>6
<1>6. Least(next, D, D, all[D])  BY <1>5
<1> QED  BY <1>1, <1>6 DEF all

------------------------------------------------------------------------------
(***************************************************************************)
(* The graph at a path.  GraphAt takes the last step of what is left of a  *)
(* path on the graph at the rest.                                          *)
(***************************************************************************)
Descent(it, graphs, path, S) ==
    it = [s \in SUBSET S |-> IF s = {} THEN Root
                             ELSE graphs[it[s \ {Max(s)}]][path[Max(s)] + 1]]

\* GraphAt as a function of what taskData is.
GraphIn(graphs, path) == (CHOOSE it : Descent(it, graphs, path, DOMAIN path))[DOMAIN path]

LEMMA GraphAtIs == \A path : GraphAt(path) = GraphIn(taskData, path)
<1> SUFFICES ASSUME NEW path  PROVE GraphAt(path) = GraphIn(taskData, path)  OBVIOUS
<1> DEFINE D == DOMAIN path
           Folding(it) == it = [s \in SUBSET D |-> IF s = {} THEN Root
                                    ELSE SubGraph(it[s \ {Max(s)}], path[Max(s)])]
<1>1. GraphAt(path) = (CHOOSE it : Folding(it))[D]
    BY DEF GraphAt, FoldLeft, MapThenFoldSet
<1>2. \A it : Folding(it) <=> Descent(it, taskData, path, D)  BY DEF Descent, SubGraph
<1> QED  BY <1>1, <1>2 DEF GraphIn, Descent, SubGraph

Bounded(C)     == \E n \in Nat : C \subseteq 0 .. n
Inside(C, A)   == C \subseteq A
Alike(p, q, C) == \A i \in C : p[i] = q[i]

LEMMA DescentUnique ==
    ASSUME NEW graphs, NEW p, NEW q, NEW A, NEW B, NEW a, NEW b,
           Descent(a, graphs, p, A), Descent(b, graphs, q, B),
           NEW C, Bounded(C), Inside(C, A), Inside(C, B), Alike(p, q, C)
    PROVE  a[C] = b[C]
<1> PICK n \in Nat : C \subseteq 0 .. n  BY DEF Bounded
<1>0. C \subseteq A /\ C \subseteq B /\ \A i \in C : p[i] = q[i]  BY DEF Inside, Alike
<1> DEFINE Bad == {T \in SUBSET C : a[T] # b[T]}
<1>1. SUFFICES ASSUME Bad # {}  PROVE FALSE  OBVIOUS
<1>2. IsFiniteSet(C) /\ Bad \subseteq SUBSET C
  <2>1. IsFiniteSet(0 .. n)  BY FS_Interval
  <2> QED  BY <2>1, FS_Subset
<1> HIDE DEF Bad
<1>3. PICK T \in Bad : \A U \in Bad : U \subseteq T => U = T  BY ONLY <1>1, <1>2, SmallestSet
<1>4. T \subseteq C /\ a[T] # b[T]  BY DEF Bad
<1>5. /\ a[T] = IF T = {} THEN Root ELSE graphs[a[T \ {Max(T)}]][p[Max(T)] + 1]
      /\ b[T] = IF T = {} THEN Root ELSE graphs[b[T \ {Max(T)}]][q[Max(T)] + 1]
    BY <1>0, <1>4 DEF Descent
<1>6. T # {}  BY <1>4, <1>5
<1>7. Max(T) \in T
  <2>1. T \subseteq 0 .. n  BY <1>4
  <2> QED  BY <1>6, <2>1, MaxBelow
<1>8. T \ {Max(T)} \notin Bad  BY <1>3, <1>7
<1>9. a[T \ {Max(T)}] = b[T \ {Max(T)}]  BY <1>4, <1>8 DEF Bad
<1>10. p[Max(T)] = q[Max(T)]  BY <1>0, <1>4, <1>7
<1> QED  BY <1>4, <1>5, <1>6, <1>9, <1>10

LEMMA DescentExists ==
    ASSUME NEW graphs, NEW p, NEW n \in Nat, NEW S, S \subseteq 0 .. n
    PROVE  \E it : Descent(it, graphs, p, S)
<1> DEFINE Bad == {T \in SUBSET S : ~\E it : Descent(it, graphs, p, T)}
<1>1. SUFFICES ASSUME Bad # {}  PROVE FALSE  OBVIOUS
<1>2. Bad \subseteq SUBSET S /\ IsFiniteSet(S)
  <2>1. IsFiniteSet(0 .. n)  BY FS_Interval
  <2> QED  BY <2>1, FS_Subset
<1> HIDE DEF Bad
<1>3. PICK T \in Bad : \A U \in Bad : U \subseteq T => U = T  BY ONLY <1>1, <1>2, SmallestSet
<1>4. T \subseteq S /\ ~\E it : Descent(it, graphs, p, T)  BY DEF Bad
<1>0. ASSUME NEW U, U \subseteq T, U # {}  PROVE Max(U) \in U
  <2>1. U \subseteq 0 .. n  BY <1>0, <1>4
  <2> QED  BY <1>0, <2>1, MaxBelow
<1> DEFINE Of(U) == CHOOSE it : Descent(it, graphs, p, U)
           all == [s \in SUBSET T |-> IF s = {} THEN Root
                        ELSE graphs[Of(s \ {Max(s)})[s \ {Max(s)}]][p[Max(s)] + 1]]
<1>5. ASSUME NEW U, U \subseteq T, U # T  PROVE Descent(Of(U), graphs, p, U)
  <2>1. U \notin Bad  BY <1>3, <1>5
  <2>2. U \in SUBSET S  BY <1>4, <1>5
  <2>3. \E it : Descent(it, graphs, p, U)  BY <2>1, <2>2 DEF Bad
  <2> QED  BY <2>3
<1>6. ASSUME NEW U, U \subseteq T, U # T  PROVE all[U] = Of(U)[U]
  <2>1. Descent(Of(U), graphs, p, U)  BY <1>5, <1>6
  <2>2. PICK W : W = U \ {Max(U)}  OBVIOUS
  <2>3. all[U] = IF U = {} THEN Root ELSE graphs[Of(W)[W]][p[Max(U)] + 1]  BY <1>6, <2>2
  <2>4. Of(U)[U] = IF U = {} THEN Root ELSE graphs[Of(U)[W]][p[Max(U)] + 1]
    <3> HIDE DEF Of
    <3> QED  BY <2>1, <2>2 DEF Descent
  <2>5. W \subseteq T /\ W \subseteq U /\ W # T  BY <1>0, <1>6, <2>2
  <2>6. Of(W)[W] = Of(U)[W]
    <3>1. Descent(Of(W), graphs, p, W)  BY <1>5, <2>5
    <3>2. Bounded(W)  BY <1>4, <2>5 DEF Bounded
    <3>3. Alike(p, p, W) /\ Inside(W, W) /\ Inside(W, U)  BY <2>5 DEF Alike, Inside
    <3> HIDE DEF Of
    <3> QED  BY ONLY <2>1, <3>1, <3>2, <3>3, DescentUnique
  <2> QED  BY <2>3, <2>4, <2>6
<1>7. ASSUME NEW s \in SUBSET T
      PROVE  all[s] = IF s = {} THEN Root ELSE graphs[all[s \ {Max(s)}]][p[Max(s)] + 1]
  <2>1. CASE s = {}  BY <2>1
  <2>2. CASE s # {}
    <3>1. PICK W : W = s \ {Max(s)}  OBVIOUS
    <3>2. W \subseteq T /\ W # T  BY <1>0, <2>2, <3>1
    <3>3. all[W] = Of(W)[W]  BY <1>6, <3>2
    <3>4. all[s] = graphs[Of(W)[W]][p[Max(s)] + 1]  BY <2>2, <3>1
    <3> HIDE DEF all, Of
    <3> QED  BY <2>2, <3>1, <3>3, <3>4
  <2> QED  BY <2>1, <2>2
<1>8. Descent(all, graphs, p, T)
  <2>1. all = [s \in SUBSET T |-> all[s]]  OBVIOUS
  <2> HIDE DEF all
  <2>2. [s \in SUBSET T |-> all[s]] =
            [s \in SUBSET T |-> IF s = {} THEN Root ELSE graphs[all[s \ {Max(s)}]][p[Max(s)] + 1]]
      BY <1>7
  <2> QED  BY <2>1, <2>2 DEF Descent
<1> QED  BY <1>4, <1>8

\* The empty path leads to the root, a longer one on from the graph it has reached.
LEMMA GraphAtSteps ==
    /\ GraphAt(<<>>) = Root
    /\ \A p \in Seq(Nat), k \in Nat : GraphAt(Append(p, k)) = SubGraph(GraphAt(p), k)
<1>1. GraphAt(<<>>) = Root
  <2> DEFINE it == CHOOSE it : Descent(it, taskData, <<>>, {})
  <2>1. GraphAt(<<>>) = it[{}]
    <3>1. DOMAIN <<>> = {}  OBVIOUS
    <3> QED  BY <3>1, GraphAtIs DEF GraphIn
  <2>2. {} \subseteq 0 .. 0 /\ 0 \in Nat  OBVIOUS
  <2>3. \E any : Descent(any, taskData, <<>>, {})  BY ONLY <2>2, DescentExists
  <2>4. Descent(it, taskData, <<>>, {})  BY <2>3
  <2> HIDE DEF it
  <2> QED  BY <2>1, <2>4 DEF Descent
<1>2. ASSUME NEW p \in Seq(Nat), NEW k \in Nat  PROVE GraphAt(Append(p, k)) = SubGraph(GraphAt(p), k)
  <2>1. PICK l, q, D, E : l = Len(p) /\ q = Append(p, k) /\ D = 1 .. l /\ E = 1 .. l + 1  OBVIOUS
  <2>2. /\ l \in Nat /\ DOMAIN p = D /\ DOMAIN q = E /\ q[l + 1] = k
        /\ \A i \in D : q[i] = p[i]
    <3>1. q \in Seq(Nat) /\ Len(q) = l + 1 /\ q[l + 1] = k /\ \A i \in 1 .. l : q[i] = p[i]
        BY <2>1, AppendProperties
    <3> QED  BY <2>1, <3>1, LenProperties
  <2> DEFINE a == CHOOSE it : Descent(it, taskData, p, D)
             b == CHOOSE it : Descent(it, taskData, q, E)
  <2>3. GraphAt(p) = a[D] /\ GraphAt(q) = b[E]  BY <2>2, GraphAtIs DEF GraphIn
  <2>4. D \subseteq 0 .. l + 1 /\ E \subseteq 0 .. l + 1 /\ D \subseteq E /\ l + 1 \in Nat
      BY <2>1, <2>2
  <2>5. Descent(a, taskData, p, D)
    <3>1. \E it : Descent(it, taskData, p, D)  BY ONLY <2>4, DescentExists
    <3> QED  BY <3>1
  <2>6. Descent(b, taskData, q, E)
    <3>1. \E it : Descent(it, taskData, q, E)  BY ONLY <2>4, DescentExists
    <3> QED  BY <3>1
  <2> HIDE DEF a, b
  <2>7. Max(E) = l + 1
    <3>1. E # {} /\ l + 1 \in E  BY <2>1, <2>2
    <3>2. Max(E) \in E /\ \A x \in E : Max(E) >= x  BY <2>4, <3>1, MaxBelow
    <3> QED  BY <2>1, <2>2, <3>1, <3>2
  <2>8. E \ {l + 1} = D /\ E # {}  BY <2>1, <2>2
  <2>9. b[E] = taskData[b[D]][k + 1]
    <3>1. b[E] = taskData[b[E \ {Max(E)}]][q[Max(E)] + 1]  BY <2>6, <2>8 DEF Descent
    <3> QED  BY ONLY <2>2, <2>7, <2>8, <3>1
  <2>10. b[D] = a[D]
    <3>1. Alike(q, p, D) /\ Inside(D, D) /\ Inside(D, E)  BY <2>2, <2>4 DEF Alike, Inside
    <3>2. Bounded(D)  BY <2>4 DEF Bounded
    <3> QED  BY ONLY <2>5, <2>6, <3>1, <3>2, DescentUnique
  <2> QED  BY <2>1, <2>3, <2>9, <2>10 DEF SubGraph
<1> QED  BY <1>1, <1>2

LEMMA GraphAtStays == ASSUME UNCHANGED taskData  PROVE \A path : GraphAt(path)' = GraphAt(path)
  BY DEF GraphAt, FoldLeft, MapThenFoldSet, SubGraph

------------------------------------------------------------------------------
(***************************************************************************)
(* Where the resolution has put the tasks and what edges they have.        *)
(***************************************************************************)
\* The tables made so far.
Tables == {subGraphData[i] : i \in DOMAIN subGraphData}

\* The tasks that setNext put after a task, in the same place.
StatedNext(v) ==
    {w \in DOMAIN tasks :
        /\ tasks[w].kind # "exit" /\ Siblings(v, w)
        /\ <<Last(tasks[v].path), Last(tasks[w].path)>> \in stated[GraphAt(Front(tasks[v].path))].order}

\* The exit of the sub-graph that a task or the exit of another one is in.
ExitsAround(v) ==
    {t.exit : t \in {t \in Tables : v \in t.body \/ \E u \in Tables : u.exit = v /\ u.entry \in t.body}}

\* An entry leads to its body and exit; what is no entry yet leads on in its graph.
EdgesOK ==
    /\ \A t \in Tables : t.entry \in Vertices => taskGraph[t.entry] = t.body \cup {t.exit}
    /\ \A v \in Vertices : (\A t \in Tables : t.entry # v) =>
            taskGraph[v] = (IF v \in DOMAIN tasks THEN StatedNext(v) ELSE {}) \cup ExitsAround(v)

\* A task is one of the graph at the path it is at.
PlaceOK(task) ==
    LET g == GraphAt(Front(task.path))
        k == Last(task.path)
    IN  /\ g \in TaskGraphs /\ k \in TaskIds(g)
        /\ task.kind \in (IF SubGraph(g, k) = NoGraph THEN {"task"} ELSE {"entry", "exit"})

PlacesOK ==
    /\ \A v \in DOMAIN tasks : PlaceOK(tasks[v])
    /\ \A v, w \in DOMAIN tasks :
        tasks[v].path = tasks[w].path /\ (tasks[v].kind = "exit" <=> tasks[w].kind = "exit") => v = w

CallsPlaced ==
    /\ calls[1].path = <<>> /\ calls[1].offset \in {-1, 0} /\ (calls[1].offset = -1 => NumTasks = 0)
    /\ \A j \in DOMAIN calls :
        /\ calls[j].graph = GraphAt(calls[j].path)
        /\ calls[j].path # <<>> => \E t \in Tables : tasks[t.entry].path = calls[j].path

\* The tasks of the sub-graph at an entry.
Filled(entry) ==
    \A k \in TaskIds(GraphAt(tasks[entry].path)) :
        \E w \in DOMAIN tasks : tasks[w].kind # "exit" /\ tasks[w].path = Append(tasks[entry].path, k)

TablesPlaced ==
    \A t \in Tables :
        /\ tasks[t.exit].path = tasks[t.entry].path
        /\ Filled(t.entry) \/ (Top.offset = -1 /\ Top.path = tasks[t.entry].path)

HaveTables ==
    \A v \in DOMAIN tasks :
        /\ tasks[v].kind = "exit" => \E t \in Tables : t.exit = v
        /\ Front(tasks[v].path) # <<>> => \E t \in Tables : tasks[t.entry].path = Front(tasks[v].path)
        /\ tasks[v].kind = "entry" =>
            \/ \E t \in Tables : t.entry = v
            \/ \E j \in DOMAIN calls : /\ Front(tasks[v].path) = calls[j].path
                                       /\ Last(tasks[v].path) >= calls[j].next

Wiring == NoCallActive /\ PlacesOK /\ CallsPlaced /\ TablesPlaced /\ HaveTables /\ EdgesOK

ExitsAt(path) == {x \in DOMAIN tasks : tasks[x].kind = "exit" /\ tasks[x].path = path}

\* An entry leads to the tasks of its sub-graph and to its exit, anything else to
\* the tasks that setNext put after it and to the exit of the sub-graph it is in.
EdgesFrom(v) ==
    IF tasks[v].kind = "entry"
    THEN {w \in DOMAIN tasks : tasks[w].kind # "exit" /\ Front(tasks[w].path) = tasks[v].path}
            \cup ExitsAt(tasks[v].path)
    ELSE StatedNext(v) \cup ExitsAt(Front(tasks[v].path))

EdgesAreStated == \A v \in DOMAIN tasks : taskGraph[v] = EdgesFrom(v)

\* What is in a sub-graph comes after its entry in the list, as its exit does.
EntriesFirst ==
    \A v \in DOMAIN tasks : tasks[v].kind = "exit" \/ Front(tasks[v].path) # <<>> =>
        \E e \in DOMAIN tasks :
            /\ e < v /\ tasks[e].kind = "entry"
            /\ tasks[e].path = IF tasks[v].kind = "exit" THEN tasks[v].path ELSE Front(tasks[v].path)

\* All tasks are there: those of the root first, those of a sub-graph with its exit.
AllThere ==
    /\ \A k \in TaskIds(Root) :
        k \in DOMAIN tasks /\ tasks[k].path = <<k>> /\ tasks[k].kind # "exit"
    /\ \A e \in DOMAIN tasks : tasks[e].kind = "entry" => Filled(e) /\ ExitsAt(tasks[e].path) # {}

Laid ==
    /\ DOMAIN tasks = Vertices /\ NumTasks \in Nat /\ DOMAIN tasks = 0 .. NumTasks - 1
    /\ \A v \in DOMAIN tasks : tasks[v].path \in Seq(Nat) /\ tasks[v].path # <<>>
    /\ PlacesOK /\ EntriesFirst /\ AllThere

AllWired == Laid /\ EdgesAreStated

LEMMA PathSplits ==
    /\ \A p \in Seq(Nat), k \in Nat : /\ Append(p, k) \in Seq(Nat) /\ Append(p, k) # <<>>
                                      /\ Front(Append(p, k)) = p /\ Last(Append(p, k)) = k
    /\ \A x \in Seq(Nat) : x # <<>> => /\ Front(x) \in Seq(Nat) /\ Last(x) \in Nat
                                       /\ Append(Front(x), Last(x)) = x
<1>1. ASSUME NEW p \in Seq(Nat), NEW k \in Nat
      PROVE  /\ Append(p, k) \in Seq(Nat) /\ Append(p, k) # <<>>
             /\ Front(Append(p, k)) = p /\ Last(Append(p, k)) = k
  <2>1. PICK a : a = Append(p, k)  OBVIOUS
  <2>2. a \in Seq(Nat) /\ a # <<>> /\ Len(a) = Len(p) + 1 /\ a[Len(p) + 1] = k /\ Front(a) = p
      BY <2>1, AppendIsUnder
  <2> QED  BY <2>1, <2>2 DEF Last
<1>2. ASSUME NEW x \in Seq(Nat), x # <<>>
      PROVE  Front(x) \in Seq(Nat) /\ Last(x) \in Nat /\ Append(Front(x), Last(x)) = x
  <2>1. PICK f, l : f = Front(x) /\ l = Len(f)  OBVIOUS
  <2>2. /\ f \in Seq(Nat) /\ Len(x) = l + 1 /\ l \in Nat
        /\ \A i \in 1 .. l : x[i] = f[i]
      BY <1>2, <2>1, FrontIsAbove, LenProperties DEF Under
  <2>3. l + 1 \in 1 .. Len(x)  BY <2>2
  <2>4. Last(x) = x[l + 1] /\ Last(x) \in Nat  BY <2>2, <2>3, ElementOfSeq DEF Last
  <2>5. PICK a : a = Append(f, Last(x))  OBVIOUS
  <2>6. a \in Seq(Nat) /\ Len(a) = l + 1 /\ a[l + 1] = Last(x) /\ \A i \in 1 .. l : a[i] = f[i]
      BY <2>1, <2>2, <2>4, <2>5, AppendProperties
  <2>7. Len(a) = Len(x) /\ \A i \in 1 .. Len(a) : a[i] = x[i]
    <3>1. ASSUME NEW i \in 1 .. l + 1  PROVE a[i] = x[i]
      <4>1. i \in 1 .. l \/ i = l + 1  BY <2>2
      <4> QED  BY <2>2, <2>4, <2>6, <4>1
    <3> QED  BY <2>2, <2>6, <3>1
  <2>8. a = x  BY <2>6, <2>7, SeqEqual
  <2> QED  BY <2>1, <2>2, <2>4, <2>5, <2>8
<1> QED  BY <1>1, <1>2

LEMMA PlaceStays ==
    ASSUME UNCHANGED taskData
    PROVE  \A task : PlaceOK(task)' <=> PlaceOK(task)
<1>1. \A path : GraphAt(path)' = GraphAt(path)  BY GraphAtStays
<1>2. (\A g : TaskIds(g)' = TaskIds(g)) /\ \A g, k : SubGraph(g, k)' = SubGraph(g, k)  BY GraphStays
<1> QED  BY <1>1, <1>2 DEF PlaceOK

\* The paths of the tasks, taken apart.
LEMMA PathsOf ==
    ASSUME ResolveTypes, NEW v \in DOMAIN tasks
    PROVE  /\ tasks[v].path \in Seq(Nat) /\ tasks[v].path # <<>>
           /\ Front(tasks[v].path) \in Seq(Nat) /\ Last(tasks[v].path) \in Nat
           /\ tasks[v].path = Append(Front(tasks[v].path), Last(tasks[v].path))
<1>1. tasks[v].path \in Seq(Nat) /\ tasks[v].path # <<>>  BY DEF ResolveTypes
<1>2. PICK x : x = tasks[v].path  OBVIOUS
<1>3. Front(x) \in Seq(Nat) /\ Last(x) \in Nat /\ Append(Front(x), Last(x)) = x  BY <1>1, <1>2, PathSplits
<1> QED  BY <1>1, <1>2, <1>3

\* What is made of a call that starts: all its tasks, and none is there yet.
LEMMA CopyTasksAt ==
    ASSUME Nested, Resolving, Wiring, CopyTasks, NEW n, n = NumTasks,
           NEW g, g = Top.graph, NEW p, p = Top.path, NEW L, L = Len(calls)
    PROVE  /\ n \in Nat /\ DOMAIN tasks = 0 .. n - 1 /\ p \in Seq(Nat) /\ g = GraphAt(p)
           /\ g \in TaskGraphs /\ TaskIds(g) \subseteq Nat
           /\ L \in Nat \ {0} /\ DOMAIN calls = 1 .. L /\ calls[L] = Top
           /\ Top.offset = -1 /\ Top.next = 0
           /\ UNCHANGED <<taskData, subGraphData, Vertices, stated>>
           /\ \A v \in DOMAIN tasks : v \in DOMAIN tasks' /\ tasks'[v] = tasks[v]
           /\ \A v \in DOMAIN tasks : Front(tasks[v].path) # p
           /\ \A k \in TaskIds(g) :
                /\ n + k \in DOMAIN tasks' \ DOMAIN tasks
                /\ tasks'[n + k].path = Append(p, k) /\ Front(tasks'[n + k].path) = p
                /\ Last(tasks'[n + k].path) = k
                /\ tasks'[n + k].kind = IF SubGraph(g, k) = NoGraph THEN "task" ELSE "entry"
           /\ \A v \in DOMAIN tasks' \ DOMAIN tasks : \E k \in TaskIds(g) : v = n + k
           /\ DOMAIN calls' = 1 .. L /\ Len(calls') = L
           /\ \A j \in 1 .. L : /\ calls'[j].path = calls[j].path /\ calls'[j].graph = calls[j].graph
                                /\ calls'[j].next = calls[j].next
                                /\ calls'[j].offset = IF j = L THEN n ELSE calls[j].offset
<1>1. ResolveTypes /\ CallsOK /\ n \in Nat /\ DOMAIN tasks = 0 .. n - 1
    BY DEF Resolving, ResolveTypes
<1>2. /\ Top.offset = -1 /\ g \in TaskGraphs /\ Len(taskData[g]) \in Nat
      /\ TaskIds(g) = 0 .. Len(taskData[g]) - 1
      /\ UNCHANGED <<taskData, subGraphData, Vertices>>
      /\ NumTasks' = n + Len(taskData[g]) /\ DOMAIN tasks' = 0 .. NumTasks' - 1
      /\ \A v \in DOMAIN tasks : v \in DOMAIN tasks' /\ tasks'[v] = tasks[v]
      /\ \A k \in TaskIds(g) :
            tasks'[n + k] = [path |-> Append(p, k),
                             kind |-> IF SubGraph(g, k) = NoGraph THEN "task" ELSE "entry"]
      /\ \A v \in DOMAIN tasks' \ DOMAIN tasks : \E k \in TaskIds(g) : v = n + k
      /\ calls' = [calls EXCEPT ![L].offset = n]
    BY CopyTasksCopies
<1>3. /\ L \in Nat \ {0} /\ DOMAIN calls = 1 .. L /\ Top = calls[L] /\ p \in Seq(Nat) /\ L \in DOMAIN calls
      /\ \A j \in DOMAIN calls : calls[j] \in CallRecord
    BY <1>1, TopCall
<1>4. CallOK(Top, L = L)  BY <1>1, <1>3 DEF CallsOK
<1>5. Top.next = 0 /\ \A v \in DOMAIN tasks : ~Under(tasks[v].path, p)  BY <1>2, <1>4 DEF CallOK
<1>6. ASSUME NEW v \in DOMAIN tasks  PROVE Front(tasks[v].path) # p
  <2>1. tasks[v].path \in Seq(Nat) /\ tasks[v].path # <<>>  BY <1>1, PathsOf
  <2>2. Under(tasks[v].path, Front(tasks[v].path))  BY <2>1, FrontIsAbove
  <2> QED  BY <1>5, <2>2
<1>7. ASSUME NEW k \in TaskIds(g)
      PROVE  /\ n + k \in DOMAIN tasks' \ DOMAIN tasks
             /\ tasks'[n + k].path = Append(p, k) /\ Front(tasks'[n + k].path) = p
             /\ Last(tasks'[n + k].path) = k
             /\ tasks'[n + k].kind = IF SubGraph(g, k) = NoGraph THEN "task" ELSE "entry"
  <2>1. k \in Nat /\ k < Len(taskData[g])  BY <1>2
  <2>2. n + k \in 0 .. (n + Len(taskData[g])) - 1 /\ n + k \notin 0 .. n - 1  BY <1>1, <1>2, <2>1
  <2>3. Front(Append(p, k)) = p /\ Last(Append(p, k)) = k  BY <1>3, <2>1, PathSplits
  <2>4. PICK task : /\ task = tasks'[n + k]
                    /\ task = [path |-> Append(p, k),
                              kind |-> IF SubGraph(g, k) = NoGraph THEN "task" ELSE "entry"]
      BY <1>2
  <2>5. task.path = Append(p, k) /\ task.kind = IF SubGraph(g, k) = NoGraph THEN "task" ELSE "entry"
      BY <2>4
  <2>6. n + k \in DOMAIN tasks' \ DOMAIN tasks  BY <1>1, <1>2, <2>2
  <2> QED  BY <2>3, <2>4, <2>5, <2>6
<1>8. g = GraphAt(p)  BY <1>3 DEF Wiring, CallsPlaced
<1>9. UNCHANGED stated  BY DEF CopyTasks, userVars
<1>10. /\ DOMAIN calls' = 1 .. L /\ Len(calls') = L
       /\ \A j \in 1 .. L : /\ calls'[j].path = calls[j].path /\ calls'[j].graph = calls[j].graph
                            /\ calls'[j].next = calls[j].next
                            /\ calls'[j].offset = IF j = L THEN n ELSE calls[j].offset
  <2>1. DOMAIN calls' = 1 .. L  BY <1>2, <1>3
  <2>2. Len(calls') = L
    <3>1. calls' \in [1 .. L -> {calls'[i] : i \in 1 .. L}]  BY <1>2, <1>3
    <3> QED  BY <1>3, <3>1, FunctionIsSeq
  <2>3. \A j \in 1 .. L : calls[j] \in CallRecord  BY <1>3
  <2> QED  BY <1>2, <1>3, <2>1, <2>2, <2>3 DEF CallRecord
<1>11. TaskIds(g) \subseteq Nat  BY <1>2
<1> QED  BY <1>1, <1>2, <1>3, <1>5, <1>6, <1>7, <1>8, <1>9, <1>10, <1>11

\* The tasks that are copied are where their paths say.
LEMMA CopyTasksPlaces ==
    ASSUME Nested, Resolving, Wiring, CopyTasks
    PROVE  PlacesOK'
<1>0. PICK n, g, p, L : n = NumTasks /\ g = Top.graph /\ p = Top.path /\ L = Len(calls)  OBVIOUS
<1>1. /\ p \in Seq(Nat) /\ g = GraphAt(p) /\ g \in TaskGraphs /\ TaskIds(g) \subseteq Nat
      /\ UNCHANGED taskData
      /\ \A v \in DOMAIN tasks : v \in DOMAIN tasks' /\ tasks'[v] = tasks[v]
      /\ \A v \in DOMAIN tasks : Front(tasks[v].path) # p
      /\ \A k \in TaskIds(g) :
            /\ tasks'[n + k].path = Append(p, k) /\ Front(tasks'[n + k].path) = p
            /\ Last(tasks'[n + k].path) = k
            /\ tasks'[n + k].kind = IF SubGraph(g, k) = NoGraph THEN "task" ELSE "entry"
      /\ \A v \in DOMAIN tasks' \ DOMAIN tasks : \E k \in TaskIds(g) : v = n + k
    BY <1>0, CopyTasksAt, SMTT(20)
<1>2. PlacesOK  BY DEF Wiring
<1>3. ASSUME NEW v \in DOMAIN tasks'  PROVE PlaceOK(tasks[v])'
  <2>0. PICK task : task = tasks'[v]  OBVIOUS
  <2>1. PlaceOK(task)
    <3>1. CASE v \in DOMAIN tasks  BY <1>1, <1>2, <2>0, <3>1 DEF PlacesOK
    <3>2. CASE v \notin DOMAIN tasks
      <4>1. PICK k \in TaskIds(g) : v = n + k  BY <1>1, <3>2
      <4>2. Front(task.path) = p /\ Last(task.path) = k
            /\ task.kind = IF SubGraph(g, k) = NoGraph THEN "task" ELSE "entry"
          BY <1>1, <2>0, <4>1
      <4> QED  BY <1>1, <4>2 DEF PlaceOK
    <3> QED  BY <3>1, <3>2
  <2>2. PlaceOK(task)'  BY <1>1, <2>1, PlaceStays
  <2> QED  BY <2>0, <2>2 DEF PlaceOK
<1>4. ASSUME NEW v \in DOMAIN tasks', NEW w \in DOMAIN tasks', tasks'[v].path = tasks'[w].path,
             tasks'[v].kind = "exit" <=> tasks'[w].kind = "exit"
      PROVE  v = w
  <2>1. ASSUME NEW x \in DOMAIN tasks', NEW y \in DOMAIN tasks', x \in DOMAIN tasks, y \notin DOMAIN tasks
        PROVE  tasks'[x].path # tasks'[y].path
    <3>1. Front(tasks'[x].path) # p  BY <1>1, <2>1
    <3>2. PICK k \in TaskIds(g) : y = n + k  BY <1>1, <2>1
    <3>3. Front(tasks'[y].path) = p  BY <1>1, <3>2
    <3> QED  BY <3>1, <3>3
  <2>2. CASE v \in DOMAIN tasks /\ w \in DOMAIN tasks
    <3>1. tasks'[v] = tasks[v] /\ tasks'[w] = tasks[w]  BY <1>1, <2>2
    <3> QED  BY <1>2, <1>4, <2>2, <3>1 DEF PlacesOK
  <2>3. CASE v \notin DOMAIN tasks /\ w \notin DOMAIN tasks
    <3>1. PICK k \in TaskIds(g) : v = n + k  BY <1>1, <2>3
    <3>2. PICK i \in TaskIds(g) : w = n + i  BY <1>1, <2>3
    <3>3. Last(tasks'[v].path) = k /\ Last(tasks'[w].path) = i  BY <1>1, <3>1, <3>2
    <3> QED  BY <1>4, <3>1, <3>2, <3>3
  <2> QED  BY <1>4, <2>1, <2>2, <2>3
<1> QED  BY <1>3, <1>4 DEF PlacesOK

LEMMA CopyTasksPlaced ==
    ASSUME Nested, Resolving, Wiring, CopyTasks
    PROVE  CallsPlaced' /\ TablesPlaced' /\ HaveTables'
<1>0. PICK n, g, p, L : n = NumTasks /\ g = Top.graph /\ p = Top.path /\ L = Len(calls)  OBVIOUS
<1>1. /\ n \in Nat /\ p \in Seq(Nat) /\ g = GraphAt(p) /\ TaskIds(g) \subseteq Nat
      /\ L \in Nat \ {0} /\ DOMAIN calls = 1 .. L /\ calls[L] = Top
      /\ Top.offset = -1 /\ Top.next = 0
      /\ UNCHANGED <<taskData, subGraphData>>
      /\ \A v \in DOMAIN tasks : v \in DOMAIN tasks' /\ tasks'[v] = tasks[v]
      /\ \A k \in TaskIds(g) :
            /\ n + k \in DOMAIN tasks'
            /\ tasks'[n + k].path = Append(p, k) /\ Front(tasks'[n + k].path) = p
            /\ Last(tasks'[n + k].path) = k
            /\ tasks'[n + k].kind = IF SubGraph(g, k) = NoGraph THEN "task" ELSE "entry"
      /\ \A v \in DOMAIN tasks' \ DOMAIN tasks : \E k \in TaskIds(g) : v = n + k
      /\ DOMAIN calls' = 1 .. L /\ Len(calls') = L
      /\ \A j \in 1 .. L : /\ calls'[j].path = calls[j].path /\ calls'[j].graph = calls[j].graph
                           /\ calls'[j].next = calls[j].next
                           /\ calls'[j].offset = IF j = L THEN n ELSE calls[j].offset
    BY <1>0, CopyTasksAt, SMTT(20)
<1>2. CallsPlaced /\ TablesPlaced /\ HaveTables  BY DEF Wiring
<1>3. CallsOK /\ TablesOK  BY DEF Resolving
<1>4. Tables' = Tables
      /\ \A t \in Tables : /\ t.entry \in DOMAIN tasks' /\ tasks'[t.entry] = tasks[t.entry]
                           /\ t.entry \in DOMAIN tasks
                           /\ t.exit \in DOMAIN tasks' /\ tasks'[t.exit] = tasks[t.exit]
    BY <1>1, <1>3 DEF Tables, TablesOK, TableOK
<1>5. (\A path : GraphAt(path)' = GraphAt(path)) /\ \A h : TaskIds(h)' = TaskIds(h)
    BY <1>1, GraphAtStays, GraphStays
<1>6. CallsPlaced'
  <2>1. calls'[1].path = <<>> /\ calls'[1].offset = 0
    <3>1. 1 \in 1 .. L  BY <1>1
    <3>2. calls'[1].path = <<>>  BY <1>1, <1>2, <3>1 DEF CallsPlaced
    <3>3. CASE L = 1
      <4>1. n = 0  BY <1>0, <1>1, <1>2, <3>3 DEF CallsPlaced
      <4> QED  BY <1>1, <3>1, <3>2, <3>3, <4>1
    <3>4. CASE L # 1
      <4>1. CallOK(calls[1], 1 = Len(calls))  BY <1>1, <1>3, <3>1 DEF CallsOK
      <4>2. calls[1].offset # -1  BY <1>0, <3>4, <4>1 DEF CallOK
      <4>3. calls[1].offset = 0  BY <1>2, <4>2 DEF CallsPlaced
      <4> QED  BY <1>1, <3>1, <3>2, <3>4, <4>3
    <3> QED  BY <3>3, <3>4
  <2>2. ASSUME NEW j \in DOMAIN calls'
        PROVE  /\ calls'[j].graph = GraphAt(calls[j].path)'
               /\ calls'[j].path # <<>> => \E t \in Tables' : tasks'[t.entry].path = calls'[j].path
    <3>0. PICK c : c = calls[j]  OBVIOUS
    <3>1. c.graph = GraphAt(c.path) /\ (c.path # <<>> => \E t \in Tables : tasks[t.entry].path = c.path)
        BY <1>1, <1>2, <3>0 DEF CallsPlaced
    <3>2. calls'[j].graph = c.graph /\ calls'[j].path = c.path  BY <1>1, <3>0
    <3>3. GraphAt(c.path)' = GraphAt(c.path)  BY <1>5
    <3>4. calls'[j].graph = GraphAt(calls[j].path)'  BY <3>1, <3>2, <3>3 DEF GraphAt
    <3> QED  BY <1>4, <3>1, <3>2, <3>4
  <2> QED  BY <2>1, <2>2 DEF CallsPlaced
<1>7. TablesPlaced'
  <2> SUFFICES ASSUME NEW t \in Tables
               PROVE  tasks'[t.exit].path = tasks'[t.entry].path /\ Filled(t.entry)'
      BY <1>4 DEF TablesPlaced
  <2>1. /\ tasks[t.exit].path = tasks[t.entry].path
        /\ Filled(t.entry) \/ Top.path = tasks[t.entry].path
      BY <1>2 DEF TablesPlaced
  <2>2. PICK path : path = tasks[t.entry].path  OBVIOUS
  <2>3. ASSUME NEW k \in TaskIds(GraphAt(path))
        PROVE  \E w \in DOMAIN tasks' : tasks'[w].kind # "exit" /\ tasks'[w].path = Append(path, k)
    <3>1. CASE Filled(t.entry)
      <4>1. PICK w \in DOMAIN tasks : tasks[w].kind # "exit" /\ tasks[w].path = Append(path, k)
          BY <2>2, <2>3, <3>1 DEF Filled
      <4> QED  BY <1>1, <4>1
    <3>2. CASE p = path
      <4>1. k \in TaskIds(g)  BY <1>1, <2>3, <3>2
      <4>2. tasks'[n + k].kind # "exit" /\ tasks'[n + k].path = Append(path, k)  BY <1>1, <3>2, <4>1
      <4> QED  BY <1>1, <4>1, <4>2
    <3> QED  BY <1>0, <2>1, <2>2, <3>1, <3>2
  <2>4. TaskIds(GraphAt(path))' = TaskIds(GraphAt(path))
    <3>1. PICK h : h = GraphAt(path)  OBVIOUS
    <3>2. GraphAt(path)' = h /\ TaskIds(h)' = TaskIds(h)  BY <1>5, <3>1
    <3> QED  BY <3>1, <3>2 DEF TaskIds
  <2>5. tasks'[t.entry].path = path  BY <1>4, <2>2
  <2>6. TaskIds(GraphAt(tasks[t.entry].path))' = TaskIds(GraphAt(path))'
      BY <2>5 DEF GraphAt, TaskIds
  <2>7. Filled(t.entry)'  BY <2>3, <2>4, <2>5, <2>6 DEF Filled
  <2> QED  BY <1>4, <2>1, <2>7
<1>8. HaveTables'
  <2> SUFFICES ASSUME NEW v \in DOMAIN tasks'
               PROVE  /\ tasks'[v].kind = "exit" => \E t \in Tables : t.exit = v
                      /\ Front(tasks'[v].path) # <<>> =>
                            \E t \in Tables : tasks'[t.entry].path = Front(tasks'[v].path)
                      /\ tasks'[v].kind = "entry" =>
                            \/ \E t \in Tables : t.entry = v
                            \/ \E j \in DOMAIN calls' : /\ Front(tasks'[v].path) = calls'[j].path
                                                        /\ Last(tasks'[v].path) >= calls'[j].next
      BY <1>4 DEF HaveTables
  <2>1. CASE v \in DOMAIN tasks
    <3>1. tasks'[v] = tasks[v]  BY <1>1, <2>1
    <3>2. ASSUME NEW t \in Tables, tasks[t.entry].path = Front(tasks[v].path)
          PROVE  tasks'[t.entry].path = Front(tasks'[v].path)
        BY <1>4, <3>1, <3>2
    <3>3. \A j \in DOMAIN calls : /\ j \in DOMAIN calls' /\ calls'[j].path = calls[j].path
                                  /\ calls'[j].next = calls[j].next
        BY <1>1
    <3> QED  BY <1>2, <2>1, <3>1, <3>2, <3>3 DEF HaveTables
  <2>2. CASE v \notin DOMAIN tasks
    <3>1. PICK k \in TaskIds(g) : v = n + k  BY <1>1, <2>2
    <3>2. /\ Front(tasks'[v].path) = p /\ Last(tasks'[v].path) = k /\ tasks'[v].kind # "exit"
        BY <1>1, <3>1
    <3>3. p # <<>> => \E t \in Tables : tasks[t.entry].path = p
      <4>1. L \in DOMAIN calls /\ calls[L].path = p  BY <1>0, <1>1
      <4> QED  BY <1>2, <4>1 DEF CallsPlaced
    <3>4. L \in DOMAIN calls' /\ calls'[L].path = p /\ calls'[L].next = 0 /\ k >= 0
      <4>1. L \in 1 .. L /\ k \in Nat  BY <1>1
      <4> QED  BY <1>0, <1>1, <4>1
    <3> QED  BY <1>4, <3>2, <3>3, <3>4
  <2> QED  BY <2>1, <2>2
<1> QED  BY <1>6, <1>7, <1>8

\* The order of the graph becomes the edges of the tasks that are copied (336-345).
LEMMA CopyTasksEdges ==
    ASSUME Nested, Resolving, Wiring, CopyTasks, OrderAsStated
    PROVE  EdgesOK'
<1>0. PICK n, g, p, L : n = NumTasks /\ g = Top.graph /\ p = Top.path /\ L = Len(calls)  OBVIOUS
<1>1. /\ n \in Nat /\ DOMAIN tasks = 0 .. n - 1 /\ g = GraphAt(p) /\ g \in TaskGraphs
      /\ TaskIds(g) \subseteq Nat
      /\ UNCHANGED <<taskData, subGraphData, Vertices, stated>>
      /\ \A v \in DOMAIN tasks : v \in DOMAIN tasks' /\ tasks'[v] = tasks[v]
      /\ \A v \in DOMAIN tasks : Front(tasks[v].path) # p
      /\ \A k \in TaskIds(g) :
            /\ n + k \in DOMAIN tasks' \ DOMAIN tasks
            /\ Front(tasks'[n + k].path) = p
            /\ Last(tasks'[n + k].path) = k
            /\ tasks'[n + k].kind = IF SubGraph(g, k) = NoGraph THEN "task" ELSE "entry"
      /\ \A v \in DOMAIN tasks' \ DOMAIN tasks : \E k \in TaskIds(g) : v = n + k
    BY <1>0, CopyTasksAt
<1>2. EdgesOK /\ NoCallActive  BY DEF Wiring
<1>3. TablesOK  BY DEF Resolving
<1>4. Tables' = Tables /\ \A t \in Tables : t.entry \in DOMAIN tasks
    BY <1>1, <1>3 DEF Tables, TablesOK, TableOK
<1>5. \A v : ExitsAround(v)' = ExitsAround(v)  BY <1>4 DEF ExitsAround
<1>6. ASSUME NEW k \in TaskIds(g)
      PROVE  Edges(taskOrderGraph[g], k) = {i \in TaskIds(g) : <<k, i>> \in stated[g].order}
    BY <1>1, <1>2 DEF OrderAsStated, NoCallActive
<1>7. ASSUME NEW v \in Vertices
      PROVE  taskGraph'[v] = IF v - n \in TaskIds(g)
                             THEN taskGraph[v] \cup {n + k : k \in Edges(taskOrderGraph[g], v - n)}
                             ELSE taskGraph[v]
  <2>1. taskGraph' = [u \in Vertices |->
            IF u - n \in TaskIds(g)
            THEN taskGraph[u] \cup {n + k : k \in Edges(taskOrderGraph[g], u - n)}
            ELSE taskGraph[u]]
      BY <1>0 DEF CopyTasks
  <2> QED  BY <2>1
<1>8. ASSUME NEW v \in DOMAIN tasks
      PROVE  v - n \notin TaskIds(g) /\ StatedNext(v)' = StatedNext(v)
  <2>1. v - n \notin Nat  BY <1>1
  <2>2. Front(tasks[v].path) # p /\ tasks'[v] = tasks[v] /\ v \in DOMAIN tasks'  BY <1>1
  <2>3. PICK path, order : path = Front(tasks[v].path) /\ order = stated[GraphAt(path)].order  OBVIOUS
  <2>4. stated'[GraphAt(path)'].order = order  BY <1>1, <2>3, GraphAtStays
  <2>5. \A w \in DOMAIN tasks' : Front(tasks'[w].path) = path => w \in DOMAIN tasks /\ tasks'[w] = tasks[w]
    <3>1. ASSUME NEW w \in DOMAIN tasks' \ DOMAIN tasks  PROVE Front(tasks'[w].path) # path
      <4>1. PICK k \in TaskIds(g) : w = n + k  BY <1>1
      <4> QED  BY <1>1, <2>2, <2>3, <4>1
    <3> QED  BY <1>1, <3>1
  <2>6. StatedNext(v) = {w \in DOMAIN tasks : /\ tasks[w].kind # "exit" /\ path = Front(tasks[w].path)
                                              /\ <<Last(tasks[v].path), Last(tasks[w].path)>> \in order}
      BY <2>3 DEF StatedNext, Siblings
  <2>7. Front(tasks'[v].path) = path /\ Last(tasks'[v].path) = Last(tasks[v].path)  BY <2>2, <2>3
  <2>8. GraphAt(Front(tasks[v].path))' = GraphAt(path)'  BY <2>7 DEF GraphAt
  <2>9. StatedNext(v)' = {w \in DOMAIN tasks' : /\ tasks'[w].kind # "exit" /\ path = Front(tasks'[w].path)
                                              /\ <<Last(tasks[v].path), Last(tasks'[w].path)>> \in order}
      BY <2>4, <2>7, <2>8 DEF StatedNext, Siblings
  <2>10. StatedNext(v)' = StatedNext(v)  BY <1>1, <2>5, <2>6, <2>9
  <2> QED  BY <1>1, <2>1, <2>10
<1>9. ASSUME NEW k \in TaskIds(g)
      PROVE  StatedNext(n + k)' = {n + i : i \in Edges(taskOrderGraph[g], k)}
  <2>1. PICK v, order : v = n + k /\ order = stated[g].order  OBVIOUS
  <2>2. Front(tasks'[v].path) = p /\ Last(tasks'[v].path) = k /\ v \in DOMAIN tasks'  BY <1>1, <2>1
  <2>3. GraphAt(Front(tasks[v].path))' = GraphAt(p)'  BY <2>2 DEF GraphAt
  <2>4. GraphAt(p)' = g /\ stated' = stated  BY <1>1, GraphAtStays
  <2>5. StatedNext(v)' = {w \in DOMAIN tasks' : /\ tasks'[w].kind # "exit" /\ p = Front(tasks'[w].path)
                                              /\ <<k, Last(tasks'[w].path)>> \in order}
      BY <2>1, <2>2, <2>3, <2>4 DEF StatedNext, Siblings
  <2>6. ASSUME NEW w
        PROVE  (w \in DOMAIN tasks' /\ tasks'[w].kind # "exit" /\ p = Front(tasks'[w].path)
                    /\ <<k, Last(tasks'[w].path)>> \in order)
               <=> \E i \in TaskIds(g) : w = n + i /\ <<k, i>> \in order
    <3>1. ASSUME w \in DOMAIN tasks', p = Front(tasks'[w].path), <<k, Last(tasks'[w].path)>> \in order
          PROVE  \E i \in TaskIds(g) : w = n + i /\ <<k, i>> \in order
      <4>1. w \notin DOMAIN tasks  BY <1>1, <3>1
      <4>2. PICK i \in TaskIds(g) : w = n + i  BY <1>1, <3>1, <4>1
      <4> QED  BY <1>1, <3>1, <4>2
    <3>2. ASSUME NEW i \in TaskIds(g), w = n + i, <<k, i>> \in order
          PROVE  /\ w \in DOMAIN tasks' /\ tasks'[w].kind # "exit" /\ p = Front(tasks'[w].path)
                 /\ <<k, Last(tasks'[w].path)>> \in order
        BY <1>1, <3>2
    <3> QED  BY <3>1, <3>2
  <2>7. {n + i : i \in Edges(taskOrderGraph[g], k)} = {n + i : i \in {i \in TaskIds(g) : <<k, i>> \in order}}
      BY <1>6, <2>1
  <2> QED  BY <2>1, <2>5, <2>6, <2>7
<1>10. ASSUME NEW t \in Tables, t.entry \in Vertices  PROVE taskGraph'[t.entry] = t.body \cup {t.exit}
  <2>1. t.entry - n \notin TaskIds(g)  BY <1>4, <1>8
  <2>2. taskGraph[t.entry] = t.body \cup {t.exit}  BY <1>2, <1>10 DEF EdgesOK
  <2> QED  BY <1>7, <1>10, <2>1, <2>2
<1>11. ASSUME NEW v \in Vertices, \A t \in Tables : t.entry # v
       PROVE  taskGraph'[v] = (IF v \in DOMAIN tasks' THEN StatedNext(v)' ELSE {}) \cup ExitsAround(v)
  <2>1. taskGraph[v] = (IF v \in DOMAIN tasks THEN StatedNext(v) ELSE {}) \cup ExitsAround(v)
      BY <1>2, <1>11 DEF EdgesOK
  <2>2. CASE v \in DOMAIN tasks
    <3>1. StatedNext(v)' = StatedNext(v) /\ taskGraph'[v] = taskGraph[v]  BY <1>7, <1>8, <1>11, <2>2
    <3> QED  BY <1>1, <2>1, <2>2, <3>1
  <2>3. CASE v \in DOMAIN tasks' /\ v \notin DOMAIN tasks
    <3>1. PICK k \in TaskIds(g) : v = n + k  BY <1>1, <2>3
    <3>2. v - n = k  BY <1>1, <3>1
    <3>3. taskGraph'[v] = taskGraph[v] \cup {n + i : i \in Edges(taskOrderGraph[g], k)}
        BY <1>7, <1>11, <3>1, <3>2
    <3> QED  BY <1>9, <2>1, <2>3, <3>1, <3>3
  <2>4. CASE v \notin DOMAIN tasks' /\ v \notin DOMAIN tasks
    <3>1. v \in Int
      <4>1. SizesFit  BY DEF Resolving
      <4> QED  BY <4>1 DEF SizesFit
    <3>2. v - n \notin TaskIds(g)
      <4>1. v = n + (v - n)  BY <1>1, <3>1
      <4> QED  BY <1>1, <2>4, <4>1
    <3> QED  BY <1>7, <1>11, <2>1, <2>4, <3>2
  <2> QED  BY <1>1, <2>2, <2>3, <2>4
<1> QED  BY <1>1, <1>4, <1>5, <1>10, <1>11 DEF EdgesOK

\* What is made of a task that stands for a sub-graph: an exit, the first one
\* there, and a table, whose body is yet to come.
ResolvesAt(n, g, p, L, k, sub, new, path, more) ==
    /\ n \in Nat /\ DOMAIN tasks = 0 .. n - 1 /\ p \in Seq(Nat) /\ g = GraphAt(p)
    /\ g \in TaskGraphs /\ TaskIds(g) \subseteq Nat
    /\ L \in Nat \ {0} /\ DOMAIN calls = 1 .. L /\ calls[L] = Top
    /\ Top.offset # -1 /\ k \in TaskIds(g) /\ k >= Top.next /\ SubGraph(g, k) = sub /\ sub # NoGraph
    /\ \A j \in TaskIds(g) : j >= Top.next /\ SubGraph(g, j) # NoGraph => k <= j
    /\ path = Append(p, k) /\ path \in Seq(Nat) /\ path # <<>> /\ Front(path) = p /\ Last(path) = k
    /\ sub = GraphAt(path)
    /\ new.entry \in DOMAIN tasks /\ new.exit = n /\ new.body = more /\ more \cap 0 .. n = {}
    /\ tasks[new.entry] = [path |-> path, kind |-> "entry"]
    /\ \A v \in DOMAIN tasks : Front(tasks[v].path) # path
    /\ \A v \in DOMAIN tasks : tasks[v].kind = "exit" => tasks[v].path # path
    /\ \A t \in Tables : /\ t.entry # new.entry /\ t.body \subseteq 0 .. n - 1
                         /\ t.entry \in DOMAIN tasks /\ t.exit \in DOMAIN tasks
                         /\ tasks[t.entry].kind = "entry" /\ tasks[t.exit].kind = "exit"
    /\ UNCHANGED <<taskData, stated, taskOrderGraph, Vertices>>
    /\ \A v \in DOMAIN tasks : v \in DOMAIN tasks' /\ tasks'[v] = tasks[v]
    /\ n \in DOMAIN tasks' /\ tasks'[n] = [path |-> path, kind |-> "exit"] /\ n \notin DOMAIN tasks
    /\ \A v \in DOMAIN tasks' \ DOMAIN tasks : v = n
    /\ Tables' = Tables \cup {new}
    /\ taskGraph' = Wired(new.entry, n, more)
    /\ exclusionGraph' = [exclusionGraph EXCEPT ![new.entry] = @ \cup {new.entry}, ![n] = @ \cup {n}]
    /\ DOMAIN calls' = 1 .. L + 1 /\ Len(calls') = L + 1
    /\ \A j \in 1 .. L : /\ calls'[j].path = calls[j].path /\ calls'[j].graph = calls[j].graph
                         /\ calls'[j].offset = calls[j].offset
                         /\ calls'[j].next = IF j = L THEN k + 1 ELSE calls[j].next
    /\ calls'[L + 1] = Call(sub, path)

LEMMA ResolveSubGraphAt ==
    ASSUME Nested, Resolving, Wiring, ResolveSubGraph, NEW n, n = NumTasks,
           NEW g, g = Top.graph, NEW p, p = Top.path, NEW L, L = Len(calls)
    PROVE  \E k, sub, new, path, more : ResolvesAt(n, g, p, L, k, sub, new, path, more)
<1>1. /\ ResolveTypes /\ CallsOK /\ TablesOK /\ n \in Nat /\ DOMAIN tasks = 0 .. n - 1
      /\ subGraphData \in Seq(SubGraphRecord)
    BY DEF Resolving, ResolveTypes
<1>2. PICK k \in TaskIds(g), sub \in TaskGraphs :
        /\ Top.offset # -1 /\ k \in Nat /\ k >= Top.next
        /\ SubGraph(g, k) = sub /\ sub # NoGraph /\ Len(taskData[sub]) \in Nat \ {0}
        /\ \A j \in TaskIds(g) : j >= Top.next /\ SubGraph(g, j) # NoGraph => k <= j
        /\ UNCHANGED <<taskData, Vertices>> /\ DOMAIN tasks' = 0 .. n
        /\ \A v \in DOMAIN tasks : v \in DOMAIN tasks' /\ tasks'[v] = tasks[v]
        /\ tasks'[n] = [path |-> Append(p, k), kind |-> "exit"]
        /\ \A v \in DOMAIN tasks' \ DOMAIN tasks : v = n
        /\ subGraphData' = Append(subGraphData,
                [entry |-> Top.offset + k, exit |-> n, body |-> n + 1 .. n + Len(taskData[sub])])
        /\ Len(calls') = L + 1 /\ DOMAIN calls' = 1 .. L + 1
        /\ \A j \in 1 .. L : j # L => calls'[j] = calls[j]
        /\ calls'[L] = [Top EXCEPT !.next = k + 1]
        /\ calls'[L + 1] = Call(sub, Append(p, k))
    BY ResolveSubGraphEnters
<1>3. /\ L \in Nat \ {0} /\ DOMAIN calls = 1 .. L /\ Top = calls[L] /\ p \in Seq(Nat) /\ L \in DOMAIN calls
      /\ g \in TaskGraphs /\ \A j \in DOMAIN calls : calls[j] \in CallRecord
    BY <1>1, TopCall
<1>4. PICK path, m, more, new :
        /\ path = Append(p, k) /\ m = Len(taskData[sub]) /\ more = n + 1 .. n + m
        /\ new = [entry |-> Top.offset + k, exit |-> n, body |-> more]
    OBVIOUS
<1>5. new.entry = Top.offset + k /\ new.exit = n /\ new.body = more  BY <1>4
<1>6. path \in Seq(Nat) /\ path # <<>> /\ Front(path) = p /\ Last(path) = k
    BY <1>2, <1>3, <1>4, PathSplits
<1>7. new.entry \in DOMAIN tasks /\ tasks[new.entry] = [path |-> path, kind |-> "entry"]
  <2>1. CallOK(Top, L = L)  BY <1>1, <1>3 DEF CallsOK
  <2> QED  BY <1>2, <1>4, <1>5, <2>1 DEF CallOK
<1>8. g = GraphAt(p) /\ sub = GraphAt(path)
  <2>1. g = GraphAt(p)  BY <1>3 DEF Wiring, CallsPlaced
  <2> QED  BY <1>2, <1>3, <1>4, <2>1, GraphAtSteps
<1>9. \A v \in DOMAIN tasks : Front(tasks[v].path) # path
    BY <1>1, <1>2, <1>4, NothingBelow
<1>10. ASSUME NEW t \in Tables
       PROVE  /\ t.entry \in DOMAIN tasks /\ t.exit \in DOMAIN tasks
              /\ tasks[t.entry].kind = "entry" /\ tasks[t.exit].kind = "exit"
              /\ t.body \subseteq 0 .. n - 1
              /\ tasks[t.exit].path = tasks[t.entry].path /\ Filled(t.entry)
  <2>1. TableOK(t)  BY <1>1 DEF TablesOK, Tables
  <2>2. tasks[t.exit].path = tasks[t.entry].path /\ Filled(t.entry)
      BY <1>2 DEF Wiring, TablesPlaced
  <2>3. PICK mm \in Nat \ {0} : t.body = t.exit + 1 .. t.exit + mm /\ t.exit + mm < n
      BY <1>2, <2>1 DEF TableOK
  <2>4. t.exit \in Nat  BY <1>1, <2>1 DEF TableOK
  <2>5. t.body \subseteq 0 .. n - 1  BY <1>1, <2>3, <2>4
  <2> QED  BY <2>1, <2>2, <2>5 DEF TableOK
<1>11. ASSUME NEW v \in DOMAIN tasks, tasks[v].kind = "exit"  PROVE tasks[v].path # path
  <2>1. PICK t \in Tables : t.exit = v  BY <1>11 DEF Wiring, HaveTables
  <2>2. SUFFICES ASSUME tasks[t.entry].path = path  PROVE FALSE  BY <1>10, <2>1
  <2>3. 0 \in TaskIds(GraphAt(path))  BY <1>2, <1>8 DEF TaskIds
  <2>4. PICK w \in DOMAIN tasks : tasks[w].path = Append(path, 0)
      BY <1>10, <2>2, <2>3 DEF Filled
  <2>5. Front(Append(path, 0)) = path  BY <1>6, PathSplits
  <2> QED  BY <1>9, <2>4, <2>5
<1>12. \A t \in Tables : t.entry # new.entry  BY <1>7, <1>10, <1>11
<1>13. Tables' = Tables \cup {new}
  <2>1. subGraphData' = Append(subGraphData, new)  BY <1>2, <1>4
  <2>2. ToSet(Append(subGraphData, new)) = ToSet(subGraphData) \cup {new}  BY <1>1, LastOfAppend
  <2> QED  BY <2>1, <2>2 DEF ToSet, Tables
<1>14. /\ taskGraph' = Wired(new.entry, n, more) /\ UNCHANGED <<stated, taskOrderGraph>>
       /\ exclusionGraph' = [exclusionGraph EXCEPT ![new.entry] = @ \cup {new.entry}, ![n] = @ \cup {n}]
  <2>1. k = Min(SubGraphsLeft)
    <3>1. SubGraphsLeft = {j \in TaskIds(g) : j >= Top.next /\ SubGraph(g, j) # NoGraph}
        BY DEF SubGraphsLeft
    <3>2. SubGraphsLeft \subseteq Nat  BY <1>3, <3>1, TaskIdsOf
    <3>3. k \in SubGraphsLeft /\ \A j \in SubGraphsLeft : k <= j  BY <1>2, <3>1
    <3>4. Min(SubGraphsLeft) \in SubGraphsLeft /\ \A j \in SubGraphsLeft : Min(SubGraphsLeft) <= j
        BY <3>2, <3>3, MinOfNat
    <3>5. PICK least : least = Min(SubGraphsLeft)  OBVIOUS
    <3>6. least \in Nat /\ k \in Nat /\ least <= k /\ k <= least  BY <3>2, <3>3, <3>4, <3>5
    <3>7. k = least  BY ONLY <3>6
    <3> QED  BY <3>5, <3>7
  <2>2. /\ taskGraph' = Wired(Top.offset + k, n, BodyAfter(sub, n))
        /\ exclusionGraph' = [exclusionGraph EXCEPT ![Top.offset + k] = @ \cup {Top.offset + k},
                                                    ![n] = @ \cup {n}]
        /\ UNCHANGED <<stated, taskOrderGraph>>
      BY <1>2, <2>1 DEF ResolveSubGraph, userVars
  <2>3. BodyAfter(sub, n) = more  BY <1>4 DEF BodyAfter
  <2> QED  BY <1>5, <2>2, <2>3
<1>15. more \cap 0 .. n = {} /\ TaskIds(g) \subseteq Nat /\ n \in DOMAIN tasks' /\ n \notin DOMAIN tasks
  <2>1. (n + 1 .. n + m) \cap 0 .. n = {} /\ n \in 0 .. n /\ n \notin 0 .. n - 1
    <3>1. n \in Nat /\ m \in Nat  BY <1>1, <1>2, <1>4
    <3> QED  BY ONLY <3>1
  <2>2. TaskIds(g) \subseteq Nat  BY <1>3, TaskIdsOf
  <2>3. more = n + 1 .. n + m /\ DOMAIN tasks' = 0 .. n /\ DOMAIN tasks = 0 .. n - 1  BY <1>1, <1>2, <1>4
  <2> QED  BY ONLY <2>1, <2>2, <2>3
<1>16. \A j \in 1 .. L : /\ calls'[j].path = calls[j].path /\ calls'[j].graph = calls[j].graph
                         /\ calls'[j].offset = calls[j].offset
                         /\ calls'[j].next = IF j = L THEN k + 1 ELSE calls[j].next
  <2> SUFFICES ASSUME NEW j \in 1 .. L
               PROVE  /\ calls'[j].path = calls[j].path /\ calls'[j].graph = calls[j].graph
                      /\ calls'[j].offset = calls[j].offset
                      /\ calls'[j].next = IF j = L THEN k + 1 ELSE calls[j].next
      OBVIOUS
  <2>1. CASE j # L  BY <1>2, <2>1
  <2>2. CASE j = L
    <3>1. calls[j] \in CallRecord /\ calls'[j] = [calls[j] EXCEPT !.next = k + 1]
        BY <1>2, <1>3, <2>2
    <3> QED  BY <2>2, <3>1 DEF CallRecord
  <2> QED  BY <2>1, <2>2
<1>17. ResolvesAt(n, g, p, L, k, sub, new, path, more)
  <2>1. /\ n \in Nat /\ DOMAIN tasks = 0 .. n - 1 /\ p \in Seq(Nat) /\ g = GraphAt(p)
        /\ g \in TaskGraphs /\ TaskIds(g) \subseteq Nat
        /\ L \in Nat \ {0} /\ DOMAIN calls = 1 .. L /\ calls[L] = Top
        /\ path = Append(p, k) /\ path \in Seq(Nat) /\ path # <<>> /\ Front(path) = p /\ Last(path) = k
        /\ sub = GraphAt(path)
      BY <1>1, <1>3, <1>4, <1>6, <1>8, <1>15
  <2>2. /\ Top.offset # -1 /\ k \in TaskIds(g) /\ k >= Top.next /\ SubGraph(g, k) = sub /\ sub # NoGraph
        /\ \A j \in TaskIds(g) : j >= Top.next /\ SubGraph(g, j) # NoGraph => k <= j
      BY <1>2
  <2>3. /\ UNCHANGED <<taskData, stated, taskOrderGraph, Vertices>>
        /\ \A v \in DOMAIN tasks : v \in DOMAIN tasks' /\ tasks'[v] = tasks[v]
        /\ tasks'[n] = [path |-> path, kind |-> "exit"]
        /\ \A v \in DOMAIN tasks' \ DOMAIN tasks : v = n
        /\ DOMAIN calls' = 1 .. L + 1 /\ Len(calls') = L + 1
        /\ calls'[L + 1] = Call(sub, path)
      BY <1>2, <1>4, <1>14
  <2>4. \A t \in Tables : /\ t.entry # new.entry /\ t.body \subseteq 0 .. n - 1
                          /\ t.entry \in DOMAIN tasks /\ t.exit \in DOMAIN tasks
                          /\ tasks[t.entry].kind = "entry" /\ tasks[t.exit].kind = "exit"
      BY <1>10, <1>12
  <2> QED  BY <1>5, <1>7, <1>9, <1>11, <1>13, <1>14, <1>15, <1>16, <2>1, <2>2, <2>3, <2>4
           DEF ResolvesAt
<1> QED  BY <1>17

LEMMA ResolveSubGraphPlaces ==
    ASSUME Nested, Resolving, Wiring, ResolveSubGraph
    PROVE  PlacesOK'
<1>0. PICK n, g, p, L : n = NumTasks /\ g = Top.graph /\ p = Top.path /\ L = Len(calls)  OBVIOUS
<1>1. \E k, sub, new, path, more : ResolvesAt(n, g, p, L, k, sub, new, path, more)
    BY <1>0, ResolveSubGraphAt
<1>2. PICK k, sub, new, path, more : ResolvesAt(n, g, p, L, k, sub, new, path, more)  BY <1>1
<1>3. /\ g = GraphAt(p) /\ g \in TaskGraphs /\ k \in TaskIds(g) /\ SubGraph(g, k) # NoGraph
      /\ Front(path) = p /\ Last(path) = k
      /\ \A v \in DOMAIN tasks : tasks[v].kind = "exit" => tasks[v].path # path
      /\ UNCHANGED taskData
      /\ \A v \in DOMAIN tasks : v \in DOMAIN tasks' /\ tasks'[v] = tasks[v]
      /\ tasks'[n] = [path |-> path, kind |-> "exit"]
      /\ \A v \in DOMAIN tasks' \ DOMAIN tasks : v = n
    BY <1>2 DEF ResolvesAt
<1>4. PlacesOK  BY DEF Wiring
<1>5. ASSUME NEW v \in DOMAIN tasks'  PROVE PlaceOK(tasks[v])'
  <2>0. PICK task : task = tasks'[v]  OBVIOUS
  <2>1. PlaceOK(task)
    <3>1. CASE v \in DOMAIN tasks  BY <1>3, <1>4, <2>0, <3>1 DEF PlacesOK
    <3>2. CASE v \notin DOMAIN tasks
      <4>1. task = [path |-> path, kind |-> "exit"]  BY <1>3, <2>0, <3>2
      <4> QED  BY <1>3, <4>1 DEF PlaceOK
    <3> QED  BY <3>1, <3>2
  <2>2. PlaceOK(task)'  BY <1>3, <2>1, PlaceStays
  <2> QED  BY <2>0, <2>2 DEF PlaceOK
<1>6. ASSUME NEW v \in DOMAIN tasks', NEW w \in DOMAIN tasks', tasks'[v].path = tasks'[w].path,
             tasks'[v].kind = "exit" <=> tasks'[w].kind = "exit"
      PROVE  v = w
  <2>1. ASSUME NEW x \in DOMAIN tasks', NEW y \in DOMAIN tasks', x \in DOMAIN tasks, y \notin DOMAIN tasks,
               tasks'[x].path = tasks'[y].path, tasks'[x].kind = "exit" <=> tasks'[y].kind = "exit"
        PROVE  FALSE
    <3>1. tasks'[y].path = path /\ tasks'[y].kind = "exit"  BY <1>3, <2>1
    <3>2. tasks'[x] = tasks[x]  BY <1>3, <2>1
    <3> QED  BY <1>3, <2>1, <3>1, <3>2
  <2>2. CASE v \in DOMAIN tasks /\ w \in DOMAIN tasks
    <3>1. tasks'[v] = tasks[v] /\ tasks'[w] = tasks[w]  BY <1>3, <2>2
    <3> QED  BY <1>4, <1>6, <2>2, <3>1 DEF PlacesOK
  <2>3. CASE v \notin DOMAIN tasks /\ w \notin DOMAIN tasks  BY <1>3, <2>3
  <2> QED  BY <1>6, <2>1, <2>2, <2>3
<1> QED  BY <1>5, <1>6 DEF PlacesOK

LEMMA ResolveSubGraphPlaced ==
    ASSUME Nested, Resolving, Wiring, ResolveSubGraph
    PROVE  CallsPlaced' /\ TablesPlaced' /\ HaveTables'
<1>0. PICK n, g, p, L : n = NumTasks /\ g = Top.graph /\ p = Top.path /\ L = Len(calls)  OBVIOUS
<1>1. \E k, sub, new, path, more : ResolvesAt(n, g, p, L, k, sub, new, path, more)
    BY <1>0, ResolveSubGraphAt
<1>2. PICK k, sub, new, path, more : ResolvesAt(n, g, p, L, k, sub, new, path, more)  BY <1>1
<1>3. /\ n \in Nat /\ g = GraphAt(p) /\ TaskIds(g) \subseteq Nat
      /\ L \in Nat \ {0} /\ DOMAIN calls = 1 .. L /\ calls[L] = Top
      /\ Top.offset # -1 /\ k \in TaskIds(g) /\ k >= Top.next
      /\ \A j \in TaskIds(g) : j >= Top.next /\ SubGraph(g, j) # NoGraph => k <= j
      /\ path = Append(p, k) /\ Front(path) = p /\ Last(path) = k /\ sub = GraphAt(path)
      /\ new.entry \in DOMAIN tasks /\ new.exit = n
      /\ tasks[new.entry] = [path |-> path, kind |-> "entry"]
      /\ UNCHANGED taskData
      /\ \A v \in DOMAIN tasks : v \in DOMAIN tasks' /\ tasks'[v] = tasks[v]
      /\ n \in DOMAIN tasks' /\ tasks'[n] = [path |-> path, kind |-> "exit"]
      /\ \A v \in DOMAIN tasks' \ DOMAIN tasks : v = n
      /\ Tables' = Tables \cup {new}
      /\ DOMAIN calls' = 1 .. L + 1 /\ Len(calls') = L + 1
      /\ \A j \in 1 .. L : /\ calls'[j].path = calls[j].path /\ calls'[j].graph = calls[j].graph
                           /\ calls'[j].offset = calls[j].offset
                           /\ calls'[j].next = IF j = L THEN k + 1 ELSE calls[j].next
      /\ calls'[L + 1] = Call(sub, path)
      /\ \A t \in Tables : t.entry \in DOMAIN tasks /\ t.exit \in DOMAIN tasks
    BY <1>2 DEF ResolvesAt
<1>4. CallsPlaced /\ TablesPlaced /\ HaveTables /\ PlacesOK  BY DEF Wiring
<1>5. ResolveTypes  BY DEF Resolving
<1>6. \A path2 : GraphAt(path2)' = GraphAt(path2)  BY <1>3, GraphAtStays
<1>7. \A t \in Tables : tasks'[t.entry] = tasks[t.entry] /\ tasks'[t.exit] = tasks[t.exit]
    BY <1>3
<1>8. tasks'[new.entry].path = path /\ tasks'[new.exit].path = path  BY <1>3
<1>9. CallsPlaced'
  <2>1. calls'[1].path = <<>> /\ calls'[1].offset = 0
    <3>1. 1 \in 1 .. L  BY <1>3
    <3>2. calls[1].path = <<>> /\ calls[1].offset \in {-1, 0}  BY <1>4 DEF CallsPlaced
    <3>3. calls[1].offset # -1
      <4>1. calls[1].offset = -1 => NumTasks = 0  BY <1>4 DEF CallsPlaced
      <4>2. NumTasks # 0
        <5>1. DOMAIN tasks = 0 .. n - 1  BY <1>0, <1>5 DEF ResolveTypes
        <5> QED  BY <1>0, <1>3, <5>1
      <4> QED  BY <4>1, <4>2
    <3> QED  BY <1>3, <3>1, <3>2, <3>3
  <2>2. ASSUME NEW j \in DOMAIN calls'
        PROVE  /\ calls'[j].graph = GraphAt(calls[j].path)'
               /\ calls'[j].path # <<>> => \E t \in Tables' : tasks'[t.entry].path = calls'[j].path
    <3>1. CASE j \in 1 .. L
      <4>0. PICK c : c = calls[j]  OBVIOUS
      <4>1. c.graph = GraphAt(c.path) /\ (c.path # <<>> => \E t \in Tables : tasks[t.entry].path = c.path)
          BY <1>3, <1>4, <3>1, <4>0 DEF CallsPlaced
      <4>2. calls'[j].graph = c.graph /\ calls'[j].path = c.path  BY <1>3, <3>1, <4>0
      <4>3. GraphAt(c.path)' = GraphAt(c.path)  BY <1>6
      <4>4. calls'[j].graph = GraphAt(calls[j].path)'  BY <4>1, <4>2, <4>3 DEF GraphAt
      <4> QED  BY <1>3, <1>7, <4>1, <4>2, <4>4
    <3>2. CASE j = L + 1
      <4>1. calls'[j].graph = sub /\ calls'[j].path = path  BY <1>3, <3>2 DEF Call
      <4>2. GraphAt(path)' = sub  BY <1>3, <1>6
      <4>3. calls'[j].graph = GraphAt(calls[j].path)'  BY <4>1, <4>2 DEF GraphAt
      <4> QED  BY <1>3, <1>8, <4>1, <4>3
    <3> QED  BY <1>3, <3>1, <3>2
  <2> QED  BY <2>1, <2>2 DEF CallsPlaced
<1>10. TablesPlaced'
  <2>1. ASSUME NEW t \in Tables
        PROVE  tasks'[t.exit].path = tasks'[t.entry].path /\ Filled(t.entry)'
    <3>1. tasks[t.exit].path = tasks[t.entry].path /\ Filled(t.entry)  BY <1>3, <1>4 DEF TablesPlaced
    <3>2. PICK q : q = tasks[t.entry].path  OBVIOUS
    <3>3. \A i \in TaskIds(GraphAt(q)) :
            \E w \in DOMAIN tasks' : tasks'[w].kind # "exit" /\ tasks'[w].path = Append(q, i)
      <4> SUFFICES ASSUME NEW i \in TaskIds(GraphAt(q))
                   PROVE  \E w \in DOMAIN tasks' : tasks'[w].kind # "exit" /\ tasks'[w].path = Append(q, i)
          OBVIOUS
      <4>1. PICK w \in DOMAIN tasks : tasks[w].kind # "exit" /\ tasks[w].path = Append(q, i)
          BY <3>1, <3>2 DEF Filled
      <4> QED  BY <1>3, <4>1
    <3>4. TaskIds(GraphAt(tasks[t.entry].path))' = TaskIds(GraphAt(q))
      <4>1. tasks'[t.entry].path = q  BY <1>7, <3>2
      <4>2. GraphAt(tasks[t.entry].path)' = GraphAt(q)'  BY <4>1 DEF GraphAt
      <4>3. PICK h : h = GraphAt(q)  OBVIOUS
      <4>4. TaskIds(h)' = TaskIds(h) /\ GraphAt(q)' = h  BY <1>3, <1>6, <4>3, GraphStays
      <4> QED  BY <4>2, <4>3, <4>4 DEF TaskIds
    <3> QED  BY <1>7, <3>1, <3>2, <3>3, <3>4 DEF Filled
  <2>2. Top'.offset = -1 /\ Top'.path = path
    <3>1. Top' = Call(sub, path)  BY <1>3 DEF Top, Last
    <3> QED  BY <3>1 DEF Call
  <2> QED  BY <1>3, <1>8, <2>1, <2>2 DEF TablesPlaced
<1>11. HaveTables'
  <2> SUFFICES ASSUME NEW v \in DOMAIN tasks'
               PROVE  /\ tasks'[v].kind = "exit" => \E t \in Tables' : t.exit = v
                      /\ Front(tasks'[v].path) # <<>> =>
                            \E t \in Tables' : tasks'[t.entry].path = Front(tasks'[v].path)
                      /\ tasks'[v].kind = "entry" =>
                            \/ \E t \in Tables' : t.entry = v
                            \/ \E j \in DOMAIN calls' : /\ Front(tasks'[v].path) = calls'[j].path
                                                        /\ Last(tasks'[v].path) >= calls'[j].next
      BY DEF HaveTables
  <2>1. CASE v \in DOMAIN tasks
    <3>1. tasks'[v] = tasks[v]  BY <1>3, <2>1
    <3>2. tasks[v].kind = "exit" => \E t \in Tables' : t.exit = v  BY <1>3, <1>4, <2>1 DEF HaveTables
    <3>3. Front(tasks[v].path) # <<>> => \E t \in Tables' : tasks'[t.entry].path = Front(tasks[v].path)
        BY <1>3, <1>4, <1>7, <2>1, SMTT(20) DEF HaveTables
    <3>4. ASSUME tasks[v].kind = "entry", ~\E t \in Tables' : t.entry = v
          PROVE  \E j \in DOMAIN calls' : /\ Front(tasks[v].path) = calls'[j].path
                                          /\ Last(tasks[v].path) >= calls'[j].next
      <4>1. PICK j \in DOMAIN calls : /\ Front(tasks[v].path) = calls[j].path
                                      /\ Last(tasks[v].path) >= calls[j].next
          BY <1>3, <1>4, <2>1, <3>4 DEF HaveTables
      <4>2. CASE j # L
        <5>1. calls'[j].path = calls[j].path /\ calls'[j].next = calls[j].next /\ j \in DOMAIN calls'
            BY <1>3, <4>2
        <5> QED  BY <4>1, <5>1
      <4>3. CASE j = L
        <5>0. PICK i, q : i = Last(tasks[v].path) /\ q = tasks[v].path  OBVIOUS
        <5>1. Front(q) = p /\ i >= Top.next /\ q = Append(p, i)
          <6>1. Front(tasks[v].path) = p /\ i >= Top.next  BY <1>0, <1>3, <4>1, <4>3, <5>0
          <6>2. tasks[v].path = Append(Front(tasks[v].path), Last(tasks[v].path))  BY <1>5, <2>1, PathsOf
          <6> QED  BY <5>0, <6>1, <6>2
        <5>2. i \in TaskIds(g) /\ SubGraph(g, i) # NoGraph
          <6>1. PlaceOK(tasks[v])  BY <1>4, <2>1 DEF PlacesOK
          <6> QED  BY <1>3, <3>4, <5>0, <5>1, <6>1 DEF PlaceOK
        <5>3. k <= i  BY <1>3, <5>1, <5>2
        <5>4. i # k
          <6>1. SUFFICES ASSUME i = k  PROVE FALSE  OBVIOUS
          <6>2. tasks[v].path = tasks[new.entry].path /\ tasks[new.entry].kind = "entry"
              BY <1>3, <5>0, <5>1, <6>1
          <6>3. v = new.entry  BY <1>3, <1>4, <2>1, <3>4, <6>2 DEF PlacesOK
          <6> QED  BY <1>3, <3>4, <6>3
        <5>5. i >= k + 1
          <6>1. i \in Nat /\ k \in Nat  BY <1>3, <5>2
          <6> QED  BY <5>3, <5>4, <6>1
        <5>6. L \in DOMAIN calls' /\ calls'[L].path = p /\ calls'[L].next = k + 1
          <6>1. L \in 1 .. L + 1 /\ L \in 1 .. L  BY <1>3
          <6> QED  BY <1>0, <1>3, <6>1
        <5> QED  BY <5>0, <5>1, <5>5, <5>6
      <4> QED  BY <4>2, <4>3
    <3> QED  BY <3>1, <3>2, <3>3, <3>4
  <2>2. CASE v \notin DOMAIN tasks
    <3>0. PICK task : task = tasks'[v]  OBVIOUS
    <3>4. v = n /\ task = [path |-> path, kind |-> "exit"]  BY <1>3, <2>2, <3>0
    <3>5. task.path = path /\ task.kind = "exit"  BY ONLY <3>4
    <3>6. Front(path) = p  BY <1>3
    <3>1. v = n /\ tasks'[v].kind = "exit" /\ Front(tasks'[v].path) = p
        BY ONLY <3>0, <3>4, <3>5, <3>6
    <3>2. p # <<>> => \E t \in Tables : tasks[t.entry].path = p
      <4>1. L \in DOMAIN calls /\ calls[L].path = p  BY <1>0, <1>3
      <4> QED  BY <1>4, <4>1 DEF CallsPlaced
    <3> QED  BY <1>3, <1>7, <3>1, <3>2
  <2> QED  BY <2>1, <2>2
<1> QED  BY <1>9, <1>10, <1>11

\* The entry, the exit and the body are wired (370-398).
LEMMA ResolveSubGraphEdges ==
    ASSUME Nested, Resolving, Wiring, ResolveSubGraph
    PROVE  EdgesOK'
<1>0. PICK n, g, p, L : n = NumTasks /\ g = Top.graph /\ p = Top.path /\ L = Len(calls)  OBVIOUS
<1>1. \E k, sub, new, path, more : ResolvesAt(n, g, p, L, k, sub, new, path, more)
    BY <1>0, ResolveSubGraphAt
<1>2. PICK k, sub, new, path, more : ResolvesAt(n, g, p, L, k, sub, new, path, more)  BY <1>1
<1>3. PICK entry : entry = new.entry  OBVIOUS
<1>4. /\ n \in Nat /\ DOMAIN tasks = 0 .. n - 1
      /\ entry \in DOMAIN tasks /\ new.exit = n /\ new.body = more /\ more \cap 0 .. n = {}
      /\ tasks[entry] = [path |-> path, kind |-> "entry"]
      /\ \A t \in Tables : /\ t.entry # entry /\ t.body \subseteq 0 .. n - 1
                           /\ t.entry \in DOMAIN tasks /\ t.exit \in DOMAIN tasks
                           /\ tasks[t.entry].kind = "entry" /\ tasks[t.exit].kind = "exit"
      /\ UNCHANGED <<taskData, stated, Vertices>>
      /\ \A v \in DOMAIN tasks : v \in DOMAIN tasks' /\ tasks'[v] = tasks[v]
      /\ n \in DOMAIN tasks' /\ tasks'[n] = [path |-> path, kind |-> "exit"] /\ n \notin DOMAIN tasks
      /\ \A v \in DOMAIN tasks' \ DOMAIN tasks : v = n
      /\ Tables' = Tables \cup {new}
      /\ taskGraph' = Wired(entry, n, more)
    BY <1>2, <1>3 DEF ResolvesAt
<1>5. EdgesOK  BY DEF Wiring
<1>6. PICK size \in Nat : Vertices = 0 .. size - 1
  <2>1. ResolveTypes /\ SizesFit  BY DEF Resolving
  <2>2. PICK ends \in [DOMAIN calls -> Nat] : Vertices = 0 .. ends[1] - 1  BY <2>1 DEF SizesFit
  <2>3. 1 \in DOMAIN calls  BY <2>1, TopCall
  <2> QED  BY <2>2, <2>3
<1>7. /\ entry # n /\ entry \notin more /\ n \notin more
      /\ \A v \in DOMAIN tasks : v # n /\ v \notin more
    BY <1>4
<1>8. ASSUME NEW v \in Vertices
      PROVE  taskGraph'[v] = IF v = entry THEN more \cup {n}
                             ELSE IF v = n THEN taskGraph[entry]
                             ELSE IF v \in more THEN taskGraph[v] \cup {n}
                             ELSE taskGraph[v]
  <2>1. taskGraph'[v] = CASE v = entry -> more \cup {n}
                          [] v = n -> taskGraph[entry]
                          [] v \in more -> taskGraph[v] \cup {n}
                          [] OTHER -> taskGraph[v]
      BY <1>4 DEF Wired
  <2> QED  BY <1>7, <2>1
<1>9. ASSUME NEW v \in DOMAIN tasks', NEW u \in DOMAIN tasks, tasks'[v].path = tasks[u].path
      PROVE  StatedNext(v)' = StatedNext(u)
  <2>1. PICK q, f, l, order : /\ q = tasks[u].path /\ f = Front(q) /\ l = Last(q)
                              /\ order = stated[GraphAt(f)].order
      OBVIOUS
  <2>2. stated'[GraphAt(f)'].order = order  BY <1>4, <2>1, GraphAtStays
  <2>3. StatedNext(u) = {w \in DOMAIN tasks : /\ tasks[w].kind # "exit" /\ f = Front(tasks[w].path)
                                              /\ <<l, Last(tasks[w].path)>> \in order}
      BY <2>1 DEF StatedNext, Siblings
  <2>4. tasks'[v].path = q  BY <1>9, <2>1
  <2>5. Front(tasks'[v].path) = f /\ Last(tasks'[v].path) = l  BY <2>1, <2>4
  <2>6. GraphAt(Front(tasks[v].path))' = GraphAt(f)'  BY <2>5 DEF GraphAt
  <2>7. StatedNext(v)' = {w \in DOMAIN tasks' : /\ tasks'[w].kind # "exit" /\ f = Front(tasks'[w].path)
                                              /\ <<l, Last(tasks'[w].path)>> \in order}
      BY <2>2, <2>5, <2>6 DEF StatedNext, Siblings
  <2>8. \A w \in DOMAIN tasks' : tasks'[w].kind # "exit" => w \in DOMAIN tasks
    <3>1. tasks'[n].kind = "exit"  BY <1>4
    <3> QED  BY <1>4, <3>1
  <2> QED  BY <1>4, <2>3, <2>7, <2>8
<1>10. ASSUME NEW t \in Tables', t.entry \in Vertices  PROVE taskGraph'[t.entry] = t.body \cup {t.exit}
  <2>1. CASE t = new  BY <1>3, <1>4, <1>8, <1>10, <2>1
  <2>2. CASE t \in Tables
    <3>1. t.entry # entry /\ t.entry # n /\ t.entry \notin more  BY <1>4, <1>7, <2>2
    <3>2. taskGraph'[t.entry] = taskGraph[t.entry]  BY <1>8, <1>10, <3>1
    <3>3. taskGraph[t.entry] = t.body \cup {t.exit}  BY <1>5, <1>10, <2>2 DEF EdgesOK
    <3> QED  BY <3>2, <3>3
  <2> QED  BY <1>4, <1>10, <2>1, <2>2
<1>11. ASSUME NEW v \in Vertices, \A t \in Tables' : t.entry # v
       PROVE  taskGraph'[v] = (IF v \in DOMAIN tasks' THEN StatedNext(v)' ELSE {}) \cup ExitsAround(v)'
  <2>0. v # entry /\ (\A t \in Tables : t.entry # v)  BY <1>3, <1>4, <1>11
  <2>1. taskGraph[v] = (IF v \in DOMAIN tasks THEN StatedNext(v) ELSE {}) \cup ExitsAround(v)
      BY <1>5, <2>0 DEF EdgesOK
  <2>2. ExitsAround(v)' = {t.exit : t \in {t \in Tables \cup {new} :
                              v \in t.body \/ \E u \in Tables \cup {new} : u.exit = v /\ u.entry \in t.body}}
      BY <1>4 DEF ExitsAround
  <2>3. CASE v = n
    <3>1. entry \in Vertices  BY <1>4, <1>6, <2>3
    <3>2. taskGraph[entry] = StatedNext(entry) \cup ExitsAround(entry)
        BY <1>4, <1>5, <3>1 DEF EdgesOK
    <3>3. StatedNext(v)' = StatedNext(entry)
      <4>1. tasks'[v].path = tasks[entry].path /\ v \in DOMAIN tasks'  BY <1>4, <2>3
      <4> QED  BY <1>4, <1>9, <4>1
    <3>4. ASSUME NEW t \in Tables
          PROVE  (v \in t.body \/ \E u \in Tables \cup {new} : u.exit = v /\ u.entry \in t.body)
                 <=> (entry \in t.body \/ \E u \in Tables : u.exit = entry /\ u.entry \in t.body)
      <4>1. v \notin t.body  BY <1>4, <2>3
      <4>2. \A u \in Tables : u.exit # v  BY <1>4, <2>3
      <4>3. \A u \in Tables : u.exit # entry  BY <1>4
      <4> QED  BY <1>3, <1>4, <2>3, <4>1, <4>2, <4>3
    <3>5. ~(v \in new.body \/ \E u \in Tables \cup {new} : u.exit = v /\ u.entry \in new.body)
        BY <1>3, <1>4, <1>7, <2>3
    <3>6. ExitsAround(v)' = ExitsAround(entry)
      <4>1. {t \in Tables \cup {new} :
                v \in t.body \/ \E u \in Tables \cup {new} : u.exit = v /\ u.entry \in t.body}
            = {t \in Tables : entry \in t.body \/ \E u \in Tables : u.exit = entry /\ u.entry \in t.body}
          BY <3>4, <3>5
      <4> QED  BY <2>2, <4>1 DEF ExitsAround
    <3> QED  BY <1>4, <1>8, <2>0, <2>3, <3>2, <3>3, <3>6
  <2>4. CASE v \in more
    <3>1. v \notin DOMAIN tasks /\ v # n /\ v \notin DOMAIN tasks'  BY <1>4, <1>7, <2>4
    <3>2. ASSUME NEW t \in Tables
          PROVE  /\ ~(v \in t.body \/ \E u \in Tables : u.exit = v /\ u.entry \in t.body)
                 /\ ~(v \in t.body \/ \E u \in Tables \cup {new} : u.exit = v /\ u.entry \in t.body)
      <4>1. v \notin t.body  BY <1>4, <2>4
      <4>2. \A u \in Tables \cup {new} : u.exit # v  BY <1>4, <3>1
      <4> QED  BY <4>1, <4>2
    <3>3. ExitsAround(v) = {}  BY <3>2 DEF ExitsAround
    <3>4. ExitsAround(v)' = {n}
      <4>1. {t \in Tables \cup {new} :
                v \in t.body \/ \E u \in Tables \cup {new} : u.exit = v /\ u.entry \in t.body} = {new}
          BY <1>4, <2>4, <3>2
      <4> QED  BY <1>4, <2>2, <4>1
    <3> QED  BY <1>8, <2>0, <2>1, <2>4, <3>1, <3>3, <3>4
  <2>5. CASE v # n /\ v \notin more
    <3>1. taskGraph'[v] = taskGraph[v]  BY <1>8, <2>0, <2>5
    <3>2. ASSUME NEW t \in Tables
          PROVE  (\E u \in Tables \cup {new} : u.exit = v /\ u.entry \in t.body)
                 <=> (\E u \in Tables : u.exit = v /\ u.entry \in t.body)
        BY <1>4, <2>5
    <3>3. ~(v \in new.body \/ \E u \in Tables \cup {new} : u.exit = v /\ u.entry \in new.body)
        BY <1>4, <1>7, <2>5
    <3>4. ExitsAround(v)' = ExitsAround(v)
      <4>1. {t \in Tables \cup {new} :
                v \in t.body \/ \E u \in Tables \cup {new} : u.exit = v /\ u.entry \in t.body}
            = {t \in Tables : v \in t.body \/ \E u \in Tables : u.exit = v /\ u.entry \in t.body}
          BY <3>2, <3>3
      <4> QED  BY <2>2, <4>1 DEF ExitsAround
    <3>5. CASE v \in DOMAIN tasks
      <4>1. StatedNext(v)' = StatedNext(v)  BY <1>4, <1>9, <3>5
      <4> QED  BY <1>4, <2>1, <3>1, <3>4, <3>5, <4>1
    <3>6. CASE v \notin DOMAIN tasks
      <4>1. v \notin DOMAIN tasks'  BY <1>4, <2>5, <3>6
      <4> QED  BY <2>1, <3>1, <3>4, <3>6, <4>1
    <3> QED  BY <3>5, <3>6
  <2> QED  BY <2>3, <2>4, <2>5
<1> QED  BY <1>4, <1>10, <1>11 DEF EdgesOK

------------------------------------------------------------------------------
\* As long as the graphs, the tasks and the edges stay, so does what is said of them.
LEMMA WiringStays ==
    ASSUME UNCHANGED <<taskData, tasks, taskGraph, subGraphData, stated>>
    PROVE  /\ PlacesOK' <=> PlacesOK
           /\ EdgesOK' <=> EdgesOK
           /\ \A e : Filled(e)' <=> Filled(e)
           /\ \A v : StatedNext(v)' = StatedNext(v)
<1>1. \A path : GraphAt(path)' = GraphAt(path)  BY GraphAtStays
<1>2. \A g : TaskIds(g)' = TaskIds(g)  BY GraphStays
<1>3. PlacesOK' <=> PlacesOK
  <2>1. ASSUME NEW v \in DOMAIN tasks  PROVE PlaceOK(tasks[v])' <=> PlaceOK(tasks[v])
    <3>1. PICK task : task = tasks[v]  OBVIOUS
    <3>2. PlaceOK(task)' <=> PlaceOK(task)  BY PlaceStays
    <3>3. tasks'[v] = task  BY <3>1
    <3> QED  BY <3>1, <3>2, <3>3 DEF PlaceOK
  <2> QED  BY <2>1 DEF PlacesOK
<1>4. ASSUME NEW e  PROVE Filled(e)' <=> Filled(e)
  <2>1. PICK path, h : path = tasks[e].path /\ h = GraphAt(path)  OBVIOUS
  <2>2. GraphAt(path)' = h /\ TaskIds(h)' = TaskIds(h) /\ tasks'[e].path = path  BY <1>1, <1>2, <2>1
  <2>3. TaskIds(GraphAt(tasks[e].path))' = TaskIds(h)  BY <2>2 DEF GraphAt, TaskIds
  <2> QED  BY <2>1, <2>2, <2>3 DEF Filled
<1>5. ASSUME NEW v  PROVE StatedNext(v)' = StatedNext(v)
  <2>1. PICK path : path = Front(tasks[v].path)  OBVIOUS
  <2>2. GraphAt(path)' = GraphAt(path) /\ Front(tasks'[v].path) = path  BY <1>1, <2>1
  <2>3. GraphAt(Front(tasks[v].path))' = GraphAt(path)'  BY <2>2 DEF GraphAt
  <2> QED  BY <2>1, <2>2, <2>3 DEF StatedNext, Siblings
<1>6. EdgesOK' <=> EdgesOK
  <2>1. Tables' = Tables /\ Vertices' = Vertices /\ \A v : ExitsAround(v)' = ExitsAround(v)
      BY DEF Tables, Vertices, ExitsAround
  <2> QED  BY <1>5, <2>1 DEF EdgesOK
<1> QED  BY <1>3, <1>4, <1>5, <1>6

\* Nothing is laid out when the resolution begins.
LEMMA StartWired ==
    ASSUME tasks = <<>>, subGraphData = <<>>, StartPrebuild
    PROVE  Wiring'
<1>1. /\ UNCHANGED <<taskData, taskOrderGraph, usageCall, tasks, subGraphData>> /\ calls' = <<Call(Root, <<>>)>>
      /\ taskGraph' = [v \in 0 .. ResolveSize[Root] - 1 |-> {}] /\ NoCallActive
    BY DEF StartPrebuild, userVars
<1>2. DOMAIN tasks' = {} /\ NumTasks' = 0 /\ Tables' = {}
    BY <1>1, FS_EmptySet DEF NumTasks, Tables
<1>3. NoCallActive'  BY <1>1 DEF NoCallActive, Resizing
<1>4. CallsPlaced'
  <2>1. GraphAt(<<>>)' = Root  BY <1>1, GraphAtSteps, GraphAtStays
  <2>2. PICK c : c = Call(Root, <<>>)  OBVIOUS
  <2>3. c.path = <<>> /\ c.offset = -1 /\ c.graph = Root  BY <2>2 DEF Call
  <2>4. DOMAIN calls' = {1} /\ calls'[1] = c  BY <1>1, <2>2
  <2>5. ASSUME NEW j \in DOMAIN calls'  PROVE calls'[j].graph = GraphAt(calls[j].path)' /\ calls'[j].path = <<>>
    <3>1. calls'[j].path = <<>> /\ calls'[j].graph = Root  BY <2>3, <2>4
    <3> QED  BY <2>1, <3>1 DEF GraphAt
  <2> QED  BY <1>2, <2>3, <2>4, <2>5 DEF CallsPlaced
<1>5. PlacesOK' /\ TablesPlaced' /\ HaveTables'
    BY <1>2 DEF PlacesOK, TablesPlaced, HaveTables
<1>6. EdgesOK'
  <2>1. \A v : ExitsAround(v)' = {}  BY <1>2 DEF ExitsAround
  <2>2. \A v \in Vertices' : taskGraph'[v] = {}  BY <1>1 DEF Vertices
  <2> QED  BY <1>2, <2>1, <2>2 DEF EdgesOK
<1> QED  BY <1>3, <1>4, <1>5, <1>6 DEF Wiring

\* A call that returns has made a table of every task that stands for a sub-graph.
LEMMA ReturnHasTables ==
    ASSUME Resolving, Wiring, ReturnFromGraph, NEW v \in DOMAIN tasks, tasks[v].kind = "entry",
           \A t \in Tables : t.entry # v
    PROVE  \E j \in DOMAIN calls : /\ j # Len(calls) /\ Front(tasks[v].path) = calls[j].path
                                   /\ Last(tasks[v].path) >= calls[j].next
<1>1. PICK j \in DOMAIN calls : Front(tasks[v].path) = calls[j].path /\ Last(tasks[v].path) >= calls[j].next
    BY DEF Wiring, HaveTables
<1>2. SUFFICES ASSUME j = Len(calls)  PROVE FALSE  BY <1>1
<1>3. ResolveTypes /\ PlacesOK /\ CallsPlaced /\ SubGraphsLeft = {}
    BY DEF Resolving, Wiring, ReturnFromGraph
<1>4. PICK k, g : k = Last(tasks[v].path) /\ g = Top.graph  OBVIOUS
<1>5. Top = calls[j] /\ g = GraphAt(Front(tasks[v].path))
    BY <1>1, <1>2, <1>3, <1>4, TopCall DEF CallsPlaced
<1>6. k \in TaskIds(g) /\ SubGraph(g, k) # NoGraph  BY <1>3, <1>4, <1>5 DEF PlacesOK, PlaceOK
<1> QED  BY <1>1, <1>3, <1>4, <1>5, <1>6 DEF SubGraphsLeft

LEMMA ReturnWired ==
    ASSUME Resolving, Wiring, ReturnFromGraph, Len(calls) # 1
    PROVE  Wiring'
<1>1. /\ UNCHANGED <<taskData, taskOrderGraph, usageCall, tasks, taskGraph, subGraphData, stated>>
      /\ calls' = Front(calls) /\ Top.offset # -1
    BY DEF ReturnFromGraph, userVars
<1>2. ResolveTypes /\ NoCallActive /\ PlacesOK /\ CallsPlaced /\ TablesPlaced /\ HaveTables /\ EdgesOK
    BY DEF Resolving, Wiring
<1>3. PICK l \in Nat \ {0} :
        /\ Len(calls) = l + 1 /\ DOMAIN calls' = 1 .. l
        /\ \A j \in 1 .. l : calls'[j] = calls[j] /\ j \in DOMAIN calls
    BY <1>1, <1>2, CallsBelow
<1>4. Tables' = Tables /\ NumTasks' = NumTasks /\ (\A path : GraphAt(path)' = GraphAt(path))
    BY <1>1, GraphAtStays DEF Tables, NumTasks
<1>5. NoCallActive' /\ PlacesOK' /\ EdgesOK'
    BY <1>1, <1>2, WiringStays DEF NoCallActive, Resizing
<1>6. CallsPlaced'
  <2>1. 1 \in 1 .. l  OBVIOUS
  <2>2. ASSUME NEW j \in DOMAIN calls'
        PROVE  /\ calls'[j].graph = GraphAt(calls[j].path)'
               /\ calls'[j].path # <<>> => \E t \in Tables' : tasks'[t.entry].path = calls'[j].path
    <3>1. PICK c : c = calls[j]  OBVIOUS
    <3>2. calls'[j] = c /\ j \in DOMAIN calls  BY <1>3, <3>1
    <3>3. c.graph = GraphAt(c.path) /\ (c.path # <<>> => \E t \in Tables : tasks[t.entry].path = c.path)
        BY <1>2, <3>1, <3>2 DEF CallsPlaced
    <3>4. GraphAt(c.path)' = GraphAt(c.path)  BY <1>4
    <3>5. calls'[j].graph = GraphAt(calls[j].path)'  BY <3>2, <3>3, <3>4 DEF GraphAt
    <3> QED  BY <1>1, <1>4, <3>2, <3>3, <3>5
  <2> QED  BY <1>2, <1>3, <1>4, <2>1, <2>2 DEF CallsPlaced
<1>7. TablesPlaced'
  <2>1. \A e : Filled(e)' <=> Filled(e)  BY <1>1, WiringStays
  <2> QED  BY <1>1, <1>2, <1>4, <2>1 DEF TablesPlaced
<1>8. HaveTables'
  <2>1. ASSUME NEW v \in DOMAIN tasks, tasks[v].kind = "entry", \A t \in Tables : t.entry # v
        PROVE  \E j \in DOMAIN calls' : /\ Front(tasks[v].path) = calls'[j].path
                                        /\ Last(tasks[v].path) >= calls'[j].next
    <3>1. PICK j \in DOMAIN calls : /\ j # Len(calls) /\ Front(tasks[v].path) = calls[j].path
                                    /\ Last(tasks[v].path) >= calls[j].next
        BY <2>1, ReturnHasTables
    <3>2. j \in 1 .. l  BY <1>2, <1>3, <3>1, TopCall
    <3> QED  BY <1>3, <3>1, <3>2
  <2> QED  BY <1>1, <1>2, <1>4, <2>1 DEF HaveTables
<1> QED  BY <1>5, <1>6, <1>7, <1>8 DEF Wiring

\* A table, when all is laid out: what it says of the tasks.
TableDone(t) ==
    /\ t.entry \in DOMAIN tasks /\ t.exit \in DOMAIN tasks /\ t.entry < t.exit
    /\ tasks[t.entry].kind = "entry" /\ tasks[t.exit].kind = "exit"
    /\ tasks[t.exit].path = tasks[t.entry].path /\ Filled(t.entry)
    /\ t.body = {v \in DOMAIN tasks : tasks[v].kind # "exit" /\ Front(tasks[v].path) = tasks[t.entry].path}
    /\ \A v \in t.body : t.entry < v

LEMMA LastReturnTables ==
    ASSUME Nested, Resolving, Wiring, ReturnFromGraph, Len(calls) = 1
    PROVE  /\ DOMAIN tasks = Vertices
           /\ \A t \in Tables : TableDone(t)
           /\ \A v \in DOMAIN tasks : tasks[v].kind = "entry" => \E t \in Tables : t.entry = v
<1>1. DOMAIN tasks = Vertices
  <2>1. SubGraphsResolved' /\ phase' = "validate" /\ UNCHANGED <<tasks, taskGraph>>
      BY LastReturnResolves DEF ReturnFromGraph
  <2> QED  BY <2>1 DEF SubGraphsResolved, Vertices
<1>2. ASSUME NEW t \in Tables  PROVE TableDone(t)
  <2>1. PICK n : n = NumTasks  OBVIOUS
  <2>2. DOMAIN tasks = 0 .. n - 1 /\ n \in Nat  BY <2>1 DEF Resolving, ResolveTypes
  <2>3. PICK i \in DOMAIN subGraphData : t = subGraphData[i]  BY DEF Tables
  <2>4. TableOK(t)  BY <2>3, ReturnedHasDone
  <2>5. PICK m \in Nat \ {0} : t.body = t.exit + 1 .. t.exit + m /\ t.exit + m < n
      BY <2>1, <2>3, ReturnedHasDone
  <2>6. tasks[t.exit].path = tasks[t.entry].path /\ Filled(t.entry)
    <3>1. Top.offset # -1  BY ReturnedHasDone
    <3> QED  BY <3>1 DEF Wiring, TablesPlaced
  <2>7. /\ t.entry \in DOMAIN tasks /\ t.exit \in DOMAIN tasks /\ t.entry < t.exit
        /\ tasks[t.entry].kind = "entry" /\ tasks[t.exit].kind = "exit"
        /\ \A v \in DOMAIN tasks :
            v \in t.body <=> tasks[v].kind # "exit" /\ Front(tasks[v].path) = tasks[t.entry].path
      BY <2>4 DEF TableOK
  <2>8. \A v \in t.body : v \in DOMAIN tasks /\ t.entry < v
    <3>1. t.entry \in 0 .. n - 1 /\ t.exit \in 0 .. n - 1  BY <2>2, <2>7
    <3>2. \A v \in t.exit + 1 .. t.exit + m : v \in 0 .. n - 1 /\ t.entry < v
        BY ONLY <2>2, <2>5, <2>7, <3>1
    <3> QED  BY <2>2, <2>5, <3>2
  <2> QED  BY <2>6, <2>7, <2>8 DEF TableDone
<1>3. ASSUME NEW v \in DOMAIN tasks, tasks[v].kind = "entry"  PROVE \E t \in Tables : t.entry = v
  <2>1. SUFFICES ASSUME \A t \in Tables : t.entry # v  PROVE FALSE  OBVIOUS
  <2>2. PICK j \in DOMAIN calls : j # Len(calls)  BY <1>3, <2>1, ReturnHasTables
  <2>3. DOMAIN calls = 1 .. 1  BY TopCall DEF Resolving
  <2> QED  BY <2>2, <2>3
<1> QED  BY <1>1, <1>2, <1>3

\* The tables are what ExitsAround and the bodies say of the edges, for all tasks.
LEMMA LastReturnEdges ==
    ASSUME Nested, Resolving, Wiring, ReturnFromGraph, Len(calls) = 1
    PROVE  EdgesAreStated
<1>1. /\ DOMAIN tasks = Vertices
      /\ \A t \in Tables : TableDone(t)
      /\ \A v \in DOMAIN tasks : tasks[v].kind = "entry" => \E t \in Tables : t.entry = v
    BY LastReturnTables
<1>2. PlacesOK /\ HaveTables /\ EdgesOK  BY DEF Wiring
<1>3. ASSUME NEW v \in DOMAIN tasks, tasks[v].kind = "entry"
      PROVE  taskGraph[v] =
                {w \in DOMAIN tasks : tasks[w].kind # "exit" /\ Front(tasks[w].path) = tasks[v].path}
                    \cup ExitsAt(tasks[v].path)
  <2>1. PICK t \in Tables : t.entry = v  BY <1>1, <1>3
  <2>2. taskGraph[v] = t.body \cup {t.exit}  BY <1>1, <1>2, <2>1 DEF EdgesOK
  <2>3. TableDone(t)  BY <1>1
  <2>4. ExitsAt(tasks[v].path) = {t.exit}
    <3>1. t.exit \in ExitsAt(tasks[v].path)  BY <2>1, <2>3 DEF TableDone, ExitsAt
    <3>2. \A x \in ExitsAt(tasks[v].path) : x = t.exit
        BY <1>2, <2>1, <2>3 DEF TableDone, ExitsAt, PlacesOK
    <3> QED  BY <3>1, <3>2
  <2> QED  BY <2>1, <2>2, <2>3, <2>4 DEF TableDone
<1>4. ASSUME NEW v \in DOMAIN tasks, tasks[v].kind # "entry"
      PROVE  taskGraph[v] = StatedNext(v) \cup ExitsAt(Front(tasks[v].path))
  <2>1. \A t \in Tables : t.entry # v  BY <1>1, <1>4 DEF TableDone
  <2>2. taskGraph[v] = StatedNext(v) \cup ExitsAround(v)  BY <1>1, <1>2, <2>1 DEF EdgesOK
  <2>3. ASSUME NEW x \in ExitsAround(v)  PROVE x \in ExitsAt(Front(tasks[v].path))
    <3>1. PICK t \in Tables : /\ x = t.exit
                              /\ v \in t.body \/ \E u \in Tables : u.exit = v /\ u.entry \in t.body
        BY <2>3 DEF ExitsAround
    <3>2. TableDone(t)  BY <1>1
    <3>3. Front(tasks[v].path) = tasks[t.entry].path
      <4>1. CASE v \in t.body  BY <3>2, <4>1 DEF TableDone
      <4>2. CASE \E u \in Tables : u.exit = v /\ u.entry \in t.body
        <5>1. PICK u \in Tables : u.exit = v /\ u.entry \in t.body  BY <4>2
        <5>2. tasks[v].path = tasks[u.entry].path  BY <1>1, <5>1 DEF TableDone
        <5> QED  BY <3>2, <5>1, <5>2 DEF TableDone
      <4> QED  BY <3>1, <4>1, <4>2
    <3> QED  BY <3>1, <3>2, <3>3 DEF TableDone, ExitsAt
  <2>4. ASSUME NEW x \in ExitsAt(Front(tasks[v].path))  PROVE x \in ExitsAround(v)
    <3>1. x \in DOMAIN tasks /\ tasks[x].kind = "exit" /\ tasks[x].path = Front(tasks[v].path)
        BY <2>4 DEF ExitsAt
    <3>2. PICK t \in Tables : t.exit = x  BY <1>2, <3>1 DEF HaveTables
    <3>3. TableDone(t)  BY <1>1
    <3>4. v \in t.body \/ \E u \in Tables : u.exit = v /\ u.entry \in t.body
      <4>1. CASE tasks[v].kind # "exit"  BY <1>4, <3>1, <3>2, <3>3, <4>1 DEF TableDone
      <4>2. CASE tasks[v].kind = "exit"
        <5>1. PICK u \in Tables : u.exit = v  BY <1>2, <1>4, <4>2 DEF HaveTables
        <5>2. TableDone(u)  BY <1>1
        <5>3. u.entry \in t.body  BY <3>1, <3>2, <3>3, <5>1, <5>2 DEF TableDone
        <5> QED  BY <5>1, <5>3
      <4> QED  BY <4>1, <4>2
    <3> QED  BY <3>2, <3>4 DEF ExitsAround
  <2> QED  BY <2>2, <2>3, <2>4
<1> QED  BY <1>3, <1>4 DEF EdgesAreStated, EdgesFrom

LEMMA LastReturnWired ==
    ASSUME Nested, Resolving, Wiring, ReturnFromGraph, Len(calls) = 1
    PROVE  AllWired
<1>1. /\ DOMAIN tasks = Vertices
      /\ \A t \in Tables : TableDone(t)
      /\ \A v \in DOMAIN tasks : tasks[v].kind = "entry" => \E t \in Tables : t.entry = v
    BY LastReturnTables
<1>2. PlacesOK /\ HaveTables /\ CallsPlaced /\ CallsOK /\ ResolveTypes  BY DEF Wiring, Resolving
<1>3. EntriesFirst
  <2>1. ASSUME NEW v \in DOMAIN tasks, tasks[v].kind = "exit"
        PROVE  \E e \in DOMAIN tasks : e < v /\ tasks[e].kind = "entry" /\ tasks[e].path = tasks[v].path
    <3>1. PICK t \in Tables : t.exit = v  BY <1>2, <2>1 DEF HaveTables
    <3> QED  BY <1>1, <3>1 DEF TableDone
  <2>2. ASSUME NEW v \in DOMAIN tasks, tasks[v].kind # "exit", Front(tasks[v].path) # <<>>
        PROVE  \E e \in DOMAIN tasks :
                e < v /\ tasks[e].kind = "entry" /\ tasks[e].path = Front(tasks[v].path)
    <3>1. PICK t \in Tables : tasks[t.entry].path = Front(tasks[v].path)
        BY <1>2, <2>2 DEF HaveTables
    <3> QED  BY <1>1, <2>2, <3>1 DEF TableDone
  <2> QED  BY <2>1, <2>2 DEF EntriesFirst
<1>4. AllThere
  <2>1. ASSUME NEW k \in TaskIds(Root)
        PROVE  k \in DOMAIN tasks /\ tasks[k].path = <<k>> /\ tasks[k].kind # "exit"
    <3>0. PICK c : c = calls[1]  OBVIOUS
    <3>1. 1 \in DOMAIN calls /\ Top = c /\ Top.offset # -1
        BY <1>2, <3>0, TopCall, ReturnedHasDone
    <3>2. c.path = <<>> /\ c.offset = 0 /\ c.graph = Root
      <4>1. c.graph = GraphAt(c.path) /\ c.path = <<>> /\ c.offset \in {-1, 0}
          BY <1>2, <3>0, <3>1 DEF CallsPlaced
      <4> QED  BY <3>1, <4>1, GraphAtSteps
    <3>3. CallOK(c, 1 = Len(calls))  BY <1>2, <3>0, <3>1 DEF CallsOK
    <3>4. k \in Nat  BY DEF TaskIds
    <3>5. 0 + k \in DOMAIN tasks /\ tasks[0 + k] = [path |-> Append(<<>>, k),
                                  kind |-> IF SubGraph(Root, k) = NoGraph THEN "task" ELSE "entry"]
        BY <3>2, <3>3 DEF CallOK
    <3>6. PICK task : task = tasks[0 + k]  OBVIOUS
    <3>7. task.path = Append(<<>>, k) /\ task.kind # "exit"  BY <3>5, <3>6
    <3>8. 0 + k = k /\ Append(<<>>, k) = <<k>>  BY <3>4
    <3> QED  BY <3>5, <3>6, <3>7, <3>8
  <2>2. ASSUME NEW e \in DOMAIN tasks, tasks[e].kind = "entry"
        PROVE  Filled(e) /\ ExitsAt(tasks[e].path) # {}
    <3>1. PICK t \in Tables : t.entry = e  BY <1>1, <2>2
    <3> QED  BY <1>1, <3>1 DEF TableDone, ExitsAt
  <2> QED  BY <2>1, <2>2 DEF AllThere
<1>5. /\ NumTasks \in Nat /\ DOMAIN tasks = 0 .. NumTasks - 1
      /\ \A v \in DOMAIN tasks : tasks[v].path \in Seq(Nat) /\ tasks[v].path # <<>>
    BY <1>2 DEF ResolveTypes
<1> QED  BY <1>1, <1>2, <1>3, <1>4, <1>5, LastReturnEdges DEF AllWired, Laid

\* Only what the resolution has made is looked at from then on.
LEMMA AllWiredStays ==
    ASSUME UNCHANGED <<taskData, tasks, taskGraph, subGraphData, stated>>, AllWired
    PROVE  AllWired'
<1>1. /\ PlacesOK' <=> PlacesOK
      /\ \A e : Filled(e)' <=> Filled(e)
      /\ \A v : StatedNext(v)' = StatedNext(v)
    BY WiringStays
<1>2. TaskIds(Root)' = TaskIds(Root) /\ Vertices' = Vertices /\ NumTasks' = NumTasks
      /\ \A path : ExitsAt(path)' = ExitsAt(path)
    BY GraphStays DEF Vertices, NumTasks, ExitsAt
<1>3. EdgesAreStated'
  <2>1. ASSUME NEW v \in DOMAIN tasks
        PROVE  /\ ExitsAt(tasks[v].path)' = ExitsAt(tasks[v].path)
               /\ ExitsAt(Front(tasks[v].path))' = ExitsAt(Front(tasks[v].path))
      BY DEF ExitsAt
  <2> QED  BY <1>1, <2>1 DEF EdgesAreStated, EdgesFrom, AllWired, Laid
<1>4. AllThere'
  <2>1. \A e \in DOMAIN tasks : ExitsAt(tasks[e].path)' = ExitsAt(tasks[e].path)  BY DEF ExitsAt
  <2> QED  BY <1>1, <1>2, <2>1 DEF AllThere, AllWired, Laid
<1>5. EntriesFirst'  BY DEF EntriesFirst, AllWired, Laid
<1> QED  BY <1>1, <1>2, <1>3, <1>4, <1>5 DEF AllWired, Laid

------------------------------------------------------------------------------
(***************************************************************************)
(* Common prefixes.                                                        *)
(***************************************************************************)
LEMMA CutIs ==
    ASSUME NEW s \in Seq(Nat), NEW l \in 0 .. Len(s)
    PROVE  /\ SubSeq(s, 1, l) \in Seq(Nat) /\ Len(SubSeq(s, 1, l)) = l
           /\ \A i \in 1 .. l : SubSeq(s, 1, l)[i] = s[i]
<1>1. Len(s) \in Nat /\ l \in Nat  BY LenProperties
<1>2. \A i \in 1 .. l : s[i] \in Nat
  <2>1. \A i \in 1 .. l : i \in 1 .. Len(s)  BY <1>1
  <2> QED  BY <2>1, ElementOfSeq
<1>3. PICK cut : cut = SubSeq(s, 1, l)  OBVIOUS
<1>4. /\ cut \in Seq(Nat) /\ Len(cut) = IF 1 <= l THEN l - 1 + 1 ELSE 0
      /\ \A i \in 1 .. l - 1 + 1 : cut[i] = s[1 + i - 1]
    BY <1>1, <1>2, <1>3, SubSeqProperties
<1>5. l - 1 + 1 = l /\ \A i \in 1 .. l : 1 + i - 1 = i  BY <1>1
<1>6. Len(cut) = l  BY <1>1, <1>4
<1> QED  BY <1>3, <1>4, <1>5, <1>6

\* Two paths part after their first l elements.
PartAfter(p, q, l) ==
    /\ l \in 0 .. Len(p) /\ l \in 0 .. Len(q)
    /\ \A i \in 1 .. l : p[i] = q[i]
    /\ l < Len(p) /\ l < Len(q) => p[l + 1] # q[l + 1]

LEMMA CommonPrefix ==
    ASSUME NEW p \in Seq(Nat), NEW q \in Seq(Nat)
    PROVE  PartAfter(p, q, Len(LongestCommonPrefix({p, q})))
<1> PICK common : common = Len(LongestCommonPrefix({p, q}))  OBVIOUS
<1>0. Len(p) \in Nat /\ Len(q) \in Nat  BY LenProperties
<1> DEFINE C == CommonPrefixes({p, q})
           Agree(l) == l \in 0 .. Len(p) /\ l \in 0 .. Len(q) /\ \A i \in 1 .. l : p[i] = q[i]
<1>1. ASSUME NEW s \in C  PROVE Agree(Len(s))
  <2>1. PICK r \in {p, q} : \E l \in 0 .. Len(r) : s = SubSeq(r, 1, l)  BY DEF CommonPrefixes, Prefixes
  <2>2. \A t \in {p, q} : Len(s) <= Len(t) /\ SubSeq(s, 1, Len(s)) = SubSeq(t, 1, Len(s))
      BY DEF CommonPrefixes, IsPrefix
  <2>3. s \in Seq(Nat) /\ Len(s) \in Nat
    <3>1. r \in Seq(Nat)  BY <2>1
    <3>2. s \in Seq(Nat)  BY <2>1, <3>1, CutIs
    <3> QED  BY <3>2, LenProperties
  <2>4. ASSUME NEW t \in {p, q}  PROVE Len(s) \in 0 .. Len(t) /\ \A i \in 1 .. Len(s) : s[i] = t[i]
    <3>0. t \in Seq(Nat) /\ Len(t) \in Nat  BY <1>0
    <3>1. Len(s) \in 0 .. Len(t) /\ Len(s) \in 0 .. Len(s)  BY <2>2, <2>3, <3>0
    <3>2. \A i \in 1 .. Len(s) : SubSeq(t, 1, Len(s))[i] = t[i]  BY <3>0, <3>1, CutIs
    <3>3. \A i \in 1 .. Len(s) : SubSeq(s, 1, Len(s))[i] = s[i]  BY <2>3, <3>1, CutIs
    <3> QED  BY <2>2, <3>1, <3>2, <3>3
  <2> QED  BY <2>4
<1>2. ASSUME NEW l, Agree(l)  PROVE \E s \in C : Len(s) = l
  <2>1. PICK s : s = SubSeq(p, 1, l)  OBVIOUS
  <2>2. s \in Seq(Nat) /\ Len(s) = l /\ \A i \in 1 .. l : s[i] = p[i]  BY <1>2, <2>1, CutIs
  <2>3. ASSUME NEW t \in {p, q}  PROVE IsPrefix(s, t)
    <3>0. t \in Seq(Nat) /\ Len(t) \in Nat /\ l \in 0 .. Len(t) /\ l \in 0 .. l  BY <1>0, <1>2
    <3>1. PICK a, b : a = SubSeq(s, 1, l) /\ b = SubSeq(t, 1, l)  OBVIOUS
    <3>2. a \in Seq(Nat) /\ Len(a) = l /\ \A i \in 1 .. l : a[i] = s[i]  BY <2>2, <3>0, <3>1, CutIs
    <3>3. b \in Seq(Nat) /\ Len(b) = l /\ \A i \in 1 .. l : b[i] = t[i]  BY <3>0, <3>1, CutIs
    <3>4. \A i \in 1 .. l : s[i] = t[i]  BY <1>2, <2>2
    <3>5. a = b  BY <3>2, <3>3, <3>4, SeqEqual
    <3> QED  BY <2>2, <3>0, <3>1, <3>5 DEF IsPrefix
  <2>4. s \in Prefixes(p)  BY <1>2, <2>1 DEF Prefixes
  <2>5. s \in C  BY <2>3, <2>4 DEF CommonPrefixes
  <2> QED  BY <2>2, <2>5
<1> DEFINE L == {Len(s) : s \in C}
<1> HIDE DEF C
<1>3. L \subseteq 0 .. Len(p) /\ L # {}
  <2>1. Agree(0)  BY <1>0
  <2> QED  BY <1>1, <1>2, <2>1
<1>4. Max(L) \in L /\ \A l \in L : Max(L) >= l
  <2> HIDE DEF L
  <2> QED  BY ONLY <1>0, <1>3, MaxBelow
<1>5. \E longest \in C : \A other \in C : Len(other) <= Len(longest)
  <2>1. PICK longest \in C : Len(longest) = Max(L)  BY <1>4
  <2>2. \A other \in C : Len(other) \in L  OBVIOUS
  <2>3. \A other \in C : Len(other) <= Max(L)
    <3> HIDE DEF L
    <3>1. \A l \in L : l \in Int  BY <1>0, <1>3
    <3> QED  BY <1>4, <2>2, <3>1
  <2> HIDE DEF L
  <2> QED  BY <2>1, <2>3
<1>6. PICK longest \in C : common = Len(longest) /\ \A other \in C : Len(other) <= common
  <2>1. LongestCommonPrefix({p, q}) =
            CHOOSE longest \in C : \A other \in C : Len(other) <= Len(longest)
      BY DEF LongestCommonPrefix, C
  <2> QED  BY <1>5, <2>1
<1>7. Agree(common)  BY <1>1, <1>6
<1>8. ASSUME common < Len(p), common < Len(q)  PROVE p[common + 1] # q[common + 1]
  <2>1. SUFFICES ASSUME p[common + 1] = q[common + 1]  PROVE FALSE  OBVIOUS
  <2>2. common \in Nat  BY <1>7
  <2>3. Agree(common + 1)
    <3>1. common + 1 \in 0 .. Len(p) /\ common + 1 \in 0 .. Len(q)  BY <1>0, <1>8, <2>2
    <3>2. \A i \in 1 .. common + 1 : i \in 1 .. common \/ i = common + 1  BY <2>2
    <3> QED  BY <1>7, <2>1, <3>1, <3>2
  <2>4. PICK s \in C : Len(s) = common + 1  BY <1>2, <2>3
  <2>5. common + 1 <= common  BY ONLY <1>6, <2>4
  <2> QED  BY ONLY <2>2, <2>5
<1> QED  BY <1>7, <1>8 DEF PartAfter

------------------------------------------------------------------------------
(***************************************************************************)
(* The depth-first search of the validation.                               *)
(***************************************************************************)
\* A task that the loop over the roots has offered: the vertices before it were
\* visited by then, and whatever their edges lead to, but not the task.
OfferedByLoop(x) ==
    \E U \in SUBSET Vertices :
        /\ x \notin U /\ (\A y \in Vertices : y < x => y \in U)
        /\ \A u \in U : taskGraph[u] \subseteq U

\* A visited vertex has its next ones visited too, or they are yet to be offered.
Searched ==
    /\ visited \subseteq Vertices /\ stack \in Seq(Vertices)
    /\ \A u \in visited : taskGraph[u] \subseteq visited \/ \E i \in DOMAIN stack : stack[i] = u
    /\ start \subseteq Vertices /\ \A x \in start \cap visited : OfferedByLoop(x)

Open(graph) == {i \in DOMAIN stack : graph[stack[i]] \ visited # {}}

\* Where the search is: at a vertex with edges to follow, or between two roots.
LEMMA SearchIsAt ==
    ASSUME stack \in Seq(Vertices)
    PROVE  \/ /\ Open(taskGraph) = {} /\ Searching(taskGraph) = <<>>
              /\ Offered(taskGraph) = Vertices \ visited
           \/ \E m \in DOMAIN stack :
                /\ taskGraph[stack[m]] \ visited # {}
                /\ \A i \in DOMAIN stack : taskGraph[stack[i]] \ visited # {} => i <= m
                /\ Searching(taskGraph) \in Seq(Vertices) /\ Searching(taskGraph) # <<>>
                /\ Len(Searching(taskGraph)) = m
                /\ \A i \in 1 .. m : Searching(taskGraph)[i] = stack[i]
                /\ Offered(taskGraph) = taskGraph[stack[m]] \ visited
<1>1. Searching(taskGraph) = IF Open(taskGraph) = {} THEN <<>> ELSE SubSeq(stack, 1, Max(Open(taskGraph)))
    BY DEF Searching, Open
<1>2. CASE Open(taskGraph) = {}  BY <1>1, <1>2 DEF Offered, Vertices
<1>3. CASE Open(taskGraph) # {}
  <2>1. PICK m, n : m = Max(Open(taskGraph)) /\ n = Len(stack)  OBVIOUS
  <2>2. n \in Nat /\ DOMAIN stack = 1 .. n  BY <2>1, LenProperties
  <2>3. Open(taskGraph) \subseteq 0 .. n  BY <2>2 DEF Open
  <2>4. m \in Open(taskGraph) /\ \A i \in Open(taskGraph) : m >= i  BY ONLY <1>3, <2>1, <2>2, <2>3, MaxBelow
  <2>5. m \in 1 .. n /\ taskGraph[stack[m]] \ visited # {}  BY <2>2, <2>4 DEF Open
  <2>6. PICK path : path = Searching(taskGraph)  OBVIOUS
  <2>7. path = SubSeq(stack, 1, m)  BY <1>1, <1>3, <2>1, <2>6
  <2>8. /\ path \in Seq(Vertices) /\ Len(path) = IF 1 <= m THEN m - 1 + 1 ELSE 0
        /\ \A i \in 1 .. m - 1 + 1 : path[i] = stack[1 + i - 1]
    <3>1. \A i \in 1 .. m : stack[i] \in Vertices
      <4>1. \A i \in 1 .. m : i \in 1 .. Len(stack)  BY <2>1, <2>2, <2>5
      <4> QED  BY <4>1, ElementOfSeq
    <3>2. 1 \in Int /\ m \in Int  BY <2>2, <2>5
    <3> QED  BY <2>7, <3>1, <3>2, SubSeqProperties
  <2>9. 1 <= m /\ m - 1 + 1 = m /\ \A i \in 1 .. m : 1 + i - 1 = i  BY <2>2, <2>5
  <2>10. Len(path) = m /\ \A i \in 1 .. m : path[i] = stack[i]  BY <2>8, <2>9
  <2>11. path # <<>>
    <3>1. Len(path) # 0  BY <2>9, <2>10
    <3> QED  BY <2>8, <3>1, EmptySeq
  <2>12. Offered(taskGraph) = taskGraph[stack[m]] \ visited
    <3>1. Last(path) = stack[m] /\ m \in 1 .. m
      <4>1. m \in 1 .. m  BY <2>2, <2>5
      <4> QED  BY <2>10, <4>1 DEF Last
    <3> QED  BY <2>6, <2>11, <3>1 DEF Offered
  <2>13. \A i \in DOMAIN stack : taskGraph[stack[i]] \ visited # {} => i <= m
    <3>1. \A i \in DOMAIN stack : taskGraph[stack[i]] \ visited # {} => m >= i  BY <2>4 DEF Open
    <3> QED  BY <2>2, <2>5, <3>1
  <2> QED  BY <2>2, <2>5, <2>6, <2>8, <2>10, <2>11, <2>12, <2>13
<1> QED  BY <1>2, <1>3

LEMMA EdgesLeadToTasks == AllWired => \A v \in Vertices : taskGraph[v] \subseteq Vertices
  BY DEF AllWired, Laid, EdgesAreStated, EdgesFrom, StatedNext, ExitsAt

\* Nothing has been visited when the validation begins.
LEMMA SearchBegins ==
    ASSUME visited = {}, stack = <<>>, ReturnFromGraph, Len(calls) = 1
    PROVE  Searched'
<1>1. visited' = {} /\ stack' = <<>> /\ start' = Vertices /\ taskGraph' = taskGraph
    BY DEF ReturnFromGraph, searchVars
<1>2. Vertices' = Vertices  BY <1>1 DEF Vertices
<1> QED  BY <1>1, <1>2 DEF Searched

\* A vertex that is offered without an edge leading to it comes when all before
\* it and all that these lead to have been visited.
LEMMA ValidateTaskSearches ==
    ASSUME AllWired, Searched, ValidateTask
    PROVE  Searched'
<1>1. PICK v, path : v = Min(Offered(taskGraph)) /\ path = Searching(taskGraph)  OBVIOUS
<1>2. /\ visited' = visited \cup {v} /\ stack' = Append(path, v) /\ taskGraph' = taskGraph
      /\ start' = (IF path = <<>> THEN start ELSE start \ {v}) /\ Offered(taskGraph) # {}
    BY <1>1 DEF ValidateTask, Visit, StartLeft
<1>3. PICK n \in Nat : Vertices = 0 .. n - 1  BY DEF AllWired, Laid
<1>4. /\ visited \subseteq Vertices /\ stack \in Seq(Vertices)
      /\ \A u \in visited : taskGraph[u] \subseteq visited \/ \E i \in DOMAIN stack : stack[i] = u
      /\ start \subseteq Vertices /\ \A x \in start \cap visited : OfferedByLoop(x)
    BY DEF Searched
<1>5. Vertices' = Vertices /\ \A x : OfferedByLoop(x)' <=> OfferedByLoop(x)
    BY <1>2 DEF Vertices, OfferedByLoop
<1>6. CASE /\ Open(taskGraph) = {} /\ path = <<>> /\ Offered(taskGraph) = Vertices \ visited
  <2>1. /\ Vertices \ visited \subseteq Nat /\ Vertices \ visited # {}  BY <1>2, <1>3, <1>6
  <2>2. v \in Vertices \ visited /\ \A x \in Vertices \ visited : v <= x
      BY <1>1, <1>6, <2>1, MinOfNat
  <2>3. \A u \in visited : taskGraph[u] \subseteq visited  BY <1>4, <1>6 DEF Open
  <2>4. OfferedByLoop(v)
    <3>1. \A y \in Vertices : y < v => y \in visited
      <4>1. \A y \in Vertices : y < v => ~(v <= y)  BY <1>3, <2>2
      <4> QED  BY <2>2, <4>1
    <3> QED  BY <1>4, <2>2, <2>3, <3>1 DEF OfferedByLoop
  <2>5. stack' \in Seq(Vertices)
    <3>1. <<>> \in Seq(Vertices)  BY EmptySeq
    <3> QED  BY <1>2, <1>6, <2>2, <3>1, AppendProperties
  <2>6. \E i \in DOMAIN stack' : stack'[i] = v
    <3>1. stack' = <<v>>  BY <1>2, <1>6
    <3> QED  BY <3>1
  <2>7. visited' \subseteq Vertices' /\ stack' \in Seq(Vertices')  BY <1>2, <1>4, <1>5, <2>2, <2>5
  <2>8. \A u \in visited' : taskGraph'[u] \subseteq visited' \/ \E i \in DOMAIN stack' : stack'[i] = u
      BY <1>2, <2>3, <2>6
  <2>9. start' \subseteq Vertices' /\ \A x \in start' \cap visited' : OfferedByLoop(x)'
      BY <1>2, <1>4, <1>5, <1>6, <2>4
  <2> QED  BY <2>7, <2>8, <2>9 DEF Searched
<1>7. CASE \E m \in DOMAIN stack :
                /\ taskGraph[stack[m]] \ visited # {}
                /\ \A i \in DOMAIN stack : taskGraph[stack[i]] \ visited # {} => i <= m
                /\ path \in Seq(Vertices) /\ path # <<>>
                /\ Len(path) = m
                /\ \A i \in 1 .. m : path[i] = stack[i]
                /\ Offered(taskGraph) = taskGraph[stack[m]] \ visited
  <2>1. PICK m \in DOMAIN stack :
                /\ \A i \in DOMAIN stack : taskGraph[stack[i]] \ visited # {} => i <= m
                /\ path \in Seq(Vertices) /\ path # <<>>
                /\ Len(path) = m
                /\ \A i \in 1 .. m : path[i] = stack[i]
                /\ Offered(taskGraph) = taskGraph[stack[m]] \ visited
      BY <1>7
  <2>2. DOMAIN stack = 1 .. Len(stack) /\ Len(stack) \in Nat /\ stack[m] \in Vertices /\ m \in Nat
    <3>1. DOMAIN stack = 1 .. Len(stack) /\ Len(stack) \in Nat  BY <1>4, LenProperties
    <3> QED  BY <1>4, <2>1, <3>1, ElementOfSeq
  <2>3. v \in Vertices /\ v \notin visited
    <3>1. Offered(taskGraph) \subseteq Vertices  BY <2>1, <2>2, EdgesLeadToTasks
    <3>2. Offered(taskGraph) \subseteq Nat  BY <1>3, <3>1
    <3>3. v \in Offered(taskGraph)  BY <1>1, <1>2, <3>2, MinOfNat
    <3> QED  BY <2>1, <3>1, <3>3
  <2>4. /\ stack' \in Seq(Vertices) /\ DOMAIN stack' = 1 .. m + 1
        /\ stack'[m + 1] = v /\ \A i \in 1 .. m : stack'[i] = stack[i]
    <3>1. /\ Append(path, v) \in Seq(Vertices) /\ Len(Append(path, v)) = Len(path) + 1
          /\ Append(path, v)[Len(path) + 1] = v
          /\ \A i \in 1 .. Len(path) : Append(path, v)[i] = path[i]
        BY <2>1, <2>3, AppendProperties
    <3> QED  BY <1>2, <2>1, <3>1, LenProperties
  <2>5. ASSUME NEW u \in visited'
        PROVE  taskGraph'[u] \subseteq visited' \/ \E i \in DOMAIN stack' : stack'[i] = u
    <3>1. CASE u = v
      <4>1. m + 1 \in 1 .. m + 1  BY <2>2
      <4> QED  BY <2>4, <3>1, <4>1
    <3>2. CASE u \in visited /\ taskGraph[u] \subseteq visited  BY <1>2, <3>2
    <3>3. CASE u \in visited /\ ~(taskGraph[u] \subseteq visited)
      <4>1. PICK i \in DOMAIN stack : stack[i] = u  BY <1>4, <3>3
      <4>2. i <= m  BY <2>1, <3>3, <4>1
      <4>3. i \in 1 .. m /\ i \in 1 .. m + 1  BY <2>2, <4>1, <4>2
      <4> QED  BY <2>4, <4>1, <4>3
    <3> QED  BY <1>2, <3>1, <3>2, <3>3
  <2>6. visited' \subseteq Vertices' /\ stack' \in Seq(Vertices')  BY <1>2, <1>4, <1>5, <2>3, <2>4
  <2>7. start' \subseteq Vertices' /\ \A x \in start' \cap visited' : OfferedByLoop(x)'
      BY <1>2, <1>4, <1>5, <2>1
  <2> QED  BY <2>5, <2>6, <2>7 DEF Searched
<1> QED  BY <1>1, <1>4, <1>6, <1>7, SearchIsAt

\* When nothing is offered any more, all has been visited.
LEMMA SearchEnds ==
    ASSUME AllWired, Searched, Offered(taskGraph) = {}
    PROVE  \A x \in start : x \in Vertices /\ OfferedByLoop(x)
<1>1. visited = Vertices
  <2>1. stack \in Seq(Vertices) /\ visited \subseteq Vertices  BY DEF Searched
  <2>2. Vertices \ visited = {}  BY <2>1, SearchIsAt
  <2> QED  BY <2>1, <2>2
<1> QED  BY <1>1 DEF Searched

------------------------------------------------------------------------------
(***************************************************************************)
(* What the loop offers first.                                             *)
(***************************************************************************)
Forward == \A g \in TaskGraphs : \A e \in stated[g].order : e[1] < e[2]

\* What the edges lead to from a task before it is not offered by the loop: so
\* it is a task of the root.
LEMMA OfferedIsOfRoot ==
    ASSUME AllWired, NEW x \in Vertices, OfferedByLoop(x)
    PROVE  tasks[x].kind # "exit" /\ tasks[x].path = <<x>> /\ x \in TaskIds(Root)
<1>1. /\ DOMAIN tasks = Vertices /\ EdgesAreStated /\ EntriesFirst /\ PlacesOK /\ AllThere
      /\ tasks[x].path \in Seq(Nat) /\ tasks[x].path # <<>>
    BY DEF AllWired, Laid
<1>2. PICK U \in SUBSET Vertices : /\ x \notin U /\ (\A y \in Vertices : y < x => y \in U)
                                   /\ \A u \in U : taskGraph[u] \subseteq U
    BY DEF OfferedByLoop
<1>3. tasks[x].kind # "exit" /\ Front(tasks[x].path) = <<>>
  <2>1. SUFFICES ASSUME tasks[x].kind = "exit" \/ Front(tasks[x].path) # <<>>  PROVE FALSE  OBVIOUS
  <2>2. PICK e \in DOMAIN tasks :
            /\ e < x /\ tasks[e].kind = "entry"
            /\ tasks[e].path = IF tasks[x].kind = "exit" THEN tasks[x].path ELSE Front(tasks[x].path)
      BY <1>1, <2>1 DEF EntriesFirst
  <2>3. taskGraph[e] =
            {w \in DOMAIN tasks : tasks[w].kind # "exit" /\ Front(tasks[w].path) = tasks[e].path}
                \cup ExitsAt(tasks[e].path)
      BY <1>1, <2>2 DEF EdgesAreStated, EdgesFrom
  <2>4. x \in taskGraph[e]  BY <1>1, <2>2, <2>3 DEF ExitsAt
  <2> QED  BY <1>1, <1>2, <2>2, <2>4
<1>4. PICK k : k = Last(tasks[x].path)  OBVIOUS
<1>5. tasks[x].path = <<k>> /\ k \in Nat
  <2>1. PICK path : path = tasks[x].path  OBVIOUS
  <2>2. Append(Front(path), Last(path)) = path /\ Last(path) \in Nat  BY <1>1, <2>1, PathSplits
  <2> QED  BY <1>3, <1>4, <2>1, <2>2
<1>6. k \in TaskIds(Root)
  <2>1. PlaceOK(tasks[x])  BY <1>1 DEF PlacesOK
  <2> QED  BY <1>3, <1>4, <2>1, GraphAtSteps DEF PlaceOK
<1>7. k \in DOMAIN tasks /\ tasks[k].path = <<k>> /\ tasks[k].kind # "exit"  BY <1>1, <1>6 DEF AllThere
<1>8. k = x  BY <1>1, <1>3, <1>5, <1>7 DEF PlacesOK
<1> QED  BY <1>3, <1>5, <1>6, <1>8

\* All tasks are in the root or in a sub-graph that a task of it stands for.
LEMMA PathsStartInRoot ==
    ASSUME AllWired
    PROVE  \A v \in DOMAIN tasks : tasks[v].path[1] \in TaskIds(Root)
<1> DEFINE Bad == {v \in DOMAIN tasks : tasks[v].path[1] \notin TaskIds(Root)}
<1>1. SUFFICES ASSUME Bad # {}  PROVE FALSE  OBVIOUS
<1>2. DOMAIN tasks \subseteq Nat /\ EntriesFirst /\ PlacesOK  BY DEF AllWired, Laid
<1>3. PICK v : v = Min(Bad)  OBVIOUS
<1>4. v \in Bad /\ \A u \in Bad : v <= u
  <2>1. Bad \subseteq Nat  BY <1>2
  <2> HIDE DEF Bad
  <2> QED  BY <1>1, <1>3, <2>1, MinOfNat
<1>5. PICK path : path = tasks[v].path  OBVIOUS
<1>6. /\ v \in DOMAIN tasks /\ path[1] \notin TaskIds(Root) /\ path \in Seq(Nat) /\ path # <<>>
      /\ \A e \in DOMAIN tasks : e < v => tasks[e].path[1] \in TaskIds(Root)
  <2>1. \A e \in DOMAIN tasks : e < v => ~(v <= e)  BY <1>2, <1>4
  <2> QED  BY <1>4, <1>5, <2>1 DEF AllWired, Laid
<1>7. tasks[v].kind # "exit"
  <2>1. tasks[v].kind = "exit" => \E e \in DOMAIN tasks : e < v /\ tasks[e].path = path
      BY <1>2, <1>5, <1>6 DEF EntriesFirst
  <2> QED  BY <1>6, <2>1
<1>8. Front(path) \in Seq(Nat) /\ Last(path) \in Nat /\ Append(Front(path), Last(path)) = path
    BY <1>6, PathSplits
<1>9. CASE Front(path) = <<>>
  <2>1. path = <<Last(path)>>  BY <1>8, <1>9
  <2>2. PlaceOK(tasks[v])  BY <1>2, <1>6 DEF PlacesOK
  <2>3. Last(path) \in TaskIds(Root)  BY <1>5, <1>9, <2>2, GraphAtSteps DEF PlaceOK
  <2>4. path[1] = Last(path)  BY <1>8, <2>1
  <2> QED  BY <1>6, <2>3, <2>4
<1>10. CASE Front(path) # <<>>
  <2>1. PICK e \in DOMAIN tasks : e < v /\ tasks[e].path = Front(path)
      BY <1>2, <1>5, <1>6, <1>7, <1>10 DEF EntriesFirst
  <2>2. PICK front : front = Front(path)  OBVIOUS
  <2>3. front \in Seq(Nat) /\ front # <<>> /\ Len(front) \in Nat \ {0}  BY <1>8, <1>10, <2>2, EmptySeq
  <2>4. path[1] = front[1]
    <3>1. \A i \in 1 .. Len(front) : Append(front, Last(path))[i] = front[i]  BY <1>8, <2>3, AppendProperties
    <3>2. 1 \in 1 .. Len(front)  BY <2>3
    <3> QED  BY <1>8, <2>2, <3>1, <3>2
  <2> QED  BY <1>6, <2>1, <2>2, <2>4
<1> QED  BY <1>9, <1>10

\* What a task that the loop offers has before it can only be a matter of the root.
LEMMA PrecedesInRoot ==
    ASSUME AllWired, NEW x \in Vertices, NEW y \in Vertices,
           tasks[x].kind # "exit", tasks[x].path = <<x>>, x \in TaskIds(Root), Precedes(y, x)
    PROVE  x \in StatedAhead(Root)[tasks[y].path[1]]
<1>1. PICK p, q, common : /\ p = tasks[y].path /\ q = <<x>>
                          /\ common = Len(LongestCommonPrefix({p, q}))
    OBVIOUS
<1>2. /\ p \in Seq(Nat) /\ p # <<>> /\ Len(p) \in Nat \ {0}
      /\ q \in Seq(Nat) /\ Len(q) = 1 /\ q[1] = x
  <2>1. p \in Seq(Nat) /\ p # <<>>  BY <1>1 DEF AllWired, Laid
  <2>2. x \in Nat  BY DEF TaskIds
  <2> QED  BY <1>1, <2>1, <2>2, EmptySeq
<1>3. /\ common \in 0 .. Len(p) /\ common \in 0 .. Len(q)
      /\ \A i \in 1 .. common : p[i] = q[i]
  <2>1. PartAfter(p, q, Len(LongestCommonPrefix({p, q})))  BY <1>2, CommonPrefix
  <2>2. PartAfter(p, q, common)  BY <1>1, <2>1
  <2> QED  BY <2>2 DEF PartAfter
<1>4. \/ p = q /\ tasks[x].kind = "exit"
      \/ p # q /\ common = Len(p)
      \/ common = Len(q) /\ tasks[x].kind = "exit"
      \/ /\ common # Len(p) /\ common # Len(q)
         /\ q[common + 1] \in StatedAhead(GraphAt(SubSeq(p, 1, common)))[p[common + 1]]
    BY <1>1 DEF Precedes
<1>5. ~(p # q /\ common = Len(p))
  <2>1. SUFFICES ASSUME p # q, common = Len(p)  PROVE FALSE  OBVIOUS
  <2>2. Len(p) = 1 /\ p[1] = q[1]  BY <1>2, <1>3, <2>1
  <2> QED  BY <1>2, <2>1, <2>2, SeqEqual
<1>6. common = 0 /\ q[common + 1] \in StatedAhead(GraphAt(SubSeq(p, 1, common)))[p[common + 1]]
    BY <1>2, <1>3, <1>4, <1>5
<1>7. SubSeq(p, 1, 0) = <<>>  BY SubSeqEmpty
<1>8. GraphAt(SubSeq(p, 1, common)) = Root /\ common + 1 = 1
  <2>1. common = 0  BY <1>6
  <2>2. SubSeq(p, 1, common) = <<>>  BY ONLY <1>7, <2>1
  <2>3. common + 1 = 1  BY ONLY <2>1
  <2>4. GraphAt(SubSeq(p, 1, common)) = Root  BY <2>2, GraphAtSteps
  <2> QED  BY ONLY <2>3, <2>4
<1>9. q[1] \in StatedAhead(Root)[p[1]]  BY ONLY <1>6, <1>8
<1> QED  BY <1>1, <1>2, <1>9

\* If the tasks of the root are ordered as they were added, no task that is before
\* another one is offered after it.
LEMMA NoneBeforeOffered ==
    ASSUME AllWired, Forward, NEW x \in Vertices, OfferedByLoop(x), NEW y \in Vertices
    PROVE  ~Precedes(y, x)
<1>1. SUFFICES ASSUME Precedes(y, x)  PROVE FALSE  OBVIOUS
<1>2. tasks[x].kind # "exit" /\ tasks[x].path = <<x>> /\ x \in TaskIds(Root)  BY OfferedIsOfRoot
<1>3. /\ DOMAIN tasks = Vertices /\ EdgesAreStated /\ AllThere  BY DEF AllWired, Laid
<1>4. PICK D, j : D = TaskIds(Root) /\ j = tasks[y].path[1]  OBVIOUS
<1>5. PICK order : order = stated[Root].order  OBVIOUS
<1>6. PICK next : next = [k \in D |-> {n \in D : <<k, n>> \in order}]  OBVIOUS
<1>7. j \in D /\ D \subseteq Nat /\ next \in [D -> SUBSET D]
    BY <1>3, <1>4, <1>6, PathsStartInRoot DEF TaskIds
<1>8. x \in Ahead(next)[j]  BY <1>1, <1>2, <1>4, <1>5, <1>6, PrecedesInRoot DEF StatedAhead
<1>9. IsFiniteSet(D)
  <2>1. D = 0 .. Len(taskData[Root]) - 1  BY <1>4 DEF TaskIds
  <2>2. D \subseteq DOMAIN tasks /\ \E n \in Nat : DOMAIN tasks = 0 .. n - 1
      BY <1>3, <1>4 DEF AllThere, AllWired, Laid
  <2>3. IsFiniteSet(DOMAIN tasks)
    <3>1. PICK n \in Nat : DOMAIN tasks = 0 .. n - 1  BY <2>2
    <3>2. 0 \in Int /\ n - 1 \in Int  OBVIOUS
    <3> QED  BY <3>1, <3>2, FS_Interval
  <2> QED  BY <2>2, <2>3, FS_Subset
<1>10. Least(next, D, D, Ahead(next))  BY <1>7, <1>9, AheadIsLeast
<1>11. \A k \in D, n \in D : n \in next[k] => k < n
  <2>1. \A e \in order : e[1] < e[2]  BY <1>5, PrebuildAssumption DEF Forward
  <2> QED  BY <1>6, <2>1
<1>12. j < x
  <2> DEFINE T == {n \in D : j < n}
  <2>1. ClosedFrom(next, j, D, T)
    <3>1. next[j] \subseteq T  BY <1>7, <1>11
    <3>2. ASSUME NEW u \in T  PROVE next[u] \subseteq T
      <4>1. ASSUME NEW n \in next[u]  PROVE n \in D /\ j < n
        <5>1. n \in D /\ u \in D /\ j < u /\ u < n  BY <1>7, <1>11
        <5> QED  BY <1>7, <5>1
      <4> QED  BY <4>1
    <3> QED  BY <3>1, <3>2 DEF ClosedFrom
  <2>2. Ahead(next)[j] \subseteq T
    <3> HIDE DEF T
    <3> QED  BY <1>7, <1>10, <2>1 DEF Least
  <2> QED  BY <1>8, <2>2
<1>13. PICK U \in SUBSET Vertices : /\ x \notin U /\ (\A u \in Vertices : u < x => u \in U)
                                    /\ \A u \in U : taskGraph[u] \subseteq U
    BY DEF OfferedByLoop
<1>14. \A k \in D : k \in DOMAIN tasks /\ tasks[k].path = <<k>> /\ tasks[k].kind # "exit"
    BY <1>3, <1>4 DEF AllThere
<1>15. ASSUME NEW u \in U \cap D  PROVE next[u] \subseteq U
  <2> SUFFICES ASSUME NEW n \in next[u]  PROVE n \in U  OBVIOUS
  <2>1. n \in D /\ <<u, n>> \in order /\ u \in DOMAIN tasks /\ n \in DOMAIN tasks  BY <1>6, <1>14
  <2>2. \A k \in D : Front(<<k>>) = <<>> /\ Last(<<k>>) = k
    <3>1. \A k \in Nat : Append(<<>>, k) = <<k>> /\ <<>> \in Seq(Nat)  OBVIOUS
    <3> QED  BY <1>7, <3>1, PathSplits
  <2>3. ASSUME NEW z \in DOMAIN tasks, tasks[z].path = <<u>>  PROVE n \in StatedNext(z)
    <3>1. Front(tasks[z].path) = <<>> /\ Last(tasks[z].path) = u  BY <2>2, <2>3
    <3>2. Front(tasks[n].path) = <<>> /\ Last(tasks[n].path) = n /\ tasks[n].kind # "exit"
        BY <1>14, <2>1, <2>2
    <3>3. stated[GraphAt(Front(tasks[z].path))].order = order  BY <1>5, <3>1, GraphAtSteps
    <3> QED  BY <2>1, <3>1, <3>2, <3>3 DEF StatedNext, Siblings
  <2>4. CASE tasks[u].kind # "entry"
    <3>1. n \in StatedNext(u)  BY <1>14, <2>3
    <3>2. n \in taskGraph[u]  BY <1>3, <2>1, <2>4, <3>1 DEF EdgesAreStated, EdgesFrom
    <3> QED  BY <1>13, <3>2
  <2>5. CASE tasks[u].kind = "entry"
    <3>1. PICK z : z \in ExitsAt(tasks[u].path)  BY <1>3, <2>1, <2>5 DEF AllThere
    <3>2. z \in taskGraph[u]  BY <1>3, <2>1, <2>5, <3>1 DEF EdgesAreStated, EdgesFrom
    <3>3. z \in U  BY <1>13, <3>2
    <3>4. z \in DOMAIN tasks /\ tasks[z].kind = "exit" /\ tasks[z].path = <<u>>
        BY <1>14, <3>1 DEF ExitsAt
    <3>5. n \in taskGraph[z]  BY <1>3, <2>3, <3>4 DEF EdgesAreStated, EdgesFrom
    <3> QED  BY <1>13, <3>3, <3>5
  <2> QED  BY <2>4, <2>5
<1>16. ClosedFrom(next, j, D, U)
  <2>1. j \in U  BY <1>3, <1>7, <1>12, <1>13, <1>14
  <2> QED  BY <1>7, <1>15, <2>1 DEF ClosedFrom
<1>17. Ahead(next)[j] \subseteq U  BY <1>7, <1>10, <1>16 DEF Least
<1> QED  BY <1>8, <1>13, <1>17

------------------------------------------------------------------------------
(***************************************************************************)
(* The prebuilding, phase by phase.                                        *)
(***************************************************************************)
StartsInOrder == Forward => \A x, y \in Vertices : x \in start => ~Precedes(y, x)

PrebuildInv ==
    /\ phase \in {"user", "resolve"} => visited = {} /\ stack = <<>>
    /\ phase = "resolve" => Wiring
    /\ phase = "validate" => AllWired /\ Searched
    /\ phase \in {"normalize", "prebuilt"} => StartsInOrder

LEMMA PrecedesStays ==
    ASSUME UNCHANGED <<taskData, tasks, stated>>
    PROVE  \A x, y : Precedes(x, y)' <=> Precedes(x, y)
<1>1. \A path : GraphAt(path)' = GraphAt(path)  BY GraphAtStays
<1>2. \A g : StatedAhead(g)' = StatedAhead(g)
  <2> SUFFICES ASSUME NEW g  PROVE StatedAhead(g)' = StatedAhead(g)  OBVIOUS
  <2>1. PICK D, order, next : /\ D = TaskIds(g) /\ order = stated[g].order
                              /\ next = [k \in D |-> {n \in D : <<k, n>> \in order}]
      OBVIOUS
  <2>2. TaskIds(g)' = D /\ stated'[g].order = order  BY <2>1, GraphStays
  <2>3. StatedAhead(g) = Ahead(next)  BY <2>1 DEF StatedAhead
  <2>4. StatedAhead(g)' = Ahead(next)  BY <2>1, <2>2 DEF StatedAhead
  <2> QED  BY <2>3, <2>4
<1>3. ASSUME NEW x, NEW y  PROVE Precedes(x, y)' <=> Precedes(x, y)
  <2>1. PICK p, q, common, g : /\ p = tasks[x].path /\ q = tasks[y].path
                               /\ common = Len(LongestCommonPrefix({p, q}))
                               /\ g = GraphAt(SubSeq(p, 1, common))
      OBVIOUS
  <2>2. tasks'[x].path = p /\ tasks'[y].path = q  BY <2>1
  <2>3. GraphAt(SubSeq(p, 1, common))' = g /\ StatedAhead(g)' = StatedAhead(g)  BY <1>1, <1>2, <2>1
  <2>4. StatedAhead(GraphAt(SubSeq(p, 1, common)))' = StatedAhead(g)
      BY <2>3 DEF StatedAhead, TaskIds
  <2> QED  BY <2>1, <2>2, <2>4 DEF Precedes
<1> QED  BY <1>3

LEMMA StartsInOrderStays ==
    ASSUME UNCHANGED <<taskData, tasks, stated, start, Vertices>>
    PROVE  StartsInOrder' <=> StartsInOrder
  BY PrecedesStays DEF StartsInOrder, Forward

LEMMA WiringStutters ==
    ASSUME UNCHANGED <<userVars, tasks, taskGraph, subGraphData, calls>>
    PROVE  Wiring => Wiring'
<1> SUFFICES ASSUME Wiring  PROVE Wiring'  OBVIOUS
<1>1. UNCHANGED <<taskData, taskOrderGraph, usageCall, stated>>  BY DEF userVars
<1>2. NoCallActive' /\ PlacesOK' /\ EdgesOK' /\ \A e : Filled(e)' <=> Filled(e)
    BY <1>1, WiringStays DEF Wiring, NoCallActive, Resizing
<1>3. Tables' = Tables /\ NumTasks' = NumTasks /\ Top' = Top  BY DEF Tables, NumTasks, Top
<1>4. CallsPlaced'
  <2>1. ASSUME NEW j \in DOMAIN calls  PROVE GraphAt(calls[j].path)' = GraphAt(calls[j].path)
    <3>1. PICK path : path = calls[j].path  OBVIOUS
    <3>2. calls'[j].path = path /\ GraphAt(path)' = GraphAt(path)  BY <1>1, <3>1, GraphAtStays
    <3> QED  BY <3>1, <3>2 DEF GraphAt
  <2> QED  BY <1>3, <2>1 DEF Wiring, CallsPlaced
<1>5. TablesPlaced'  BY <1>2, <1>3 DEF Wiring, TablesPlaced
<1>6. HaveTables'  BY <1>3 DEF Wiring, HaveTables
<1> QED  BY <1>2, <1>4, <1>5, <1>6 DEF Wiring

LEMMA SearchStutters ==
    ASSUME UNCHANGED <<taskGraph, visited, stack, start>>
    PROVE  Searched => Searched'
<1>1. Vertices' = Vertices /\ \A x : OfferedByLoop(x)' <=> OfferedByLoop(x)  BY DEF Vertices, OfferedByLoop
<1> QED  BY <1>1 DEF Searched

LEMMA PrebuildKeeps ==
    ASSUME Nested, OrderAsStated, ResolveInv, PrebuildInv, PrebuildNext
    PROVE  PrebuildInv'
<1>1. CASE phase = "user" /\ UserNext /\ UNCHANGED prebuildVars
  <2>1. phase' = "user" /\ visited' = visited /\ stack' = stack
      BY <1>1 DEF prebuildVars, searchVars
  <2> QED  BY <1>1, <2>1 DEF PrebuildInv
<1>2. CASE StartPrebuild
  <2>1. phase = "user" /\ phase' = "resolve" /\ visited' = visited /\ stack' = stack
      BY <1>2 DEF StartPrebuild, searchVars
  <2>2. Wiring'  BY <1>2, <2>1, StartWired DEF ResolveInv
  <2> QED  BY <2>1, <2>2 DEF PrebuildInv
<1>3. CASE CopyTasks
  <2>1. phase = "resolve" /\ phase' = "resolve" /\ visited' = visited /\ stack' = stack
        /\ UNCHANGED <<taskData, taskOrderGraph, usageCall>>
      BY <1>3 DEF CopyTasks, searchVars, userVars
  <2>2. Resolving /\ Wiring  BY <2>1 DEF ResolveInv, PrebuildInv
  <2>3. NoCallActive'  BY <2>1, <2>2 DEF Wiring, NoCallActive, Resizing
  <2>4. Wiring'
      BY <1>3, <2>2, <2>3, CopyTasksPlaces, CopyTasksPlaced, CopyTasksEdges DEF Wiring
  <2> QED  BY <2>1, <2>4 DEF PrebuildInv
<1>4. CASE ResolveSubGraph
  <2>1. phase = "resolve" /\ phase' = "resolve" /\ visited' = visited /\ stack' = stack
        /\ UNCHANGED <<taskData, taskOrderGraph, usageCall>>
      BY <1>4 DEF ResolveSubGraph, searchVars, userVars
  <2>2. Resolving /\ Wiring  BY <2>1 DEF ResolveInv, PrebuildInv
  <2>3. NoCallActive'  BY <2>1, <2>2 DEF Wiring, NoCallActive, Resizing
  <2>4. Wiring'
      BY <1>4, <2>2, <2>3, ResolveSubGraphPlaces, ResolveSubGraphPlaced, ResolveSubGraphEdges DEF Wiring
  <2> QED  BY <2>1, <2>4 DEF PrebuildInv
<1>5. CASE ReturnFromGraph
  <2>1. /\ phase = "resolve" /\ phase' = IF Len(calls) = 1 THEN "validate" ELSE "resolve"
        /\ UNCHANGED <<visited, stack, taskData, tasks, taskGraph, subGraphData, stated>>
      BY <1>5 DEF ReturnFromGraph, searchVars, userVars
  <2>2. Resolving /\ Wiring /\ visited = {} /\ stack = <<>>  BY <2>1 DEF ResolveInv, PrebuildInv
  <2>3. CASE Len(calls) = 1
    <3>1. AllWired'  BY <1>5, <2>1, <2>2, <2>3, LastReturnWired, AllWiredStays
    <3>2. Searched'  BY <1>5, <2>2, <2>3, SearchBegins
    <3> QED  BY <2>1, <2>3, <3>1, <3>2 DEF PrebuildInv
  <2>4. CASE Len(calls) # 1
    <3>1. Wiring'  BY <1>5, <2>2, <2>4, ReturnWired
    <3> QED  BY <2>1, <2>2, <2>4, <3>1 DEF PrebuildInv
  <2> QED  BY <2>3, <2>4
<1>6. CASE ValidateTask
  <2>1. phase = "validate" /\ phase' = "validate"
        /\ UNCHANGED <<taskData, tasks, taskGraph, subGraphData, stated>>
      BY <1>6 DEF ValidateTask, userVars
  <2>2. AllWired /\ Searched  BY <2>1 DEF PrebuildInv
  <2>3. AllWired' /\ Searched'  BY <1>6, <2>1, <2>2, AllWiredStays, ValidateTaskSearches
  <2> QED  BY <2>1, <2>3 DEF PrebuildInv
<1>7. CASE Validated
  <2>1. /\ phase = "validate" /\ phase' \in {"normalize", "refused"} /\ Offered(taskGraph) = {}
        /\ UNCHANGED <<taskData, tasks, taskGraph, stated, start>>
      BY <1>7 DEF Validated, prebuiltVars, userVars
  <2>2. AllWired /\ Searched  BY <2>1 DEF PrebuildInv
  <2>3. StartsInOrder  BY <2>1, <2>2, SearchEnds, NoneBeforeOffered DEF StartsInOrder
  <2>4. StartsInOrder'
    <3>1. Vertices' = Vertices  BY <2>1 DEF Vertices
    <3> QED  BY <2>1, <2>3, <3>1, StartsInOrderStays
  <2> QED  BY <2>1, <2>4 DEF PrebuildInv
<1>8. CASE NormalizeLevel \/ NormalizeEdges
  <2>1. /\ phase = "normalize" /\ phase' \in {"normalize", "prebuilt"}
        /\ UNCHANGED <<taskData, tasks, stated, start>> /\ DOMAIN taskGraph' = DOMAIN taskGraph
      BY <1>8 DEF NormalizeLevel, NormalizeEdges, userVars, StartSearchFrom
  <2>2. StartsInOrder  BY <2>1 DEF PrebuildInv
  <2>3. StartsInOrder'
    <3>1. Vertices' = Vertices  BY <2>1 DEF Vertices
    <3> QED  BY <2>1, <2>2, <3>1, StartsInOrderStays
  <2> QED  BY <2>1, <2>3 DEF PrebuildInv
<1> QED  BY <1>1, <1>2, <1>3, <1>4, <1>5, <1>6, <1>7, <1>8 DEF PrebuildNext, PrebuildStep

LEMMA PrebuildIsKept ==
    Nested /\ OrderAsStated /\ ResolveInv /\ PrebuildInv /\ [Next]_vars => PrebuildInv'
<1> SUFFICES ASSUME Nested, OrderAsStated, ResolveInv, PrebuildInv, [Next]_vars  PROVE PrebuildInv'
    OBVIOUS
<1>1. CASE PrebuildNext  BY <1>1, PrebuildKeeps
<1>2. CASE MergeStep
  <2>1. phase' \in {"group", "select", "pair", "join", "small", "write", "compiled"}
      BY <1>2, MergeStepPhases
  <2> QED  BY <2>1 DEF PrebuildInv
<1>3. CASE UNCHANGED vars
  <2>1. /\ UNCHANGED <<phase, userVars, tasks, taskGraph, subGraphData, calls, visited, stack, start>>
        /\ UNCHANGED <<taskData, stated, Vertices>>
      BY <1>3 DEF vars, userVars, prebuildVars, prebuiltVars, searchVars, Vertices
  <2>2. /\ Wiring => Wiring'
        /\ AllWired => AllWired'
        /\ Searched => Searched'
        /\ StartsInOrder => StartsInOrder'
      BY <2>1, WiringStutters, AllWiredStays, SearchStutters, StartsInOrderStays
  <2> QED  BY <2>1, <2>2 DEF PrebuildInv
<1> QED  BY <1>1, <1>2, <1>3 DEF Next

\* If tasks are ordered as they were added, what the search leaves flagged for the
\* start (417-433) has no predecessor, for every nesting of graphs: a task that is
\* not reached by an edge is offered by the loop over the roots, in the order of
\* the list, and whatever precedes it would have led the search to it.
THEOREM TasksStartFirst == Spec => []ForwardStartsFirst
<1>0. ResolveInv /\ Nested /\ [Next]_vars => ResolveInv'  BY ResolveIsKept
<1>1. PrebuildInit => ResolveInv /\ PrebuildInv
    BY DEF PrebuildInit, ResolveInv, SubGraphsResolved, PrebuildInv
<1>2. Nested /\ OrderAsStated /\ ResolveInv /\ PrebuildInv /\ [Next]_vars => PrebuildInv'  BY PrebuildIsKept
<1>3. PrebuildInv => ForwardStartsFirst
  BY DEF PrebuildInv, StartsInOrder, Forward, ForwardStartsFirst
<1> QED  BY <1>0, <1>1, <1>2, <1>3, GraphsAreNested, CompilerReadsOrder, PTL DEF Spec

------------------------------------------------------------------------------
(***************************************************************************)
(* What can be reached, and edges that can be spared.                      *)
(***************************************************************************)
LEMMA ReachIsClosed ==
    ASSUME NEW D, NEW next \in [D -> SUBSET D], NEW ahead, Least(next, D, D, ahead), NEW v \in D
    PROVE  /\ ahead[v] \subseteq D /\ next[v] \subseteq ahead[v]
           /\ \A u \in ahead[v] : next[u] \subseteq ahead[v] /\ ahead[u] \subseteq ahead[v]
<1>1. ahead[v] \subseteq D /\ next[v] \subseteq ahead[v] /\ \A u \in ahead[v] : next[u] \subseteq ahead[v]
    BY DEF Least, ClosedFrom
<1>2. ASSUME NEW u \in ahead[v]  PROVE ahead[u] \subseteq ahead[v]
  <2>1. ClosedFrom(next, u, D, ahead[v])  BY <1>1 DEF ClosedFrom
  <2> QED  BY <1>1, <2>1 DEF Least
<1> QED  BY <1>1, <1>2

\* Only one function is what can be reached.
LEMMA LeastIsUnique ==
    ASSUME NEW D, NEW next, NEW a, NEW b, Least(next, D, D, a), Least(next, D, D, b)
    PROVE  a = b
<1>1. a \in [D -> SUBSET D] /\ b \in [D -> SUBSET D]  BY DEF Least
<1>2. \A v \in D : a[v] \subseteq b[v] /\ b[v] \subseteq a[v]  BY DEF Least
<1> QED  BY <1>1, <1>2

\* Edges of a vertex that no path leads back to, which other edges of it make up
\* for, can be taken away.
LEMMA SparedEdges ==
    ASSUME NEW D, NEW next \in [D -> SUBSET D], NEW ahead, Least(next, D, D, ahead),
           NEW b \in D, b \notin ahead[b], NEW X,
           \A v \in X \cap next[b] : \E y \in next[b] \ X : v \in ahead[y]
    PROVE  Least([next EXCEPT ![b] = @ \ X], D, D, ahead)
<1>1. PICK less : less = [next EXCEPT ![b] = @ \ X]  OBVIOUS
<1>2. /\ less \in [D -> SUBSET D] /\ less[b] = next[b] \ X
      /\ \A v \in D : v # b => less[v] = next[v]
    BY <1>1
<1>3. ahead \in [D -> SUBSET D]  BY DEF Least
<1>4. ASSUME NEW v \in D  PROVE ClosedFrom(less, v, D, ahead[v])
  <2>1. \A u \in D : less[u] \subseteq next[u]  BY <1>2
  <2>2. next[v] \subseteq ahead[v] /\ \A u \in ahead[v] : next[u] \subseteq ahead[v]  BY ReachIsClosed
  <2> QED  BY <1>3, <2>1, <2>2 DEF ClosedFrom
<1>5. ASSUME NEW v \in D, NEW T, ClosedFrom(less, v, D, T)  PROVE ahead[v] \subseteq T
  \* What the vertex b leads to, if b is among those that T has to be closed from.
  <2>1. ASSUME less[b] \subseteq T  PROVE next[b] \subseteq T
    <3>1. SUFFICES ASSUME NEW z \in X \cap next[b]  PROVE z \in T  BY <1>2, <2>1
    <3>2. PICK y \in next[b] \ X : z \in ahead[y]  OBVIOUS
    <3>3. y \in T /\ y \in D /\ y \in ahead[b]  BY <1>2, <2>1, <3>2, ReachIsClosed
    <3>4. b \notin ahead[y]  BY <3>3, ReachIsClosed
    <3>5. y # b  BY <3>3
    <3>6. ClosedFrom(next, y, D, T \cap ahead[y])
      <4>1. next[y] \subseteq T  BY <1>2, <1>5, <3>3, <3>5 DEF ClosedFrom
      <4>2. ASSUME NEW u \in T \cap ahead[y]  PROVE next[u] \subseteq T
        <5>1. u \in D /\ u # b  BY <1>3, <3>3, <3>4
        <5> QED  BY <1>2, <1>5, <5>1 DEF ClosedFrom
      <4>3. next[y] \subseteq ahead[y] /\ \A u \in ahead[y] : next[u] \subseteq ahead[y]
          BY <3>3, ReachIsClosed
      <4> QED  BY <4>1, <4>2, <4>3 DEF ClosedFrom
    <3>7. ahead[y] \subseteq T \cap ahead[y]  BY <3>3, <3>6 DEF Least
    <3> QED  BY <3>2, <3>7
  <2>2. ClosedFrom(next, v, D, T)
    <3>1. next[v] \subseteq T
      <4>1. CASE v = b  BY <1>5, <2>1, <4>1 DEF ClosedFrom
      <4>2. CASE v # b  BY <1>2, <1>5, <4>2 DEF ClosedFrom
      <4> QED  BY <4>1, <4>2
    <3>2. ASSUME NEW u \in T \cap D  PROVE next[u] \subseteq T
      <4>1. CASE u = b  BY <1>5, <2>1, <3>2, <4>1 DEF ClosedFrom
      <4>2. CASE u # b  BY <1>2, <1>5, <3>2, <4>2 DEF ClosedFrom
      <4> QED  BY <4>1, <4>2
    <3> QED  BY <3>1, <3>2 DEF ClosedFrom
  <2> QED  BY <2>2 DEF Least
<1> QED  BY <1>1, <1>3, <1>4, <1>5 DEF Least

------------------------------------------------------------------------------
(***************************************************************************)
(* The levels of one search of the normalization.                          *)
(***************************************************************************)
Labelled(v) == label[v] > 0 \/ (v = base /\ depth > 0)

\* The labels are lengths of paths from the base.  What a labelled task leads to
\* has a greater label, or gets one next.
LevelsOK(ahead) ==
    /\ base \in Vertices /\ label \in [Vertices -> Nat] /\ frontier \subseteq Vertices /\ depth \in Nat
    /\ depth = 0 => frontier = {base} /\ \A v \in Vertices : label[v] = 0
    /\ depth = 1 => frontier = taskGraph[base]
    /\ depth > 0 => \A v \in Vertices : label[v] < depth
    /\ \A v \in Vertices : label[v] > 0 \/ (v \in frontier /\ depth > 0) => v \in ahead[base]
    /\ \A v \in Vertices : label[v] > 1 \/ (v \in frontier /\ depth > 1) =>
            \E y \in taskGraph[base] : v \in ahead[y]
    /\ \A u \in Vertices : Labelled(u) => \A w \in taskGraph[u] :
            label[w] > label[u] \/ (label[u] + 1 = depth /\ w \in frontier)

LEMMA SearchStarts ==
    ASSUME NEW b \in Vertices, StartSearchFrom(b), NEW ahead, Vertices' = Vertices
    PROVE  LevelsOK(ahead)'
  BY DEF StartSearchFrom, LevelsOK, Labelled

LEMMA LevelIsKept ==
    ASSUME NEW ahead, taskGraph \in [Vertices -> SUBSET Vertices],
           Least(taskGraph, Vertices, Vertices, ahead), LevelsOK(ahead), NormalizeLevel
    PROVE  LevelsOK(ahead)' /\ Fresh = frontier
<1>1. /\ base \in Vertices /\ label \in [Vertices -> Nat] /\ frontier \subseteq Vertices /\ depth \in Nat
      /\ depth = 0 => frontier = {base} /\ \A v \in Vertices : label[v] = 0
      /\ depth = 1 => frontier = taskGraph[base]
      /\ depth > 0 => \A v \in Vertices : label[v] < depth
    BY DEF LevelsOK
<1>2. Fresh = frontier  BY <1>1 DEF Fresh
<1>3. /\ label' = [v \in Vertices |-> IF v \in frontier THEN depth ELSE label[v]]
      /\ frontier' = UNION {taskGraph[v] : v \in frontier} /\ depth' = depth + 1
      /\ taskGraph' = taskGraph /\ base' = base /\ Vertices' = Vertices
    BY <1>2 DEF NormalizeLevel, Vertices
<1>4. \A u \in Vertices : taskGraph[u] \subseteq Vertices /\ taskGraph[u] \subseteq ahead[u]
    BY ReachIsClosed
<1>5. /\ base' \in Vertices' /\ label' \in [Vertices' -> Nat] /\ frontier' \subseteq Vertices' /\ depth' \in Nat
      /\ depth' # 0 /\ (depth' = 1 => frontier' = taskGraph'[base'])
      /\ \A v \in Vertices : label'[v] < depth'
  <2>1. frontier' \subseteq Vertices  BY <1>1, <1>3, <1>4
  <2>2. depth = 0 => frontier' = taskGraph[base]  BY <1>1, <1>3
  <2> QED  BY <1>1, <1>3, <2>1, <2>2
<1>6. ASSUME NEW v \in Vertices, label'[v] > 0 \/ v \in frontier'
      PROVE  v \in ahead[base]
  <2>1. CASE v \in frontier'
    <3>1. PICK u \in frontier : v \in taskGraph[u]  BY <1>3, <2>1
    <3>2. u = base \/ u \in ahead[base]  BY <1>1, <3>1 DEF LevelsOK
    <3> QED  BY <1>1, <1>4, <3>1, <3>2, ReachIsClosed
  <2>2. CASE label'[v] > 0
    <3>1. label[v] > 0 \/ (v \in frontier /\ depth > 0)  BY <1>1, <1>3, <2>2
    <3> QED  BY <3>1 DEF LevelsOK
  <2> QED  BY <1>6, <2>1, <2>2
<1>7. ASSUME NEW v \in Vertices, label'[v] > 1 \/ (v \in frontier' /\ depth' > 1)
      PROVE  \E y \in taskGraph[base] : v \in ahead[y]
  <2>1. CASE label'[v] > 1
    <3>1. label[v] > 1 \/ (v \in frontier /\ depth > 1)  BY <1>1, <1>3, <2>1
    <3> QED  BY <3>1 DEF LevelsOK
  <2>2. CASE v \in frontier' /\ depth' > 1
    <3>1. PICK u \in frontier : v \in taskGraph[u]  BY <1>3, <2>2
    <3>2. CASE depth = 1
      <4>1. u \in taskGraph[base] /\ v \in ahead[u]  BY <1>1, <1>4, <3>1, <3>2
      <4> QED  BY <4>1
    <3>3. CASE depth > 1
      <4>1. PICK y \in taskGraph[base] : u \in ahead[y]  BY <1>1, <3>1, <3>3 DEF LevelsOK
      <4>2. y \in Vertices  BY <1>1, <1>4, <4>1
      <4>3. taskGraph[u] \subseteq ahead[y]  BY <4>1, <4>2, ReachIsClosed
      <4> QED  BY <3>1, <4>1, <4>3
    <3>4. depth = 1 \/ depth > 1  BY <1>1, <1>3, <2>2
    <3> QED  BY <3>2, <3>3, <3>4
  <2> QED  BY <1>7, <2>1, <2>2
<1>8. ASSUME NEW u \in Vertices, label'[u] > 0 \/ (u = base /\ depth' > 0), NEW w \in taskGraph[u]
      PROVE  label'[w] > label'[u] \/ (label'[u] + 1 = depth' /\ w \in frontier')
  <2>1. w \in Vertices  BY <1>4
  <2>2. CASE u \in frontier  BY <1>1, <1>3, <2>2
  <2>3. CASE u \notin frontier
    <3>1. label'[u] = label[u] /\ label[u] \in Nat /\ label[w] \in Nat  BY <1>1, <1>3, <2>1, <2>3
    <3>2. depth # 0  BY <1>1, <1>3, <1>8, <2>3, <3>1
    <3>3. Labelled(u) /\ label[w] < depth /\ label[u] < depth  BY <1>1, <1>8, <2>1, <3>1, <3>2 DEF Labelled
    <3>4. label[w] > label[u] \/ (label[u] + 1 = depth /\ w \in frontier)  BY <3>3 DEF LevelsOK
    <3>5. label'[w] = IF w \in frontier THEN depth ELSE label[w]  BY <1>3, <2>1
    <3> QED  BY <1>1, <3>1, <3>3, <3>4, <3>5
  <2> QED  BY <2>2, <2>3
<1> QED  BY <1>2, <1>3, <1>5, <1>6, <1>7, <1>8 DEF LevelsOK, Labelled

\* When the queue is empty, the labels tell what is ahead of the base and which of
\* its edges a longer path makes redundant; and no path leads back to it, since
\* labels grow along the edges.
LEMMA LevelsEnd ==
    ASSUME NEW ahead, taskGraph \in [Vertices -> SUBSET Vertices],
           Least(taskGraph, Vertices, Vertices, ahead), LevelsOK(ahead), frontier = {}
    PROVE  /\ base \in Vertices /\ base \notin ahead[base]
           /\ \A v \in Vertices : label[v] > 0 <=> v \in ahead[base]
           /\ \A v \in Redundant : \E y \in taskGraph[base] \ Redundant : v \in ahead[y]
           /\ \A y, z \in taskGraph[base] \ Redundant : z \notin ahead[y]
<1>1. /\ base \in Vertices /\ label \in [Vertices -> Nat] /\ depth \in Nat /\ depth > 0 /\ Labelled(base)
    BY DEF LevelsOK, Labelled
<1>2. \A u \in Vertices : taskGraph[u] \subseteq Vertices /\ taskGraph[u] \subseteq ahead[u]
    BY ReachIsClosed
<1>3. \A u \in Vertices : Labelled(u) => \A w \in taskGraph[u] : label[w] > label[u]
    BY DEF LevelsOK
<1>4. ASSUME NEW u \in Vertices, Labelled(u), NEW w \in ahead[u]  PROVE label[w] > label[u]
  <2> DEFINE T == {x \in Vertices : label[x] > label[u]}
  <2>1. ClosedFrom(taskGraph, u, Vertices, T)
    <3>1. taskGraph[u] \subseteq T  BY <1>2, <1>3, <1>4
    <3>2. ASSUME NEW x \in T, NEW z \in taskGraph[x]  PROVE z \in T
      <4>1. Labelled(x) /\ label[x] > label[u]  BY <1>1, <3>2 DEF Labelled
      <4>2. label[z] > label[x] /\ z \in Vertices  BY <1>2, <1>3, <3>2, <4>1
      <4> QED  BY <1>1, <4>1, <4>2
    <3> QED  BY <3>1, <3>2 DEF ClosedFrom
  <2>2. ahead[u] \subseteq T
    <3> HIDE DEF T
    <3> QED  BY <2>1 DEF Least
  <2> QED  BY <1>4, <2>2
<1>5. ahead[base] \subseteq Vertices  BY <1>1, ReachIsClosed
<1>6. base \notin ahead[base]  BY <1>1, <1>4
<1>7. ASSUME NEW v \in Vertices  PROVE label[v] > 0 <=> v \in ahead[base]
  <2>1. label[v] > 0 => v \in ahead[base]  BY DEF LevelsOK
  <2>2. v \in ahead[base] => label[v] > label[base]  BY <1>1, <1>4
  <2> QED  BY <1>1, <2>1, <2>2
<1>8. ASSUME NEW y \in taskGraph[base], NEW z \in taskGraph[base], z \in ahead[y]  PROVE z \in Redundant
  <2>1. y \in Vertices /\ z \in Vertices /\ label[y] > 0  BY <1>1, <1>2, <1>7
  <2>2. label[z] > label[y]  BY <1>4, <1>8, <2>1 DEF Labelled
  <2>3. label[z] > 1  BY <1>1, <2>1, <2>2
  <2> QED  BY <2>3 DEF Redundant
<1>9. ASSUME NEW v \in Redundant  PROVE \E y \in taskGraph[base] \ Redundant : v \in ahead[y]
  <2> DEFINE S == {y \in taskGraph[base] : y = v \/ v \in ahead[y]}
             lengths == {label[y] : y \in S}
  <2>1. v \in S /\ S \subseteq Vertices  BY <1>1, <1>2 DEF Redundant
  <2>2. lengths \subseteq Nat /\ label[v] \in lengths  BY <1>1, <2>1
  <2>3. Min(lengths) \in lengths /\ \A l \in lengths : Min(lengths) <= l
    <3> HIDE DEF lengths
    <3> QED  BY <2>2, MinOfNat
  <2>4. PICK y \in S : label[y] = Min(lengths)  BY <2>3
  <2>5. y \in Vertices /\ \A x \in S : label[y] <= label[x]  BY <2>1, <2>3, <2>4
  <2>6. ASSUME y \in Redundant  PROVE FALSE
    <3>1. label[y] > 1  BY <2>6 DEF Redundant
    <3>2. PICK x \in taskGraph[base] : y \in ahead[x]  BY <2>5, <3>1 DEF LevelsOK
    <3>3. x \in Vertices /\ label[x] > 0  BY <1>1, <1>2, <1>7, <3>2
    <3>4. ahead[y] \subseteq ahead[x]  BY <3>2, <3>3, ReachIsClosed
    <3>5. x \in S  BY <3>2, <3>4
    <3>6. label[y] > label[x] /\ label[y] <= label[x]  BY <1>4, <2>5, <3>2, <3>3, <3>5 DEF Labelled
    <3>7. label[y] \in Nat /\ label[x] \in Nat  BY <1>1, <2>5, <3>3
    <3> QED  BY ONLY <3>6, <3>7
  <2> QED  BY <2>6
<1> QED  BY <1>1, <1>6, <1>7, <1>8, <1>9

------------------------------------------------------------------------------
(***************************************************************************)
(* What the stated edges lead to.                                          *)
(***************************************************************************)
StatedGraph == [v \in DOMAIN tasks |-> EdgesFrom(v)]

StatedReach(ahead) == Least(StatedGraph, DOMAIN tasks, DOMAIN tasks, ahead)

\* A path is another one or leads to it.
Covers(p, q) == Len(p) <= Len(q) /\ \A i \in 1 .. Len(p) : p[i] = q[i]

LEMMA CoversSteps ==
    /\ \A p, q \in Seq(Nat) : Covers(p, q) /\ Len(p) = Len(q) => p = q
    /\ \A p, q \in Seq(Nat) : q # <<>> => Covers(Front(q), q) /\ Len(Front(q)) = Len(q) - 1
    /\ \A p, q \in Seq(Nat) : q # <<>> /\ Covers(p, q) /\ Len(p) # Len(q) => Covers(p, Front(q))
<1>1. ASSUME NEW p \in Seq(Nat), NEW q \in Seq(Nat), Covers(p, q), Len(p) = Len(q)  PROVE p = q
    BY <1>1, SeqEqual DEF Covers
<1>2. ASSUME NEW p \in Seq(Nat), NEW q \in Seq(Nat), q # <<>>
      PROVE  /\ Covers(Front(q), q) /\ Len(Front(q)) = Len(q) - 1
             /\ Covers(p, q) /\ Len(p) # Len(q) => Covers(p, Front(q))
  <2>1. PICK f : f = Front(q)  OBVIOUS
  <2>2. /\ f \in Seq(Nat) /\ Len(q) = Len(f) + 1 /\ Len(f) \in Nat /\ Len(p) \in Nat
        /\ \A i \in 1 .. Len(f) : q[i] = f[i]
      BY <1>2, <2>1, FrontIsAbove, LenProperties DEF Under
  <2>3. Covers(f, q) /\ Len(f) = Len(q) - 1  BY <2>2 DEF Covers
  <2>4. ASSUME Covers(p, q), Len(p) # Len(q)  PROVE Covers(p, f)
    <3>1. Len(p) <= Len(f) /\ \A i \in 1 .. Len(p) : p[i] = q[i] /\ i \in 1 .. Len(f)
        BY <2>2, <2>4 DEF Covers
    <3> QED  BY <2>2, <3>1 DEF Covers
  <2> QED  BY <2>1, <2>3, <2>4
<1> QED  BY <1>1, <1>2

LEMMA CoversGoesOn ==
    ASSUME NEW p \in Seq(Nat), NEW q \in Seq(Nat), NEW r \in Seq(Nat), Covers(p, q), Covers(q, r)
    PROVE  Covers(p, r)
<1>1. PICK k, l, m : k = Len(p) /\ l = Len(q) /\ m = Len(r)  OBVIOUS
<1>2. k \in Nat /\ l \in Nat /\ m \in Nat  BY <1>1, LenProperties
<1>3. /\ k <= l /\ \A i \in 1 .. k : p[i] = q[i]
      /\ l <= m /\ \A i \in 1 .. l : q[i] = r[i]
    BY <1>1 DEF Covers
<1>4. k <= m /\ \A i \in 1 .. k : i \in 1 .. l  BY ONLY <1>2, <1>3
<1>5. \A i \in 1 .. k : p[i] = r[i]  BY ONLY <1>3, <1>4
<1> QED  BY <1>1, <1>4, <1>5 DEF Covers

\* For every place on the path of a task there is the task or entry that it is in.
LEMMA PlacesAbove ==
    ASSUME Laid, NEW v \in DOMAIN tasks, NEW l \in 1 .. Len(tasks[v].path)
    PROVE  \E u \in DOMAIN tasks : /\ tasks[u].kind # "exit" /\ Len(tasks[u].path) = l
                                   /\ Covers(tasks[u].path, tasks[v].path)
                                   /\ l < Len(tasks[v].path) => tasks[u].kind = "entry"
<1> DEFINE Above(u, w, m) ==
                /\ tasks[u].kind # "exit" /\ Len(tasks[u].path) = m
                /\ Covers(tasks[u].path, tasks[w].path)
                /\ m < Len(tasks[w].path) => tasks[u].kind = "entry"
           Bad == {w \in DOMAIN tasks :
                    \E m \in 1 .. Len(tasks[w].path) : \A u \in DOMAIN tasks : ~Above(u, w, m)}
<1>1. SUFFICES ASSUME Bad # {}  PROVE FALSE  OBVIOUS
<1>2. Bad \subseteq Nat  BY DEF Laid
<1>3. PICK w : w = Min(Bad)  OBVIOUS
<1>4. w \in Bad /\ \A x \in Bad : w <= x
  <2> HIDE DEF Bad
  <2> QED  BY <1>1, <1>2, <1>3, MinOfNat
<1>5. PICK m \in 1 .. Len(tasks[w].path) : \A u \in DOMAIN tasks : ~Above(u, w, m)  BY <1>4
<1>6. PICK p, L : p = tasks[w].path /\ L = Len(p)  OBVIOUS
<1>7. w \in DOMAIN tasks /\ DOMAIN tasks \subseteq Nat /\ p \in Seq(Nat) /\ p # <<>> /\ L \in Nat \ {0}
      /\ \A x \in DOMAIN tasks : tasks[x].path \in Seq(Nat) /\ tasks[x].path # <<>>
  <2>1. w \in DOMAIN tasks /\ p \in Seq(Nat) /\ p # <<>>  BY <1>4, <1>6 DEF Laid
  <2> QED  BY <1>6, <2>1, EmptySeq DEF Laid
<1>8. ASSUME NEW x \in DOMAIN tasks, x < w, NEW k \in 1 .. Len(tasks[x].path)
      PROVE  \E u \in DOMAIN tasks : Above(u, x, k)
  <2>1. x \notin Bad
    <3>1. x \in Nat /\ w \in Nat /\ x < w  BY <1>7, <1>8
    <3>2. ~(w <= x)  BY ONLY <3>1
    <3> HIDE DEF Bad
    <3> QED  BY <1>4, <3>2
  <2> QED  BY <1>8, <2>1
<1> HIDE DEF Bad
<1>9. Covers(p, p)  BY <1>7 DEF Covers
\* The entry before w covers it, and what covers the entry.
<1>10. ASSUME NEW e \in DOMAIN tasks, e < w, tasks[e].kind = "entry", Covers(tasks[e].path, p),
              m <= Len(tasks[e].path)
       PROVE  FALSE
  <2>1. PICK q : q = tasks[e].path  OBVIOUS
  <2>2. q \in Seq(Nat) /\ Len(q) \in Nat /\ m \in 1 .. Len(q)  BY <1>5, <1>7, <1>10, <2>1, LenProperties
  <2>3. PICK u \in DOMAIN tasks : Above(u, e, m)  BY <1>8, <1>10, <2>1, <2>2
  <2>4. PICK r : r = tasks[u].path  OBVIOUS
  <2>5. Covers(r, q) /\ Covers(q, p) /\ Len(r) = m /\ r \in Seq(Nat)  BY <1>7, <1>10, <2>1, <2>3, <2>4
  <2>6. Covers(r, p)
    <3> HIDE DEF Covers
    <3> QED  BY ONLY <1>7, <2>2, <2>5, CoversGoesOn
  <2>7. tasks[u].kind = "entry"
    <3>1. CASE m < Len(q)  BY <2>1, <2>3, <3>1
    <3>2. CASE m = Len(q)
      <4>1. r = q  BY <2>2, <2>5, <3>2, CoversSteps
      <4>2. u = e  BY <1>10, <2>1, <2>3, <2>4, <4>1 DEF Laid, PlacesOK
      <4> QED  BY <1>10, <4>2
    <3> QED  BY <2>2, <3>1, <3>2
  <2> QED  BY <1>5, <1>6, <2>3, <2>4, <2>6, <2>7
<1>11. CASE tasks[w].kind = "exit"
  <2>1. PICK e \in DOMAIN tasks : e < w /\ tasks[e].kind = "entry" /\ tasks[e].path = p
      BY <1>6, <1>7, <1>11 DEF Laid, EntriesFirst
  <2> QED  BY <1>5, <1>6, <1>7, <1>9, <1>10, <2>1
<1>12. CASE tasks[w].kind # "exit" /\ m = L  BY <1>5, <1>6, <1>7, <1>9, <1>12
<1>13. CASE tasks[w].kind # "exit" /\ m # L
  <2>1. Covers(Front(p), p) /\ Len(Front(p)) = L - 1  BY <1>6, <1>7, CoversSteps
  <2>2. m \in 1 .. L /\ m <= L - 1  BY <1>5, <1>6, <1>7, <1>13
  <2>3. Front(p) # <<>>
    <3>1. Len(Front(p)) # 0  BY <1>7, <2>1, <2>2
    <3> QED  BY <3>1
  <2>4. PICK e \in DOMAIN tasks : e < w /\ tasks[e].kind = "entry" /\ tasks[e].path = Front(p)
      BY <1>6, <1>7, <1>13, <2>3 DEF Laid, EntriesFirst
  <2> QED  BY <1>10, <2>1, <2>2, <2>4
<1> QED  BY <1>11, <1>12, <1>13

LEMMA StatedGraphIs ==
    /\ StatedGraph \in [DOMAIN tasks -> SUBSET DOMAIN tasks]
    /\ \A v \in DOMAIN tasks : StatedGraph[v] = EdgesFrom(v)
  BY DEF StatedGraph, EdgesFrom, StatedNext, ExitsAt

LEMMA PathOf ==
    ASSUME Laid, NEW v \in DOMAIN tasks
    PROVE  /\ tasks[v].path \in Seq(Nat) /\ tasks[v].path # <<>> /\ Len(tasks[v].path) \in Nat \ {0}
           /\ v \in Nat
<1>1. PICK p : p = tasks[v].path  OBVIOUS
<1>2. p \in Seq(Nat) /\ p # <<>> /\ v \in Nat  BY <1>1 DEF Laid
<1> QED  BY <1>1, <1>2, EmptySeq

\* Two tasks at one place are the same, or one of them is its exit.
LEMMA OneAtPlace ==
    ASSUME Laid, NEW v \in DOMAIN tasks, NEW w \in DOMAIN tasks, tasks[v].path = tasks[w].path, v # w
    PROVE  \/ tasks[v].kind = "entry" /\ tasks[w].kind = "exit"
           \/ tasks[v].kind = "exit" /\ tasks[w].kind = "entry"
<1>1. PICK p : p = tasks[v].path /\ p = tasks[w].path  OBVIOUS
<1>2. PICK k : k \in {"task", "entry", "exit"} /\ tasks[v].kind = k
    BY DEF Laid, PlacesOK, PlaceOK
<1>3. /\ tasks[v].kind \in (IF SubGraph(GraphAt(Front(p)), Last(p)) = NoGraph THEN {"task"} ELSE {"entry", "exit"})
      /\ tasks[w].kind \in (IF SubGraph(GraphAt(Front(p)), Last(p)) = NoGraph THEN {"task"} ELSE {"entry", "exit"})
    BY <1>1 DEF Laid, PlacesOK, PlaceOK
<1>4. ~(tasks[v].kind = "exit" <=> tasks[w].kind = "exit")  BY DEF Laid, PlacesOK
<1> QED  BY <1>3, <1>4

\* Everything in a sub-graph, and its exit, comes after its entry.
LEMMA EntryLeads ==
    ASSUME Laid, NEW ahead, StatedReach(ahead), NEW e \in DOMAIN tasks, tasks[e].kind = "entry",
           NEW y \in DOMAIN tasks, y # e, Covers(tasks[e].path, tasks[y].path)
    PROVE  y \in ahead[e]
<1>1. PICK p : p = tasks[e].path  OBVIOUS
<1> DEFINE Bad == {v \in DOMAIN tasks : v # e /\ Covers(p, tasks[v].path) /\ v \notin ahead[e]}
<1>2. SUFFICES ASSUME Bad # {}  PROVE FALSE  BY <1>1
<1>3. Bad \subseteq Nat  BY DEF Laid
<1>4. PICK v : v = Min(Bad)  OBVIOUS
<1>5. v \in Bad /\ \A x \in Bad : v <= x
  <2> HIDE DEF Bad
  <2> QED  BY <1>2, <1>3, <1>4, MinOfNat
<1>6. v \in DOMAIN tasks /\ v # e /\ Covers(p, tasks[v].path) /\ v \notin ahead[e]  BY <1>5
<1>7. ASSUME NEW x \in DOMAIN tasks, x < v, x # e, Covers(p, tasks[x].path)  PROVE x \in ahead[e]
  <2>1. x \in Nat /\ v \in Nat  BY <1>6, PathOf
  <2>2. ~(v <= x)  BY ONLY <1>7, <2>1
  <2>3. x \notin Bad
    <3> HIDE DEF Bad
    <3> QED  BY <1>5, <2>2
  <2> QED  BY <1>7, <2>3
<1> HIDE DEF Bad
<1>8. PICK q : q = tasks[v].path  OBVIOUS
<1>9. p \in Seq(Nat) /\ q \in Seq(Nat) /\ q # <<>> /\ Len(p) \in Nat \ {0} /\ Len(q) \in Nat \ {0}
      /\ Covers(p, q)
    BY <1>1, <1>6, <1>8, PathOf
<1>10. /\ StatedGraph \in [DOMAIN tasks -> SUBSET DOMAIN tasks]
       /\ \A x \in DOMAIN tasks : StatedGraph[x] = EdgesFrom(x)
    BY StatedGraphIs
<1>11. EdgesFrom(e) \subseteq ahead[e] /\ \A x \in ahead[e] : EdgesFrom(x) \subseteq ahead[e]
  <2>1. ahead[e] \subseteq DOMAIN tasks /\ StatedGraph[e] \subseteq ahead[e]
        /\ \A x \in ahead[e] : StatedGraph[x] \subseteq ahead[e]
      BY <1>10, ReachIsClosed DEF StatedReach
  <2> QED  BY <1>10, <2>1
\* An entry that v follows.
<1>12. ASSUME NEW d \in DOMAIN tasks, d < v, Covers(p, tasks[d].path), v \in EdgesFrom(d)  PROVE FALSE
  <2>1. CASE d = e  BY <1>6, <1>11, <1>12, <2>1
  <2>2. CASE d # e  BY <1>6, <1>7, <1>11, <1>12, <2>2
  <2> QED  BY <2>1, <2>2
<1>13. CASE tasks[v].kind = "exit"
  <2>1. PICK d \in DOMAIN tasks : d < v /\ tasks[d].kind = "entry" /\ tasks[d].path = q
      BY <1>6, <1>8, <1>13 DEF Laid, EntriesFirst
  <2>2. v \in EdgesFrom(d)  BY <1>6, <1>8, <1>13, <2>1 DEF EdgesFrom, ExitsAt
  <2> QED  BY <1>9, <1>12, <2>1, <2>2
<1>14. CASE tasks[v].kind # "exit"
  <2>1. Len(p) # Len(q)
    <3>1. SUFFICES ASSUME Len(p) = Len(q)  PROVE FALSE  OBVIOUS
    <3>2. p = q  BY <1>9, <3>1, CoversSteps
    <3> QED  BY <1>1, <1>6, <1>8, <1>14, <3>2, OneAtPlace
  <2>2. Covers(p, Front(q)) /\ Len(Front(q)) = Len(q) - 1  BY <1>9, <2>1, CoversSteps
  <2>3. Front(q) # <<>>
    <3>1. Len(p) <= Len(Front(q))  BY <2>2 DEF Covers
    <3>2. Len(Front(q)) # 0  BY ONLY <1>9, <3>1
    <3> QED  BY <3>2
  <2>4. PICK d \in DOMAIN tasks : d < v /\ tasks[d].kind = "entry" /\ tasks[d].path = Front(q)
      BY <1>6, <1>8, <1>14, <2>3 DEF Laid, EntriesFirst
  <2>5. v \in EdgesFrom(d)  BY <1>6, <1>8, <1>14, <2>4 DEF EdgesFrom
  <2> QED  BY <1>12, <2>2, <2>4, <2>5
<1> QED  BY <1>13, <1>14

\* The exit of a task's sub-graph, and that there is one.
LEMMA ExitAround ==
    ASSUME Laid, NEW v \in DOMAIN tasks, tasks[v].kind # "entry", Len(tasks[v].path) > 1
    PROVE  \E x \in DOMAIN tasks : /\ tasks[x].kind = "exit" /\ tasks[x].path = Front(tasks[v].path)
                                   /\ x \in EdgesFrom(v)
<1>1. PICK q : q = tasks[v].path  OBVIOUS
<1>2. q \in Seq(Nat) /\ q # <<>> /\ Len(q) \in Nat \ {0}  BY <1>1, PathOf
<1>3. Len(Front(q)) = Len(q) - 1  BY <1>2, CoversSteps
<1>4. Front(q) # <<>>
  <2>1. PICK k, n : k = Len(q) /\ n = Len(Front(q))  OBVIOUS
  <2>2. k \in Nat /\ k > 1 /\ n = k - 1  BY <1>1, <1>2, <1>3, <2>1
  <2>3. n # 0  BY ONLY <2>2
  <2> QED  BY <2>1, <2>3
<1>5. PICK d \in DOMAIN tasks : tasks[d].kind = "entry" /\ tasks[d].path = Front(q)
  <2>1. CASE tasks[v].kind = "exit"
    <3>1. PICK e \in DOMAIN tasks : tasks[e].kind = "entry" /\ tasks[e].path = q
        BY <1>1, <2>1 DEF Laid, EntriesFirst
    <3> QED  BY <1>4, <3>1 DEF Laid, EntriesFirst
  <2>2. CASE tasks[v].kind # "exit"  BY <1>1, <1>4, <2>2 DEF Laid, EntriesFirst
  <2> QED  BY <2>1, <2>2
<1>6. PICK x : x \in ExitsAt(Front(q))  BY <1>5 DEF Laid, AllThere
<1> QED  BY <1>1, <1>6 DEF ExitsAt, EdgesFrom

\* Everything in a sub-graph, and its entry, comes before its exit.
LEMMA LeadsToExit ==
    ASSUME Laid, NEW ahead, StatedReach(ahead), NEW z \in DOMAIN tasks, tasks[z].kind = "exit",
           NEW y \in DOMAIN tasks, y # z, Covers(tasks[z].path, tasks[y].path)
    PROVE  z \in ahead[y]
<1>1. PICK p : p = tasks[z].path  OBVIOUS
<1>2. p \in Seq(Nat) /\ Len(p) \in Nat \ {0}  BY <1>1, PathOf
<1>3. ASSUME NEW v \in DOMAIN tasks
      PROVE  /\ EdgesFrom(v) \subseteq ahead[v]
             /\ \A x \in ahead[v] : x \in DOMAIN tasks /\ ahead[x] \subseteq ahead[v]
  <2>1. ahead[v] \subseteq DOMAIN tasks /\ StatedGraph[v] \subseteq ahead[v]
        /\ \A x \in ahead[v] : ahead[x] \subseteq ahead[v]
      BY StatedGraphIs, ReachIsClosed DEF StatedReach
  <2> QED  BY <2>1, StatedGraphIs
<1> DEFINE Bad == {v \in DOMAIN tasks : /\ v # z /\ tasks[v].kind # "entry"
                                        /\ Covers(p, tasks[v].path) /\ z \notin ahead[v]}
           lengths == {Len(tasks[v].path) : v \in Bad}
<1>4. Bad = {}
  <2>1. SUFFICES ASSUME Bad # {}  PROVE FALSE  OBVIOUS
  <2>2. lengths # {} /\ lengths \subseteq Nat  BY <2>1, PathOf
  <2>3. Min(lengths) \in lengths /\ \A l \in lengths : Min(lengths) <= l
    <3> HIDE DEF lengths
    <3> QED  BY <2>2, MinOfNat
  <2>4. PICK v \in Bad : Len(tasks[v].path) = Min(lengths)  BY <2>3
  <2>5. PICK q : q = tasks[v].path  OBVIOUS
  <2>6. /\ v \in DOMAIN tasks /\ v # z /\ tasks[v].kind # "entry" /\ Covers(p, q) /\ z \notin ahead[v]
        /\ q \in Seq(Nat) /\ q # <<>> /\ Len(q) \in Nat \ {0}
      BY <2>4, <2>5, PathOf
  <2>7. \A x \in Bad : Len(q) <= Len(tasks[x].path)  BY <2>3, <2>4, <2>5
  <2>8. Len(p) # Len(q)
    <3>1. SUFFICES ASSUME Len(p) = Len(q)  PROVE FALSE  OBVIOUS
    <3>2. p = q  BY <1>2, <2>6, <3>1, CoversSteps
    <3> QED  BY <1>1, <2>5, <2>6, <3>2, OneAtPlace
  <2>9. Covers(p, Front(q)) /\ Len(Front(q)) = Len(q) - 1  BY <1>2, <2>6, <2>8, CoversSteps
  <2>10. Len(q) > 1
    <3>1. Len(p) <= Len(q)  BY <2>6 DEF Covers
    <3> QED  BY ONLY <1>2, <2>6, <2>8, <3>1
  <2>11. PICK x \in DOMAIN tasks : /\ tasks[x].kind = "exit" /\ tasks[x].path = Front(q)
                                   /\ x \in EdgesFrom(v)
      BY <2>5, <2>6, <2>10, ExitAround
  <2>12. x \in ahead[v]  BY <1>3, <2>6, <2>11
  <2>13. x # z /\ z \notin ahead[x]  BY <1>3, <2>6, <2>12
  <2>14. x \in Bad  BY <2>9, <2>11, <2>13
  <2>15. Len(q) <= Len(q) - 1
    <3> HIDE DEF Bad
    <3> QED  BY <2>7, <2>9, <2>11, <2>14
  <2> QED  BY ONLY <2>6, <2>15
<1>5. CASE tasks[y].kind # "entry"  BY <1>1, <1>4, <1>5
<1>6. CASE tasks[y].kind = "entry"
  <2>1. PICK x \in ExitsAt(tasks[y].path) : TRUE  BY <1>6 DEF Laid, AllThere
  <2>2. /\ x \in DOMAIN tasks /\ tasks[x].kind = "exit" /\ tasks[x].path = tasks[y].path
        /\ x \in EdgesFrom(y)
      BY <1>6, <2>1 DEF ExitsAt, EdgesFrom
  <2>3. x \in ahead[y]  BY <1>3, <2>2
  <2>4. CASE x = z  BY <2>3, <2>4
  <2>5. CASE x # z
    <3>1. z \in ahead[x]  BY <1>1, <1>4, <2>2, <2>5
    <3> QED  BY <1>3, <2>3, <3>1
  <2> QED  BY <2>4, <2>5
<1> QED  BY <1>5, <1>6

\* What setNext put after each task of a graph.
NextIn(g) == [k \in TaskIds(g) |-> {n \in TaskIds(g) : <<k, n>> \in stated[g].order}]

LEMMA StatedAheadIs ==
    ASSUME Nested, NEW g \in TaskGraphs
    PROVE  /\ TaskIds(g) \subseteq Nat /\ NextIn(g) \in [TaskIds(g) -> SUBSET TaskIds(g)]
           /\ Least(NextIn(g), TaskIds(g), TaskIds(g), StatedAhead(g))
<1>1. PICK D : D = TaskIds(g)  OBVIOUS
<1>2. Len(taskData[g]) \in Nat  BY LenProperties DEF Nested
<1>3. D \subseteq Nat /\ IsFiniteSet(D)
  <2>1. 0 \in Int /\ Len(taskData[g]) - 1 \in Int /\ D = 0 .. Len(taskData[g]) - 1
      BY <1>1, <1>2 DEF TaskIds
  <2>2. D \subseteq Nat  BY <2>1
  <2>3. IsFiniteSet(D)  BY ONLY <2>1, FS_Interval
  <2> QED  BY <2>2, <2>3
<1>4. PICK next : next = NextIn(g)  OBVIOUS
<1>5. next \in [D -> SUBSET D] /\ StatedAhead(g) = Ahead(next)  BY <1>1, <1>4 DEF NextIn, StatedAhead
<1>6. Least(next, D, D, Ahead(next))  BY ONLY <1>3, <1>5, AheadIsLeast
<1> QED  BY <1>1, <1>3, <1>4, <1>5, <1>6

\* The graph of a task is a graph, and the task is in it.
LEMMA GraphOf ==
    ASSUME Laid, NEW v \in DOMAIN tasks
    PROVE  /\ GraphAt(Front(tasks[v].path)) \in TaskGraphs
           /\ Last(tasks[v].path) \in TaskIds(GraphAt(Front(tasks[v].path)))
  BY DEF Laid, PlacesOK, PlaceOK

\* All tasks of its graph are there.
LEMMA GraphIsThere ==
    ASSUME Laid, NEW v \in DOMAIN tasks, NEW n \in TaskIds(GraphAt(Front(tasks[v].path))), n \in Nat
    PROVE  \E w \in DOMAIN tasks : tasks[w].kind # "exit" /\ Siblings(v, w) /\ Last(tasks[w].path) = n
<1>1. PICK r : r = Front(tasks[v].path)  OBVIOUS
<1>2. r \in Seq(Nat)
  <2>1. PICK p : p = tasks[v].path  OBVIOUS
  <2>2. p \in Seq(Nat) /\ p # <<>>  BY <2>1, PathOf
  <2> QED  BY <1>1, <2>1, <2>2, PathSplits
<1>3. Front(Append(r, n)) = r /\ Last(Append(r, n)) = n  BY <1>2, PathSplits
<1>4. PICK w \in DOMAIN tasks : tasks[w].kind # "exit" /\ tasks[w].path = Append(r, n)
  <2>1. CASE r = <<>>
    <3>1. n \in DOMAIN tasks /\ tasks[n].path = <<n>> /\ tasks[n].kind # "exit"
        BY <1>1, <2>1, GraphAtSteps DEF Laid, AllThere
    <3> QED  BY <2>1, <3>1
  <2>2. CASE r # <<>>
    <3>1. PICK e \in DOMAIN tasks : tasks[e].kind = "entry" /\ tasks[e].path = r
      <4>1. CASE tasks[v].kind # "exit"  BY <1>1, <2>2, <4>1 DEF Laid, EntriesFirst
      <4>2. CASE tasks[v].kind = "exit"
        <5>1. PICK d \in DOMAIN tasks : tasks[d].kind = "entry" /\ tasks[d].path = tasks[v].path
            BY <4>2 DEF Laid, EntriesFirst
        <5> QED  BY <1>1, <2>2, <5>1 DEF Laid, EntriesFirst
      <4> QED  BY <4>1, <4>2
    <3>2. Filled(e)  BY <3>1 DEF Laid, AllThere
    <3> QED  BY <1>1, <3>1, <3>2 DEF Filled
  <2> QED  BY <2>1, <2>2
<1> QED  BY <1>1, <1>3, <1>4 DEF Siblings

\* What is ahead of a task in its graph comes after it here, whatever sub-graphs
\* are on the way.
LEMMA SiblingsAhead ==
    ASSUME Laid, Nested, NEW ahead, StatedReach(ahead),
           NEW u \in DOMAIN tasks, tasks[u].kind # "entry",
           NEW w \in DOMAIN tasks, tasks[w].kind # "exit", Siblings(u, w),
           Last(tasks[w].path) \in StatedAhead(GraphAt(Front(tasks[u].path)))[Last(tasks[u].path)]
    PROVE  w \in ahead[u]
<1>1. PICK g, k, n : g = GraphAt(Front(tasks[u].path)) /\ k = Last(tasks[u].path) /\ n = Last(tasks[w].path)
    OBVIOUS
<1>2. PICK D, next, all : D = TaskIds(g) /\ next = NextIn(g) /\ all = StatedAhead(g)  OBVIOUS
<1>3. g \in TaskGraphs /\ k \in D  BY <1>1, <1>2, GraphOf
<1>4. /\ D \subseteq Nat /\ Least(next, D, D, all)
      /\ \A j \in D : next[j] = {m \in D : <<j, m>> \in stated[g].order}
    BY <1>2, <1>3, StatedAheadIs DEF NextIn
<1>5. /\ EdgesFrom(u) \subseteq ahead[u] /\ \A x \in ahead[u] : x \in DOMAIN tasks /\ EdgesFrom(x) \subseteq ahead[u]
  <2>1. ahead[u] \subseteq DOMAIN tasks /\ StatedGraph[u] \subseteq ahead[u]
        /\ \A x \in ahead[u] : StatedGraph[x] \subseteq ahead[u]
      BY StatedGraphIs, ReachIsClosed DEF StatedReach
  <2> QED  BY <2>1, StatedGraphIs
<1>6. ASSUME NEW v \in DOMAIN tasks, Siblings(u, v), NEW x \in DOMAIN tasks, Siblings(u, x), tasks[x].kind # "exit",
             <<Last(tasks[v].path), Last(tasks[x].path)>> \in stated[g].order
      PROVE  x \in StatedNext(v)
    BY <1>1, <1>6 DEF StatedNext, Siblings
<1> DEFINE T == {m \in D : \A x \in DOMAIN tasks :
                    tasks[x].kind # "exit" /\ Siblings(u, x) /\ Last(tasks[x].path) = m => x \in ahead[u]}
<1>7. next[k] \subseteq T
  <2> SUFFICES ASSUME NEW m \in next[k], NEW x \in DOMAIN tasks, tasks[x].kind # "exit", Siblings(u, x),
                      Last(tasks[x].path) = m
               PROVE  m \in D /\ x \in ahead[u]
      BY <1>3, <1>4
  <2>1. m \in D /\ <<k, m>> \in stated[g].order  BY <1>3, <1>4
  <2>2. x \in StatedNext(u)  BY <1>1, <1>6, <2>1 DEF Siblings
  <2> QED  BY <1>5, <2>1, <2>2 DEF EdgesFrom
<1>8. ASSUME NEW j \in T, NEW m \in next[j]  PROVE m \in T
  <2>1. j \in D /\ m \in D /\ <<j, m>> \in stated[g].order  BY <1>4
  <2> SUFFICES ASSUME NEW x \in DOMAIN tasks, tasks[x].kind # "exit", Siblings(u, x), Last(tasks[x].path) = m
               PROVE  x \in ahead[u]
      BY <2>1
  <2>2. PICK y \in DOMAIN tasks : tasks[y].kind # "exit" /\ Siblings(u, y) /\ Last(tasks[y].path) = j
      BY <1>1, <1>2, <1>4, <2>1, GraphIsThere
  <2>3. y \in ahead[u]  BY <2>2
  <2>4. CASE tasks[y].kind # "entry"
    <3>1. x \in StatedNext(y)  BY <1>6, <2>1, <2>2
    <3> QED  BY <1>5, <2>3, <2>4, <3>1 DEF EdgesFrom
  <2>5. CASE tasks[y].kind = "entry"
    <3>1. PICK z : z \in ExitsAt(tasks[y].path)  BY <2>5 DEF Laid, AllThere
    <3>2. z \in DOMAIN tasks /\ tasks[z].kind = "exit" /\ tasks[z].path = tasks[y].path  BY <3>1 DEF ExitsAt
    <3>3. z \in ahead[u]  BY <1>5, <2>3, <2>5, <3>1 DEF EdgesFrom
    <3>4. x \in StatedNext(z)  BY <1>6, <2>1, <2>2, <3>2 DEF Siblings
    <3> QED  BY <1>5, <3>2, <3>3, <3>4 DEF EdgesFrom
  <2> QED  BY <2>4, <2>5
<1>9. ClosedFrom(next, k, D, T)
  <2> HIDE DEF T
  <2> QED  BY <1>7, <1>8 DEF ClosedFrom
<1>10. all[k] \subseteq T
  <2> HIDE DEF T
  <2> QED  BY <1>3, <1>4, <1>9 DEF Least
<1> QED  BY <1>1, <1>2, <1>10
\* A place on a path, taken apart.
LEMMA PlaceOnPath ==
    ASSUME NEW p \in Seq(Nat), NEW c \in Seq(Nat), NEW l \in Nat, Len(c) = l + 1, Covers(c, p)
    PROVE  Front(c) = SubSeq(p, 1, l) /\ Last(c) = p[l + 1]
<1>1. Len(p) \in Nat /\ l + 1 <= Len(p) /\ \A i \in 1 .. l + 1 : c[i] = p[i]
    BY LenProperties DEF Covers
<1>2. l \in 0 .. Len(p) /\ l \in 0 .. Len(c)  BY <1>1
<1>3. PICK a, b : a = SubSeq(p, 1, l) /\ b = SubSeq(c, 1, l)  OBVIOUS
<1>4. a \in Seq(Nat) /\ Len(a) = l /\ \A i \in 1 .. l : a[i] = p[i]  BY <1>2, <1>3, CutIs
<1>5. b \in Seq(Nat) /\ Len(b) = l /\ \A i \in 1 .. l : b[i] = c[i]  BY <1>2, <1>3, CutIs
<1>6. \A i \in 1 .. l : a[i] = b[i]
  <2>1. \A i \in 1 .. l : i \in 1 .. l + 1  OBVIOUS
  <2> QED  BY <1>1, <1>4, <1>5, <2>1
<1>7. a = b  BY <1>4, <1>5, <1>6, SeqEqual
<1>8. Front(c) = b
  <2>1. Len(c) - 1 = l  OBVIOUS
  <2> QED  BY <1>3, <2>1 DEF Front
<1>9. Last(c) = p[l + 1]
  <2>1. l + 1 \in 1 .. l + 1  OBVIOUS
  <2> QED  BY <1>1, <2>1 DEF Last
<1> QED  BY <1>3, <1>7, <1>8, <1>9

\* What follows what is ahead is ahead.
LEMMA AheadGoesOn ==
    ASSUME NEW ahead, StatedReach(ahead), NEW v \in DOMAIN tasks
    PROVE  /\ ahead[v] \subseteq DOMAIN tasks /\ EdgesFrom(v) \subseteq ahead[v]
           /\ \A x \in ahead[v] : ahead[x] \subseteq ahead[v]
<1>1. ahead[v] \subseteq DOMAIN tasks /\ StatedGraph[v] \subseteq ahead[v]
      /\ \A x \in ahead[v] : ahead[x] \subseteq ahead[v]
    BY StatedGraphIs, ReachIsClosed DEF StatedReach
<1> QED  BY <1>1, StatedGraphIs

\* A task leads to where the sub-graphs that it is in, or its own, end.
LEMMA LeadsOut ==
    ASSUME Laid, NEW ahead, StatedReach(ahead), NEW x \in DOMAIN tasks, NEW l \in 1 .. Len(tasks[x].path)
    PROVE  \E o \in DOMAIN tasks : /\ tasks[o].kind # "entry" /\ Len(tasks[o].path) = l
                                   /\ Covers(tasks[o].path, tasks[x].path) /\ (o = x \/ o \in ahead[x])
<1>1. PICK u \in DOMAIN tasks : /\ tasks[u].kind # "exit" /\ Len(tasks[u].path) = l
                                /\ Covers(tasks[u].path, tasks[x].path)
                                /\ l < Len(tasks[x].path) => tasks[u].kind = "entry"
    BY PlacesAbove
<1>2. CASE tasks[u].kind = "entry"
  <2>1. PICK z : z \in ExitsAt(tasks[u].path)  BY <1>2 DEF Laid, AllThere
  <2>2. z \in DOMAIN tasks /\ tasks[z].kind = "exit" /\ tasks[z].path = tasks[u].path  BY <2>1 DEF ExitsAt
  <2>3. z = x \/ z \in ahead[x]  BY <1>1, <2>2, LeadsToExit
  <2> QED  BY <1>1, <2>2, <2>3
<1>3. CASE tasks[u].kind # "entry"
  <2>1. PICK p, c : p = tasks[x].path /\ c = tasks[u].path  OBVIOUS
  <2>2. p \in Seq(Nat) /\ c \in Seq(Nat) /\ Len(p) \in Nat /\ l <= Len(p) /\ l \in Nat  BY <2>1, PathOf
  <2>3. Len(c) = Len(p) /\ Covers(c, p)
    <3>1. ~(l < Len(p))  BY <1>1, <1>3, <2>1
    <3>2. l = Len(p)  BY ONLY <2>2, <3>1
    <3> QED  BY <1>1, <2>1, <3>2
  <2>4. c = p  BY <2>2, <2>3, CoversSteps
  <2>5. u = x  BY <1>1, <1>3, <2>1, <2>4, OneAtPlace
  <2> QED  BY <1>1, <1>3, <2>5
<1> QED  BY <1>2, <1>3

\* What is in a sub-graph, or its entry or exit, is led to from where it starts.
LEMMA LeadsIn ==
    ASSUME Laid, NEW ahead, StatedReach(ahead), NEW y \in DOMAIN tasks, NEW l \in 1 .. Len(tasks[y].path)
    PROVE  \E w \in DOMAIN tasks : /\ tasks[w].kind # "exit" /\ Len(tasks[w].path) = l
                                   /\ Covers(tasks[w].path, tasks[y].path) /\ (y = w \/ y \in ahead[w])
<1>1. PICK u \in DOMAIN tasks : /\ tasks[u].kind # "exit" /\ Len(tasks[u].path) = l
                                /\ Covers(tasks[u].path, tasks[y].path)
                                /\ l < Len(tasks[y].path) => tasks[u].kind = "entry"
    BY PlacesAbove
<1>2. CASE tasks[u].kind = "entry"
  <2>1. y = u \/ y \in ahead[u]  BY <1>1, <1>2, EntryLeads
  <2> QED  BY <1>1, <2>1
<1>3. CASE tasks[u].kind # "entry"
  <2>1. PICK p, c : p = tasks[y].path /\ c = tasks[u].path  OBVIOUS
  <2>2. p \in Seq(Nat) /\ c \in Seq(Nat) /\ Len(p) \in Nat /\ l <= Len(p) /\ l \in Nat  BY <2>1, PathOf
  <2>3. Len(c) = Len(p) /\ Covers(c, p)
    <3>1. ~(l < Len(p))  BY <1>1, <1>3, <2>1
    <3>2. l = Len(p)  BY ONLY <2>2, <3>1
    <3> QED  BY <1>1, <2>1, <3>2
  <2>4. c = p  BY <2>2, <2>3, CoversSteps
  <2>5. u = y  BY <1>1, <1>3, <2>1, <2>4, OneAtPlace
  <2> QED  BY <1>1, <2>5
<1> QED  BY <1>2, <1>3

\* If paths of the stated graph have no cycle, those of the graphs have none.
LEMMA GraphsHaveNoCycle ==
    ASSUME Laid, Nested, NEW ahead, StatedReach(ahead), \A x \in DOMAIN tasks : x \notin ahead[x],
           NEW v \in DOMAIN tasks
    PROVE  Last(tasks[v].path) \notin StatedAhead(GraphAt(Front(tasks[v].path)))[Last(tasks[v].path)]
<1>1. SUFFICES ASSUME Last(tasks[v].path) \in StatedAhead(GraphAt(Front(tasks[v].path)))[Last(tasks[v].path)]
               PROVE  FALSE
    OBVIOUS
<1>2. PICK p, l : p = tasks[v].path /\ l = Len(p)  OBVIOUS
<1>3. p \in Seq(Nat) /\ l \in 1 .. l  BY <1>2, PathOf
<1>4. ASSUME NEW u \in DOMAIN tasks, Len(tasks[u].path) = l, Covers(tasks[u].path, p)  PROVE tasks[u].path = p
  <2>1. PICK c : c = tasks[u].path  OBVIOUS
  <2>2. c \in Seq(Nat)  BY <2>1, PathOf
  <2> QED  BY <1>2, <1>3, <1>4, <2>1, <2>2, CoversSteps
<1>5. PICK o \in DOMAIN tasks : tasks[o].kind # "entry" /\ tasks[o].path = p /\ (o = v \/ o \in ahead[v])
    BY <1>2, <1>3, <1>4, LeadsOut
<1>6. PICK w \in DOMAIN tasks : tasks[w].kind # "exit" /\ tasks[w].path = p /\ (v = w \/ v \in ahead[w])
    BY <1>2, <1>3, <1>4, LeadsIn
<1>7. w \in ahead[o]  BY <1>1, <1>2, <1>5, <1>6, SiblingsAhead DEF Siblings
<1>8. w \in ahead[v]  BY <1>5, <1>7, AheadGoesOn
<1>9. w \in ahead[w]  BY <1>6, <1>8, AheadGoesOn
<1> QED  BY <1>6, <1>9
\* Precedes, where the paths of the two tasks part.
PrecedesAt(x, y, l) ==
    LET p == tasks[x].path
        q == tasks[y].path
    IN  /\ PartAfter(p, q, l)
        /\ l = Len(p) => tasks[x].kind = "entry"
        /\ l = Len(q) => tasks[y].kind = "exit"
        /\ l < Len(p) /\ l < Len(q) => q[l + 1] \in StatedAhead(GraphAt(SubSeq(p, 1, l)))[p[l + 1]]

LEMMA PrecedesIs ==
    ASSUME Laid, NEW x \in DOMAIN tasks, NEW y \in DOMAIN tasks
    PROVE  Precedes(x, y) <=> \E l \in Nat : PrecedesAt(x, y, l)
<1>1. PICK p, q, m : p = tasks[x].path /\ q = tasks[y].path /\ m = Len(LongestCommonPrefix({p, q}))  OBVIOUS
<1>2. p \in Seq(Nat) /\ q \in Seq(Nat) /\ Len(p) \in Nat /\ Len(q) \in Nat  BY <1>1, PathOf
<1>3. PartAfter(p, q, m)
  <2>1. PartAfter(p, q, Len(LongestCommonPrefix({p, q})))  BY <1>2, CommonPrefix
  <2> QED  BY <1>1, <2>1
<1>4. m \in Nat /\ m <= Len(p) /\ m <= Len(q)  BY <1>2, <1>3 DEF PartAfter
<1>5. ASSUME NEW l \in Nat, PartAfter(p, q, l)  PROVE l = m
  <2>1. l <= Len(p) /\ l <= Len(q)  BY <1>2, <1>5 DEF PartAfter
  <2>2. ASSUME l < m  PROVE FALSE
    <3>1. l + 1 \in 1 .. m /\ l < Len(p) /\ l < Len(q)  BY ONLY <1>2, <1>4, <1>5, <2>2
    <3> QED  BY <1>3, <1>5, <3>1 DEF PartAfter
  <2>3. ASSUME m < l  PROVE FALSE
    <3>1. m + 1 \in 1 .. l /\ m < Len(p) /\ m < Len(q)  BY ONLY <1>2, <1>4, <1>5, <2>1, <2>3
    <3> QED  BY <1>3, <1>5, <3>1 DEF PartAfter
  <2> QED  BY ONLY <1>4, <1>5, <2>2, <2>3
<1>6. p = q <=> m = Len(p) /\ m = Len(q)
  <2>1. ASSUME p = q  PROVE m = Len(p) /\ m = Len(q)
    <3>1. PartAfter(p, q, Len(p))  BY <1>2, <2>1 DEF PartAfter
    <3> QED  BY <1>2, <1>5, <2>1, <3>1
  <2>2. ASSUME m = Len(p), m = Len(q)  PROVE p = q
    <3>1. \A i \in 1 .. Len(p) : p[i] = q[i]  BY <1>3, <2>2 DEF PartAfter
    <3> QED  BY <1>2, <2>2, <3>1, SeqEqual
  <2> QED  BY <2>1, <2>2
<1>7. Precedes(x, y) <=>
        /\ m = Len(p) => tasks[x].kind = "entry"
        /\ m = Len(q) => tasks[y].kind = "exit"
        /\ m # Len(p) /\ m # Len(q) => q[m + 1] \in StatedAhead(GraphAt(SubSeq(p, 1, m)))[p[m + 1]]
  <2>1. Precedes(x, y) <=>
            CASE p = q -> tasks[x].kind = "entry" /\ tasks[y].kind = "exit"
              [] p # q /\ m = Len(p) -> tasks[x].kind = "entry"
              [] p # q /\ m = Len(q) -> tasks[y].kind = "exit"
              [] OTHER -> q[m + 1] \in StatedAhead(GraphAt(SubSeq(p, 1, m)))[p[m + 1]]
      BY <1>1 DEF Precedes
  <2>2. CASE p = q  BY <1>6, <2>1, <2>2
  <2>3. CASE p # q /\ m = Len(p)  BY <1>6, <2>1, <2>3
  <2>4. CASE p # q /\ m = Len(q)  BY <1>6, <2>1, <2>4
  <2>5. CASE m # Len(p) /\ m # Len(q)  BY <1>6, <2>1, <2>5
  <2> QED  BY <2>2, <2>3, <2>4, <2>5
<1>8. m < Len(p) /\ m < Len(q) <=> m # Len(p) /\ m # Len(q)  BY ONLY <1>2, <1>4
<1>9. PrecedesAt(x, y, m) <=> Precedes(x, y)  BY <1>1, <1>3, <1>7, <1>8 DEF PrecedesAt
<1>10. \A l \in Nat : PrecedesAt(x, y, l) => l = m  BY <1>1, <1>5 DEF PrecedesAt
<1> QED  BY <1>4, <1>9, <1>10

\* What precedes another task leads to it.
LEMMA PrecedesIsAhead ==
    ASSUME Laid, Nested, NEW ahead, StatedReach(ahead), NEW x \in DOMAIN tasks, NEW y \in DOMAIN tasks,
           Precedes(x, y)
    PROVE  y \in ahead[x]
<1>1. PICK p, q : p = tasks[x].path /\ q = tasks[y].path  OBVIOUS
<1>2. p \in Seq(Nat) /\ q \in Seq(Nat) /\ Len(p) \in Nat \ {0} /\ Len(q) \in Nat \ {0}  BY <1>1, PathOf
<1>3. PICK l \in Nat : PrecedesAt(x, y, l)  BY PrecedesIs
<1>4. /\ l <= Len(p) /\ l <= Len(q) /\ \A i \in 1 .. l : p[i] = q[i]
      /\ l = Len(p) => tasks[x].kind = "entry"
      /\ l = Len(q) => tasks[y].kind = "exit"
      /\ l < Len(p) /\ l < Len(q) => q[l + 1] \in StatedAhead(GraphAt(SubSeq(p, 1, l)))[p[l + 1]]
    BY <1>1, <1>2, <1>3 DEF PrecedesAt, PartAfter
<1>5. CASE l = Len(p)
  <2>1. Covers(p, q) /\ tasks[x].kind = "entry"  BY <1>2, <1>4, <1>5 DEF Covers
  <2>2. y # x
    <3>1. l = Len(q) => tasks[y].kind = "exit"  BY <1>4
    <3> QED  BY <1>1, <1>5, <2>1, <3>1
  <2> QED  BY <1>1, <2>1, <2>2, EntryLeads
<1>6. CASE l = Len(q) /\ l # Len(p)
  <2>1. Covers(q, p) /\ tasks[y].kind = "exit"  BY <1>2, <1>4, <1>6 DEF Covers
  <2>2. y # x  BY <1>1, <1>6
  <2> QED  BY <1>1, <2>1, <2>2, LeadsToExit
<1>7. CASE l # Len(p) /\ l # Len(q)
  <2>1. /\ l < Len(p) /\ l < Len(q) /\ l + 1 \in 1 .. Len(p) /\ l + 1 \in 1 .. Len(q) /\ l \in 0 .. Len(p)
        /\ l \in 0 .. Len(q)
      BY ONLY <1>2, <1>4, <1>7
  <2>2. PICK o \in DOMAIN tasks : /\ tasks[o].kind # "entry" /\ Len(tasks[o].path) = l + 1
                                  /\ Covers(tasks[o].path, p) /\ (o = x \/ o \in ahead[x])
      BY <1>1, <2>1, LeadsOut
  <2>3. PICK w \in DOMAIN tasks : /\ tasks[w].kind # "exit" /\ Len(tasks[w].path) = l + 1
                                  /\ Covers(tasks[w].path, q) /\ (y = w \/ y \in ahead[w])
      BY <1>1, <2>1, LeadsIn
  <2>4. PICK c, d : c = tasks[o].path /\ d = tasks[w].path  OBVIOUS
  <2>5. c \in Seq(Nat) /\ d \in Seq(Nat)  BY <2>4, PathOf
  <2>6. Front(c) = SubSeq(p, 1, l) /\ Last(c) = p[l + 1]  BY <1>2, <2>2, <2>4, <2>5, PlaceOnPath
  <2>7. Front(d) = SubSeq(q, 1, l) /\ Last(d) = q[l + 1]  BY <1>2, <2>3, <2>4, <2>5, PlaceOnPath
  <2>8. SubSeq(p, 1, l) = SubSeq(q, 1, l)
    <3>1. PICK a, b : a = SubSeq(p, 1, l) /\ b = SubSeq(q, 1, l)  OBVIOUS
    <3>2. a \in Seq(Nat) /\ Len(a) = l /\ \A i \in 1 .. l : a[i] = p[i]  BY <1>2, <2>1, <3>1, CutIs
    <3>3. b \in Seq(Nat) /\ Len(b) = l /\ \A i \in 1 .. l : b[i] = q[i]  BY <1>2, <2>1, <3>1, CutIs
    <3>4. \A i \in 1 .. l : a[i] = b[i]  BY <1>4, <3>2, <3>3
    <3> QED  BY <3>1, <3>2, <3>3, <3>4, SeqEqual
  <2>9. Last(d) \in StatedAhead(GraphAt(Front(c)))[Last(c)]  BY <1>4, <2>1, <2>6, <2>7
  <2>10. w \in ahead[o]  BY <2>2, <2>3, <2>4, <2>6, <2>7, <2>8, <2>9, SiblingsAhead DEF Siblings
  <2>11. w \in ahead[x]  BY <2>2, <2>10, AheadGoesOn
  <2> QED  BY <2>3, <2>11, AheadGoesOn
<1> QED  BY <1>5, <1>6, <1>7
\* Any place on the path of a task is one of a graph.
LEMMA PlaceIsOfGraph ==
    ASSUME Laid, NEW x \in DOMAIN tasks, NEW l \in Nat, l < Len(tasks[x].path)
    PROVE  \E u \in DOMAIN tasks : /\ Front(tasks[u].path) = SubSeq(tasks[x].path, 1, l)
                                   /\ Last(tasks[u].path) = tasks[x].path[l + 1]
<1>1. PICK p : p = tasks[x].path  OBVIOUS
<1>2. p \in Seq(Nat) /\ Len(p) \in Nat  BY <1>1, PathOf
<1>3. l + 1 \in 1 .. Len(p)  BY <1>1, <1>2
<1>4. PICK u \in DOMAIN tasks : Len(tasks[u].path) = l + 1 /\ Covers(tasks[u].path, p)
    BY <1>1, <1>3, PlacesAbove
<1>5. PICK c : c = tasks[u].path  OBVIOUS
<1>6. c \in Seq(Nat)  BY <1>5, PathOf
<1> QED  BY <1>1, <1>2, <1>4, <1>5, <1>6, PlaceOnPath

SamePlace(p, q, l) == SubSeq(p, 1, l) = SubSeq(q, 1, l)

LEMMA CutsAgree ==
    ASSUME NEW p \in Seq(Nat), NEW q \in Seq(Nat), NEW l \in Nat, l <= Len(p), l <= Len(q),
           \A i \in 1 .. l : p[i] = q[i]
    PROVE  SamePlace(p, q, l)
<1>0. l \in 0 .. Len(p) /\ l \in 0 .. Len(q)  BY LenProperties
<1>1. PICK a, b : a = SubSeq(p, 1, l) /\ b = SubSeq(q, 1, l)  OBVIOUS
<1>2. a \in Seq(Nat) /\ Len(a) = l /\ \A i \in 1 .. l : a[i] = p[i]  BY <1>0, <1>1, CutIs
<1>3. b \in Seq(Nat) /\ Len(b) = l /\ \A i \in 1 .. l : b[i] = q[i]  BY <1>0, <1>1, CutIs
<1>4. \A i \in 1 .. l : a[i] = b[i]  BY <1>2, <1>3
<1> QED  BY <1>1, <1>2, <1>3, <1>4, SeqEqual DEF SamePlace

\* Without cycles, the order of the tasks is transitive.
LEMMA PrecedesGoesOn ==
    ASSUME Laid, Nested, NEW ahead, StatedReach(ahead), \A x \in DOMAIN tasks : x \notin ahead[x],
           NEW x \in DOMAIN tasks, NEW y \in DOMAIN tasks, NEW z \in DOMAIN tasks,
           Precedes(x, y), Precedes(y, z)
    PROVE  Precedes(x, z)
<1>1. PICK p, q, r : p = tasks[x].path /\ q = tasks[y].path /\ r = tasks[z].path  OBVIOUS
<1>2. /\ p \in Seq(Nat) /\ q \in Seq(Nat) /\ r \in Seq(Nat)
      /\ Len(p) \in Nat \ {0} /\ Len(q) \in Nat \ {0} /\ Len(r) \in Nat \ {0}
    BY <1>1, PathOf
<1>3. PICK k \in Nat : PrecedesAt(x, y, k)  BY PrecedesIs
<1>4. PICK m \in Nat : PrecedesAt(y, z, m)  BY PrecedesIs
<1>5. /\ k <= Len(p) /\ k <= Len(q) /\ \A i \in 1 .. k : p[i] = q[i]
      /\ k < Len(p) /\ k < Len(q) =>
            p[k + 1] # q[k + 1] /\ q[k + 1] \in StatedAhead(GraphAt(SubSeq(p, 1, k)))[p[k + 1]]
      /\ k = Len(p) => tasks[x].kind = "entry"
      /\ k = Len(q) => tasks[y].kind = "exit"
    BY <1>1, <1>2, <1>3 DEF PrecedesAt, PartAfter
<1>6. /\ m <= Len(q) /\ m <= Len(r) /\ \A i \in 1 .. m : q[i] = r[i]
      /\ m < Len(q) /\ m < Len(r) =>
            q[m + 1] # r[m + 1] /\ r[m + 1] \in StatedAhead(GraphAt(SubSeq(q, 1, m)))[q[m + 1]]
      /\ m = Len(q) => tasks[y].kind = "entry"
      /\ m = Len(r) => tasks[z].kind = "exit"
    BY <1>1, <1>2, <1>4 DEF PrecedesAt, PartAfter
<1>7. SUFFICES ASSUME TRUE  PROVE \E l \in Nat : PrecedesAt(x, z, l)  BY PrecedesIs
<1>8. CASE k < m
  <2>1. k + 1 \in 1 .. m /\ k < Len(q) /\ k < Len(r) /\ k <= Len(r)  BY ONLY <1>2, <1>6, <1>8, <1>3, <1>4
  <2>2. q[k + 1] = r[k + 1] /\ \A i \in 1 .. k : p[i] = r[i]
    <3>1. \A i \in 1 .. k : i \in 1 .. m  BY ONLY <2>1, <1>3, <1>4
    <3> QED  BY <1>5, <1>6, <2>1, <3>1
  <2>3. k \in 0 .. Len(p) /\ k \in 0 .. Len(r) /\ k # Len(r)  BY ONLY <1>2, <1>3, <1>5, <2>1
  <2>4. PartAfter(p, r, k)  BY <1>5, <2>1, <2>2, <2>3 DEF PartAfter
  <2> QED  BY <1>1, <1>5, <2>1, <2>2, <2>3, <2>4 DEF PrecedesAt
<1>9. CASE m < k
  <2>1. m + 1 \in 1 .. k /\ m < Len(q) /\ m < Len(p) /\ m <= Len(p)  BY ONLY <1>2, <1>5, <1>9, <1>3, <1>4
  <2>2. p[m + 1] = q[m + 1] /\ \A i \in 1 .. m : p[i] = q[i] /\ p[i] = r[i]
    <3>1. \A i \in 1 .. m : i \in 1 .. k  BY ONLY <2>1, <1>3, <1>4
    <3> QED  BY <1>5, <1>6, <2>1, <3>1
  <2>3. m \in 0 .. Len(p) /\ m \in 0 .. Len(r) /\ m # Len(p)  BY ONLY <1>2, <1>4, <1>6, <2>1
  <2>4. PartAfter(p, r, m)  BY <1>6, <2>1, <2>2, <2>3 DEF PartAfter
  <2>5. SamePlace(p, q, m)  BY <1>2, <1>6, <2>1, <2>2, CutsAgree
  <2> QED  BY <1>1, <1>6, <2>1, <2>2, <2>3, <2>4, <2>5 DEF PrecedesAt, SamePlace
<1>10. CASE k = m
  <2>1. m < Len(q) /\ m \in 0 .. Len(p) /\ m \in 0 .. Len(r)
    <3>1. m # Len(q)  BY <1>5, <1>6, <1>10
    <3> QED  BY ONLY <1>2, <1>4, <1>5, <1>6, <1>10, <3>1
  <2>2. \A i \in 1 .. m : p[i] = q[i] /\ p[i] = r[i]  BY <1>5, <1>6, <1>10
  <2>3. ASSUME m < Len(p), m < Len(r)
        PROVE  p[m + 1] # r[m + 1] /\ r[m + 1] \in StatedAhead(GraphAt(SubSeq(p, 1, m)))[p[m + 1]]
    <3>1. PICK u \in DOMAIN tasks : Front(tasks[u].path) = SubSeq(p, 1, m) /\ Last(tasks[u].path) = p[m + 1]
        BY <1>1, <2>3, PlaceIsOfGraph
    <3>2. PICK g, j : g = GraphAt(SubSeq(p, 1, m)) /\ j = p[m + 1]  OBVIOUS
    <3>3. g \in TaskGraphs /\ j \in TaskIds(g) /\ j \notin StatedAhead(g)[j]
        BY <3>1, <3>2, GraphOf, GraphsHaveNoCycle
    <3>4. SamePlace(p, q, m)  BY <1>2, <1>5, <1>10, <2>2, CutsAgree
    <3>5. q[m + 1] \in StatedAhead(g)[j] /\ r[m + 1] \in StatedAhead(g)[q[m + 1]]
        BY <1>5, <1>6, <1>10, <2>1, <2>3, <3>2, <3>4 DEF SamePlace
    <3>6. r[m + 1] \in StatedAhead(g)[j]
      <4>1. PICK D, next, all : D = TaskIds(g) /\ next = NextIn(g) /\ all = StatedAhead(g)  OBVIOUS
      <4>2. next \in [D -> SUBSET D] /\ Least(next, D, D, all)  BY <3>3, <4>1, StatedAheadIs
      <4> QED  BY <3>3, <3>5, <4>1, <4>2, ReachIsClosed
    <3> QED  BY <3>2, <3>3, <3>6
  <2>4. PartAfter(p, r, m)  BY <2>1, <2>2, <2>3 DEF PartAfter
  <2> QED  BY <1>1, <1>5, <1>6, <1>10, <2>3, <2>4 DEF PrecedesAt
<1> QED  BY ONLY <1>3, <1>4, <1>8, <1>9, <1>10
\* The edges that are stated lead to what is preceded.
LEMMA EdgesPrecede ==
    ASSUME Laid, Nested, NEW ahead, StatedReach(ahead), \A x \in DOMAIN tasks : x \notin ahead[x],
           NEW x \in DOMAIN tasks, NEW y \in EdgesFrom(x)
    PROVE  y \in DOMAIN tasks /\ Precedes(x, y)
<1>0. y \in DOMAIN tasks  BY StatedGraphIs
<1>1. PICK p, q : p = tasks[x].path /\ q = tasks[y].path  OBVIOUS
<1>2. /\ p \in Seq(Nat) /\ q \in Seq(Nat) /\ p # <<>> /\ q # <<>>
      /\ Len(p) \in Nat \ {0} /\ Len(q) \in Nat \ {0}
    BY <1>0, <1>1, PathOf
<1>3. SUFFICES \E l \in Nat : PrecedesAt(x, y, l)  BY <1>0, PrecedesIs
<1>4. /\ Covers(Front(p), p) /\ Len(Front(p)) = Len(p) - 1
      /\ Covers(Front(q), q) /\ Len(Front(q)) = Len(q) - 1
    BY <1>2, CoversSteps
\* Into a sub-graph, or past it.
<1>5. CASE tasks[x].kind = "entry" /\ tasks[y].kind # "exit" /\ Front(q) = p
  <2>1. Len(p) = Len(q) - 1 /\ Covers(p, q)  BY <1>4, <1>5
  <2>2. Len(p) \in 0 .. Len(p) /\ Len(p) \in 0 .. Len(q) /\ Len(p) # Len(q)  BY ONLY <1>2, <2>1
  <2>3. PartAfter(p, q, Len(p))  BY <2>1, <2>2 DEF PartAfter, Covers
  <2>4. PrecedesAt(x, y, Len(p))  BY <1>1, <1>5, <2>2, <2>3 DEF PrecedesAt
  <2> QED  BY <1>2, <2>4
<1>6. CASE tasks[x].kind = "entry" /\ tasks[y].kind = "exit" /\ q = p
  <2>1. PartAfter(p, q, Len(p))  BY <1>2, <1>6 DEF PartAfter
  <2>2. PrecedesAt(x, y, Len(p))  BY <1>1, <1>6, <2>1 DEF PrecedesAt
  <2> QED  BY <1>2, <2>2
\* Out of one.
<1>7. CASE tasks[x].kind # "entry" /\ tasks[y].kind = "exit" /\ q = Front(p)
  <2>1. Len(q) = Len(p) - 1 /\ Covers(q, p)  BY <1>4, <1>7
  <2>2. Len(q) \in 0 .. Len(p) /\ Len(q) \in 0 .. Len(q) /\ Len(p) # Len(q)  BY ONLY <1>2, <2>1
  <2>3. PartAfter(p, q, Len(q))  BY <2>1, <2>2 DEF PartAfter, Covers
  <2>4. PrecedesAt(x, y, Len(q))  BY <1>1, <1>7, <2>2, <2>3 DEF PrecedesAt
  <2> QED  BY <1>2, <2>4
\* From one task of a graph to another.
<1>8. CASE tasks[x].kind # "entry" /\ y \in StatedNext(x)
  <2>1. PICK l : l = Len(p) - 1  OBVIOUS
  <2>2. /\ tasks[y].kind # "exit" /\ Front(p) = Front(q)
        /\ <<Last(p), Last(q)>> \in stated[GraphAt(Front(p))].order
      BY <1>1, <1>8 DEF StatedNext, Siblings
  <2>3. l \in Nat /\ Len(p) = l + 1 /\ Len(q) = l + 1  BY <1>2, <1>4, <2>1, <2>2
  <2>4. Covers(p, p) /\ Covers(q, q)  BY <1>2 DEF Covers
  <2>5. Front(p) = SubSeq(p, 1, l) /\ Last(p) = p[l + 1] /\ Last(q) = q[l + 1]
      BY <1>2, <2>3, <2>4, PlaceOnPath
  <2>6. PICK g, j, n : g = GraphAt(Front(p)) /\ j = Last(p) /\ n = Last(q)  OBVIOUS
  <2>7. g \in TaskGraphs /\ j \in TaskIds(g) /\ n \in TaskIds(g) /\ j \notin StatedAhead(g)[j]
      BY <1>0, <1>1, <2>2, <2>6, GraphOf, GraphsHaveNoCycle
  <2>8. n \in StatedAhead(g)[j]
    <3>1. PICK D, next, all : D = TaskIds(g) /\ next = NextIn(g) /\ all = StatedAhead(g)  OBVIOUS
    <3>2. next \in [D -> SUBSET D] /\ Least(next, D, D, all)  BY <2>7, <3>1, StatedAheadIs
    <3>3. n \in next[j]  BY <2>2, <2>6, <2>7, <3>1 DEF NextIn
    <3> QED  BY <2>7, <3>1, <3>2, <3>3, ReachIsClosed
  <2>9. \A i \in 1 .. l : p[i] = q[i]
    <3>1. PICK f : f = Front(p)  OBVIOUS
    <3>2. Covers(f, p) /\ Covers(f, q) /\ Len(f) = l  BY <1>4, <2>2, <2>3, <3>1
    <3>3. \A i \in 1 .. l : f[i] = p[i] /\ f[i] = q[i]  BY <3>2 DEF Covers
    <3> QED  BY <3>3
  <2>10. l \in 0 .. Len(p) /\ l \in 0 .. Len(q) /\ l # Len(p) /\ l # Len(q)  BY ONLY <2>3
  <2>11. p[l + 1] # q[l + 1]  BY <2>5, <2>6, <2>7, <2>8
  <2>12. PartAfter(p, q, l)  BY <2>9, <2>10, <2>11 DEF PartAfter
  <2>13. PrecedesAt(x, y, l)  BY <1>1, <2>5, <2>6, <2>8, <2>10, <2>12 DEF PrecedesAt
  <2> QED  BY <2>3, <2>13
<1> QED
  <2>1. CASE tasks[x].kind = "entry"  BY <1>1, <1>5, <1>6, <2>1 DEF EdgesFrom, ExitsAt
  <2>2. CASE tasks[x].kind # "entry"  BY <1>1, <1>7, <1>8, <2>2 DEF EdgesFrom, ExitsAt
  <2> QED  BY <2>1, <2>2

\* If no path of the stated graph has a cycle, its paths are the order that the
\* user's calls and the nesting of the graphs mean.
LEMMA AheadIsPreceded ==
    ASSUME Laid, Nested, NEW ahead, StatedReach(ahead), \A x \in DOMAIN tasks : x \notin ahead[x],
           NEW x \in DOMAIN tasks
    PROVE  ahead[x] = {y \in DOMAIN tasks : Precedes(x, y)}
<1> DEFINE T == {y \in DOMAIN tasks : Precedes(x, y)}
<1>1. T \subseteq ahead[x]  BY PrecedesIsAhead
<1>2. ClosedFrom(StatedGraph, x, DOMAIN tasks, T)
  <2>1. StatedGraph[x] \subseteq T  BY StatedGraphIs, EdgesPrecede
  <2>2. ASSUME NEW u \in T  PROVE StatedGraph[u] \subseteq T
    <3>1. u \in DOMAIN tasks /\ Precedes(x, u) /\ StatedGraph[u] = EdgesFrom(u)  BY StatedGraphIs
    <3>2. ASSUME NEW y \in EdgesFrom(u)  PROVE y \in DOMAIN tasks /\ Precedes(x, y)
      <4>1. y \in DOMAIN tasks /\ Precedes(u, y)  BY <3>1, EdgesPrecede
      <4> QED  BY <3>1, <4>1, PrecedesGoesOn
    <3> QED  BY <3>1, <3>2
  <2> QED  BY <2>1, <2>2 DEF ClosedFrom
<1>3. ahead[x] \subseteq T
  <2> HIDE DEF T
  <2> QED  BY <1>2 DEF StatedReach, Least
<1>4. ahead[x] \subseteq DOMAIN tasks  BY AheadGoesOn
<1> QED  BY <1>1, <1>3, <1>4
------------------------------------------------------------------------------
(***************************************************************************)
(* The normalization, search by search.                                    *)
(***************************************************************************)
LEMMA LaidStays ==
    ASSUME UNCHANGED <<taskData, tasks, stated>>, Vertices' = Vertices, Laid
    PROVE  Laid' /\ StatedGraph' = StatedGraph
<1>1. /\ PlacesOK' <=> PlacesOK
      /\ \A e : Filled(e)' <=> Filled(e)
      /\ \A v : StatedNext(v)' = StatedNext(v)
  <2>1. \A task : PlaceOK(task)' <=> PlaceOK(task)  BY PlaceStays
  <2>2. \A path : GraphAt(path)' = GraphAt(path)  BY GraphAtStays
  <2>3. \A g : TaskIds(g)' = TaskIds(g)  BY GraphStays
  <2>4. PlacesOK' <=> PlacesOK  BY <2>1 DEF PlacesOK
  <2>5. ASSUME NEW e  PROVE Filled(e)' <=> Filled(e)
    <3>1. PICK path : path = tasks[e].path  OBVIOUS
    <3>2. GraphAt(tasks[e].path)' = GraphAt(tasks[e].path)  BY <2>2, <3>1 DEF GraphAt
    <3>3. TaskIds(GraphAt(tasks[e].path))' = TaskIds(GraphAt(tasks[e].path))
        BY <2>3, <3>2 DEF TaskIds
    <3> QED  BY <3>3 DEF Filled
  <2>6. ASSUME NEW v  PROVE StatedNext(v)' = StatedNext(v)
    <3>1. PICK path : path = Front(tasks[v].path)  OBVIOUS
    <3>2. GraphAt(Front(tasks[v].path))' = GraphAt(Front(tasks[v].path))  BY <2>2, <3>1 DEF GraphAt
    <3> QED  BY <3>2 DEF StatedNext, Siblings
  <2> QED  BY <2>4, <2>5, <2>6
<1>2. TaskIds(Root)' = TaskIds(Root) /\ NumTasks' = NumTasks
    BY GraphStays DEF NumTasks
<1>3. AllThere'
  <2>1. \A e \in DOMAIN tasks : ExitsAt(tasks[e].path)' = ExitsAt(tasks[e].path)  BY DEF ExitsAt
  <2> QED  BY <1>1, <1>2, <2>1 DEF AllThere, Laid
<1>4. EntriesFirst'  BY DEF EntriesFirst, Laid
<1>5. ASSUME NEW v \in DOMAIN tasks  PROVE EdgesFrom(v)' = EdgesFrom(v)
  <2>1. ExitsAt(tasks[v].path)' = ExitsAt(tasks[v].path)
        /\ ExitsAt(Front(tasks[v].path))' = ExitsAt(Front(tasks[v].path))
      BY DEF ExitsAt
  <2> QED  BY <1>1, <2>1 DEF EdgesFrom
<1>6. StatedGraph' = StatedGraph  BY <1>5 DEF StatedGraph
<1> QED  BY <1>1, <1>2, <1>3, <1>4, <1>6 DEF Laid

\* What the searches that are over have made sure of.
NoDetours(ahead, done) ==
    \A b \in done : b \notin ahead[b] /\ \A y, z \in taskGraph[b] : z \notin ahead[y]

Earlier == {b \in Vertices : b < base}

\* While edges are removed, what can be reached stays what the stated edges lead to.
Normalizing(ahead) ==
    /\ StatedReach(ahead)
    /\ taskGraph \in [Vertices -> SUBSET Vertices] /\ Least(taskGraph, Vertices, Vertices, ahead)
    /\ LevelsOK(ahead) /\ NoDetours(ahead, Earlier)

\* What OrderIsStated says of the prebuilt graph.
OrderStated ==
    \A x \in Vertices : /\ Ahead(taskGraph)[x] = {y \in Vertices : Precedes(x, y)}
                        /\ \A y, z \in taskGraph[x] : z \notin Ahead(taskGraph)[y]
GraphIsFunction == taskGraph = [v \in Vertices |-> taskGraph[v]]

LEMMA FewTasks == Laid => IsFiniteSet(DOMAIN tasks) /\ IsFiniteSet(Vertices)
<1> SUFFICES ASSUME Laid  PROVE IsFiniteSet(DOMAIN tasks) /\ IsFiniteSet(Vertices)  OBVIOUS
<1>1. NumTasks \in Nat /\ DOMAIN tasks = 0 .. NumTasks - 1 /\ DOMAIN tasks = Vertices  BY DEF Laid
<1>2. 0 \in Int /\ NumTasks - 1 \in Int  BY <1>1
<1>3. IsFiniteSet(0 .. NumTasks - 1)  BY ONLY <1>2, FS_Interval
<1> QED  BY <1>1, <1>3

\* When the validation ends, all edges are there and the first search starts.
LEMMA NormalizationStarts ==
    ASSUME AllWired, GraphIsFunction, Validated, phase' = "normalize", 0 \in Vertices
    PROVE  Laid' /\ \E ahead : Normalizing(ahead)'
<1>1. UNCHANGED <<taskData, tasks, taskGraph, stated>> /\ StartSearchFrom(0) /\ Vertices' = Vertices
    BY DEF Validated, userVars, prebuiltVars, Vertices
<1>2. Laid /\ DOMAIN tasks = Vertices  BY DEF AllWired, Laid
<1>3. Laid' /\ StatedGraph' = StatedGraph  BY <1>1, <1>2, LaidStays
<1>4. taskGraph = StatedGraph
  <2>1. \A v \in Vertices : taskGraph[v] = StatedGraph[v]
      BY <1>2, StatedGraphIs DEF AllWired, EdgesAreStated
  <2> QED  BY <1>2, <2>1, StatedGraphIs DEF GraphIsFunction
<1>5. PICK ahead : ahead = Ahead(StatedGraph)  OBVIOUS
<1>6. PICK D, next : D = Vertices /\ next = taskGraph  OBVIOUS
<1>7. next \in [D -> SUBSET D]  BY <1>2, <1>4, <1>6, StatedGraphIs
<1>8. Least(next, D, D, ahead)
  <2>1. IsFiniteSet(D)  BY <1>2, <1>6, FewTasks
  <2>2. Least(next, D, D, Ahead(next))  BY <1>7, <2>1, AheadIsLeast
  <2> QED  BY <1>4, <1>5, <1>6, <2>2
<1>9. StatedReach(ahead)'
  <2>1. DOMAIN tasks' = D /\ StatedGraph' = next  BY <1>1, <1>2, <1>3, <1>4, <1>6
  <2> QED  BY <1>8, <2>1 DEF StatedReach, Least, ClosedFrom
<1>10. taskGraph' \in [Vertices' -> SUBSET Vertices'] /\ Least(taskGraph', Vertices', Vertices', ahead)
    BY <1>1, <1>6, <1>7, <1>8
<1>11. LevelsOK(ahead)'  BY <1>1, SearchStarts
<1>12. Earlier' = {}
  <2>1. base' = 0 /\ Vertices' \subseteq Nat  BY <1>1, <1>2 DEF StartSearchFrom, Laid
  <2>2. \A b \in Vertices' : ~(b < base')  BY ONLY <2>1
  <2> QED  BY <2>2 DEF Earlier
<1>13. NoDetours(ahead, Earlier)'  BY <1>12 DEF NoDetours
<1>14. Normalizing(ahead)'  BY <1>9, <1>10, <1>11, <1>13 DEF Normalizing
<1> QED  BY <1>3, <1>14

LEMMA NormalizeLevelKeeps ==
    ASSUME Laid, NEW ahead, Normalizing(ahead), NormalizeLevel
    PROVE  Laid' /\ Normalizing(ahead)'
<1>1. UNCHANGED <<taskData, tasks, taskGraph, stated, base>> /\ Vertices' = Vertices
    BY DEF NormalizeLevel, userVars, Vertices
<1>2. Laid' /\ StatedGraph' = StatedGraph  BY <1>1, LaidStays
<1>3. /\ StatedReach(ahead) /\ taskGraph \in [Vertices -> SUBSET Vertices]
      /\ Least(taskGraph, Vertices, Vertices, ahead) /\ LevelsOK(ahead) /\ NoDetours(ahead, Earlier)
    BY DEF Normalizing
<1>4. StatedReach(ahead)'
  <2>1. PICK D, next : D = DOMAIN tasks /\ next = StatedGraph  OBVIOUS
  <2>2. Least(next, D, D, ahead)  BY <1>3, <2>1 DEF StatedReach
  <2>3. DOMAIN tasks' = D /\ StatedGraph' = next  BY <1>1, <1>2, <2>1
  <2> QED  BY <2>2, <2>3 DEF StatedReach
<1>5. LevelsOK(ahead)'  BY <1>3, LevelIsKept
<1>6. Earlier' = Earlier  BY <1>1 DEF Earlier
<1>7. NoDetours(ahead, Earlier)'  BY <1>1, <1>3, <1>6 DEF NoDetours
<1>8. taskGraph' \in [Vertices' -> SUBSET Vertices'] /\ Least(taskGraph', Vertices', Vertices', ahead)
    BY <1>1, <1>3
<1> QED  BY <1>2, <1>4, <1>5, <1>7, <1>8 DEF Normalizing
\* A search ends: its edges that a longer path makes redundant go, and what can be
\* reached stays.
LEMMA SearchIsDone ==
    ASSUME Laid, NEW ahead, Normalizing(ahead), NormalizeEdges
    PROVE  /\ Laid' /\ StatedReach(ahead)' /\ Vertices' = Vertices
           /\ taskGraph' \in [Vertices -> SUBSET Vertices] /\ Least(taskGraph', Vertices, Vertices, ahead)
           /\ \A b \in Vertices : b <= base =>
                    b \notin ahead[b] /\ \A y, z \in taskGraph'[b] : z \notin ahead[y]
<1>1. /\ UNCHANGED <<taskData, tasks, stated>> /\ frontier = {}
      /\ taskGraph' = [taskGraph EXCEPT ![base] = @ \ Redundant]
    BY DEF NormalizeEdges, userVars
<1>2. Vertices' = Vertices  BY <1>1 DEF Vertices
<1>3. Laid' /\ StatedGraph' = StatedGraph  BY <1>1, <1>2, LaidStays
<1>4. /\ StatedReach(ahead) /\ taskGraph \in [Vertices -> SUBSET Vertices]
      /\ Least(taskGraph, Vertices, Vertices, ahead) /\ LevelsOK(ahead) /\ NoDetours(ahead, Earlier)
    BY DEF Normalizing
<1>5. StatedReach(ahead)'
  <2>1. PICK D, next : D = DOMAIN tasks /\ next = StatedGraph  OBVIOUS
  <2>2. Least(next, D, D, ahead)  BY <1>4, <2>1 DEF StatedReach
  <2>3. DOMAIN tasks' = D /\ StatedGraph' = next  BY <1>1, <1>3, <2>1
  <2> QED  BY <2>2, <2>3 DEF StatedReach
<1>6. /\ base \in Vertices /\ base \notin ahead[base]
      /\ \A v \in Redundant : \E y \in taskGraph[base] \ Redundant : v \in ahead[y]
      /\ \A y, z \in taskGraph[base] \ Redundant : z \notin ahead[y]
    BY <1>1, <1>4, LevelsEnd
<1>7. PICK D, next, b, X : D = Vertices /\ next = taskGraph /\ b = base /\ X = Redundant  OBVIOUS
<1>8. Least([next EXCEPT ![b] = @ \ X], D, D, ahead)
  <2>1. /\ next \in [D -> SUBSET D] /\ Least(next, D, D, ahead) /\ b \in D /\ b \notin ahead[b]
        /\ \A v \in X \cap next[b] : \E y \in next[b] \ X : v \in ahead[y]
      BY <1>4, <1>6, <1>7
  <2> QED  BY ONLY <2>1, SparedEdges
<1>9. /\ taskGraph' \in [Vertices -> SUBSET Vertices] /\ taskGraph'[base] = taskGraph[base] \ Redundant
      /\ \A v \in Vertices : v # base => taskGraph'[v] = taskGraph[v]
    BY <1>1, <1>4, <1>6
<1>10. Vertices \subseteq Nat  BY DEF Laid
<1>11. ASSUME NEW v \in Vertices, v <= base
       PROVE  v \notin ahead[v] /\ \A y, z \in taskGraph'[v] : z \notin ahead[y]
  <2>1. CASE v = base  BY <1>6, <1>9, <2>1
  <2>2. CASE v # base
    <3>1. v < base  BY <1>6, <1>10, <1>11, <2>2
    <3> QED  BY <1>4, <1>9, <2>2, <3>1 DEF NoDetours, Earlier
  <2> QED  BY <2>1, <2>2
<1> QED  BY <1>1, <1>2, <1>3, <1>5, <1>7, <1>8, <1>9, <1>11

LEMMA NormalizeEdgesKeeps ==
    ASSUME Laid, NEW ahead, Normalizing(ahead), NormalizeEdges, base + 1 \in Vertices
    PROVE  Normalizing(ahead)'
<1>1. /\ StatedReach(ahead)' /\ Vertices' = Vertices
      /\ taskGraph' \in [Vertices -> SUBSET Vertices] /\ Least(taskGraph', Vertices, Vertices, ahead)
      /\ \A b \in Vertices : b <= base =>
                b \notin ahead[b] /\ \A y, z \in taskGraph'[b] : z \notin ahead[y]
    BY SearchIsDone
<1>2. StartSearchFrom(base + 1) /\ base' = base + 1  BY DEF NormalizeEdges, StartSearchFrom
<1>3. LevelsOK(ahead)'  BY <1>1, <1>2, SearchStarts
<1>4. NoDetours(ahead, Earlier)'
  <2>1. Vertices \subseteq Nat /\ base \in Nat  BY DEF Laid, Normalizing, LevelsOK
  <2>2. \A b \in Vertices : b < base' => b <= base  BY ONLY <1>2, <2>1
  <2> QED  BY <1>1, <2>2 DEF NoDetours, Earlier
<1> QED  BY <1>1, <1>3, <1>4 DEF Normalizing

\* The last search has ended: no path leads back to where it started, so the paths
\* are the order that was stated.
LEMMA NormalizationEnds ==
    ASSUME Laid, Nested, NEW ahead, Normalizing(ahead), NormalizeEdges, base + 1 \notin Vertices
    PROVE  /\ OrderStated' /\ \A b \in Vertices : b <= base
           /\ \A x \in Vertices : ahead[x] = {y \in Vertices : Precedes(x, y)}
<1>1. /\ StatedReach(ahead)' /\ Vertices' = Vertices
      /\ taskGraph' \in [Vertices -> SUBSET Vertices] /\ Least(taskGraph', Vertices, Vertices, ahead)
      /\ \A b \in Vertices : b <= base =>
                b \notin ahead[b] /\ \A y, z \in taskGraph'[b] : z \notin ahead[y]
    BY SearchIsDone
<1>2. \A b \in Vertices : b <= base
  <2>1. NumTasks \in Nat /\ Vertices = 0 .. NumTasks - 1 /\ base \in Vertices
      BY DEF Laid, Normalizing, LevelsOK
  <2>2. base + 1 \notin 0 .. NumTasks - 1 /\ base \in 0 .. NumTasks - 1  BY <2>1
  <2>3. \A b \in 0 .. NumTasks - 1 : b <= base  BY ONLY <2>1, <2>2
  <2> QED  BY <2>1, <2>3
<1>3. Ahead(taskGraph') = ahead
  <2>1. PICK D, next : D = Vertices /\ next = taskGraph'  OBVIOUS
  <2>2. IsFiniteSet(D)  BY <2>1, FewTasks
  <2>3. next \in [D -> SUBSET D] /\ Least(next, D, D, ahead)  BY <1>1, <2>1
  <2>4. Least(next, D, D, Ahead(next))  BY ONLY <2>2, <2>3, AheadIsLeast
  <2>5. Ahead(next) = ahead  BY ONLY <2>3, <2>4, LeastIsUnique
  <2> QED  BY <2>1, <2>5
<1>4. UNCHANGED <<taskData, tasks, stated>>  BY DEF NormalizeEdges, userVars
<1>5. \A x, y : Precedes(x, y)' <=> Precedes(x, y)  BY <1>4, PrecedesStays
<1>6. DOMAIN tasks = Vertices /\ StatedReach(ahead)  BY DEF Laid, Normalizing
<1>7. \A x \in DOMAIN tasks : x \notin ahead[x]  BY <1>1, <1>2, <1>6
<1>8. ASSUME NEW x \in Vertices  PROVE ahead[x] = {y \in Vertices : Precedes(x, y)}
  <2>1. ahead[x] = {y \in DOMAIN tasks : Precedes(x, y)}  BY <1>6, <1>7, AheadIsPreceded
  <2> QED  BY <1>6, <2>1
<1>9. \A x \in Vertices : {y \in Vertices : Precedes(x, y)}' = {y \in Vertices : Precedes(x, y)}
    BY <1>1, <1>5
<1> QED  BY <1>1, <1>2, <1>3, <1>8, <1>9 DEF OrderStated
------------------------------------------------------------------------------
(***************************************************************************)
(* From the first call to the prebuilt graph, and in all that comes after. *)
(***************************************************************************)
AfterPrebuild == {"prebuilt", "group", "select", "pair", "join", "small", "write", "compiled"}

NormalInv ==
    /\ GraphIsFunction
    /\ phase \in {"resolve", "validate"} => 0 \in Vertices
    /\ phase = "normalize" => Laid /\ \E ahead : Normalizing(ahead)
    /\ phase \in AfterPrebuild => Laid /\ OrderStated

LEMMA OrderStatedStays ==
    ASSUME UNCHANGED <<taskData, tasks, stated, taskGraph>>, Laid, OrderStated
    PROVE  Laid' /\ OrderStated'
<1>1. Vertices' = Vertices  BY DEF Vertices
<1>2. Laid'  BY <1>1, LaidStays
<1>3. \A x, y : Precedes(x, y)' <=> Precedes(x, y)  BY PrecedesStays
<1>4. \A x \in Vertices : {y \in Vertices : Precedes(x, y)}' = {y \in Vertices : Precedes(x, y)}
    BY <1>1, <1>3
<1>5. PICK next : next = taskGraph  OBVIOUS
<1>6. Ahead(taskGraph) = Ahead(next) /\ Ahead(taskGraph)' = Ahead(next)  BY <1>5
<1> QED  BY <1>1, <1>2, <1>4, <1>6 DEF OrderStated

LEMMA NormalizationStutters ==
    ASSUME UNCHANGED <<taskData, tasks, stated, taskGraph, levelVars>>, Laid, NEW ahead, Normalizing(ahead)
    PROVE  Laid' /\ Normalizing(ahead)'
<1>1. Vertices' = Vertices /\ UNCHANGED <<base, label, frontier, depth>>  BY DEF Vertices, levelVars
<1>2. Laid' /\ StatedGraph' = StatedGraph  BY <1>1, LaidStays
<1>3. StatedReach(ahead)'
  <2>1. PICK D, next : D = DOMAIN tasks /\ next = StatedGraph  OBVIOUS
  <2>2. Least(next, D, D, ahead)  BY <2>1 DEF Normalizing, StatedReach
  <2>3. DOMAIN tasks' = D /\ StatedGraph' = next  BY <1>2, <2>1
  <2> QED  BY <2>2, <2>3 DEF StatedReach
<1>4. LevelsOK(ahead)'  BY <1>1 DEF Normalizing, LevelsOK, Labelled
<1>5. NoDetours(ahead, Earlier)'  BY <1>1 DEF Normalizing, NoDetours, Earlier
<1> QED  BY <1>1, <1>2, <1>3, <1>4, <1>5 DEF Normalizing

LEMMA MergeStepMade == MergeStep => phase \in AfterPrebuild /\ phase' \in AfterPrebuild
  BY MergeStepPhases
  DEF AfterPrebuild, MergeStep, Goto, StartMerging, GroupTask, Grouped, SelectCandidates, PairStep, EndPass,
      JoinPair, EndRound, AllInLimit, SmallStep, EndSmallPass, WriteCompiled

LEMMA NormalizationKeeps ==
    ASSUME Nested, PrebuildInv, NormalInv, PrebuildNext
    PROVE  NormalInv'
<1>0. \A p \in {"user", "resolve", "validate", "refused"} : p \notin AfterPrebuild /\ p # "normalize"  BY DEF AfterPrebuild
<1>1. CASE phase = "user" /\ UserNext /\ UNCHANGED prebuildVars
  <2>1. phase' = "user" /\ taskGraph' = taskGraph  BY <1>1 DEF prebuildVars, prebuiltVars
  <2> QED  BY <1>0, <2>1 DEF NormalInv, GraphIsFunction, Vertices
<1>2. CASE StartPrebuild
  <2>1. phase' = "resolve" /\ taskGraph' = [v \in 0 .. ResolveSize[Root] - 1 |-> {}]
        /\ ResolveSize[Root] \in 1 .. MaxSize
      BY <1>2 DEF StartPrebuild, Compilable
  <2>2. 0 \in DOMAIN taskGraph'  BY <2>1, PrebuildAssumption
  <2> QED  BY <1>0, <2>1, <2>2 DEF NormalInv, GraphIsFunction, Vertices
<1>3. CASE CopyTasks \/ ResolveSubGraph
  <2>1. phase = "resolve" /\ phase' = "resolve"  BY <1>3 DEF CopyTasks, ResolveSubGraph
  <2>2. taskGraph' = [v \in Vertices |-> taskGraph'[v]] /\ Vertices' = Vertices
    <3>1. CASE CopyTasks  BY <3>1 DEF CopyTasks, Vertices
    <3>2. CASE ResolveSubGraph  BY <3>2 DEF ResolveSubGraph, Wired, Vertices
    <3> QED  BY <1>3, <3>1, <3>2
  <2> QED  BY <1>0, <2>1, <2>2 DEF NormalInv, GraphIsFunction
<1>4. CASE ReturnFromGraph \/ ValidateTask
  <2>1. phase \in {"resolve", "validate"} /\ phase' \in {"resolve", "validate"} /\ taskGraph' = taskGraph
      BY <1>4 DEF ReturnFromGraph, ValidateTask
  <2> QED  BY <1>0, <2>1 DEF NormalInv, GraphIsFunction, Vertices
<1>5. CASE Validated
  <2>1. phase = "validate" /\ phase' \in {"normalize", "refused"} /\ taskGraph' = taskGraph
      BY <1>5 DEF Validated, prebuiltVars
  <2>2. phase' = "normalize" => Laid' /\ \E ahead : Normalizing(ahead)'
      BY <1>5, <2>1, NormalizationStarts DEF NormalInv, PrebuildInv
  <2>3. GraphIsFunction'  BY <2>1 DEF NormalInv, GraphIsFunction, Vertices
  <2>4. phase' \notin AfterPrebuild /\ phase' \notin {"resolve", "validate"}  BY <2>1 DEF AfterPrebuild
  <2> QED  BY <2>2, <2>3, <2>4 DEF NormalInv
<1>6. CASE NormalizeLevel
  <2>1. phase = "normalize" /\ phase' = "normalize" /\ taskGraph' = taskGraph  BY <1>6 DEF NormalizeLevel
  <2>2. PICK ahead : Normalizing(ahead)  BY <2>1 DEF NormalInv
  <2>3. Laid' /\ Normalizing(ahead)'  BY <1>6, <2>1, <2>2, NormalizeLevelKeeps DEF NormalInv
  <2>4. GraphIsFunction'  BY <2>1 DEF NormalInv, GraphIsFunction, Vertices
  <2>5. phase' \notin AfterPrebuild /\ phase' \notin {"resolve", "validate"}  BY <2>1 DEF AfterPrebuild
  <2> QED  BY <2>3, <2>4, <2>5 DEF NormalInv
<1>7. CASE NormalizeEdges
  <2>1. phase = "normalize" /\ phase' = IF base + 1 \in Vertices THEN "normalize" ELSE "prebuilt"
      BY <1>7 DEF NormalizeEdges
  <2>2. Laid /\ \E ahead : Normalizing(ahead)  BY <2>1 DEF NormalInv
  <2>3. PICK ahead : Normalizing(ahead)  BY <2>2
  <2>4. Laid'  BY <1>7, <2>2, <2>3, SearchIsDone
  <2>5. GraphIsFunction'  BY <1>7 DEF NormalInv, GraphIsFunction, Vertices, NormalizeEdges
  <2>6. CASE base + 1 \in Vertices
    <3>1. Normalizing(ahead)'  BY <1>7, <2>2, <2>3, <2>6, NormalizeEdgesKeeps
    <3>2. phase' = "normalize" /\ "normalize" \notin AfterPrebuild  BY <2>1, <2>6 DEF AfterPrebuild
    <3> QED  BY <2>4, <2>5, <3>1, <3>2 DEF NormalInv
  <2>7. CASE base + 1 \notin Vertices
    <3>1. OrderStated'  BY <1>7, <2>2, <2>3, <2>7, NormalizationEnds
    <3>2. phase' = "prebuilt"  BY <2>1, <2>7
    <3> QED  BY <2>4, <2>5, <3>1, <3>2 DEF NormalInv
  <2> QED  BY <2>6, <2>7
<1> QED  BY <1>1, <1>2, <1>3, <1>4, <1>5, <1>6, <1>7 DEF PrebuildNext, PrebuildStep

LEMMA NormalInvStays ==
    ASSUME NormalInv,
           \/ UNCHANGED <<phase, taskData, tasks, stated, taskGraph, levelVars>>
           \/ MergeStep
    PROVE  NormalInv'
<1>1. CASE UNCHANGED <<phase, taskData, tasks, stated, taskGraph, levelVars>>
  <2>1. phase \in AfterPrebuild => Laid' /\ OrderStated'  BY <1>1, OrderStatedStays DEF NormalInv
  <2>2. phase = "normalize" => Laid' /\ \E ahead : Normalizing(ahead)'
    <3>1. SUFFICES ASSUME phase = "normalize"  PROVE Laid' /\ \E ahead : Normalizing(ahead)'  OBVIOUS
    <3>2. PICK ahead : Normalizing(ahead)  BY <3>1 DEF NormalInv
    <3>3. Laid  BY <3>1 DEF NormalInv
    <3>4. Laid' /\ Normalizing(ahead)'  BY <1>1, <3>2, <3>3, NormalizationStutters
    <3> QED  BY <3>4
  <2>3. Vertices' = Vertices /\ phase' = phase  BY <1>1 DEF Vertices
  <2> QED  BY <1>1, <2>1, <2>2, <2>3 DEF NormalInv, GraphIsFunction
<1>2. CASE MergeStep
  <2>1. UNCHANGED <<taskData, tasks, stated, taskGraph>>
      BY <1>2, MergeStepReads DEF userVars, prebuiltVars
  <2>2. phase \in AfterPrebuild /\ phase' \in AfterPrebuild  BY <1>2, MergeStepMade
  <2>3. Laid' /\ OrderStated'  BY <2>1, <2>2, OrderStatedStays DEF NormalInv
  <2>4. phase' # "normalize" /\ phase' \notin {"resolve", "validate"}  BY <2>2 DEF AfterPrebuild
  <2> QED  BY <2>1, <2>3, <2>4 DEF NormalInv, GraphIsFunction, Vertices
<1> QED  BY <1>1, <1>2

\* What the order of the stated graphs comes to in the prebuilt graph.
LEMMA NormalInvHolds == Spec => []NormalInv
<1>1. ResolveInv /\ Nested /\ [Next]_vars => ResolveInv'  BY ResolveIsKept
<1>2. PrebuildInit => ResolveInv /\ PrebuildInv /\ NormalInv
  <2> SUFFICES ASSUME PrebuildInit  PROVE ResolveInv /\ PrebuildInv /\ NormalInv  OBVIOUS
  <2>1. ResolveInv /\ PrebuildInv  BY DEF PrebuildInit, ResolveInv, SubGraphsResolved, PrebuildInv
  <2>2. phase = "user" /\ taskGraph = <<>>  BY DEF PrebuildInit
  <2>3. GraphIsFunction  BY <2>2 DEF GraphIsFunction, Vertices
  <2> QED  BY <2>1, <2>2, <2>3 DEF NormalInv, AfterPrebuild
<1>3. Nested /\ OrderAsStated /\ ResolveInv /\ PrebuildInv /\ [Next]_vars => PrebuildInv'  BY PrebuildIsKept
<1>4. Nested /\ PrebuildInv /\ NormalInv /\ [Next]_vars => NormalInv'
  <2> SUFFICES ASSUME Nested, PrebuildInv, NormalInv, [Next]_vars  PROVE NormalInv'  OBVIOUS
  <2>1. CASE PrebuildNext  BY <2>1, NormalizationKeeps
  <2>2. CASE MergeStep  BY <2>2, NormalInvStays
  <2>3. CASE UNCHANGED vars
    <3>1. UNCHANGED <<phase, taskData, tasks, stated, taskGraph, levelVars>>
        BY <2>3 DEF vars, userVars, prebuildVars, prebuiltVars
    <3> QED  BY <3>1, NormalInvStays
  <2> QED  BY <2>1, <2>2, <2>3 DEF Next
<1> QED  BY <1>1, <1>2, <1>3, <1>4, GraphsAreNested, CompilerReadsOrder, PTL DEF Spec

\* Normalization removes edges while later searches still run over them (462-465)
\* and changes no order, for all graphs and nestings: the paths that are left are
\* what setNext and the nesting of the graphs say, and no edge beside a longer path
\* is left.  A search that ends has shown that no path leads back to its base.
THEOREM OrderIsKeptAsStated == Spec => []OrderIsStated
<1>1. NormalInv => OrderIsStated
  BY DEF NormalInv, OrderStated, OrderIsStated, AfterPrebuild
<1> QED  BY <1>1, NormalInvHolds, PTL

------------------------------------------------------------------------------
(***************************************************************************)
(* What the stated usages come to as exclusion.                            *)
(***************************************************************************)
\* What is stated of usages is stated of tasks of the graph, so that the indices of
\* a conflict are those of the tasks just copied (343-356).
UsagesAreOfTasks == \A g \in TaskGraphs : \A u \in stated[g].usage : u[1] \in TaskIds(g)

LEMMA UsagesOfTasksKept ==
    ASSUME UserTypes, UsagesAreOfTasks, [UserNext]_userVars
    PROVE  UsagesAreOfTasks'
<1>1. /\ DOMAIN taskData = TaskGraphs /\ stated \in [TaskGraphs -> Stated]
      /\ \A g \in TaskGraphs : Len(taskData[g]) \in Nat
      /\ taskData \in [TaskGraphs -> Seq(TaskGraphs \cup {NoGraph})]
    BY LenProperties DEF UserTypes
<1>2. ASSUME NEW g \in TaskGraphs, UserCall(g)  PROVE UsagesAreOfTasks'
  <2>1. CASE UNCHANGED <<taskData, stated>>
      BY <2>1 DEF UsagesAreOfTasks, TaskIds
  <2>2. ASSUME NEW h \in {NoGraph} \cup {h \in TaskGraphs : h > g}, AddTask(g, h)
        PROVE  UsagesAreOfTasks'
    <3>1. taskData' = [taskData EXCEPT ![g] = Append(@, h)] /\ UNCHANGED stated
        BY <2>2 DEF AddTask
    <3>2. TaskIds(g) \subseteq TaskIds(g)'
      <4>1. Len(Append(taskData[g], h)) = Len(taskData[g]) + 1
        <5>1. taskData[g] \in Seq(TaskGraphs \cup {NoGraph}) /\ h \in TaskGraphs \cup {NoGraph}  BY <1>1
        <5> QED  BY <5>1, AppendProperties
      <4>2. taskData'[g] = Append(taskData[g], h)  BY <1>1, <3>1
      <4>3. \A n \in Nat : 0 .. n - 1 \subseteq 0 .. (n + 1) - 1  OBVIOUS
      <4> QED  BY <1>1, <4>1, <4>2, <4>3 DEF TaskIds
    <3>3. \A f \in TaskGraphs : TaskIds(f) \subseteq TaskIds(f)'
      <4>1. \A f \in TaskGraphs : f # g => taskData'[f] = taskData[f]  BY <1>1, <3>1
      <4> QED  BY <3>2, <4>1 DEF TaskIds
    <3> QED  BY <3>1, <3>3 DEF UsagesAreOfTasks
  <2>3. CASE Clear(g)
    <3>1. /\ taskData' = [taskData EXCEPT ![g] = <<>>]
          /\ stated' = [stated EXCEPT ![g] = [order |-> {}, usage |-> {}]]
        BY <2>3 DEF Clear
    <3>2. \A f \in TaskGraphs : f # g => TaskIds(f)' = TaskIds(f) /\ stated'[f] = stated[f]
        BY <1>1, <3>1 DEF TaskIds
    <3>3. stated'[g].usage = {}  BY <1>1, <3>1
    <3> QED  BY <3>2, <3>3 DEF UsagesAreOfTasks
  <2>4. ASSUME NEW h \in TaskGraphs, CopyFrom(g, h)  PROVE UsagesAreOfTasks'
    <3>1. taskData' = [taskData EXCEPT ![g] = taskData[h]] /\ stated' = [stated EXCEPT ![g] = stated[h]]
        BY <2>4 DEF CopyFrom
    <3>2. \A f \in TaskGraphs : f # g => TaskIds(f)' = TaskIds(f) /\ stated'[f] = stated[f]
        BY <1>1, <3>1 DEF TaskIds
    <3>3. stated'[g] = stated[h] /\ TaskIds(g)' = TaskIds(h)
        BY <1>1, <3>1 DEF TaskIds
    <3> QED  BY <3>2, <3>3 DEF UsagesAreOfTasks
  <2>5. ASSUME NEW task \in TaskIds(g), NEW resource, NEW usage, SetResourceUsage(g, task, resource, usage)
        PROVE  UsagesAreOfTasks'
    <3> DEFINE U == {u \in stated[g].usage : u[1] # task \/ u[2] # resource}
                        \cup (IF usage = "NOT_USED" THEN {} ELSE {<<task, resource, usage>>})
    <3>1. UNCHANGED taskData /\ stated' = [stated EXCEPT ![g].usage = U]
        BY <2>5 DEF SetResourceUsage
    <3>2. \A u \in U : u \in stated[g].usage \/ u[1] = task  OBVIOUS
    <3> HIDE DEF U
    <3>3. /\ stated'[g].usage = U
          /\ \A f \in TaskGraphs : f # g => stated'[f] = stated[f]
        BY <1>1, <3>1 DEF Stated
    <3>4. \A f \in TaskGraphs : TaskIds(f)' = TaskIds(f)  BY <3>1 DEF TaskIds
    <3> QED  BY <3>2, <3>3, <3>4 DEF UsagesAreOfTasks
  <2>6. ASSUME NEW task, NEW next, NEW set, SetNext(g, task, next, set)  PROVE UsagesAreOfTasks'
    <3>1. PICK order : stated' = [stated EXCEPT ![g].order = order]  BY <2>6 DEF SetNext
    <3>2. \A f \in TaskGraphs : stated'[f].usage = stated[f].usage  BY <1>1, <3>1 DEF Stated
    <3>3. UNCHANGED taskData  BY <2>6 DEF SetNext
    <3> QED  BY <3>2, <3>3 DEF UsagesAreOfTasks, TaskIds
  <2>7. CASE MoveNextRow(g) \/ Resize(g)
    <3>1. UNCHANGED <<taskData, stated>>  BY <2>7 DEF MoveNextRow, Resize
    <3> QED  BY <2>1, <3>1
  <2> QED  BY <1>2, <2>2, <2>3, <2>4, <2>5, <2>6, <2>7 DEF UserCall
<1>3. CASE UNCHANGED userVars  BY <1>3 DEF userVars, UsagesAreOfTasks, TaskIds
<1>4. CASE WalkRange  BY <1>4 DEF WalkRange, UsagesAreOfTasks, TaskIds
<1> QED  BY <1>2, <1>3, <1>4 DEF UserNext

LEMMA UsagesHoldTasks == Spec => []UsagesAreOfTasks
<1>1. UserInit => UsagesAreOfTasks  BY DEF UserInit, UsagesAreOfTasks
<1>2. UserInv /\ UsagesAreOfTasks /\ [UserNext]_userVars => UsagesAreOfTasks'
    BY UsagesOfTasksKept DEF UserInv
<1> QED  BY <1>1, <1>2, UserInvariant, CompilerLeavesGraphs, PTL DEF UserSpec

\* What was said of a task at a place, and what it means for two of them.
UsagesAt(task) ==
    IF task.kind = "exit" THEN {}
    ELSE {u \in stated[GraphAt(Front(task.path))].usage : u[1] = Last(task.path)}

ConflictAt(t, s) ==
    \E u \in UsagesAt(t), w \in UsagesAt(s) : u[2] = w[2] /\ "LOCKING" \in {u[3], w[3]}

LEMMA ConflictIs == \A x, y : Conflict(x, y) <=> ConflictAt(tasks[x], tasks[y])
  BY DEF Conflict, ConflictAt, UsagesOf, UsagesAt

LEMMA ConflictStays ==
    ASSUME UNCHANGED <<taskData, stated>>
    PROVE  \A t, s : ConflictAt(t, s)' <=> ConflictAt(t, s)
<1>1. ASSUME NEW t  PROVE UsagesAt(t)' = UsagesAt(t)
  <2>1. PICK g : g = GraphAt(Front(t.path))  OBVIOUS
  <2>2. GraphAt(Front(t.path))' = g  BY <2>1, GraphAtStays
  <2> QED  BY <2>1, <2>2 DEF UsagesAt
<1> QED  BY <1>1 DEF ConflictAt

\* When no call is under way, the multimap has the entries that were stated.
LEMMA EntriesAreStated ==
    ASSUME UsageAsStated, usageCall = <<>>, NEW g \in TaskGraphs
    PROVE  BagToSet(taskResourceUsage[g]) = {Entry(u[1], u[2], u[3]) : u \in stated[g].usage}
<1>1. taskResourceUsage[g] = SetToBag({Entry(u[1], u[2], u[3]) : u \in stated[g].usage})
    BY DEF UsageAsStated
<1> QED  BY <1>1, SetOfBag

\* Two tasks of one graph conflict by what was stated if they do by the multimap.
LEMMA ConflictIsRead ==
    ASSUME UsageAsStated, usageCall = <<>>, NEW g \in TaskGraphs, NEW t, NEW s, t.kind # "exit", s.kind # "exit",
           g = GraphAt(Front(t.path)), g = GraphAt(Front(s.path))
    PROVE  ConflictAt(t, s)
           <=> <<Last(t.path), Last(s.path)>> \in Conflicting(BagToSet(taskResourceUsage[g]))
<1>1. PICK U, a, b : U = stated[g].usage /\ a = Last(t.path) /\ b = Last(s.path)  OBVIOUS
<1>2. PICK usages : usages = BagToSet(taskResourceUsage[g])  OBVIOUS
<1>3. usages = {Entry(u[1], u[2], u[3]) : u \in U}  BY <1>1, <1>2, EntriesAreStated
<1>4. ConflictAt(t, s) <=> \E u, w \in U : /\ u[1] = a /\ w[1] = b /\ u[2] = w[2]
                                           /\ "LOCKING" \in {u[3], w[3]}
    BY <1>1 DEF ConflictAt, UsagesAt
<1>5. ASSUME NEW u \in U, NEW w \in U, u[1] = a, w[1] = b, u[2] = w[2], "LOCKING" \in {u[3], w[3]}
      PROVE  <<a, b>> \in Conflicting(usages)
  <2>1. PICK e, f : e = Entry(u[1], u[2], u[3]) /\ f = Entry(w[1], w[2], w[3])  OBVIOUS
  <2>2. PICK p : p = <<e, f>>  OBVIOUS
  <2>3. e \in usages /\ f \in usages  BY <1>3, <2>1
  <2>4. p \in usages \X usages /\ p[1] = e /\ p[2] = f  BY <2>2, <2>3
  <2>5. e.task = a /\ f.task = b /\ e.resource = f.resource /\ (e.locking \/ f.locking)
      BY <1>5, <2>1 DEF Entry
  <2> QED  BY <2>4, <2>5 DEF Conflicting
<1>6. ASSUME <<a, b>> \in Conflicting(usages)
      PROVE  \E u, w \in U : u[1] = a /\ w[1] = b /\ u[2] = w[2] /\ "LOCKING" \in {u[3], w[3]}
  <2>1. PICK p \in usages \X usages :
            /\ p[1].resource = p[2].resource /\ (p[1].locking \/ p[2].locking)
            /\ <<a, b>> = <<p[1].task, p[2].task>>
      BY <1>6 DEF Conflicting
  <2>2. PICK e, f : e = p[1] /\ f = p[2]  OBVIOUS
  <2>3. e \in usages /\ f \in usages /\ e.task = a /\ f.task = b  BY <2>1, <2>2
  <2>4. PICK u \in U : e = Entry(u[1], u[2], u[3])  BY <1>3, <2>3
  <2>5. PICK w \in U : f = Entry(w[1], w[2], w[3])  BY <1>3, <2>3
  <2>6. /\ e.task = u[1] /\ e.resource = u[2] /\ e.locking = (u[3] = "LOCKING")
        /\ f.task = w[1] /\ f.resource = w[2] /\ f.locking = (w[3] = "LOCKING")
      BY <2>4, <2>5 DEF Entry
  <2>7. e.resource = f.resource /\ (e.locking \/ f.locking)  BY <2>1, <2>2
  <2> QED  BY <2>3, <2>6, <2>7
<1> QED  BY <1>1, <1>2, <1>4, <1>5, <1>6

\* The places that were reserved are enough for what is laid out so far.
LEMMA TasksFit ==
    ASSUME Nested, Resolving
    PROVE  DOMAIN tasks \subseteq Vertices
<1>0. PICK n, L : n = NumTasks /\ L = Len(calls)  OBVIOUS
<1>1. /\ ResolveTypes /\ SizesFit /\ n \in Nat /\ DOMAIN tasks = 0 .. n - 1
    BY <1>0 DEF Resolving, ResolveTypes
<1>2. L \in Nat \ {0} /\ DOMAIN calls = 1 .. L /\ \A j \in DOMAIN calls : calls[j] \in CallRecord
    BY <1>0, <1>1, TopCall
<1>3. PICK size \in [TaskGraphs -> Nat], ends \in [DOMAIN calls -> Nat] :
        /\ Vertices = 0 .. ends[1] - 1
        /\ \A j \in DOMAIN calls :
            ends[j] = Left(size, calls[j]) + (IF j = L THEN n ELSE ends[j + 1])
    BY <1>0, <1>1 DEF SizesFit
<1>4. ASSUME NEW j \in 1 .. L  PROVE Left(size, calls[j]) \in Nat
  <2>1. PICK c : c = calls[j]  OBVIOUS
  <2>2. c.graph \in TaskGraphs /\ c \in CallRecord  BY <1>2, <2>1 DEF CallRecord
  <2>3. PICK g, next : g = c.graph /\ next = c.next  OBVIOUS
  <2>4. SumOver(LeftParts(size, g, next), TaskIds(g)) \in Nat
    <3>1. IsFiniteSet(TaskIds(g))  BY <2>2, <2>3, TaskIdsOf
    <3>2. ASSUME NEW k \in TaskIds(g)  PROVE LeftParts(size, g, next)[k] \in Nat
      <4>1. SubGraph(g, k) # NoGraph => size[SubGraph(g, k)] \in Nat  BY <2>2, <2>3, TaskIdsOf
      <4>2. SubGraph(g, k) # NoGraph => 1 + size[SubGraph(g, k)] \in Nat  BY <4>1
      <4> QED  BY <4>2 DEF LeftParts
    <3> QED  BY <3>1, <3>2, SumIsNat
  <2> QED  BY <2>1, <2>2, <2>3, <2>4 DEF Left
<1> DEFINE Short == {j \in 1 .. L : ends[j] < n}
<1>5. Short = {}
  <2>1. SUFFICES ASSUME Short # {}  PROVE FALSE  OBVIOUS
  <2>2. Short \subseteq 0 .. L /\ L \in Nat  BY <1>2
  <2>3. PICK j \in Short : \A i \in Short : i <= j
    <3> HIDE DEF Short
    <3>1. Max(Short) \in Short /\ \A i \in Short : Max(Short) >= i  BY <2>1, <2>2, MaxBelow
    <3>2. Short \subseteq Int  BY <2>2
    <3>3. \A i \in Short : i <= Max(Short)  BY <3>1, <3>2
    <3> QED  BY <3>1, <3>3
  <2>4. j \in 1 .. L /\ ends[j] < n /\ ends[j] \in Nat  BY <1>2, <2>3
  <2>5. CASE j = L
    <3>1. ends[j] = Left(size, calls[j]) + n  BY <1>2, <1>3, <2>4, <2>5
    <3> QED  BY <1>1, <1>4, <2>4, <3>1
  <2>6. CASE j # L
    <3>1. j + 1 \in 1 .. L  BY <1>2, <2>4, <2>6
    <3>2. ends[j] = Left(size, calls[j]) + ends[j + 1] /\ ends[j + 1] \in Nat  BY <1>2, <1>3, <2>4, <2>6, <3>1
    <3>3. j + 1 \notin Short  BY <2>3, <2>4
    <3>4. ends[j + 1] >= n  BY <1>1, <3>1, <3>2, <3>3
    <3>5. Left(size, calls[j]) \in Nat  BY <1>4, <2>4
    <3> QED  BY <1>1, <2>4, <3>2, <3>4, <3>5
  <2> QED  BY <2>5, <2>6
<1>6. ends[1] \in Nat /\ ends[1] >= n
  <2>1. 1 \in 1 .. L  BY <1>2
  <2> QED  BY <1>1, <1>2, <1>5, <2>1
<1> QED  BY <1>1, <1>3, <1>6
\* While the tasks are laid out: those of one graph that conflict, and the ends of
\* the sub-graphs that have a table.
ExcludedBy(x) == {y \in DOMAIN tasks : x \in DOMAIN tasks /\ Siblings(x, y) /\ Conflict(x, y)}
EndsOne(x) == \E t \in Tables : x \in {t.entry, t.exit}
ExcludedSoFar == \A x \in Vertices :
                    exclusionGraph[x] = ExcludedBy(x) \cup (IF EndsOne(x) THEN {x} ELSE {})

\* Tasks that stay where they are conflict as before.
LEMMA SiblingsStay ==
    ASSUME UNCHANGED <<taskData, stated>>, NEW x, NEW y, tasks'[x] = tasks[x], tasks'[y] = tasks[y]
    PROVE  (Siblings(x, y)' <=> Siblings(x, y)) /\ (Conflict(x, y)' <=> Conflict(x, y))
<1>1. Siblings(x, y)' <=> Siblings(x, y)  BY DEF Siblings
<1>2. PICK t, s : t = tasks[x] /\ s = tasks[y]  OBVIOUS
<1>3. ConflictAt(t, s)' <=> ConflictAt(t, s)  BY ConflictStays
<1>4. Conflict(x, y) <=> ConflictAt(t, s)  BY <1>2, ConflictIs
<1>5. Conflict(x, y)' <=> ConflictAt(t, s)'
    BY <1>2 DEF Conflict, ConflictAt, UsagesOf, UsagesAt
<1> QED  BY <1>1, <1>3, <1>4, <1>5

\* The tasks of a graph are copied with their conflicts; none of those that are
\* there has a sibling among them.
LEMMA CopyTasksExcluded ==
    ASSUME Nested, Resolving, Wiring, ExcludedSoFar, UsageAsStated, UsagesAreOfTasks, CopyTasks,
           DOMAIN tasks' \subseteq Vertices'
    PROVE  ExcludedSoFar'
<1>0. PICK n, g, p, L : n = NumTasks /\ g = Top.graph /\ p = Top.path /\ L = Len(calls)  OBVIOUS
<1>1. /\ n \in Nat /\ DOMAIN tasks = 0 .. n - 1 /\ p \in Seq(Nat) /\ g = GraphAt(p)
      /\ g \in TaskGraphs /\ TaskIds(g) \subseteq Nat
      /\ UNCHANGED <<taskData, subGraphData, Vertices, stated>>
      /\ \A v \in DOMAIN tasks : v \in DOMAIN tasks' /\ tasks'[v] = tasks[v]
      /\ \A v \in DOMAIN tasks : Front(tasks[v].path) # p
      /\ \A k \in TaskIds(g) :
            /\ n + k \in DOMAIN tasks' \ DOMAIN tasks
            /\ Front(tasks'[n + k].path) = p /\ Last(tasks'[n + k].path) = k
            /\ tasks'[n + k].kind = IF SubGraph(g, k) = NoGraph THEN "task" ELSE "entry"
      /\ \A v \in DOMAIN tasks' \ DOMAIN tasks : \E k \in TaskIds(g) : v = n + k
    BY <1>0, CopyTasksAt
<1>2. PICK conflicts, entries :
        entries = BagToSet(taskResourceUsage[g]) /\ conflicts = Conflicting(entries)
    OBVIOUS
<1>3. \A x \in Vertices :
        exclusionGraph'[x] = exclusionGraph[x] \cup {w \in Vertices : <<x - n, w - n>> \in conflicts}
    BY <1>0, <1>2 DEF CopyTasks
<1>4. \A a, b : <<a, b>> \in conflicts => a \in TaskIds(g) /\ b \in TaskIds(g)
  <2> SUFFICES ASSUME NEW a, NEW b, <<a, b>> \in conflicts  PROVE a \in TaskIds(g) /\ b \in TaskIds(g)
      OBVIOUS
  <2>1. PICK c \in entries \X entries : <<a, b>> = <<c[1].task, c[2].task>>
      BY <1>2 DEF Conflicting
  <2>2. c[1] \in entries /\ c[2] \in entries /\ a = c[1].task /\ b = c[2].task
      BY <2>1
  <2>3. \A e \in entries : e.task \in TaskIds(g)
    <3>1. entries = {Entry(u[1], u[2], u[3]) : u \in stated[g].usage}
        BY <1>1, <1>2, EntriesAreStated DEF Wiring, NoCallActive
    <3> QED  BY <1>1, <3>1 DEF Entry, UsagesAreOfTasks
  <2> QED  BY <2>2, <2>3
<1>5. \A x \in Vertices : EndsOne(x)' <=> EndsOne(x)  BY <1>1 DEF EndsOne, Tables
<1>6. DOMAIN tasks \subseteq Vertices /\ DOMAIN tasks' \subseteq Vertices  BY <1>1
<1>7. ASSUME NEW x \in DOMAIN tasks, NEW y \in DOMAIN tasks
      PROVE  (Siblings(x, y)' <=> Siblings(x, y)) /\ (Conflict(x, y)' <=> Conflict(x, y))
    BY <1>1, SiblingsStay
<1>8. ASSUME NEW k \in TaskIds(g), NEW j \in TaskIds(g)
      PROVE  /\ Siblings(n + k, n + j)'
             /\ Conflict(n + k, n + j)' <=> <<k, j>> \in conflicts
  <2>1. PICK t, s : t = tasks'[n + k] /\ s = tasks'[n + j]  OBVIOUS
  <2>2. /\ Front(t.path) = p /\ Front(s.path) = p /\ Last(t.path) = k /\ Last(s.path) = j
        /\ t.kind # "exit" /\ s.kind # "exit"
      BY <1>1, <2>1
  <2>3. ConflictAt(t, s) <=> <<k, j>> \in conflicts
      BY <1>1, <1>2, <2>2, ConflictIsRead DEF Wiring, NoCallActive
  <2>4. ConflictAt(t, s)' <=> ConflictAt(t, s)  BY <1>1, ConflictStays
  <2>5. Conflict(n + k, n + j)' <=> ConflictAt(t, s)'
    <3>1. PICK v, w : v = n + k /\ w = n + j  OBVIOUS
    <3>2. Conflict(v, w)' <=> ConflictAt(t, s)'
        BY <2>1, <3>1 DEF Conflict, ConflictAt, UsagesOf, UsagesAt
    <3> QED  BY <3>1, <3>2 DEF Conflict, UsagesOf
  <2>6. Siblings(n + k, n + j)'  BY <2>1, <2>2, <1>0 DEF Siblings
  <2> QED  BY <2>3, <2>4, <2>5, <2>6
<1>9. ASSUME NEW x \in DOMAIN tasks, NEW y \in DOMAIN tasks' \ DOMAIN tasks
      PROVE  ~Siblings(x, y)' /\ ~Siblings(y, x)'
  <2>1. Front(tasks'[x].path) # p /\ Front(tasks'[y].path) = p  BY <1>1
  <2> QED  BY <2>1 DEF Siblings
<1>10. ASSUME NEW x \in Vertices, x \in DOMAIN tasks
       PROVE  exclusionGraph'[x] = exclusionGraph[x] /\ ExcludedBy(x)' = ExcludedBy(x)
  <2>1. \A w : <<x - n, w - n>> \notin conflicts
    <3>1. x - n \notin Nat  BY <1>1, <1>10
    <3> QED  BY <1>1, <1>4, <3>1
  <2>2. exclusionGraph'[x] = exclusionGraph[x]  BY <1>3, <2>1
  <2>3. ASSUME NEW y  PROVE y \in ExcludedBy(x)' <=> y \in ExcludedBy(x)
    <3>1. CASE y \in DOMAIN tasks
      <4>1. y \in DOMAIN tasks' /\ x \in DOMAIN tasks'  BY <1>1, <1>10, <3>1
      <4>2. (Siblings(x, y)' <=> Siblings(x, y)) /\ (Conflict(x, y)' <=> Conflict(x, y))
          BY <1>7, <1>10, <3>1
      <4> QED  BY <1>10, <3>1, <4>1, <4>2 DEF ExcludedBy
    <3>2. CASE y \notin DOMAIN tasks  BY <1>9, <1>10, <3>2 DEF ExcludedBy
    <3> QED  BY <3>1, <3>2
  <2> QED  BY <2>2, <2>3
<1>11. ASSUME NEW x \in Vertices, x \notin DOMAIN tasks
       PROVE  /\ exclusionGraph[x] = {} /\ ~EndsOne(x)
              /\ exclusionGraph'[x] = ExcludedBy(x)'
  <2>1. ~EndsOne(x)  BY <1>11 DEF EndsOne, Tables, Resolving, TablesOK, TableOK
  <2>2. exclusionGraph[x] = {}  BY <1>11, <2>1 DEF ExcludedSoFar, ExcludedBy
  <2>3. exclusionGraph'[x] = {w \in Vertices : <<x - n, w - n>> \in conflicts}  BY <1>3, <2>2
  <2>4. x \in Int /\ \A w \in Vertices : w \in Int
    <3>1. \A w \in Vertices : w \in Int  BY DEF Resolving, SizesFit
    <3> QED  BY <3>1
  <2>5. CASE x \in DOMAIN tasks'
    <3>1. PICK k \in TaskIds(g) : x = n + k  BY <1>1, <1>11, <2>5
    <3>2. k \in Nat /\ x - n = k  BY <1>1, <3>1
    <3>3. ASSUME NEW w  PROVE w \in exclusionGraph'[x] <=> w \in ExcludedBy(x)'
      <4>1. CASE \E j \in TaskIds(g) : w = n + j
        <5>1. PICK j \in TaskIds(g) : w = n + j  BY <4>1
        <5>2. j \in Nat /\ w - n = j /\ w \in DOMAIN tasks' /\ w \in Vertices  BY <1>1, <1>6, <5>1
        <5>3. Siblings(x, w)' /\ (Conflict(x, w)' <=> <<k, j>> \in conflicts)  BY <1>8, <3>1, <5>1
        <5> QED  BY <2>3, <2>5, <3>2, <5>2, <5>3 DEF ExcludedBy
      <4>2. CASE \A j \in TaskIds(g) : w # n + j
        <5>1. w \notin ExcludedBy(x)'
          <6>1. CASE w \in DOMAIN tasks  BY <1>9, <1>11, <2>5, <6>1 DEF ExcludedBy
          <6>2. CASE w \notin DOMAIN tasks  BY <1>1, <4>2, <6>2 DEF ExcludedBy
          <6> QED  BY <6>1, <6>2
        <5>2. ASSUME w \in Vertices, <<x - n, w - n>> \in conflicts  PROVE FALSE
          <6>1. w - n \in TaskIds(g)  BY <1>4, <5>2
          <6>2. w = n + (w - n)  BY <1>1, <2>4, <5>2
          <6> QED  BY <4>2, <6>1, <6>2
        <5> QED  BY <2>3, <5>1, <5>2
      <4> QED  BY <4>1, <4>2
    <3> QED  BY <2>1, <2>2, <3>3
  <2>6. CASE x \notin DOMAIN tasks'
    <3>1. \A w : <<x - n, w - n>> \notin conflicts
      <4>1. SUFFICES ASSUME x - n \in TaskIds(g)  PROVE FALSE  BY <1>4
      <4>2. x = n + (x - n)  BY <1>1, <2>4
      <4> QED  BY <1>1, <2>6, <4>1, <4>2
    <3>2. exclusionGraph'[x] = {} /\ ExcludedBy(x)' = {}  BY <2>3, <2>6, <3>1 DEF ExcludedBy
    <3> QED  BY <2>1, <2>2, <3>2
  <2> QED  BY <2>5, <2>6
<1>12. ASSUME NEW x \in Vertices
       PROVE  exclusionGraph'[x] = ExcludedBy(x)' \cup (IF EndsOne(x)' THEN {x} ELSE {})
  <2>1. EndsOne(x)' <=> EndsOne(x)  BY <1>5
  <2>2. exclusionGraph[x] = ExcludedBy(x) \cup (IF EndsOne(x) THEN {x} ELSE {})  BY DEF ExcludedSoFar
  <2>3. CASE x \in DOMAIN tasks  BY <1>10, <2>1, <2>2, <2>3
  <2>4. CASE x \notin DOMAIN tasks  BY <1>11, <2>1, <2>4
  <2> QED  BY <2>3, <2>4
<1> QED  BY <1>1, <1>12 DEF ExcludedSoFar
\* An entry and its exit get the edge to themselves; nothing is said of an exit.
LEMMA ResolveSubGraphExcluded ==
    ASSUME Nested, Resolving, Wiring, ExclusionMutual, ExcludedSoFar, ResolveSubGraph,
           DOMAIN tasks' \subseteq Vertices'
    PROVE  ExcludedSoFar'
<1>0. PICK n, g, p, L : n = NumTasks /\ g = Top.graph /\ p = Top.path /\ L = Len(calls)  OBVIOUS
<1>1. \E k, sub, new, path, more : ResolvesAt(n, g, p, L, k, sub, new, path, more)
    BY <1>0, ResolveSubGraphAt
<1>2. PICK k, sub, new, path, more : ResolvesAt(n, g, p, L, k, sub, new, path, more)  BY <1>1
<1>3. /\ new.entry \in DOMAIN tasks /\ new.exit = n
      /\ UNCHANGED <<taskData, stated, Vertices>>
      /\ \A v \in DOMAIN tasks : v \in DOMAIN tasks' /\ tasks'[v] = tasks[v]
      /\ n \in DOMAIN tasks' /\ tasks'[n] = [path |-> path, kind |-> "exit"] /\ n \notin DOMAIN tasks
      /\ \A v \in DOMAIN tasks' \ DOMAIN tasks : v = n
      /\ Tables' = Tables \cup {new}
      /\ exclusionGraph' = [exclusionGraph EXCEPT ![new.entry] = @ \cup {new.entry}, ![n] = @ \cup {n}]
    BY <1>2 DEF ResolvesAt
<1>4. PICK e : e = new.entry  OBVIOUS
<1>5. e \in Vertices /\ n \in Vertices /\ DOMAIN exclusionGraph = Vertices /\ e # n
    BY <1>3, <1>4 DEF ExclusionMutual
<1>6. \A x \in Vertices : exclusionGraph'[x] = exclusionGraph[x] \cup (IF x \in {e, n} THEN {x} ELSE {})
  <2>1. exclusionGraph' = [exclusionGraph EXCEPT ![e] = @ \cup {e}, ![n] = @ \cup {n}]  BY <1>3, <1>4
  <2> QED  BY <1>5, <2>1
<1>7. \A x : EndsOne(x)' <=> EndsOne(x) \/ x \in {e, n}  BY <1>3, <1>4 DEF EndsOne
<1>8. ASSUME NEW x \in DOMAIN tasks'  PROVE ~Conflict(x, n)' /\ ~Conflict(n, x)'
  <2>1. PICK t : t = tasks'[n]  OBVIOUS
  <2>2. t.kind = "exit"  BY <1>3, <2>1
  <2> QED  BY <2>1, <2>2 DEF Conflict, UsagesOf
<1>9. ASSUME NEW x  PROVE ExcludedBy(x)' = ExcludedBy(x)
  <2>1. ASSUME NEW y  PROVE y \in ExcludedBy(x)' <=> y \in ExcludedBy(x)
    <3>1. CASE x \in DOMAIN tasks /\ y \in DOMAIN tasks
      <4>1. (Siblings(x, y)' <=> Siblings(x, y)) /\ (Conflict(x, y)' <=> Conflict(x, y))
          BY <1>3, <3>1, SiblingsStay
      <4> QED  BY <1>3, <3>1, <4>1 DEF ExcludedBy
    <3>2. CASE x \notin DOMAIN tasks \/ y \notin DOMAIN tasks
      <4>1. y \notin ExcludedBy(x)  BY <3>2 DEF ExcludedBy
      <4>2. ASSUME y \in ExcludedBy(x)'  PROVE FALSE
        <5>1. x \in DOMAIN tasks' /\ y \in DOMAIN tasks' /\ Conflict(x, y)'  BY <4>2 DEF ExcludedBy
        <5>2. x = n \/ y = n  BY <1>3, <3>2, <5>1
        <5>3. CASE x = n  BY <1>8, <5>1, <5>3
        <5>4. CASE y = n  BY <1>8, <5>1, <5>4
        <5> QED  BY <5>2, <5>3, <5>4
      <4> QED  BY <4>1, <4>2
    <3> QED  BY <3>1, <3>2
  <2> QED  BY <2>1 DEF ExcludedBy
<1>10. ASSUME NEW x \in Vertices
       PROVE  exclusionGraph'[x] = ExcludedBy(x)' \cup (IF EndsOne(x)' THEN {x} ELSE {})
  <2>1. exclusionGraph[x] = ExcludedBy(x) \cup (IF EndsOne(x) THEN {x} ELSE {})  BY DEF ExcludedSoFar
  <2> QED  BY <1>6, <1>7, <1>9, <2>1
<1> QED  BY <1>3, <1>10 DEF ExcludedSoFar

\* When all is laid out: the tasks of the same graph that conflict, and for each end
\* of a sub-graph itself.
Conflicts(x) ==
    {y \in DOMAIN tasks : Siblings(x, y) /\ Conflict(x, y)}
        \cup (IF tasks[x].kind # "task" THEN {x} ELSE {})

ExcludedAsStated == \A x \in Vertices : exclusionGraph[x] = Conflicts(x)

LEMMA LastReturnExcluded ==
    ASSUME Nested, Resolving, Wiring, ExcludedSoFar, ReturnFromGraph, Len(calls) = 1
    PROVE  ExcludedAsStated
<1>1. /\ DOMAIN tasks = Vertices
      /\ \A t \in Tables : TableDone(t)
      /\ \A v \in DOMAIN tasks : tasks[v].kind = "entry" => \E t \in Tables : t.entry = v
    BY LastReturnTables
<1>2. ASSUME NEW x \in Vertices  PROVE EndsOne(x) <=> tasks[x].kind # "task"
  <2>1. EndsOne(x) => tasks[x].kind # "task"  BY <1>1 DEF EndsOne, TableDone
  <2>2. tasks[x].kind \in {"task", "entry", "exit"}
    <3>1. PlaceOK(tasks[x])  BY <1>1 DEF Wiring, PlacesOK
    <3> QED  BY <3>1 DEF PlaceOK
  <2>3. tasks[x].kind = "exit" => \E t \in Tables : t.exit = x  BY <1>1 DEF Wiring, HaveTables
  <2> QED  BY <1>1, <2>1, <2>2, <2>3 DEF EndsOne
<1> QED  BY <1>1, <1>2 DEF ExcludedSoFar, ExcludedAsStated, Conflicts, ExcludedBy

LEMMA ExcludedStays ==
    ASSUME UNCHANGED <<taskData, stated, tasks, subGraphData, exclusionGraph>>, Vertices' = Vertices
    PROVE  (ExcludedSoFar => ExcludedSoFar') /\ (\A x : Conflicts(x)' = Conflicts(x))
<1>1. \A x, y : (Siblings(x, y)' <=> Siblings(x, y)) /\ (Conflict(x, y)' <=> Conflict(x, y))
    BY SiblingsStay
<1>2. \A x : EndsOne(x)' <=> EndsOne(x)  BY DEF EndsOne, Tables
<1>3. \A x : ExcludedBy(x)' = ExcludedBy(x)  BY <1>1 DEF ExcludedBy
<1>4. \A x : Conflicts(x)' = Conflicts(x)  BY <1>1 DEF Conflicts
<1>5. ExcludedSoFar => ExcludedSoFar'  BY <1>2, <1>3 DEF ExcludedSoFar
<1> QED  BY <1>4, <1>5
------------------------------------------------------------------------------
(***************************************************************************)
(* The exclusion that the searches leave.                                  *)
(***************************************************************************)
\* Whether a search from b has come to v, among those that are over and the one in
\* progress.
Cleared(ahead, b, v) == b # v /\ ((b < base /\ v \in ahead[b]) \/ (b = base /\ label[v] > 0))

ExclusionLeft(ahead) ==
    \A x \in Vertices : exclusionGraph[x] = {y \in Conflicts(x) : ~Cleared(ahead, x, y) /\ ~Cleared(ahead, y, x)}

LEMMA ConflictsInside == ASSUME Laid, NEW x \in Vertices  PROVE Conflicts(x) \subseteq Vertices
  BY DEF Laid, Conflicts

\* What a change of the tasks does not touch.
LEMMA ConflictsStay ==
    ASSUME UNCHANGED <<taskData, stated, tasks>>
    PROVE  \A x : Conflicts(x)' = Conflicts(x)
<1>1. \A x, y : (Siblings(x, y)' <=> Siblings(x, y)) /\ (Conflict(x, y)' <=> Conflict(x, y))
    BY SiblingsStay
<1> QED  BY <1>1 DEF Conflicts

LEMMA ExclusionStarts ==
    ASSUME Laid, ExcludedAsStated, Validated, phase' = "normalize"
    PROVE  \A ahead : ExclusionLeft(ahead)'
<1> SUFFICES ASSUME NEW ahead  PROVE ExclusionLeft(ahead)'  OBVIOUS
<1>1. /\ UNCHANGED <<taskData, stated, tasks, exclusionGraph>> /\ Vertices' = Vertices
      /\ base' = 0 /\ label' = [v \in Vertices |-> 0]
    BY DEF Validated, userVars, prebuiltVars, Vertices, StartSearchFrom
<1>2. \A x : Conflicts(x)' = Conflicts(x)  BY <1>1, ConflictsStay
<1>3. ASSUME NEW b \in Vertices, NEW v \in Vertices  PROVE ~Cleared(ahead, b, v)'
  <2>1. b \in Nat
    <3>1. Vertices = 0 .. NumTasks - 1 /\ NumTasks \in Nat  BY DEF Laid
    <3> QED  BY <3>1
  <2>0. label'[v] = 0  BY <1>1
  <2>2. ~(b < 0) /\ ~(0 > 0)  BY ONLY <2>1
  <2> QED  BY <1>1, <2>0, <2>2 DEF Cleared
<1>4. ASSUME NEW x \in Vertices
      PROVE  exclusionGraph'[x] = {y \in Conflicts(x)' : ~Cleared(ahead, x, y)' /\ ~Cleared(ahead, y, x)'}
  <2>1. Conflicts(x)' \subseteq Vertices  BY <1>2, ConflictsInside
  <2> QED  BY <1>1, <1>2, <1>3, <2>1 DEF ExcludedAsStated
<1> QED  BY <1>1, <1>4 DEF ExclusionLeft

\* A level of the search takes the exclusion of its tasks with the base.
LEMMA NormalizeLevelLeaves ==
    ASSUME Laid, NEW ahead, Normalizing(ahead), ExclusionMutual, ExclusionLeft(ahead), NormalizeLevel
    PROVE  ExclusionLeft(ahead)'
<1>1. /\ UNCHANGED <<taskData, stated, tasks, base>> /\ Vertices' = Vertices
      /\ exclusionGraph' = ExclusionWithout(Fresh)
      /\ label' = [v \in Vertices |-> IF v \in Fresh THEN depth ELSE label[v]]
    BY DEF NormalizeLevel, userVars, Vertices
<1>2. /\ Fresh = frontier /\ base \in Vertices /\ label \in [Vertices -> Nat] /\ depth \in Nat
      /\ depth = 0 => frontier = {base}
    BY LevelIsKept DEF Normalizing, LevelsOK
<1>3. \A x : Conflicts(x)' = Conflicts(x)  BY <1>1, ConflictsStay
<1>4. ASSUME NEW v \in Vertices, v # base  PROVE label'[v] > 0 <=> label[v] > 0 \/ v \in Fresh
  <2>1. CASE v \in Fresh
    <3>1. depth # 0 /\ label'[v] = depth  BY <1>1, <1>2, <1>4, <2>1
    <3>2. depth > 0  BY <1>2, <3>1
    <3> QED  BY <2>1, <3>1, <3>2
  <2>2. CASE v \notin Fresh  BY <1>1, <2>2
  <2> QED  BY <2>1, <2>2
<1>5. ASSUME NEW b \in Vertices, NEW v \in Vertices
      PROVE  Cleared(ahead, b, v)' <=> Cleared(ahead, b, v) \/ (b = base /\ v # base /\ v \in Fresh)
  <2>1. CASE b = base /\ v # base
    <3>1. label'[v] > 0 <=> label[v] > 0 \/ v \in Fresh  BY <1>4, <2>1
    <3> QED  BY <1>1, <2>1, <3>1 DEF Cleared
  <2>2. CASE b # base  BY <1>1, <2>2 DEF Cleared
  <2>3. CASE b = v  BY <2>3 DEF Cleared
  <2> QED  BY <2>1, <2>2, <2>3
<1>6. ASSUME NEW x \in Vertices, NEW y \in Vertices
      PROVE  y \in exclusionGraph'[x] <=>
                /\ y \in exclusionGraph[x]
                /\ ~(x = base /\ y # base /\ y \in Fresh) /\ ~(y = base /\ x # base /\ x \in Fresh)
  <2>1. exclusionGraph'[x] = CASE x = base -> exclusionGraph[x] \ (Fresh \ {base})
                               [] x \in Fresh \ {base} -> exclusionGraph[x] \ {base}
                               [] OTHER -> exclusionGraph[x]
      BY <1>1 DEF ExclusionWithout
  <2>2. CASE x = base  BY <2>1, <2>2
  <2>3. CASE x # base /\ x \in Fresh
    <3>1. exclusionGraph'[x] = exclusionGraph[x] \ {base}  BY <2>1, <2>3
    <3> QED  BY <2>3, <3>1
  <2>4. CASE x # base /\ x \notin Fresh
    <3>1. exclusionGraph'[x] = exclusionGraph[x]  BY <2>1, <2>4
    <3> QED  BY <2>4, <3>1
  <2> QED  BY <2>2, <2>3, <2>4
<1>7. ASSUME NEW x \in Vertices
      PROVE  exclusionGraph'[x] = {y \in Conflicts(x)' : ~Cleared(ahead, x, y)' /\ ~Cleared(ahead, y, x)'}
  <2>1. Conflicts(x) \subseteq Vertices  BY ConflictsInside
  <2>2. exclusionGraph[x] = {y \in Conflicts(x) : ~Cleared(ahead, x, y) /\ ~Cleared(ahead, y, x)}
      BY DEF ExclusionLeft
  <2>3. exclusionGraph'[x] \subseteq exclusionGraph[x]
    <3>1. exclusionGraph'[x] = CASE x = base -> exclusionGraph[x] \ (Fresh \ {base})
                                 [] x \in Fresh \ {base} -> exclusionGraph[x] \ {base}
                                 [] OTHER -> exclusionGraph[x]
        BY <1>1 DEF ExclusionWithout
    <3> QED  BY <3>1
  <2>4. ASSUME NEW y \in Vertices
        PROVE  y \in exclusionGraph'[x] <=>
                y \in Conflicts(x)' /\ ~Cleared(ahead, x, y)' /\ ~Cleared(ahead, y, x)'
    <3>1. y \in exclusionGraph'[x] <=>
                /\ y \in exclusionGraph[x]
                /\ ~(x = base /\ y # base /\ y \in Fresh) /\ ~(y = base /\ x # base /\ x \in Fresh)
        BY <1>6
    <3>2. Cleared(ahead, x, y)' <=> Cleared(ahead, x, y) \/ (x = base /\ y # base /\ y \in Fresh)  BY <1>5
    <3>3. Cleared(ahead, y, x)' <=> Cleared(ahead, y, x) \/ (y = base /\ x # base /\ x \in Fresh)  BY <1>5
    <3>4. y \in exclusionGraph[x] <=> y \in Conflicts(x) /\ ~Cleared(ahead, x, y) /\ ~Cleared(ahead, y, x)
        BY <2>2
    <3>5. Conflicts(x)' = Conflicts(x)  BY <1>3
    <3> QED  BY <3>1, <3>2, <3>3, <3>4, <3>5
  <2>5. Conflicts(x)' \subseteq Vertices /\ exclusionGraph'[x] \subseteq Vertices  BY <1>3, <2>1, <2>2, <2>3
  <2> QED  BY <2>4, <2>5
<1> QED  BY <1>1, <1>7 DEF ExclusionLeft

\* When a search is over, the labels say what is ahead of its base.
LEMMA ClearedByDone ==
    ASSUME Laid, NEW ahead, Normalizing(ahead), frontier = {}, NEW b \in Vertices, NEW v \in Vertices
    PROVE  Cleared(ahead, b, v) <=> b # v /\ b <= base /\ v \in ahead[b]
<1>1. base \in Vertices /\ (label[v] > 0 <=> v \in ahead[base])  BY LevelsEnd DEF Normalizing
<1>2. b \in Nat /\ base \in Nat  BY <1>1 DEF Laid
<1>3. b <= base <=> b < base \/ b = base  BY <1>2
<1> QED  BY <1>1, <1>3 DEF Cleared

LEMMA NormalizeEdgesLeaves ==
    ASSUME Laid, NEW ahead, Normalizing(ahead), ExclusionLeft(ahead), NormalizeEdges, base + 1 \in Vertices
    PROVE  ExclusionLeft(ahead)'
<1>1. /\ UNCHANGED <<taskData, stated, tasks, exclusionGraph>> /\ frontier = {}
      /\ Vertices' = Vertices /\ base' = base + 1 /\ label' = [v \in Vertices |-> 0]
    BY DEF NormalizeEdges, userVars, Vertices, StartSearchFrom
<1>2. \A x : Conflicts(x)' = Conflicts(x)  BY <1>1, ConflictsStay
<1>3. ASSUME NEW b \in Vertices, NEW v \in Vertices  PROVE Cleared(ahead, b, v)' <=> Cleared(ahead, b, v)
  <2>1. Cleared(ahead, b, v) <=> b # v /\ b <= base /\ v \in ahead[b]  BY <1>1, ClearedByDone
  <2>2. b \in Nat /\ base \in Nat  BY DEF Laid, Normalizing, LevelsOK
  <2>3. b <= base <=> b < base + 1  BY ONLY <2>2
  <2>4. label'[v] = 0 /\ ~(0 > 0)  BY <1>1
  <2>5. Cleared(ahead, b, v)' <=> b # v /\ b < base + 1 /\ v \in ahead[b]  BY <1>1, <2>4 DEF Cleared
  <2> QED  BY <2>1, <2>3, <2>5
<1>4. ASSUME NEW x \in Vertices
      PROVE  exclusionGraph'[x] = {y \in Conflicts(x)' : ~Cleared(ahead, x, y)' /\ ~Cleared(ahead, y, x)'}
  <2>1. Conflicts(x) \subseteq Vertices  BY ConflictsInside
  <2>2. exclusionGraph[x] = {y \in Conflicts(x) : ~Cleared(ahead, x, y) /\ ~Cleared(ahead, y, x)}
      BY DEF ExclusionLeft
  <2> QED  BY <1>1, <1>2, <1>3, <2>1, <2>2
<1> QED  BY <1>1, <1>4 DEF ExclusionLeft

\* What ExclusionIsStated says of the prebuilt graph.
ExclusionStated ==
    \A x \in Vertices : exclusionGraph[x] =
        {y \in Vertices : Siblings(x, y) /\ Unordered(x, y) /\ Conflict(x, y)}
            \cup (IF tasks[x].kind # "task" \/ Conflict(x, x) THEN {x} ELSE {})

LEMMA ExclusionStatedStays ==
    ASSUME UNCHANGED <<taskData, stated, tasks, exclusionGraph>>, Vertices' = Vertices
    PROVE  ExclusionStated' <=> ExclusionStated
<1>1. \A x, y : (Siblings(x, y)' <=> Siblings(x, y)) /\ (Conflict(x, y)' <=> Conflict(x, y))
    BY SiblingsStay
<1>2. \A x, y : Unordered(x, y)' <=> Unordered(x, y)  BY PrecedesStays DEF Unordered
<1>3. \A x : {y \in Vertices : Siblings(x, y) /\ Unordered(x, y) /\ Conflict(x, y)}'
             = {y \in Vertices : Siblings(x, y) /\ Unordered(x, y) /\ Conflict(x, y)}
    BY <1>1, <1>2
<1> QED  BY <1>1, <1>3 DEF ExclusionStated

\* The last search has ended: what is left is the exclusion of tasks without order.
LEMMA ExclusionEnds ==
    ASSUME Laid, Nested, NEW ahead, Normalizing(ahead), ExclusionLeft(ahead), NormalizeEdges,
           base + 1 \notin Vertices
    PROVE  ExclusionStated'
<1>1. /\ UNCHANGED <<taskData, stated, tasks, exclusionGraph>> /\ frontier = {} /\ Vertices' = Vertices
    BY DEF NormalizeEdges, userVars, Vertices
<1>2. (\A b \in Vertices : b <= base) /\ \A x \in Vertices : ahead[x] = {y \in Vertices : Precedes(x, y)}
    BY NormalizationEnds
<1>3. \A b, v \in Vertices : Cleared(ahead, b, v) <=> b # v /\ Precedes(b, v)
    BY <1>1, <1>2, ClearedByDone
<1>4. ASSUME NEW x \in Vertices
      PROVE  exclusionGraph[x] = {y \in Vertices : Siblings(x, y) /\ Unordered(x, y) /\ Conflict(x, y)}
                                    \cup (IF tasks[x].kind # "task" \/ Conflict(x, x) THEN {x} ELSE {})
  <2>1. Conflicts(x) \subseteq Vertices /\ DOMAIN tasks = Vertices  BY ConflictsInside DEF Laid
  <2>2. exclusionGraph[x] = {y \in Conflicts(x) : ~Cleared(ahead, x, y) /\ ~Cleared(ahead, y, x)}
      BY DEF ExclusionLeft
  <2>3. Siblings(x, x) /\ ~Unordered(x, x)  BY DEF Siblings, Unordered
  <2>4. ASSUME NEW y \in Vertices
        PROVE  y \in exclusionGraph[x] <=>
                \/ Siblings(x, y) /\ Unordered(x, y) /\ Conflict(x, y)
                \/ y = x /\ (tasks[x].kind # "task" \/ Conflict(x, x))
    <3>1. CASE y = x
      <4>1. ~Cleared(ahead, x, x)  BY DEF Cleared
      <4> QED  BY <2>1, <2>2, <2>3, <3>1, <4>1 DEF Conflicts
    <3>2. CASE y # x
      <4>1. ~Cleared(ahead, x, y) /\ ~Cleared(ahead, y, x) <=> Unordered(x, y)
          BY <1>3, <3>2 DEF Unordered
      <4> QED  BY <2>1, <2>2, <3>2, <4>1 DEF Conflicts
    <3> QED  BY <3>1, <3>2
  <2>5. exclusionGraph[x] \subseteq Vertices  BY <2>1, <2>2
  <2> QED  BY <2>4, <2>5
<1>5. ExclusionStated  BY <1>4 DEF ExclusionStated
<1> QED  BY <1>1, <1>5, ExclusionStatedStays
------------------------------------------------------------------------------
(***************************************************************************)
(* Exclusion from the first call to the prebuilt graph, and after it.      *)
(***************************************************************************)
HasRoom == phase = "resolve" => DOMAIN tasks \subseteq Vertices

ExclusionInv ==
    /\ phase = "resolve" => ExcludedSoFar
    /\ phase = "validate" => ExcludedAsStated
    /\ phase = "normalize" => \E ahead : Normalizing(ahead) /\ ExclusionLeft(ahead)
    /\ phase \in AfterPrebuild => ExclusionStated

LEMMA ExcludedAsStatedStays ==
    ASSUME UNCHANGED <<taskData, stated, tasks, exclusionGraph>>, Vertices' = Vertices, ExcludedAsStated
    PROVE  ExcludedAsStated'
<1>1. \A x : Conflicts(x)' = Conflicts(x)  BY ConflictsStay
<1> QED  BY <1>1 DEF ExcludedAsStated

LEMMA ExclusionLeftStays ==
    ASSUME UNCHANGED <<taskData, stated, tasks, exclusionGraph, base, label>>, Vertices' = Vertices,
           NEW ahead, ExclusionLeft(ahead)
    PROVE  ExclusionLeft(ahead)'
<1>1. \A x : Conflicts(x)' = Conflicts(x)  BY ConflictsStay
<1>2. \A b, v : Cleared(ahead, b, v)' <=> Cleared(ahead, b, v)  BY DEF Cleared
<1> QED  BY <1>1, <1>2 DEF ExclusionLeft

LEMMA ExclusionInvKept ==
    ASSUME Nested, UsageAsStated, UsagesAreOfTasks, ResolveInv, PrebuildInv, NormalInv, ExclusionMutual,
           ExclusionInv, HasRoom', PrebuildNext
    PROVE  ExclusionInv'
<1>0. \A p \in {"user", "resolve", "validate", "normalize", "refused"} : p \notin AfterPrebuild
    BY DEF AfterPrebuild
<1>1. CASE phase = "user" /\ UserNext /\ UNCHANGED prebuildVars
  <2>1. phase' = "user"  BY <1>1 DEF prebuildVars
  <2> QED  BY <1>0, <2>1 DEF ExclusionInv
<1>2. CASE StartPrebuild
  <2>1. /\ phase = "user" /\ phase' = "resolve" /\ UNCHANGED <<tasks, subGraphData>>
        /\ taskGraph' = [v \in 0 .. ResolveSize[Root] - 1 |-> {}] /\ exclusionGraph' = taskGraph'
      BY <1>2 DEF StartPrebuild
  <2>2. tasks' = <<>> /\ subGraphData' = <<>>  BY <2>1 DEF ResolveInv
  <2>3. Tables' = {} /\ DOMAIN tasks' = {}  BY <2>2 DEF Tables
  <2>4. ExcludedSoFar'  BY <2>1, <2>3 DEF ExcludedSoFar, ExcludedBy, EndsOne, Vertices
  <2> QED  BY <1>0, <2>1, <2>4 DEF ExclusionInv
<1>3. CASE CopyTasks
  <2>1. phase = "resolve" /\ phase' = "resolve"  BY <1>3 DEF CopyTasks
  <2>2. Resolving /\ Wiring /\ ExcludedSoFar /\ DOMAIN tasks' \subseteq Vertices'
      BY <2>1 DEF ResolveInv, PrebuildInv, ExclusionInv, HasRoom
  <2>3. ExcludedSoFar'  BY <1>3, <2>2, CopyTasksExcluded
  <2> QED  BY <1>0, <2>1, <2>3 DEF ExclusionInv
<1>4. CASE ResolveSubGraph
  <2>1. phase = "resolve" /\ phase' = "resolve"  BY <1>4 DEF ResolveSubGraph
  <2>2. Resolving /\ Wiring /\ ExcludedSoFar /\ DOMAIN tasks' \subseteq Vertices'
      BY <2>1 DEF ResolveInv, PrebuildInv, ExclusionInv, HasRoom
  <2>3. ExcludedSoFar'  BY <1>4, <2>2, ResolveSubGraphExcluded
  <2> QED  BY <1>0, <2>1, <2>3 DEF ExclusionInv
<1>5. CASE ReturnFromGraph
  <2>1. /\ phase = "resolve" /\ phase' = IF Len(calls) = 1 THEN "validate" ELSE "resolve"
        /\ UNCHANGED <<taskData, stated, tasks, subGraphData, exclusionGraph>> /\ Vertices' = Vertices
      BY <1>5 DEF ReturnFromGraph, userVars, Vertices
  <2>2. Resolving /\ Wiring /\ ExcludedSoFar  BY <2>1 DEF ResolveInv, PrebuildInv, ExclusionInv
  <2>3. CASE Len(calls) = 1
    <3>1. ExcludedAsStated'  BY <1>5, <2>1, <2>2, <2>3, LastReturnExcluded, ExcludedAsStatedStays
    <3> QED  BY <1>0, <2>1, <2>3, <3>1 DEF ExclusionInv
  <2>4. CASE Len(calls) # 1
    <3>1. ExcludedSoFar'  BY <2>1, <2>2, ExcludedStays
    <3> QED  BY <1>0, <2>1, <2>4, <3>1 DEF ExclusionInv
  <2> QED  BY <2>3, <2>4
<1>6. CASE ValidateTask
  <2>1. /\ phase = "validate" /\ phase' = "validate"
        /\ UNCHANGED <<taskData, stated, tasks, exclusionGraph>> /\ Vertices' = Vertices
      BY <1>6 DEF ValidateTask, userVars, Vertices
  <2>2. ExcludedAsStated'  BY <2>1, ExcludedAsStatedStays DEF ExclusionInv
  <2> QED  BY <1>0, <2>1, <2>2 DEF ExclusionInv
<1>7. CASE Validated
  <2>1. phase = "validate" /\ phase' \in {"normalize", "refused"}  BY <1>7 DEF Validated
  <2>2. Laid /\ ExcludedAsStated  BY <2>1 DEF PrebuildInv, AllWired, ExclusionInv
  <2>3. phase' = "normalize" => \E ahead : Normalizing(ahead)' /\ ExclusionLeft(ahead)'
    <3> SUFFICES ASSUME phase' = "normalize"
                 PROVE  \E ahead : Normalizing(ahead)' /\ ExclusionLeft(ahead)'
        OBVIOUS
    <3>1. PICK ahead : Normalizing(ahead)'
        BY <1>7, <2>1, NormalizationStarts DEF NormalInv, PrebuildInv
    <3>2. ExclusionLeft(ahead)'  BY <1>7, <2>2, ExclusionStarts
    <3> QED  BY <3>1, <3>2
  <2> QED  BY <1>0, <2>1, <2>3 DEF ExclusionInv
<1>8. CASE NormalizeLevel
  <2>1. phase = "normalize" /\ phase' = "normalize"  BY <1>8 DEF NormalizeLevel
  <2>2. Laid /\ \E ahead : Normalizing(ahead) /\ ExclusionLeft(ahead)  BY <2>1 DEF NormalInv, ExclusionInv
  <2>3. PICK ahead : Normalizing(ahead) /\ ExclusionLeft(ahead)  BY <2>2
  <2>4. Normalizing(ahead)' /\ ExclusionLeft(ahead)'
      BY <1>8, <2>2, <2>3, NormalizeLevelKeeps, NormalizeLevelLeaves
  <2> QED  BY <1>0, <2>1, <2>4 DEF ExclusionInv
<1>9. CASE NormalizeEdges
  <2>1. phase = "normalize" /\ phase' = IF base + 1 \in Vertices THEN "normalize" ELSE "prebuilt"
      BY <1>9 DEF NormalizeEdges
  <2>2. Laid /\ \E ahead : Normalizing(ahead) /\ ExclusionLeft(ahead)  BY <2>1 DEF NormalInv, ExclusionInv
  <2>3. PICK ahead : Normalizing(ahead) /\ ExclusionLeft(ahead)  BY <2>2
  <2>4. CASE base + 1 \in Vertices
    <3>1. Normalizing(ahead)' /\ ExclusionLeft(ahead)'
        BY <1>9, <2>2, <2>3, <2>4, NormalizeEdgesKeeps, NormalizeEdgesLeaves
    <3> QED  BY <1>0, <2>1, <2>4, <3>1 DEF ExclusionInv
  <2>5. CASE base + 1 \notin Vertices
    <3>1. ExclusionStated'  BY <1>9, <2>2, <2>3, <2>5, ExclusionEnds
    <3> QED  BY <2>1, <2>5, <3>1 DEF ExclusionInv
  <2> QED  BY <2>4, <2>5
<1> QED  BY <1>1, <1>2, <1>3, <1>4, <1>5, <1>6, <1>7, <1>8, <1>9 DEF PrebuildNext, PrebuildStep

LEMMA ExclusionStays ==
    ASSUME NormalInv, ExclusionInv,
           \/ UNCHANGED <<phase, userVars, tasks, taskGraph, exclusionGraph, subGraphData, levelVars>>
           \/ MergeStep
    PROVE  ExclusionInv'
<1>1. CASE UNCHANGED <<phase, userVars, tasks, taskGraph, exclusionGraph, subGraphData, levelVars>>
  <2>1. /\ UNCHANGED <<taskData, stated, base, label>> /\ Vertices' = Vertices
        /\ UNCHANGED <<phase, tasks, exclusionGraph, subGraphData>>
      BY <1>1 DEF userVars, levelVars, Vertices
  <2>2. phase = "normalize" => \E ahead : Normalizing(ahead)' /\ ExclusionLeft(ahead)'
    <3> SUFFICES ASSUME phase = "normalize"
                 PROVE  \E ahead : Normalizing(ahead)' /\ ExclusionLeft(ahead)'
        OBVIOUS
    <3>1. PICK ahead : Normalizing(ahead) /\ ExclusionLeft(ahead)  BY DEF ExclusionInv
    <3>2. Laid  BY DEF NormalInv
    <3>3. Normalizing(ahead)'  BY <1>1, <2>1, <3>1, <3>2, NormalizationStutters
    <3>4. ExclusionLeft(ahead)'  BY <2>1, <3>1, ExclusionLeftStays
    <3> QED  BY <3>3, <3>4
  <2>3. phase = "resolve" => ExcludedSoFar'  BY <2>1, ExcludedStays DEF ExclusionInv
  <2>4. phase = "validate" => ExcludedAsStated'  BY <2>1, ExcludedAsStatedStays DEF ExclusionInv
  <2>5. phase \in AfterPrebuild => ExclusionStated'  BY <2>1, ExclusionStatedStays DEF ExclusionInv
  <2> QED  BY <2>1, <2>2, <2>3, <2>4, <2>5 DEF ExclusionInv
<1>2. CASE MergeStep
  <2>1. UNCHANGED <<taskData, stated, tasks, exclusionGraph>> /\ Vertices' = Vertices
      BY <1>2, MergeStepReads DEF userVars, prebuiltVars, Vertices
  <2>2. phase \in AfterPrebuild /\ phase' \in AfterPrebuild  BY <1>2, MergeStepMade
  <2>3. ExclusionStated'  BY <2>1, <2>2, ExclusionStatedStays DEF ExclusionInv
  <2>4. phase' \notin {"resolve", "validate", "normalize"}  BY <2>2 DEF AfterPrebuild
  <2> QED  BY <2>3, <2>4 DEF ExclusionInv
<1> QED  BY <1>1, <1>2

\* What was stated of the usages, through all phases.
LEMMA ExclusionInvHolds == Spec => []ExclusionInv
<1>1. ResolveInv /\ Nested /\ [Next]_vars => ResolveInv'  BY ResolveIsKept
<1>2. PrebuildInit => ResolveInv /\ PrebuildInv /\ ExclusionInv
  BY DEF PrebuildInit, ResolveInv, SubGraphsResolved, PrebuildInv, ExclusionInv, AfterPrebuild
<1>3. Nested /\ OrderAsStated /\ ResolveInv /\ PrebuildInv /\ [Next]_vars => PrebuildInv'  BY PrebuildIsKept
<1>4. Nested /\ ResolveInv => HasRoom  BY TasksFit DEF ResolveInv, HasRoom
<1>5. Nested /\ UsageAsStated /\ UsagesAreOfTasks /\ ResolveInv /\ PrebuildInv /\ NormalInv
        /\ ExclusionMutual /\ ExclusionInv /\ HasRoom' /\ [Next]_vars => ExclusionInv'
  <2> SUFFICES ASSUME Nested, UsageAsStated, UsagesAreOfTasks, ResolveInv, PrebuildInv, NormalInv,
                      ExclusionMutual, ExclusionInv, HasRoom', [Next]_vars
               PROVE  ExclusionInv'
      OBVIOUS
  <2>1. CASE PrebuildNext  BY <2>1, ExclusionInvKept
  <2>2. CASE MergeStep  BY <2>2, ExclusionStays
  <2>3. CASE UNCHANGED vars
    <3>1. UNCHANGED <<phase, userVars, tasks, taskGraph, exclusionGraph, subGraphData, levelVars>>
        BY <2>3 DEF vars, prebuildVars, prebuiltVars
    <3> QED  BY <3>1, ExclusionStays
  <2> QED  BY <2>1, <2>2, <2>3 DEF Next
<1> QED
  BY <1>1, <1>2, <1>3, <1>4, <1>5, GraphsAreNested, CompilerReadsOrder, CompilerReadsUsage, UsagesHoldTasks,
     NormalInvHolds, ExclusionIsMutual, PTL DEF Spec

\* Whatever the graphs and their nesting: in the prebuilt graph two tasks of one graph
\* exclude each other exactly if what was said of their resources rules out that they
\* run in parallel and no path orders them.  Each search clears the pairs that it finds
\* ordered from its base (454-455), and between them the searches find all.
THEOREM ExclusionIsKeptAsStated == Spec => []ExclusionIsStated
<1>1. ExclusionInv => ExclusionIsStated
  BY DEF ExclusionInv, ExclusionStated, ExclusionIsStated, AfterPrebuild
<1> QED  BY <1>1, ExclusionInvHolds, PTL

==============================================================================
