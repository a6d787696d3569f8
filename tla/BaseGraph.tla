------------------------------ MODULE BaseGraph ------------------------------
(***************************************************************************)
(* BaseGraph (task_graph.h 73-140, task_graph_compile.cpp 67-149): a directed     *)
(* graph as a bit matrix in one vector of words.  Row v takes the wordCnt  *)
(* words from v * wordCnt on.  A word is the set of its bits.              *)
(*                                                                         *)
(* Growing the matrix in place is a loop over its rows; MoveRow is one     *)
(* round of it, so that a module that uses a graph can take the loop in    *)
(* steps.                                                                  *)
(***************************************************************************)
EXTENDS Integers

CONSTANT WordBits    \* 64 in the code

ASSUME WordBitsAssumption == WordBits \in Nat \ {0}

WordCnt(n) == (n + WordBits - 1) \div WordBits

EmptyGraph == [vertexCnt |-> 0, wordCnt |-> 0, connections |-> [i \in {} |-> {}]]

WordOf(g, v1, v2) == v1 * g.wordCnt + v2 \div WordBits
BitOf(v2)         == v2 % WordBits

IsConnected(g, v1, v2) == BitOf(v2) \in g.connections[WordOf(g, v1, v2)]

SetConnected(g, v1, v2, set) ==
    [g EXCEPT !.connections[WordOf(g, v1, v2)] = IF set THEN @ \cup {BitOf(v2)} ELSE @ \ {BitOf(v2)}]

\* The vertices that iterEdges visits: every bit of the row, whatever the vertex count.
Edges(g, v) == UNION {{w * WordBits + b : b \in g.connections[v * g.wordCnt + w]} :
                      w \in 0 .. g.wordCnt - 1}

(***************************************************************************)
(* resize.  Resized is std::vector::resize with zero for new words.        *)
(***************************************************************************)
Resized(words, cnt) == [i \in 0 .. cnt - 1 |-> IF i \in DOMAIN words THEN words[i] ELSE {}]

\* Mutant: what is new in a row keeps what stood there before.
MoveRowOnly(words, v, old, new) ==
    [i \in DOMAIN words |->
        IF i \in v * new .. v * new + old - 1 THEN words[v * old + (i - v * new)] ELSE words[i]]

\* memmove of the row to its new place, and memset of what is new in it.
MoveRow(words, v, old, new) ==
    [i \in DOMAIN words |->
        IF i \in v * new .. v * new + new - 1
        THEN IF i - v * new < old THEN words[v * old + (i - v * new)] ELSE {}
        ELSE words[i]]
==============================================================================
