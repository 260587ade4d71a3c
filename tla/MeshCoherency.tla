--------------------------- MODULE MeshCoherency ---------------------------
(***************************************************************************)
(* Mesh.ValidateCoherency (validate.go) with pairMatch (math.go): a first  *)
(* loop numbers the edges of the triangles without regard to direction, a  *)
(* second one counts the uses of each number in both directions, a third   *)
(* compares the counts.                                                    *)
(***************************************************************************)
EXTENDS Integers, Sequences, FiniteSets

CONSTANT Meshes  \* what to check: [vertices |-> how many, triangles |-> the list]

Triangles == Nat \X Nat \X Nat

ASSUME MeshesAssumption ==
  \A m \in Meshes : m.vertices \in Nat /\ m.triangles \in Seq(Triangles)

VARIABLES
  mesh,         \* the mesh that is checked
  phase,        \* "sizes", one of the three loops, or "done"
  e,            \* the next edge, or its number in the third loop
  pairMatching, \* [pair of vertices -> number]
  edgeCounter,
  positive,     \* the uses of each number by edges that ascend or stay
  negative,     \* and by those that descend
  coherent      \* what is returned: "none" as long as nothing is

coherencyVars ==
  <<mesh, phase, e, pairMatching, edgeCounter, positive, negative, coherent>>

CoherencyInit ==
  /\ mesh \in Meshes
  /\ phase = "sizes" /\ e = 1
  /\ pairMatching = <<>> /\ edgeCounter = 0
  /\ positive = <<>> /\ negative = <<>>
  /\ coherent = "none"

-----------------------------------------------------------------------------
(* The edges in the order of the nested loops, three for each face.        *)
Face(k)   == mesh.triangles[1 + ((k - 1) \div 3)]
Corner(k) == 1 + ((k - 1) % 3)
EdgeCount == 3 * Len(mesh.triangles)
Edge(k)   == <<Face(k)[Corner(k)], Face(k)[1 + (Corner(k) % 3)]>>

Reverse2(edge) == <<edge[2], edge[1]>>

newPairEntry(edge) == IF edge[1] < edge[2] THEN edge ELSE Reverse2(edge)

Ascends(edge) == edge[1] <= edge[2]

CheckSizes ==
  /\ phase = "sizes"
  /\ IF mesh.vertices < 3 \/ Len(mesh.triangles) <= 3
     THEN phase' = "done" /\ coherent' = "sizes"
     ELSE phase' = "match" /\ UNCHANGED coherent
  /\ UNCHANGED <<mesh, e, pairMatching, edgeCounter, positive, negative>>

Zeros == [n \in 0..(edgeCounter - 1) |-> 0]

(* CheckMatch and AddMatch.                                                *)
MatchEdge ==
  /\ phase = "match" /\ e <= EdgeCount
  /\ LET pair == newPairEntry(Edge(e))
     IN  IF pair \in DOMAIN pairMatching THEN UNCHANGED <<pairMatching, edgeCounter>>
         ELSE /\ pairMatching' = [p \in DOMAIN pairMatching \cup {pair} |->
                                    IF p = pair THEN edgeCounter ELSE pairMatching[p]]
              /\ edgeCounter' = edgeCounter + 1
  /\ e' = e + 1
  /\ UNCHANGED <<mesh, phase, positive, negative, coherent>>

StartCounting ==
  /\ phase = "match" /\ e > EdgeCount
  /\ phase' = "count" /\ e' = 1
  /\ positive' = Zeros /\ negative' = Zeros
  /\ UNCHANGED <<mesh, pairMatching, edgeCounter, coherent>>

Increment(counts, n) == [k \in DOMAIN counts |-> IF k = n THEN counts[k] + 1 ELSE counts[k]]

CountEdge ==
  /\ phase = "count" /\ e <= EdgeCount
  /\ LET n == pairMatching[newPairEntry(Edge(e))]
     IN  IF Ascends(Edge(e)) THEN positive' = Increment(positive, n) /\ UNCHANGED negative
         ELSE negative' = Increment(negative, n) /\ UNCHANGED positive
  /\ e' = e + 1
  /\ UNCHANGED <<mesh, phase, pairMatching, edgeCounter, coherent>>

StartComparing ==
  /\ phase = "count" /\ e > EdgeCount
  /\ phase' = "compare" /\ e' = 0
  /\ UNCHANGED <<mesh, pairMatching, edgeCounter, positive, negative, coherent>>

(* Mutant: an edge that is used twice one way and not the other passes. *)
Once_Sum(n) == positive[n] + negative[n] = 2

Once(n) == positive[n] = 1 /\ negative[n] = 1

Compare ==
  /\ phase = "compare"
  /\ IF e < edgeCounter /\ Once(e)
     THEN e' = e + 1 /\ UNCHANGED <<phase, coherent>>
     ELSE /\ phase' = "done" /\ coherent' = IF e < edgeCounter THEN "consistency" ELSE "nil"
          /\ UNCHANGED e
  /\ UNCHANGED <<mesh, pairMatching, edgeCounter, positive, negative>>

CoherencyNext ==
  CheckSizes \/ MatchEdge \/ StartCounting \/ CountEdge \/ StartComparing \/ Compare

CoherencySpec == CoherencyInit /\ [][CoherencyNext]_coherencyVars

-----------------------------------------------------------------------------
(***************************************************************************)
(* "ValidateCoherency checks that the mesh is non-empty, manifold and      *)
(* oriented" (validate.go): a mesh is found coherent exactly when every    *)
(* edge of a triangle is used once, and is used once in the other          *)
(* direction, by another triangle or not.  Whatever triangles repeat, fold *)
(* or have no area, the numbers do not mix up two edges, and the counts    *)
(* do not make up for each other.                                          *)
(***************************************************************************)
Closed ==
  \A k \in 1..EdgeCount :
    /\ \A j \in 1..EdgeCount : Edge(j) = Edge(k) => j = k
    /\ \E j \in 1..EdgeCount : Edge(j) = Reverse2(Edge(k)) /\ j # k

NilMeansClosed ==
  coherent \in {"nil", "consistency"} => (coherent = "nil" <=> Closed)
=============================================================================
