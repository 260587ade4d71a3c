---------------------------- MODULE MeshBuilding ---------------------------
(***************************************************************************)
(* The STL importer (importer/stl) with the MeshBuilder and UnusedID       *)
(* (core.go): a file of triangles becomes a mesh with shared vertices, and *)
(* the mesh an object of the model with an ID of its own.  Several files   *)
(* may be imported into one model, and each call may be cancelled.         *)
(***************************************************************************)
EXTENDS Integers, Sequences, SequencesExt

CONSTANTS
  Files,            \* [ascii, faces: triples of points, rest: points of a
                    \*  triangle that is cut (ASCII), fails: the last read does]
  Cell,             \* [point -> its coordinates in microns] (newvec3IFromVec3)
  InitialIDs,       \* the IDs of the resources before the first import
  checkEveryFaces,
  MaxImports        \* bound on the calls of Decode

ASSUME BuildingAssumption ==
  /\ \A f \in Files : /\ f.faces \in Seq([1..3 -> DOMAIN Cell])
                      /\ f.rest \in Seq(DOMAIN Cell)
                      /\ {f.ascii, f.fails} \subseteq BOOLEAN
                      /\ f.ascii \/ f.faces # <<>> \/ ~f.fails  \* the header has been peeked
  /\ InitialIDs \subseteq Seq(Nat)
  /\ checkEveryFaces \in Nat /\ MaxImports \in Nat

VARIABLES
  stl,       \* the file that is imported
  mb,        \* the MeshBuilder: vertices, triangles, and the tree, which maps
             \* a cell to the index (from 1) of its vertex
  faceCheck, \* nextFaceCheck
  canceled,  \* the context is
  decodeErr, \* err in decode: "nil", "read" or "canceled"
  returned,  \* DecodeContext has returned decodeErr
  ids,       \* the IDs of the resources of the model
  added,     \* the objects added to it: [id, mesh], each with an item of its ID
  imports    \* history: the number of calls

buildVars == <<stl, mb, faceCheck, canceled, decodeErr, returned, ids, added, imports>>

NewMeshBuilder == [vertices |-> <<>>, tree |-> [cell \in {} |-> 0], triangles |-> <<>>]

Opened(f) ==
  /\ stl' = f /\ mb' = NewMeshBuilder /\ faceCheck' = checkEveryFaces
  /\ canceled' = FALSE /\ decodeErr' = "nil" /\ returned' = FALSE

BuildInit ==
  /\ stl \in Files /\ mb = NewMeshBuilder /\ faceCheck = checkEveryFaces
  /\ canceled = FALSE /\ decodeErr = "nil" /\ returned = FALSE
  /\ ids \in InitialIDs
  /\ added = <<>>
  /\ imports = 1

Import ==
  /\ returned /\ imports < MaxImports
  /\ \E f \in Files : Opened(f)
  /\ imports' = imports + 1
  /\ UNCHANGED <<ids, added>>

Cancel ==
  /\ ~returned /\ ~canceled
  /\ canceled' = TRUE
  /\ UNCHANGED <<stl, mb, faceCheck, decodeErr, returned, ids, added, imports>>

-----------------------------------------------------------------------------
(* vectorTree: the index at a cell is replaced.                            *)
AddVector(tree, cell, index) == [c \in DOMAIN tree \cup {cell} |-> IF c = cell THEN index ELSE tree[c]]

(* Mutant: the vertex is added whether it is found or not. *)
AddVertex_Twice(b, point) ==
  [b EXCEPT !.vertices = Append(@, point),
            !.tree = IF Cell[point] \in DOMAIN @ THEN @ ELSE AddVector(@, Cell[point], Len(b.vertices) + 1)]

(* AddVertex, with CalculateConnectivity.                                  *)
AddVertex(b, point) ==
  IF Cell[point] \in DOMAIN b.tree THEN b
  ELSE [b EXCEPT !.vertices = Append(@, point),
                 !.tree = AddVector(@, Cell[point], Len(b.vertices) + 1)]

(* The vertices of a triangle that is cut.                                 *)
AddVertices(b, points) ==
  LET after[k \in 0..Len(points)] == IF k = 0 THEN b ELSE AddVertex(after[k - 1], points[k])
  IN  after[Len(points)]

(* decodeFace: three vertices, and the triangle of the indices returned.   *)
AddFace(b, face) ==
  LET added3 == AddVertex(AddVertex(AddVertex(b, face[1]), face[2]), face[3])
  IN  [added3 EXCEPT !.triangles = Append(@, [k \in 1..3 |-> added3.tree[Cell[face[k]]]])]

FaceRead == Len(mb.triangles) + 1

(* decode is in its loop: ASCII files leave it at any error, the others    *)
(* when a read fails only.                                                 *)
Looping == IF stl.ascii THEN decodeErr = "nil" ELSE decodeErr # "read"

(* The loop reads a face, and polls the context after some of them.  The   *)
(* error of a binary file is that of this read.                            *)
ReadFace ==
  /\ ~returned /\ Looping
  /\ FaceRead <= Len(stl.faces)
  /\ IF ~stl.ascii /\ stl.fails /\ FaceRead = Len(stl.faces)
     THEN decodeErr' = "read" /\ UNCHANGED <<mb, faceCheck>>
     ELSE /\ mb' = AddFace(mb, stl.faces[FaceRead])
          /\ IF FaceRead > faceCheck
             THEN /\ faceCheck' = faceCheck + checkEveryFaces
                  /\ decodeErr' = IF canceled THEN "canceled" ELSE "nil"
             ELSE decodeErr' = "nil" /\ UNCHANGED faceCheck
  /\ UNCHANGED <<stl, canceled, returned, ids, added, imports>>

-----------------------------------------------------------------------------
(* sort.Ints, one number after the other.                                  *)
Insert(sorted, id) ==
  [k \in 1..(Len(sorted) + 1) |->
     IF k <= Len(sorted) /\ sorted[k] <= id THEN sorted[k]
     ELSE IF k = 1 \/ sorted[k - 1] <= id THEN id ELSE sorted[k - 1]]

Sorted(list) ==
  LET upTo[k \in 0..Len(list)] == IF k = 0 THEN <<>> ELSE Insert(upTo[k - 1], list[k])
  IN  upTo[Len(list)]

(* The first position whose number is another, or the next number.         *)
FirstGap(sorted) ==
  LET off == {k \in DOMAIN sorted : sorted[k] # k - 1}
  IN  IF off = {} THEN Last(sorted) + 1 ELSE (CHOOSE k \in off : \A j \in off : k <= j) - 1

(* Mutant: no 0 before the IDs. *)
UnusedID_NoZero(used) == IF used = <<>> THEN 1 ELSE FirstGap(Sorted(used))

(* UnusedID: the list is sorted with 0 before it.                          *)
UnusedID(used) == IF used = <<>> THEN 1 ELSE FirstGap(Sorted(<<0>> \o used))

(* decode returns, and the mesh is added unless there was an error.        *)
Finish ==
  /\ ~returned
  /\ Looping => FaceRead > Len(stl.faces)
  /\ LET err  == IF stl.ascii /\ decodeErr = "nil" /\ stl.fails THEN "read" ELSE decodeErr
         mesh == AddVertices(mb, stl.rest)
         id   == UnusedID(ids)
     IN  /\ decodeErr' = err
         /\ IF err = "nil"
            THEN /\ ids' = Append(ids, id)
                 /\ added' = Append(added, [id |-> id, mesh |-> mesh])
            ELSE UNCHANGED <<ids, added>>
  /\ returned' = TRUE
  /\ UNCHANGED <<stl, mb, faceCheck, canceled, imports>>

BuildNext == Import \/ Cancel \/ ReadFace \/ Finish

BuildSpec == BuildInit /\ [][BuildNext]_buildVars

-----------------------------------------------------------------------------
(***************************************************************************)
(* A file that is imported without an error is there as a whole, and one   *)
(* with an error is not there at all, whatever was cancelled or failed at  *)
(* whichever face: the corners of each triangle are where they were read,  *)
(* up to a micron, and no two vertices are in one place.                   *)
(***************************************************************************)
Meets(mesh, file) ==
  /\ Len(mesh.triangles) = Len(file.faces)
  /\ \A t \in DOMAIN file.faces : \A k \in 1..3 :
       Cell[mesh.vertices[mesh.triangles[t][k]]] = Cell[file.faces[t][k]]
  /\ \A v, w \in DOMAIN mesh.vertices :
       Cell[mesh.vertices[v]] = Cell[mesh.vertices[w]] => v = w

ImportedWholeOrNot ==
  [][ /\ ~returned /\ returned' /\ decodeErr' = "nil" =>
           /\ Len(added') = Len(added) + 1 /\ Meets(Last(added').mesh, stl)
           /\ ~stl.fails
      /\ ~returned /\ returned' /\ decodeErr' # "nil" => UNCHANGED <<ids, added>>
      /\ ~returned /\ returned' /\ decodeErr' = "canceled" => canceled ]_buildVars

(***************************************************************************)
(* "UnusedID returns the lowest unused ID" (core.go): in a model whose     *)
(* resources have IDs, no two the same, every import gets the lowest ID    *)
(* that is free, also after others.                                        *)
(***************************************************************************)
Distinct(s) == \A j, k \in DOMAIN s : s[j] = s[k] => j = k
Unused == {n \in 1..(Len(ids) + 1) : n \notin Range(ids)}

IDsAreFresh ==
  [][ Len(added') > Len(added) /\ Distinct(ids) /\ 0 \notin Range(ids) =>
        Last(added').id \in Unused /\ \A n \in Unused : Last(added').id <= n ]_buildVars
=============================================================================
