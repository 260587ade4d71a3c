---------------------------- MODULE ObjectGraph ----------------------------
(***************************************************************************)
(* Model.BoundingBox (core.go): one goroutine per build item walks the     *)
(* objects that the item refers to, through their components, and extends  *)
(* one shared box under a mutex.  Objects live in the root model part and  *)
(* in child model parts; a reference names a part or leaves it out.        *)
(*                                                                         *)
(* A box is the set of the extents it encloses: those of meshes, by the    *)
(* place of their object, and two degenerate ones.  Where a transform puts *)
(* a mesh is left out.                                                     *)
(***************************************************************************)
EXTENDS Integers, Sequences, FiniteSets

CONSTANTS
  RootPath,  \* PathOrDefault of the model
  Childs,    \* the paths of the child model parts
  IDs,       \* the IDs of objects
  MaxItems,  \* bound on the build items
  Models     \* the models whose box is taken

Parts == {RootPath} \cup Childs
Paths == Parts \cup {""}

Reference == [path : Paths, id : IDs, transform : BOOLEAN]

(* compound: the object has Components, which may be without any.          *)
Object   == [geometry : {"none", "noVertices", "mesh"}, compound : BOOLEAN, components : Seq(Reference)]
NoObject == [geometry |-> "absent", compound |-> FALSE, components |-> <<>>]

Model == [resources : [Parts -> [IDs -> Object \cup {NoObject}]],
          items     : UNION {[1..n -> Reference] : n \in 0..MaxItems}]

ASSUME ObjectGraphAssumption ==
  /\ RootPath # "" /\ "" \notin Childs /\ RootPath \notin Childs
  /\ IsFiniteSet(Childs) /\ IsFiniteSet(IDs)
  /\ MaxItems \in Nat
  /\ Models \subseteq Model

VARIABLES
  model,
  phase,  \* of the call: "running", "returned" or "overflow"
  pc,     \* of the goroutine of each item
  stack,  \* its calls of Object.boundingBox, the innermost first
  found,  \* ibox
  read,   \* the shared box as the goroutine read it under the mutex
  holder, \* the item whose goroutine holds the mutex, or 0
  box     \* the shared box

vars == <<model, phase, pc, stack, found, read, holder, box>>

-----------------------------------------------------------------------------
(* No part has the path "".                                                *)
Origin     == <<"", 0>>  \* what the zero Box encloses
Everything == <<"", 1>>  \* what a transformed limit box encloses
Extents    == (Parts \X IDs) \cup {Origin, Everything}

EmptyBox == {Origin}
LimitBox == {}

(* MulBox swaps the corners of a limit box, which then is all of space;    *)
(* without a transform it returns the box as it is.                        *)
MulBox(transform, b) == IF transform /\ b = LimitBox THEN {Everything} ELSE b

(* Item.ObjectPath and Component.ObjectPath.                               *)
ObjectPath(ref, default) == IF ref.path = "" THEN default ELSE ref.path

(* The part whose resources FindResources returns.                         *)
FindResources(path) == IF path = "" THEN RootPath ELSE path

FindObject(path, id) == model.resources[FindResources(path)][id]
IsFound(path, id)    == FindObject(path, id) # NoObject

Items == 1..Len(model.items)
Place(path, id) == <<FindResources(path), id>>

-----------------------------------------------------------------------------
(* What Validate says of the references of a model.                        *)
ItemValid(item) == IsFound(ObjectPath(item, ""), item.id)

ComponentValid(path, id, c) ==
  /\ IsFound(ObjectPath(c, path), c.id)
  /\ ~(c.id = id /\ ObjectPath(c, path) = path)  \* ErrRecursion

ObjectValid(path, id) ==
  LET o == FindObject(path, id)
  IN /\ o.compound = (o.geometry = "none")
     /\ \A k \in 1..Len(o.components) : ComponentValid(path, id, o.components[k])

Validate ==
  /\ \A p \in Parts, id \in IDs : IsFound(p, id) => ObjectValid(p, id)
  /\ \A i \in Items : ItemValid(model.items[i])

-----------------------------------------------------------------------------
Init ==
  /\ model \in Models
  /\ phase = IF model.items = <<>> THEN "returned" ELSE "running"
  /\ pc = [i \in Items |-> "find"]
  /\ stack = [i \in Items |-> <<>>]
  /\ found = [i \in Items |-> EmptyBox]
  /\ read = [i \in Items |-> LimitBox]
  /\ holder = 0
  /\ box = IF model.items = <<>> THEN EmptyBox ELSE LimitBox

Call(place) == [place |-> place, next |-> 1, box |-> LimitBox]

(* The object of an item is looked up; nothing is done when it is missing. *)
Find(i) ==
  LET item == model.items[i]
      path == ObjectPath(item, "")
  IN /\ pc[i] = "find"
     /\ IF IsFound(path, item.id)
        THEN /\ pc' = [pc EXCEPT ![i] = "visit"]
             /\ stack' = [stack EXCEPT ![i] = <<Call(Place(path, item.id))>>]
        ELSE /\ pc' = [pc EXCEPT ![i] = "done"]
             /\ UNCHANGED stack
     /\ UNCHANGED <<model, phase, found, read, holder, box>>

Top(i)       == Head(stack[i])
Visited(i)   == FindObject(Top(i).place[1], Top(i).place[2])
HasParts(o)  == o.geometry = "none" /\ o.components # <<>>
Component(i) == Visited(i).components[Top(i).next]

(* What an object without components that are visited returns.             *)
LeafBox(i) == IF Visited(i).geometry = "mesh" THEN {Top(i).place} ELSE EmptyBox

(* Mutant: the box of a component replaces that of those before it. *)
Extended_Replaced(call, transform, b) ==
  [place |-> call.place, next |-> call.next + 1,
   box |-> IF b = EmptyBox THEN call.box ELSE MulBox(transform, b)]

(* The loop of the caller goes on with the box of a component.             *)
Extended(call, transform, b) ==
  [place |-> call.place, next |-> call.next + 1,
   box |-> IF b = EmptyBox THEN call.box ELSE call.box \cup MulBox(transform, b)]

(* It goes on when a component is not found.                               *)
Skipped(call) == [place |-> call.place, next |-> call.next + 1, box |-> call.box]

(* boundingBox returns b to the loop of its caller, or to the goroutine.   *)
Return(i, b) ==
  LET callers == Tail(stack[i])
  IN IF callers = <<>>
     THEN /\ found' = [found EXCEPT ![i] = b]
          /\ pc' = [pc EXCEPT ![i] = IF b # EmptyBox THEN "lock" ELSE "done"]
          /\ stack' = [stack EXCEPT ![i] = <<>>]
     ELSE LET caller == Head(callers)
              c == FindObject(caller.place[1], caller.place[2]).components[caller.next]
          IN /\ stack' = [stack EXCEPT ![i] =
                            <<Extended(caller, c.transform, b)>> \o Tail(callers)]
             /\ UNCHANGED <<pc, found>>

VisitLeaf(i) ==
  /\ pc[i] = "visit"
  /\ ~HasParts(Visited(i))
  /\ Return(i, LeafBox(i))
  /\ UNCHANGED <<model, phase, read, holder, box>>

VisitEnd(i) ==
  /\ pc[i] = "visit"
  /\ HasParts(Visited(i))
  /\ Top(i).next > Len(Visited(i).components)
  /\ Return(i, Top(i).box)
  /\ UNCHANGED <<model, phase, read, holder, box>>

OnStack(i, place) == \E k \in 1..Len(stack[i]) : stack[i][k].place = place

(* The path that is passed on is "", whatever part the object is in.  A    *)
(* call depends on its object alone, so that one inside itself never       *)
(* returns: the goroutine runs out of stack and the program ends.          *)
VisitComponent(i) ==
  /\ pc[i] = "visit"
  /\ HasParts(Visited(i))
  /\ Top(i).next <= Len(Visited(i).components)
  /\ LET c     == Component(i)
         path  == ObjectPath(c, "")
         place == Place(path, c.id)
     IN \/ /\ ~IsFound(path, c.id)
           /\ stack' = [stack EXCEPT ![i] = <<Skipped(Top(i))>> \o Tail(@)]
           /\ UNCHANGED phase
        \/ /\ IsFound(path, c.id)
           /\ ~OnStack(i, place)
           /\ stack' = [stack EXCEPT ![i] = <<Call(place)>> \o @]
           /\ UNCHANGED phase
        \/ /\ IsFound(path, c.id)
           /\ OnStack(i, place)
           /\ phase' = "overflow"
           /\ UNCHANGED stack
  /\ UNCHANGED <<model, pc, found, read, holder, box>>

(* Mutant: the box is read without the mutex. *)
Lock_NoMutex(i) ==
  /\ pc[i] = "lock"
  /\ holder' = i
  /\ read' = [read EXCEPT ![i] = box]
  /\ pc' = [pc EXCEPT ![i] = "extend"]
  /\ UNCHANGED <<model, phase, stack, found, box>>

(* mu.Lock and the read of box.                                            *)
Lock(i) ==
  /\ pc[i] = "lock"
  /\ holder = 0
  /\ holder' = i
  /\ read' = [read EXCEPT ![i] = box]
  /\ pc' = [pc EXCEPT ![i] = "extend"]
  /\ UNCHANGED <<model, phase, stack, found, box>>

Placed(i) == MulBox(model.items[i].transform, found[i])

(* Mutant: the mutex is not released. *)
Extend_NoUnlock(i) ==
  /\ pc[i] = "extend"
  /\ box' = read[i] \cup Placed(i)
  /\ pc' = [pc EXCEPT ![i] = "done"]
  /\ UNCHANGED <<model, phase, stack, found, read, holder>>

(* The write of box and mu.Unlock.                                         *)
Extend(i) ==
  /\ pc[i] = "extend"
  /\ box' = read[i] \cup Placed(i)
  /\ holder' = 0
  /\ pc' = [pc EXCEPT ![i] = "done"]
  /\ UNCHANGED <<model, phase, stack, found, read>>

(* wg.Wait returns.                                                        *)
Wait ==
  /\ \A i \in Items : pc[i] = "done"
  /\ phase' = "returned"
  /\ UNCHANGED <<model, pc, stack, found, read, holder, box>>

Step(i) == Find(i) \/ VisitLeaf(i) \/ VisitEnd(i) \/ VisitComponent(i) \/ Lock(i) \/ Extend(i)

Next ==
  /\ phase = "running"
  /\ Wait \/ \E i \in Items : Step(i)

Fairness ==
  /\ \A i \in 1..MaxItems : WF_vars(phase = "running" /\ i \in Items /\ Step(i))
  /\ WF_vars(phase = "running" /\ Wait)

Spec == Init /\ [][Next]_vars /\ Fairness

-----------------------------------------------------------------------------
CallFrame == [place : Parts \X IDs, next : Nat \ {0}, box : SUBSET Extents]

TypeOK ==
  /\ model \in Model
  /\ phase \in {"running", "returned", "overflow"}
  /\ pc \in [Items -> {"find", "visit", "lock", "extend", "done"}]
  /\ stack \in [Items -> Seq(CallFrame)]
  /\ \A i \in Items : pc[i] = "visit" => stack[i] # <<>>
  /\ found \in [Items -> SUBSET Extents]
  /\ read \in [Items -> SUBSET Extents]
  /\ holder \in {0} \cup Items
  /\ box \in SUBSET Extents

(***************************************************************************)
(* The box that is returned is that of the boxes of all items, in whatever *)
(* order their goroutines took the mutex: no update is lost                *)
(* (core.go:251-253).                                                      *)
(***************************************************************************)
EveryItemCounts ==
  phase = "returned" /\ model.items # <<>> =>
    box = UNION {Placed(i) : i \in {j \in Items : found[j] # EmptyBox}}

-----------------------------------------------------------------------------
(* The references as Validate resolves them: a path that is left out is    *)
(* that of the object's own part.                                          *)
Refers(p, q) ==
  LET o == model.resources[p[1]][p[2]]
  IN /\ HasParts(o)
     /\ \E k \in 1..Len(o.components) :
          q = Place(ObjectPath(o.components[k], p[1]), o.components[k].id)
     /\ model.resources[q[1]][q[2]] # NoObject

Places == Parts \X IDs

(* The places that n references or fewer lead to from p.                   *)
Within(n, p) ==
  LET reach[k \in 0..n] ==
        IF k = 0 THEN {p} ELSE reach[k - 1] \cup {q \in Places : \E r \in reach[k - 1] : Refers(r, q)}
  IN reach[n]

Reach(p) == Within(Cardinality(Places), p)

Acyclic == \A p, q \in Places : Refers(p, q) => p \notin Reach(q)

MeshesOf(p) == {q \in Reach(p) : model.resources[q[1]][q[2]].geometry = "mesh"}

ItemPlaces == {Place(ObjectPath(model.items[i], ""), model.items[i].id) :
                 i \in {j \in Items : ItemValid(model.items[j])}}

BuiltMeshes == UNION {MeshesOf(p) : p \in ItemPlaces}

(* Components of objects in child parts name the part they refer to.       *)
PathsGiven ==
  \A p \in Childs, id \in IDs :
    LET o == model.resources[p][id]
    IN HasParts(o) => \A k \in 1..Len(o.components) : o.components[k].path # ""

(* No object is made of components that come to nothing.                   *)
PartsHaveMeshes ==
  \A p \in Places : HasParts(model.resources[p[1]][p[2]]) => MeshesOf(p) # {}

(***************************************************************************)
(* "BoundingBox returns the bounding box of the model" (core.go:235): for  *)
(* objects that do not contain themselves, that name the parts they refer  *)
(* to and that have meshes, the box encloses the meshes of the build, no   *)
(* more and no less.                                                       *)
(***************************************************************************)
RegularBoxIsExact ==
  phase = "returned" /\ model.items # <<>> /\ Acyclic /\ PathsGiven /\ PartsHaveMeshes =>
    box = BuiltMeshes

(***************************************************************************)
(* The call returns when no object contains itself: no goroutine waits for *)
(* the mutex for ever and none runs out of stack.                          *)
(***************************************************************************)
AcyclicBoxesReturn == Acyclic /\ PathsGiven ~> phase = "returned"

-----------------------------------------------------------------------------
(***************************************************************************)
(* The box of a model that Validate accepts and whose objects do not       *)
(* contain themselves encloses its meshes; the code looks up components    *)
(* without a path in the root part, whatever part they are in.             *)
(***************************************************************************)
BoxIsExact ==
  phase = "returned" /\ Validate /\ Acyclic /\ PartsHaveMeshes /\ model.items # <<>> =>
    box = BuiltMeshes

(***************************************************************************)
(* Objects "MUST NOT contain recursive references" (errors.go:36): a model *)
(* that Validate accepts has a box.  Validate sees only the components     *)
(* that refer to their own object, while BoundingBox never returns from    *)
(* objects that contain each other.                                        *)
(***************************************************************************)
ValidModelsHaveABox == Validate /\ PathsGiven => phase # "overflow"
=============================================================================
