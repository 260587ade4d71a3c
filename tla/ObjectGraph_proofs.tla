------------------------- MODULE ObjectGraph_proofs ------------------------
(* Proofs about ObjectGraph and SliceTransforms, for any models and any    *)
(* number of items.                                                        *)
EXTENDS SliceTransforms, Recursion_proofs, FiniteSetTheorems, TLAPS

(* The items whose box the goroutines have put into the shared one.        *)
Merged == {j \in Items : pc[j] = "done" /\ found[j] # EmptyBox}

BoxOfMerged == model.items # <<>> => box = UNION {Placed(j) : j \in Merged}

MutexHeld == \A i \in Items : (pc[i] = "extend" <=> holder = i) /\ (pc[i] = "extend" => read[i] = box)

FoundAtEnd ==
  /\ \A i \in Items : pc[i] \in {"find", "visit"} => found[i] = EmptyBox
  /\ \A i \in Items : pc[i] \in {"lock", "extend"} => found[i] # EmptyBox

AllDone == phase = "returned" => \A i \in Items : pc[i] = "done"

Inv == TypeOK /\ BoxOfMerged /\ MutexHeld /\ FoundAtEnd /\ AllDone

-----------------------------------------------------------------------------
LEMMA ItemsTyped ==
  ASSUME model \in Model
  PROVE  /\ \E n \in Nat : Items = 1..n /\ (model.items = <<>> <=> n = 0)
         /\ \A i \in Items : model.items[i] \in Reference
<1>. DEFINE items == model.items
<1>0. items \in UNION {[1..n -> Reference] : n \in 0..MaxItems}
  BY DEF Model
<1>. HIDE DEF items
<1>1. PICK n \in 0..MaxItems : items \in [1..n -> Reference]
  BY <1>0
<1>2. n \in Nat
  <2>1. MaxItems \in Nat
    BY ObjectGraphAssumption
  <2>. QED  BY <2>1
<1>3. items \in Seq(Reference) /\ Len(items) = n
  BY <1>1, <1>2
<1>4. Items = 1..n
  BY <1>3 DEF Items, items
<1>5. items = <<>> <=> n = 0
  BY <1>2, <1>3
<1>. QED  BY <1>1, <1>2, <1>4, <1>5 DEF items

LEMMA PlaceTyped ==
  ASSUME NEW r \in Reference
  PROVE  Place(ObjectPath(r, ""), r.id) \in Parts \X IDs
<1>1. r.path \in Paths /\ r.id \in IDs
  BY DEF Reference
<1>2. FindResources(ObjectPath(r, "")) \in Parts
  BY <1>1 DEF FindResources, ObjectPath, Paths, Parts
<1>. QED  BY <1>1, <1>2 DEF Place

LEMMA ObjectTyped ==
  ASSUME model \in Model, NEW p \in Parts \X IDs
  PROVE  FindObject(p[1], p[2]).components \in Seq(Reference)
<1>1. p[1] \in Parts /\ p[2] \in IDs
  OBVIOUS
<1>2. FindResources(p[1]) = p[1]
  BY <1>1, ObjectGraphAssumption DEF FindResources, Parts
<1>3. model.resources \in [Parts -> [IDs -> Object \cup {NoObject}]]
  BY DEF Model
<1>5. model.resources[p[1]][p[2]] \in Object \cup {NoObject}
  BY <1>1, <1>3
<1>4. \A o \in Object \cup {NoObject} : o.components \in Seq(Reference)
  <2>1. \A o \in Object : o.components \in Seq(Reference)
    BY DEF Object
  <2>2. NoObject.components \in Seq(Reference)
    BY DEF NoObject
  <2>. QED  BY <2>1, <2>2
<1>. QED  BY <1>2, <1>4, <1>5 DEF FindObject

LEMMA CallTyped == ASSUME NEW p \in Parts \X IDs PROVE Call(p) \in CallFrame
  BY DEF Call, CallFrame, LimitBox

LEMMA BoxTyped ==
  /\ EmptyBox \in SUBSET Extents
  /\ \A t, b : b \in SUBSET Extents => MulBox(t, b) \in SUBSET Extents
  BY DEF EmptyBox, Extents, MulBox

LEMMA ExtendedTyped ==
  ASSUME NEW c \in CallFrame, NEW t, NEW b \in SUBSET Extents
  PROVE  Extended(c, t, b) \in CallFrame
<1>. DEFINE new == IF b = EmptyBox THEN c.box ELSE c.box \cup MulBox(t, b)
<1>1. c.place \in Parts \X IDs /\ c.next + 1 \in Nat \ {0} /\ c.box \in SUBSET Extents
  BY DEF CallFrame
<1>2. MulBox(t, b) \in SUBSET Extents
  BY BoxTyped
<1>3. new \in SUBSET Extents
  BY <1>1, <1>2
<1>4. Extended(c, t, b) = [place |-> c.place, next |-> c.next + 1, box |-> new]
  BY DEF Extended
<1>. HIDE DEF new
<1>. QED  BY <1>1, <1>3, <1>4 DEF CallFrame

-----------------------------------------------------------------------------
LEMMA InvInit == Init => Inv
<1>. SUFFICES ASSUME Init PROVE Inv
  OBVIOUS
<1>1. model \in Model
  BY ObjectGraphAssumption DEF Init
<1>2. PICK n \in Nat : Items = 1..n /\ (model.items = <<>> <=> n = 0)
  BY <1>1, ItemsTyped
<1>3. TypeOK
  <2>1. EmptyBox \in SUBSET Extents /\ LimitBox \in SUBSET Extents
    BY BoxTyped DEF LimitBox
  <2>2. box \in SUBSET Extents
    BY <2>1 DEF Init
  <2>3. <<>> \in Seq(CallFrame)
    OBVIOUS
  <2>4. /\ stack \in [Items -> Seq(CallFrame)]
        /\ found \in [Items -> SUBSET Extents]
        /\ read \in [Items -> SUBSET Extents]
    BY <2>1, <2>3 DEF Init
  <2>5. /\ pc \in [Items -> {"find", "visit", "lock", "extend", "done"}]
        /\ \A i \in Items : pc[i] = "visit" => stack[i] # <<>>
        /\ holder \in {0} \cup Items
        /\ phase \in {"running", "returned", "overflow"}
    BY DEF Init
  <2>. QED  BY <1>1, <2>2, <2>4, <2>5 DEF TypeOK
<1>4. BoxOfMerged
  <2>1. Merged = {}
    BY DEF Merged, Init
  <2>2. model.items # <<>> => box = {}
    BY DEF Init, LimitBox
  <2>. QED  BY <2>1, <2>2 DEF BoxOfMerged
<1>5. MutexHeld
  <2>1. 0 \notin Items
    BY <1>2
  <2>. QED  BY <2>1 DEF MutexHeld, Init
<1>6. FoundAtEnd
  BY DEF FoundAtEnd, Init
<1>7. AllDone
  BY <1>2 DEF AllDone, Init
<1>. QED  BY <1>3, <1>4, <1>5, <1>6, <1>7 DEF Inv

(* A step of one goroutine that puts no box into the shared one.           *)
LEMMA WalkKeeps ==
  ASSUME Inv, phase = "running", NEW i \in Items,
         UNCHANGED <<model, read, holder, box>>, phase' \in {"running", "overflow"},
         pc[i] \in {"find", "visit"}, TypeOK',
         \A j \in Items \ {i} : pc'[j] = pc[j] /\ found'[j] = found[j],
         \/ pc'[i] \in {"find", "visit"} /\ found'[i] = EmptyBox
         \/ pc'[i] = "lock" /\ found'[i] # EmptyBox
         \/ pc'[i] = "done" /\ found'[i] = EmptyBox
  PROVE  Inv'
<1>1. Items' = Items
  BY DEF Items
<1>2. Merged' = Merged
  BY <1>1 DEF Merged, EmptyBox
<1>3. \A j \in Merged : Placed(j)' = Placed(j)
  BY DEF Merged, Placed, MulBox, LimitBox, EmptyBox
<1>4. BoxOfMerged'
  BY <1>2, <1>3 DEF Inv, BoxOfMerged
<1>5. MutexHeld'
  BY <1>1 DEF Inv, MutexHeld
<1>6. FoundAtEnd'
  BY <1>1 DEF Inv, FoundAtEnd, EmptyBox
<1>7. AllDone'
  BY DEF AllDone
<1>. QED  BY <1>4, <1>5, <1>6, <1>7 DEF Inv

(* The goroutine of an item walks: each step is one of WalkKeeps.          *)
LEMMA FindStep == Inv /\ phase = "running" /\ (\E i \in Items : Find(i)) => Inv'
<1>. SUFFICES ASSUME Inv, phase = "running", NEW i \in Items, Find(i) PROVE Inv'
  OBVIOUS
<1>1. /\ TypeOK /\ model \in Model /\ pc[i] = "find" /\ found[i] = EmptyBox
      /\ UNCHANGED <<model, phase, found, read, holder, box>>
  BY DEF Inv, TypeOK, FoundAtEnd, Find
<1>2. Items' = Items
  BY <1>1 DEF Items
<1>. DEFINE r == model.items[i]
            call == Call(Place(ObjectPath(r, ""), r.id))
<1>3. call \in CallFrame
  BY <1>1, ItemsTyped, PlaceTyped, CallTyped
<1>. HIDE DEF call
<1>4. \/ pc' = [pc EXCEPT ![i] = "visit"] /\ stack' = [stack EXCEPT ![i] = <<call>>]
      \/ pc' = [pc EXCEPT ![i] = "done"] /\ stack' = stack
  BY DEF Find, call
<1>5. <<call>> \in Seq(CallFrame) /\ <<call>> # <<>>
  BY <1>3
<1>6. TypeOK'
  <2>1. /\ pc' \in [Items -> {"find", "visit", "lock", "extend", "done"}]
        /\ stack' \in [Items -> Seq(CallFrame)]
    BY <1>1, <1>4, <1>5 DEF TypeOK
  <2>2. ASSUME NEW j \in Items, pc'[j] = "visit" PROVE stack'[j] # <<>>
    BY <1>1, <1>4, <1>5, <2>2 DEF TypeOK
  <2>. QED
    BY <1>1, <1>2, <2>1, <2>2 DEF TypeOK
<1>7. pc \in [Items -> {"find", "visit", "lock", "extend", "done"}]
  BY <1>1 DEF TypeOK
<1>8. \A j \in Items \ {i} : pc'[j] = pc[j] /\ found'[j] = found[j]
  BY ONLY <1>1, <1>4, <1>7
<1>9. pc'[i] \in {"visit", "done"} /\ found'[i] = EmptyBox
  BY ONLY <1>1, <1>4, <1>7, i \in Items
<1>. QED  BY <1>1, <1>6, <1>8, <1>9, WalkKeeps

(* boundingBox returns a box.                                              *)
LEMMA ReturnKeeps ==
  ASSUME Inv, phase = "running", NEW i \in Items, pc[i] = "visit",
         NEW b \in SUBSET Extents, Return(i, b), UNCHANGED <<model, phase, read, holder, box>>
  PROVE  Inv'
<1>1. /\ TypeOK /\ found[i] = EmptyBox /\ stack[i] \in Seq(CallFrame) /\ stack[i] # <<>>
  BY DEF Inv, TypeOK, FoundAtEnd
<1>2. Items' = Items
  BY DEF Items
<1>. DEFINE callers == Tail(stack[i])
<1>3. callers \in Seq(CallFrame)
  BY <1>1
<1>. HIDE DEF callers
<1>4. CASE callers = <<>>
  <2>1. /\ found' = [found EXCEPT ![i] = b]
        /\ pc' = [pc EXCEPT ![i] = IF b # EmptyBox THEN "lock" ELSE "done"]
        /\ stack' = [stack EXCEPT ![i] = <<>>]
    BY ONLY Zenon, Return(i, b), <1>4 DEF Return, callers
  <2>2. <<>> \in Seq(CallFrame)
    OBVIOUS
  <2>3. /\ \/ pc'[i] = "lock" /\ found'[i] # EmptyBox
           \/ pc'[i] = "done" /\ found'[i] = EmptyBox
        /\ \A j \in Items \ {i} : pc'[j] = pc[j] /\ found'[j] = found[j] /\ stack'[j] = stack[j]
    BY <1>1, <2>1 DEF TypeOK
  <2>4. TypeOK'
    BY <1>1, <1>2, <2>1, <2>2, <2>3 DEF TypeOK
  <2>. QED  BY <2>3, <2>4, WalkKeeps
<1>5. CASE callers # <<>>
  <2>. DEFINE caller == Head(callers)
              c == FindObject(caller.place[1], caller.place[2]).components[caller.next]
              rest == <<Extended(caller, c.transform, b)>> \o Tail(callers)
  <2>1. stack' = [stack EXCEPT ![i] = rest] /\ UNCHANGED <<pc, found>>
    BY ONLY Zenon, Return(i, b), <1>5 DEF Return, callers
  <2>2. caller \in CallFrame /\ Tail(callers) \in Seq(CallFrame)
    BY <1>3, <1>5
  <2>3. Extended(caller, c.transform, b) \in CallFrame
    BY <2>2, ExtendedTyped
  <2>4. rest \in Seq(CallFrame) /\ rest # <<>>
    <3>. DEFINE t == Tail(callers)
                e == Extended(caller, c.transform, b)
    <3>. HIDE DEF t, e
    <3>1. <<e>> \o t \in Seq(CallFrame) /\ Len(<<e>> \o t) = 1 + Len(t) /\ Len(t) \in Nat
      BY <2>2, <2>3 DEF t, e
    <3>2. <<e>> \o t # <<>>
      BY <3>1
    <3>. QED  BY <3>1, <3>2 DEF t, e
  <2>. HIDE DEF rest
  <2>5. TypeOK'
    BY <1>1, <1>2, <2>1, <2>4 DEF TypeOK
  <2>. QED  BY <1>1, <2>1, <2>5, WalkKeeps
<1>. QED  BY <1>4, <1>5

LEMMA TopTyped ==
  ASSUME TypeOK, NEW i \in Items, pc[i] = "visit"
  PROVE  /\ Top(i) \in CallFrame /\ Tail(stack[i]) \in Seq(CallFrame)
         /\ Top(i).place \in Parts \X IDs /\ Top(i).box \in SUBSET Extents
         /\ Top(i).next \in Nat \ {0}
         /\ Visited(i).components \in Seq(Reference)
<1>1. stack[i] \in Seq(CallFrame) /\ stack[i] # <<>> /\ model \in Model
  BY DEF TypeOK
<1>2. Top(i) \in CallFrame /\ Tail(stack[i]) \in Seq(CallFrame)
  BY <1>1 DEF Top
<1>3. Top(i).place \in Parts \X IDs /\ Top(i).box \in SUBSET Extents /\ Top(i).next \in Nat \ {0}
  BY <1>2 DEF CallFrame
<1>4. Visited(i).components \in Seq(Reference)
  BY <1>1, <1>3, ObjectTyped DEF Visited
<1>. QED  BY <1>2, <1>3, <1>4

LEMMA LeafStep == Inv /\ phase = "running" /\ (\E i \in Items : VisitLeaf(i)) => Inv'
<1>. SUFFICES ASSUME Inv, phase = "running", NEW i \in Items, VisitLeaf(i) PROVE Inv'
  OBVIOUS
<1>1. pc[i] = "visit" /\ Return(i, LeafBox(i)) /\ UNCHANGED <<model, phase, read, holder, box>>
  BY DEF VisitLeaf
<1>2. Top(i).place \in Parts \X IDs
  BY <1>1, TopTyped DEF Inv
<1>3. LeafBox(i) \in SUBSET Extents
  BY <1>2, BoxTyped DEF LeafBox, Extents
<1>. QED  BY <1>1, <1>3, ReturnKeeps

LEMMA EndStep == Inv /\ phase = "running" /\ (\E i \in Items : VisitEnd(i)) => Inv'
<1>. SUFFICES ASSUME Inv, phase = "running", NEW i \in Items, VisitEnd(i) PROVE Inv'
  OBVIOUS
<1>1. pc[i] = "visit" /\ Return(i, Top(i).box) /\ UNCHANGED <<model, phase, read, holder, box>>
  BY DEF VisitEnd
<1>2. Top(i).box \in SUBSET Extents
  BY <1>1, TopTyped DEF Inv
<1>. QED  BY <1>1, <1>2, ReturnKeeps

(* A goroutine goes on to the next component, or calls for this one.       *)
LEMMA ComponentStep == Inv /\ phase = "running" /\ (\E i \in Items : VisitComponent(i)) => Inv'
<1>. SUFFICES ASSUME Inv, phase = "running", NEW i \in Items, VisitComponent(i) PROVE Inv'
  OBVIOUS
<1>1. /\ pc[i] = "visit" /\ Top(i).next <= Len(Visited(i).components)
      /\ UNCHANGED <<model, pc, found, read, holder, box>>
      /\ TypeOK /\ found[i] = EmptyBox
  BY DEF VisitComponent, Inv, FoundAtEnd
<1>2. Items' = Items
  BY <1>1 DEF Items
<1>. DEFINE c == Component(i)
            place == Place(ObjectPath(c, ""), c.id)
            rest == Tail(stack[i])
<1>3. c \in Reference
  BY <1>1, TopTyped DEF Component
<1>4. Call(place) \in CallFrame
  BY <1>3, PlaceTyped, CallTyped
<1>5. Skipped(Top(i)) \in CallFrame
  BY <1>1, TopTyped DEF Skipped, CallFrame
<1>6. stack[i] \in Seq(CallFrame) /\ rest \in Seq(CallFrame)
  BY <1>1, TopTyped DEF TypeOK
<1>7. /\ \/ stack' = [stack EXCEPT ![i] = <<Skipped(Top(i))>> \o rest]
         \/ stack' = [stack EXCEPT ![i] = <<Call(place)>> \o stack[i]]
         \/ stack' = stack
      /\ phase' \in {"running", "overflow"}
  BY <1>1 DEF VisitComponent, TypeOK
<1>. HIDE DEF c, place, rest
<1>8. ASSUME NEW f \in CallFrame, NEW t \in Seq(CallFrame)
      PROVE  <<f>> \o t \in Seq(CallFrame) /\ <<f>> \o t # <<>>
  <2>1. <<f>> \o t \in Seq(CallFrame) /\ Len(<<f>> \o t) = 1 + Len(t) /\ Len(t) \in Nat
    OBVIOUS
  <2>2. <<f>> \o t # <<>>
    BY <2>1
  <2>. QED  BY <2>1, <2>2
<1>9. /\ stack' \in [Items -> Seq(CallFrame)]
      /\ \A j \in Items : pc[j] = "visit" => stack'[j] # <<>>
  BY <1>1, <1>4, <1>5, <1>6, <1>7, <1>8 DEF TypeOK
<1>10. TypeOK'
  BY <1>1, <1>2, <1>7, <1>9 DEF TypeOK
<1>. QED  BY <1>1, <1>7, <1>10, WalkKeeps

LEMMA LockStep == Inv /\ phase = "running" /\ (\E i \in Items : Lock(i)) => Inv'
<1>. SUFFICES ASSUME Inv, phase = "running", NEW i \in Items, Lock(i) PROVE Inv'
  OBVIOUS
<1>. USE DEF Inv
<1>1. /\ pc[i] = "lock" /\ holder = 0 /\ holder' = i /\ read' = [read EXCEPT ![i] = box]
      /\ pc' = [pc EXCEPT ![i] = "extend"]
      /\ UNCHANGED <<model, phase, stack, found, box>>
  BY DEF Lock
<1>2. Items' = Items
  BY <1>1 DEF Items
<1>3. 0 \notin Items
  BY ItemsTyped DEF TypeOK
<1>4. TypeOK'
  BY <1>1, <1>2 DEF TypeOK
<1>5. Merged' = Merged
  BY <1>1, <1>2 DEF Merged, TypeOK, EmptyBox
<1>6. \A j \in Merged : Placed(j)' = Placed(j)
  BY <1>1 DEF Placed, MulBox, LimitBox
<1>7. BoxOfMerged'
  BY <1>1, <1>5, <1>6 DEF BoxOfMerged
<1>8. MutexHeld'
  BY <1>1, <1>2, <1>3 DEF MutexHeld, TypeOK
<1>9. FoundAtEnd' /\ AllDone'
  BY <1>1, <1>2 DEF FoundAtEnd, AllDone, TypeOK, EmptyBox
<1>. QED  BY <1>4, <1>7, <1>8, <1>9

LEMMA ExtendStep == Inv /\ phase = "running" /\ (\E i \in Items : Extend(i)) => Inv'
<1>. SUFFICES ASSUME Inv, phase = "running", NEW i \in Items, Extend(i) PROVE Inv'
  OBVIOUS
<1>. USE DEF Inv
<1>1. /\ pc[i] = "extend" /\ box' = read[i] \cup Placed(i) /\ holder' = 0
      /\ pc' = [pc EXCEPT ![i] = "done"]
      /\ UNCHANGED <<model, phase, stack, found, read>>
  BY DEF Extend
<1>2. Items' = Items
  BY <1>1 DEF Items
<1>3. holder = i /\ read[i] = box /\ 0 \notin Items
  BY <1>1, ItemsTyped DEF MutexHeld, TypeOK
<1>4. TypeOK'
  <2>1. Placed(i) \in SUBSET Extents
    BY BoxTyped DEF Placed, TypeOK
  <2>. QED  BY <1>1, <1>2, <1>3, <2>1 DEF TypeOK
<1>5. \A j \in Items : Placed(j)' = Placed(j)
  BY <1>1 DEF Placed, MulBox, LimitBox
<1>6. BoxOfMerged'
  <2>1. Merged' = Merged \cup {i}
    BY <1>1, <1>2 DEF Merged, TypeOK, EmptyBox, FoundAtEnd
  <2>2. model.items # <<>> => box = UNION {Placed(j) : j \in Merged}
    BY DEF BoxOfMerged
  <2>3. UNION {Placed(j) : j \in Merged \cup {i}} = (UNION {Placed(j) : j \in Merged}) \cup Placed(i)
    OBVIOUS
  <2>4. Merged \cup {i} \subseteq Items
    BY DEF Merged
  <2>5. {Placed(j)' : j \in Merged'} = {Placed(j) : j \in Merged \cup {i}}
    BY <2>1, <2>4, <1>5
  <2>. QED  BY <2>2, <2>3, <2>5, <1>1, <1>3 DEF BoxOfMerged
<1>7. MutexHeld'
  BY <1>1, <1>2, <1>3 DEF MutexHeld, TypeOK
<1>8. FoundAtEnd' /\ AllDone'
  BY <1>1, <1>2 DEF FoundAtEnd, AllDone, TypeOK, EmptyBox
<1>. QED  BY <1>4, <1>6, <1>7, <1>8

LEMMA WaitStep == Inv /\ phase = "running" /\ Wait => Inv'
<1>. SUFFICES ASSUME Inv, Wait PROVE Inv'
  OBVIOUS
<1>1. /\ \A i \in Items : pc[i] = "done"
      /\ phase' = "returned" /\ UNCHANGED <<model, pc, stack, found, read, holder, box>>
  BY DEF Wait
<1>2. Items' = Items
  BY <1>1 DEF Items
<1>3. TypeOK'
  BY <1>1, <1>2 DEF Inv, TypeOK
<1>4. Merged' = Merged /\ \A j \in Items : Placed(j)' = Placed(j)
  BY <1>1, <1>2 DEF Merged, Placed, MulBox, LimitBox, EmptyBox
<1>5. BoxOfMerged'
  BY <1>1, <1>4 DEF Inv, BoxOfMerged, Merged
<1>6. MutexHeld' /\ FoundAtEnd' /\ AllDone'
  BY <1>1, <1>2 DEF Inv, MutexHeld, FoundAtEnd, AllDone, EmptyBox
<1>. QED  BY <1>3, <1>5, <1>6 DEF Inv

LEMMA InvStutter == Inv /\ UNCHANGED vars => Inv'
<1>. SUFFICES ASSUME Inv, UNCHANGED vars PROVE Inv'
  OBVIOUS
<1>1. UNCHANGED <<model, phase, pc, stack, found, read, holder, box>>
  BY DEF vars
<1>2. Items' = Items
  BY <1>1 DEF Items
<1>3. TypeOK'
  BY <1>1, <1>2 DEF Inv, TypeOK
<1>4. Merged' = Merged /\ \A j \in Items : Placed(j)' = Placed(j)
  BY <1>1, <1>2 DEF Merged, Placed, MulBox, LimitBox, EmptyBox
<1>5. BoxOfMerged'
  BY <1>1, <1>4 DEF Inv, BoxOfMerged, Merged
<1>6. MutexHeld' /\ FoundAtEnd' /\ AllDone'
  BY <1>1, <1>2 DEF Inv, MutexHeld, FoundAtEnd, AllDone, EmptyBox
<1>. QED  BY <1>3, <1>5, <1>6 DEF Inv

LEMMA InvInductive == Inv /\ [Next]_vars => Inv'
<1>. SUFFICES ASSUME Inv, [Next]_vars PROVE Inv'
  OBVIOUS
<1>1. CASE Next
  BY <1>1, FindStep, LeafStep, EndStep, ComponentStep, LockStep, ExtendStep, WaitStep DEF Next, Step
<1>2. CASE UNCHANGED vars
  BY <1>2, InvStutter
<1>. QED  BY <1>1, <1>2

(***************************************************************************)
(* BoundingBox keeps to its types: a goroutine visits only objects that    *)
(* are there, for models of any size (core.go:235-260, 405-422).           *)
(***************************************************************************)
THEOREM GraphTypeCorrect == Spec => []TypeOK
<1>1. Inv => TypeOK
  BY DEF Inv
<1>. QED  BY <1>1, InvInit, InvInductive, PTL DEF Spec

(***************************************************************************)
(* The boxes of all items are in the box that BoundingBox returns, for any *)
(* number of items and any order of their goroutines (core.go:251-253).    *)
(***************************************************************************)
THEOREM EveryItemAlwaysCounts == Spec => []EveryItemCounts
<1>1. Inv => EveryItemCounts
  BY DEF Inv, AllDone, BoxOfMerged, Merged, EveryItemCounts
<1>. QED  BY <1>1, InvInit, InvInductive, PTL DEF Spec

-----------------------------------------------------------------------------
(***************************************************************************)
(* Reach goes as many steps as there are places, and each step that does   *)
(* not reach a new one is the last that is needed: what it comes to is the *)
(* least set with p that is closed under references.                       *)
(***************************************************************************)
Closed(S) == \A r \in S, q \in Places : Refers(r, q) => q \in S

Onward(S) == S \cup {q \in Places : \E r \in S : Refers(r, q)}

LEMMA PlacesFinite == IsFiniteSet(Places) /\ Cardinality(Places) \in Nat
<1>1. IsFiniteSet(Parts) /\ IsFiniteSet(IDs)
  <2>1. IsFiniteSet({RootPath})
    BY FS_Singleton
  <2>. QED
    BY <2>1, FS_Union, ObjectGraphAssumption DEF Parts
<1>. QED
  BY <1>1, FS_Product, FS_CardinalityType DEF Places

LEMMA ReachFollows ==
  ASSUME NEW p \in Places
  PROVE  \E w : /\ w[0] = {p} /\ Reach(p) = w[Cardinality(Places)]
                /\ \A k \in 1..Cardinality(Places) : w[k] = Onward(w[k - 1])
<1>1. PICK n \in Nat : n = Cardinality(Places)
  BY PlacesFinite
<1>2. PICK S : S = SUBSET Places
  OBVIOUS
<1>3. PICK onward : onward = [T \in S |-> Onward(T)]
  OBVIOUS
<1>4. onward \in [S -> S]
  BY <1>2, <1>3 DEF Onward
<1>5. PICK step : step = [k \in 1..n |-> onward]
  OBVIOUS
<1>6. step \in [1..n -> [S -> S]] /\ {p} \in S
  BY <1>2, <1>4, <1>5
<1>7. PICK g \in [0..n -> S] : Follows(g, n, {p}, step)
  BY <1>6, RecursionExists
<1>. DEFINE Next0(h, k) == h[k - 1] \cup {q \in Places : \E r \in h[k - 1] : Refers(r, q)}
<1>8. g[0] = {p} /\ \A k \in 1..n : g[k] = Next0(g, k)
  <2>1. ASSUME NEW k \in 1..n PROVE g[k] = Next0(g, k)
    <3>1. k - 1 \in 0..n
      OBVIOUS
    <3>2. PICK T \in S : T = g[k - 1]
      BY <3>1
    <3>3. g[k] = onward[T]
      BY <1>5, <1>7, <3>2 DEF Follows
    <3>4. onward[T] = Onward(T)
      BY <1>3
    <3>. QED
      BY <3>2, <3>3, <3>4 DEF Onward
  <2>. QED
    BY <1>7, <2>1 DEF Follows
<1>9. \A h, k : Next0(h, k) = Onward(h[k - 1])
  BY DEF Onward
<1>. HIDE DEF Next0
<1>10. PICK H : H = [k \in 0..n |-> IF k = 0 THEN {p} ELSE Next0(g, k)]
  OBVIOUS
<1>11. g = H
  <2>1. \A k \in 0..n : k = 0 \/ k \in 1..n
    OBVIOUS
  <2>2. H[0] = {p} /\ \A k \in 1..n : H[k] = Next0(g, k)
    BY <1>10
  <2>3. \A k \in 0..n : g[k] = H[k]
    BY <1>8, <2>1, <2>2
  <2>. QED
    BY <1>10, <2>3
<1>12. PICK w : w = CHOOSE h : h = [k \in 0..n |-> IF k = 0 THEN {p} ELSE Next0(h, k)]
  OBVIOUS
<1>13. g = [k \in 0..n |-> IF k = 0 THEN {p} ELSE Next0(g, k)]
  BY <1>10, <1>11
<1>14. w = [k \in 0..n |-> IF k = 0 THEN {p} ELSE Next0(w, k)]
  BY <1>12, <1>13, Zenon
<1>15. w[0] = {p} /\ \A k \in 1..n : w[k] = Next0(w, k)
  <2>1. 0 \in 0..n /\ \A k \in 1..n : k \in 0..n /\ k # 0
    OBVIOUS
  <2>. QED
    BY <1>14, <2>1
<1>16. Reach(p) = w[n]
  BY <1>1, <1>12 DEF Reach, Within, Next0
<1>. QED
  BY <1>1, <1>9, <1>15, <1>16, Zenon

LEMMA ReachIs ==
  ASSUME NEW p \in Places
  PROVE  /\ p \in Reach(p) /\ Reach(p) \subseteq Places /\ Closed(Reach(p))
         /\ \A S : p \in S /\ Closed(S) => Reach(p) \subseteq S
<1>1. PICK n \in Nat : n = Cardinality(Places)
  BY PlacesFinite
<1>2. PICK w : /\ w[0] = {p} /\ Reach(p) = w[n]
               /\ \A k \in 1..n : w[k] = Onward(w[k - 1])
  BY <1>1, ReachFollows
<1>3. p \in w[n] /\ w[n] \subseteq Places
  <2>1. PICK holds : holds = [k \in 0..n |-> p \in w[k] /\ w[k] \subseteq Places]
    OBVIOUS
  <2>2. holds[0]
    <3>1. 0 \in 0..n
      OBVIOUS
    <3>. QED
      BY <1>2, <2>1, <3>1
  <2>3. ASSUME NEW k \in 1..n, holds[k - 1] PROVE holds[k]
    <3>1. k - 1 \in 0..n /\ k \in 0..n
      OBVIOUS
    <3>2. p \in w[k - 1] /\ w[k - 1] \subseteq Places
      BY <2>1, <2>3, <3>1
    <3>3. p \in w[k] /\ w[k] \subseteq Places
      BY <1>2, <3>2 DEF Onward
    <3>. QED
      BY <2>1, <3>1, <3>3
  <2>4. \A k \in 0..n : holds[k]
    BY <2>2, <2>3, AllFollow
  <2>5. n \in 0..n
    OBVIOUS
  <2>. QED
    BY <2>1, <2>4, <2>5
<1>4. ASSUME NEW S, p \in S, Closed(S) PROVE w[n] \subseteq S
  <2>1. PICK holds : holds = [k \in 0..n |-> w[k] \subseteq S]
    OBVIOUS
  <2>2. holds[0]
    <3>1. 0 \in 0..n
      OBVIOUS
    <3>. QED
      BY <1>2, <1>4, <2>1, <3>1
  <2>3. ASSUME NEW k \in 1..n, holds[k - 1] PROVE holds[k]
    <3>1. k - 1 \in 0..n /\ k \in 0..n
      OBVIOUS
    <3>2. w[k - 1] \subseteq S
      BY <2>1, <2>3, <3>1
    <3>3. w[k] \subseteq S
      BY <1>2, <1>4, <3>2 DEF Onward, Closed
    <3>. QED
      BY <2>1, <3>1, <3>3
  <2>4. \A k \in 0..n : holds[k]
    BY <2>2, <2>3, AllFollow
  <2>5. n \in 0..n
    OBVIOUS
  <2>. QED
    BY <2>1, <2>4, <2>5
<1>5. Closed(w[n])
  <2>1. PICK holds :
          holds = [k \in 0..n |->
                     /\ w[k] \subseteq Places /\ IsFiniteSet(w[k])
                     /\ Closed(w[k]) \/ k < Cardinality(w[k])]
    OBVIOUS
  <2>2. holds[0]
    <3>1. 0 \in 0..n
      OBVIOUS
    <3>2. IsFiniteSet({p}) /\ Cardinality({p}) = 1
      BY FS_Singleton
    <3>3. w[0] \subseteq Places /\ IsFiniteSet(w[0]) /\ 0 < Cardinality(w[0])
      BY <1>2, <3>2
    <3>. QED
      BY <2>1, <3>1, <3>3
  <2>3. ASSUME NEW k \in 1..n, holds[k - 1] PROVE holds[k]
    <3>1. k - 1 \in 0..n /\ k \in 0..n
      OBVIOUS
    <3>2. PICK V : V = w[k - 1]
      OBVIOUS
    <3>3. PICK W : W = w[k]
      OBVIOUS
    <3>4. V \subseteq Places /\ IsFiniteSet(V) /\ (Closed(V) \/ k - 1 < Cardinality(V))
      BY <2>1, <2>3, <3>1, <3>2
    <3>5. W = Onward(V)
      BY <1>2, <3>2, <3>3
    <3>6. W \subseteq Places /\ V \subseteq W
      BY <3>4, <3>5 DEF Onward
    <3>7. IsFiniteSet(W)
      BY <3>6, PlacesFinite, FS_Subset
    <3>8. CASE Closed(V)
      <4>1. W = V
        BY <3>5, <3>8 DEF Onward, Closed
      <4>. QED
        BY <2>1, <3>1, <3>3, <3>6, <3>7, <3>8, <4>1
    <3>9. CASE ~Closed(V)
      <4>1. V # W
        BY <3>5, <3>9 DEF Onward, Closed
      <4>2. Cardinality(V) <= Cardinality(W) /\ (Cardinality(V) = Cardinality(W) => V = W)
        BY <3>6, <3>7, FS_Subset
      <4>3. Cardinality(V) \in Nat /\ Cardinality(W) \in Nat
        BY <3>4, <3>7, FS_CardinalityType
      <4>4. k < Cardinality(W)
        BY <3>4, <3>9, <4>1, <4>2, <4>3
      <4>. QED
        BY <2>1, <3>1, <3>3, <3>6, <3>7, <4>4
    <3>. QED
      BY <3>8, <3>9
  <2>4. \A k \in 0..n : holds[k]
    BY <2>2, <2>3, AllFollow
  <2>5. PICK W : W = w[n]
    OBVIOUS
  <2>6. W \subseteq Places /\ IsFiniteSet(W) /\ (Closed(W) \/ n < Cardinality(W))
    <3>1. n \in 0..n
      OBVIOUS
    <3>. QED
      BY <2>1, <2>4, <2>5, <3>1
  <2>7. Cardinality(W) <= Cardinality(Places) /\ Cardinality(W) \in Nat
    BY <2>6, PlacesFinite, FS_Subset, FS_CardinalityType
  <2>. QED
    BY <1>1, <2>5, <2>6, <2>7
<1>. QED
  BY <1>2, <1>3, <1>4, <1>5

-----------------------------------------------------------------------------
(***************************************************************************)
(* What the walk of a goroutine returns for an object: its meshes, m[p].   *)
(***************************************************************************)
ObjectAt(p) == model.resources[p[1]][p[2]]
PartsOf(p)  == ObjectAt(p).components
Part(c)     == Place(ObjectPath(c, ""), c.id)
Found(c)    == ObjectAt(Part(c)) # NoObject

MeshesUpTo(m, p, n) == UNION {m[Part(PartsOf(p)[k])] : k \in {k \in 1..n : Found(PartsOf(p)[k])}}

IsMeshes(m) ==
  \A p \in Places :
    /\ m[p] \subseteq Places
    /\ HasParts(ObjectAt(p)) => m[p] # {} /\ m[p] = MeshesUpTo(m, p, Len(PartsOf(p)))
    /\ ~HasParts(ObjectAt(p)) => m[p] = IF ObjectAt(p).geometry = "mesh" THEN {p} ELSE {}

LEMMA ObjectAtIs ==
  ASSUME model \in Model, NEW p \in Places
  PROVE  ObjectAt(p) = FindObject(p[1], p[2]) /\ PartsOf(p) \in Seq(Reference)
<1>1. p[1] \in Parts /\ p \in Parts \X IDs
  BY DEF Places
<1>2. FindResources(p[1]) = p[1]
  BY <1>1, ObjectGraphAssumption DEF FindResources, Parts
<1>3. ObjectAt(p) = FindObject(p[1], p[2])
  BY <1>2 DEF ObjectAt, FindObject
<1>. QED
  BY <1>1, <1>3, ObjectTyped DEF PartsOf

LEMMA PartIs ==
  ASSUME model \in Model, NEW c \in Reference
  PROVE  Part(c) \in Places /\ (Found(c) <=> IsFound(ObjectPath(c, ""), c.id))
<1>1. Part(c) \in Places
  BY PlaceTyped DEF Part, Places
<1>2. ObjectAt(Part(c)) = FindObject(ObjectPath(c, ""), c.id)
  BY DEF ObjectAt, Part, Place, FindObject
<1>. QED
  BY <1>1, <1>2 DEF Found, IsFound

(* With all paths given, Validate resolves references as BoundingBox does. *)
LEMMA RefersIs ==
  ASSUME model \in Model, PathsGiven, NEW p \in Places, NEW q \in Places
  PROVE  Refers(p, q) <=> /\ HasParts(ObjectAt(p))
                          /\ \E k \in 1..Len(PartsOf(p)) : q = Part(PartsOf(p)[k]) /\ Found(PartsOf(p)[k])
<1>1. p[1] \in Parts /\ p[2] \in IDs
  BY DEF Places
<1>2. PICK s \in Seq(Reference) : s = PartsOf(p)
  BY ObjectAtIs
<1>3. ASSUME HasParts(ObjectAt(p)), NEW k \in 1..Len(s)
      PROVE  Place(ObjectPath(s[k], p[1]), s[k].id) = Part(s[k])
  <2>1. CASE p[1] \in Childs
    <3>1. s[k].path # ""
      BY <1>1, <1>2, <1>3, <2>1 DEF PathsGiven, ObjectAt, PartsOf
    <3>. QED
      BY <3>1 DEF Part, ObjectPath
  <2>2. CASE p[1] = RootPath
    BY <2>2, ObjectGraphAssumption DEF Part, Place, ObjectPath, FindResources
  <2>. QED
    BY <1>1, <2>1, <2>2 DEF Parts
<1>4. Refers(p, q) <=> /\ HasParts(ObjectAt(p))
                       /\ \E k \in 1..Len(s) : q = Place(ObjectPath(s[k], p[1]), s[k].id)
                       /\ ObjectAt(q) # NoObject
  BY <1>2 DEF Refers, ObjectAt, PartsOf
<1>. QED
  BY <1>2, <1>3, <1>4 DEF Found

LEMMA ReachFrom ==
  ASSUME NEW p \in Places
  PROVE  /\ \A q \in Reach(p) : Reach(q) \subseteq Reach(p)
         /\ \A q \in Places : Refers(p, q) => q \in Reach(p)
         /\ \A q \in Reach(p) : q = p \/ \E o \in Places : Refers(p, o) /\ q \in Reach(o)
<1>1. p \in Reach(p) /\ Reach(p) \subseteq Places /\ Closed(Reach(p))
  BY ReachIs
<1>2. ASSUME NEW q \in Reach(p) PROVE Reach(q) \subseteq Reach(p)
  BY <1>1, <1>2, ReachIs
<1>3. PICK S : S = {p} \cup UNION {Reach(q) : q \in {q \in Places : Refers(p, q)}}
  OBVIOUS
<1>4. Closed(S)
  <2>1. SUFFICES ASSUME NEW r \in S, NEW q \in Places, Refers(r, q) PROVE q \in S
    BY DEF Closed
  <2>2. CASE r = p
    <3>1. q \in Reach(q)
      BY ReachIs
    <3>. QED
      BY <1>3, <2>1, <2>2, <3>1
  <2>3. CASE r # p
    <3>1. PICK o \in Places : Refers(p, o) /\ r \in Reach(o)
      BY <1>3, <2>3
    <3>2. Closed(Reach(o))
      BY ReachIs
    <3>3. q \in Reach(o)
      BY <2>1, <3>1, <3>2 DEF Closed
    <3>. QED
      BY <1>3, <3>1, <3>3
  <2>. QED
    BY <2>2, <2>3
<1>5. Reach(p) \subseteq S
  <2>1. p \in S
    BY <1>3
  <2>. QED
    BY <1>4, <2>1, ReachIs
<1>6. \A q \in Reach(p) : q = p \/ \E o \in Places : Refers(p, o) /\ q \in Reach(o)
  BY <1>3, <1>5
<1>. QED
  BY <1>1, <1>2, <1>6 DEF Closed

LEMMA MeshesFrom ==
  ASSUME NEW p \in Places
  PROVE  MeshesOf(p) = {q \in {p} : ObjectAt(q).geometry = "mesh"}
                       \cup UNION {MeshesOf(q) : q \in {q \in Places : Refers(p, q)}}
<1>1. \A o, q : q \in MeshesOf(o) <=> q \in Reach(o) /\ ObjectAt(q).geometry = "mesh"
  BY DEF MeshesOf, ObjectAt
<1>2. ASSUME NEW q \in MeshesOf(p)
      PROVE  \/ q = p /\ ObjectAt(q).geometry = "mesh"
             \/ \E o \in Places : Refers(p, o) /\ q \in MeshesOf(o)
  BY <1>1, <1>2, ReachFrom
<1>3. ASSUME ObjectAt(p).geometry = "mesh" PROVE p \in MeshesOf(p)
  BY <1>1, <1>3, ReachIs
<1>4. ASSUME NEW o \in Places, Refers(p, o), NEW q \in MeshesOf(o) PROVE q \in MeshesOf(p)
  BY <1>1, <1>4, ReachFrom
<1>. QED
  BY <1>2, <1>3, <1>4

LEMMA MeshesAre ==
  ASSUME model \in Model, PathsGiven, PartsHaveMeshes
  PROVE  IsMeshes([p \in Places |-> MeshesOf(p)])
<1>1. PICK m : m = [p \in Places |-> MeshesOf(p)]
  OBVIOUS
<1>2. ASSUME NEW p \in Places
      PROVE  /\ m[p] \subseteq Places
             /\ HasParts(ObjectAt(p)) => m[p] # {} /\ m[p] = MeshesUpTo(m, p, Len(PartsOf(p)))
             /\ ~HasParts(ObjectAt(p)) => m[p] = IF ObjectAt(p).geometry = "mesh" THEN {p} ELSE {}
  <2>1. m[p] = MeshesOf(p)
    BY <1>1
  <2>2. m[p] \subseteq Places
    BY <2>1, ReachIs DEF MeshesOf
  <2>3. PICK M : M = MeshesOf(p)
    OBVIOUS
  <2>4. M = {q \in {p} : ObjectAt(q).geometry = "mesh"}
            \cup UNION {MeshesOf(q) : q \in {q \in Places : Refers(p, q)}}
    BY <2>3, MeshesFrom
  <2>5. PICK s \in Seq(Reference) : s = PartsOf(p)
    BY ObjectAtIs
  <2>6. ASSUME NEW q \in Places
        PROVE  Refers(p, q) <=> /\ HasParts(ObjectAt(p))
                                /\ \E k \in 1..Len(s) : q = Part(s[k]) /\ Found(s[k])
    BY <2>5, RefersIs
  <2>7. ASSUME HasParts(ObjectAt(p))
        PROVE  m[p] # {} /\ m[p] = MeshesUpTo(m, p, Len(PartsOf(p)))
    <3>1. ObjectAt(p).geometry # "mesh"
      BY <2>7 DEF HasParts
    <3>2. M = UNION {MeshesOf(q) : q \in {q \in Places : Refers(p, q)}}
      BY <2>4, <3>1
    <3>3. MeshesUpTo(m, p, Len(s)) = UNION {m[Part(s[k])] : k \in {k \in 1..Len(s) : Found(s[k])}}
      BY <2>5 DEF MeshesUpTo
    <3>4. \A k \in 1..Len(s) : Part(s[k]) \in Places /\ m[Part(s[k])] = MeshesOf(Part(s[k]))
      <4>1. ASSUME NEW k \in 1..Len(s)
            PROVE  Part(s[k]) \in Places /\ m[Part(s[k])] = MeshesOf(Part(s[k]))
        <5>1. s[k] \in Reference
          OBVIOUS
        <5>2. Part(s[k]) \in Places
          BY <5>1, PartIs
        <5>. QED
          BY <1>1, <5>2
      <4>. QED
        BY <4>1
    <3>5. ASSUME NEW x \in M PROVE x \in MeshesUpTo(m, p, Len(s))
      <4>1. PICK q \in Places : Refers(p, q) /\ x \in MeshesOf(q)
        BY <3>2, <3>5
      <4>2. PICK k \in 1..Len(s) : q = Part(s[k]) /\ Found(s[k])
        BY <2>6, <4>1
      <4>3. x \in m[Part(s[k])]
        BY <3>4, <4>1, <4>2
      <4>. QED
        BY <3>3, <4>2, <4>3
    <3>6. ASSUME NEW x \in MeshesUpTo(m, p, Len(s)) PROVE x \in M
      <4>1. PICK k \in 1..Len(s) : Found(s[k]) /\ x \in m[Part(s[k])]
        BY <3>3, <3>6
      <4>2. Part(s[k]) \in Places /\ Refers(p, Part(s[k])) /\ x \in MeshesOf(Part(s[k]))
        BY <2>6, <2>7, <3>4, <4>1
      <4>. QED
        BY <3>2, <4>2
    <3>7. M # {}
      BY <2>3, <2>7 DEF PartsHaveMeshes, ObjectAt
    <3>. QED
      BY <2>1, <2>3, <2>5, <3>5, <3>6, <3>7
  <2>8. ASSUME ~HasParts(ObjectAt(p))
        PROVE  m[p] = IF ObjectAt(p).geometry = "mesh" THEN {p} ELSE {}
    <3>1. {q \in Places : Refers(p, q)} = {}
      BY <2>6, <2>8
    <3>2. M = {q \in {p} : ObjectAt(q).geometry = "mesh"}
      BY <2>4, <3>1
    <3>. QED
      BY <2>1, <2>3, <3>2
  <2>. QED
    BY <2>2, <2>7, <2>8
<1>. QED
  BY <1>1, <1>2 DEF IsMeshes

-----------------------------------------------------------------------------
(* A call has the meshes of the parts before the next one, and the calls   *)
(* under it wait for it.                                                   *)
Walks(m, f) ==
  /\ f.next <= Len(PartsOf(f.place)) + 1
  /\ f.box = MeshesUpTo(m, f.place, f.next - 1)

Waits(f, p) ==
  /\ HasParts(ObjectAt(f.place)) /\ f.next <= Len(PartsOf(f.place))
  /\ Part(PartsOf(f.place)[f.next]) = p /\ Found(PartsOf(f.place)[f.next])

Walking(m, s, p) ==
  /\ s # <<>> /\ s[Len(s)].place = p
  /\ \A k \in 1..Len(s) : Walks(m, s[k])
  /\ \A k \in 2..Len(s) : Waits(s[k], s[k - 1].place)

Value(m, p) == IF m[p] = {} THEN EmptyBox ELSE m[p]

ItemPart(i)  == Part(model.items[i])
ItemFound(i) == Found(model.items[i])

WalkInv ==
  \A m : IsMeshes(m) =>
    \A i \in Items :
      /\ pc[i] = "visit" => ItemFound(i) /\ Walking(m, stack[i], ItemPart(i))
      /\ pc[i] \in {"lock", "extend", "done"} =>
           found[i] = IF ItemFound(i) THEN Value(m, ItemPart(i)) ELSE EmptyBox

LEMMA PushFacts ==
  ASSUME NEW Frames, NEW t \in Seq(Frames), NEW f \in Frames
  PROVE  /\ <<f>> \o t \in Seq(Frames) /\ Len(<<f>> \o t) = Len(t) + 1 /\ Len(t) \in Nat
         /\ (<<f>> \o t)[1] = f /\ \A k \in 1..Len(t) : (<<f>> \o t)[k + 1] = t[k]
OBVIOUS

LEMMA TailFacts ==
  ASSUME NEW Frames, NEW s \in Seq(Frames), s # <<>>
  PROVE  /\ Tail(s) \in Seq(Frames) /\ Len(Tail(s)) = Len(s) - 1 /\ Len(s) \in Nat \ {0}
         /\ \A k \in 1..(Len(s) - 1) : Tail(s)[k] = s[k + 1]
         /\ Head(s) = s[1] /\ (Tail(s) = <<>> <=> Len(s) = 1)
<1>1. Len(s) \in Nat \ {0} /\ Head(s) = s[1]
  OBVIOUS
<1>2. Tail(s) \in Seq(Frames) /\ Len(Tail(s)) = Len(s) - 1
  OBVIOUS
<1>3. \A k \in 1..(Len(s) - 1) : Tail(s)[k] = s[k + 1]
  OBVIOUS
<1>4. PICK t \in Seq(Frames) : t = Tail(s)
  BY <1>2
<1>5. t = <<>> <=> Len(t) = 0
  OBVIOUS
<1>. QED
  BY <1>1, <1>2, <1>3, <1>4, <1>5

LEMMA WalkPushed ==
  ASSUME NEW m, NEW s \in Seq(CallFrame), NEW p, Walking(m, s, p), NEW q, NEW f \in CallFrame,
         f.place = q, Walks(m, f), Waits(s[1], q), NEW s2, s2 = <<f>> \o s
  PROVE  Walking(m, s2, p)
<1>1. Len(s) \in Nat \ {0}
  BY DEF Walking
<1>2. Len(s2) = Len(s) + 1 /\ s2[1] = f /\ \A k \in 1..Len(s) : s2[k + 1] = s[k]
  BY PushFacts
<1>3. ASSUME NEW k \in 1..Len(s2) PROVE k = 1 \/ (k - 1 \in 1..Len(s) /\ s2[k] = s[k - 1])
  <2>1. CASE k = 1
    BY <2>1
  <2>2. CASE k # 1
    <3>1. k - 1 \in 1..Len(s) /\ (k - 1) + 1 = k
      BY <1>1, <1>2, <2>2
    <3>. QED
      BY <1>2, <3>1
  <2>. QED
    BY <2>1, <2>2
<1>4. s2 # <<>> /\ s2[Len(s2)].place = p
  <2>1. s2[Len(s2)] = s[Len(s)]
    BY <1>1, <1>2
  <2>2. s2 \in Seq(CallFrame) /\ Len(s2) # 0
    BY <1>1, <1>2, PushFacts
  <2>. QED
    BY <2>1, <2>2 DEF Walking
<1>5. \A k \in 1..Len(s2) : Walks(m, s2[k])
  BY <1>2, <1>3 DEF Walking
<1>6. ASSUME NEW k \in 2..Len(s2) PROVE Waits(s2[k], s2[k - 1].place)
  <2>1. k \in 1..Len(s2) /\ k - 1 \in 1..Len(s2)
    BY <1>1, <1>2
  <2>2. CASE k = 2
    <3>1. s2[2] = s[1] /\ s2[1] = f
      BY <1>1, <1>2
    <3>. QED
      BY <2>2, <3>1
  <2>3. CASE k # 2
    <3>1. k - 1 \in 2..Len(s) /\ s2[k] = s[k - 1]
      BY <1>1, <1>2, <1>3, <2>1, <2>3
    <3>2. (k - 1) - 1 \in 1..Len(s) /\ s2[k - 1] = s[(k - 1) - 1]
      BY <1>1, <1>2, <1>3, <2>1, <2>3
    <3>. QED
      BY <3>1, <3>2 DEF Walking
  <2>. QED
    BY <2>2, <2>3
<1>. QED
  BY <1>4, <1>5, <1>6 DEF Walking

LEMMA WalkReplaced ==
  ASSUME NEW m, NEW s \in Seq(CallFrame), NEW p, Walking(m, s, p), NEW f \in CallFrame,
         f.place = s[1].place, Walks(m, f), NEW s2, s2 = <<f>> \o Tail(s)
  PROVE  Walking(m, s2, p)
<1>1. Len(s) \in Nat \ {0} /\ s # <<>>
  BY DEF Walking
<1>2. /\ Tail(s) \in Seq(CallFrame) /\ Len(Tail(s)) = Len(s) - 1
      /\ \A k \in 1..(Len(s) - 1) : Tail(s)[k] = s[k + 1]
  BY <1>1, TailFacts
<1>3. PICK t \in Seq(CallFrame) : t = Tail(s)
  BY <1>2
<1>4. s2 \in Seq(CallFrame) /\ Len(s2) = Len(s) /\ s2[1] = f /\ \A k \in 1..Len(t) : s2[k + 1] = t[k]
  BY <1>1, <1>2, <1>3, PushFacts
<1>5. ASSUME NEW k \in 2..Len(s) PROVE s2[k] = s[k]
  <2>1. k - 1 \in 1..Len(t) /\ k - 1 \in 1..(Len(s) - 1) /\ (k - 1) + 1 = k
    BY <1>1, <1>2, <1>3
  <2>. QED
    BY <1>2, <1>3, <1>4, <2>1
<1>6. \A k \in 1..Len(s) : s2[k].place = s[k].place /\ Walks(m, s2[k])
  <2>1. \A k \in 1..Len(s) : k = 1 \/ k \in 2..Len(s)
    BY <1>1
  <2>. QED
    BY <1>4, <1>5, <2>1 DEF Walking
<1>7. ASSUME NEW k \in 2..Len(s2) PROVE Waits(s2[k], s2[k - 1].place)
  <2>1. k \in 2..Len(s) /\ k - 1 \in 1..Len(s)
    BY <1>1, <1>4
  <2>. QED
    BY <1>5, <1>6, <2>1 DEF Walking
<1>8. s2 # <<>> /\ s2[Len(s2)].place = p
  <2>1. Len(s) \in 1..Len(s)
    BY <1>1
  <2>2. s2 # <<>>
    BY <1>1, <1>4
  <2>. QED
    BY <1>4, <1>6, <2>1, <2>2 DEF Walking
<1>. QED
  BY <1>4, <1>6, <1>7, <1>8 DEF Walking

LEMMA WalkPopped ==
  ASSUME NEW m, NEW s \in Seq(CallFrame), NEW p, Walking(m, s, p), Tail(s) # <<>>,
         NEW t, t = Tail(s)
  PROVE  t \in Seq(CallFrame) /\ t # <<>> /\ Walking(m, t, p) /\ Waits(t[1], s[1].place)
<1>1. Len(s) \in Nat \ {0} /\ s # <<>>
  BY DEF Walking
<1>2. /\ t \in Seq(CallFrame) /\ Len(t) = Len(s) - 1 /\ Len(s) # 1
      /\ \A k \in 1..(Len(s) - 1) : t[k] = s[k + 1]
  BY <1>1, TailFacts
<1>3. \A k \in 1..Len(t) : k + 1 \in 1..Len(s) /\ k + 1 \in 2..Len(s) /\ t[k] = s[k + 1]
  BY <1>1, <1>2
<1>4. \A k \in 2..Len(t) : k \in 1..Len(t) /\ k - 1 \in 1..Len(t) /\ (k - 1) + 1 = k /\ (k + 1) - 1 = k
  BY <1>1, <1>2
<1>5. ASSUME NEW k \in 2..Len(t) PROVE Waits(t[k], t[k - 1].place)
  <2>1. k + 1 \in 2..Len(s) /\ t[k] = s[k + 1] /\ t[k - 1] = s[k] /\ (k + 1) - 1 = k
    BY <1>3, <1>4
  <2>. QED
    BY <2>1 DEF Walking
<1>6. 1 \in 1..Len(t) /\ t[1] = s[2] /\ 2 \in 2..Len(s) /\ 2 - 1 = 1
  BY <1>1, <1>2
<1>7. t[Len(t)] = s[Len(s)]
  BY <1>1, <1>2
<1>. QED
  BY <1>2, <1>3, <1>5, <1>6, <1>7 DEF Walking

-----------------------------------------------------------------------------
(* All this is about the model, which stays as it is.                      *)
LEMMA WalkSame ==
  ASSUME model' = model
  PROVE  /\ Items' = Items
         /\ \A m : IsMeshes(m)' = IsMeshes(m)
         /\ \A m, s, p : Walking(m, s, p)' = Walking(m, s, p)
         /\ \A i : ItemFound(i)' = ItemFound(i) /\ ItemPart(i)' = ItemPart(i)
<1>1. \A p : ObjectAt(p)' = ObjectAt(p) /\ PartsOf(p)' = PartsOf(p)
  BY DEF ObjectAt, PartsOf
<1>2. \A c : Found(c)' = Found(c)
  BY <1>1 DEF Found
<1>3. \A m, p, n : MeshesUpTo(m, p, n)' = MeshesUpTo(m, p, n)
  BY <1>1, <1>2 DEF MeshesUpTo
<1>4. \A m : IsMeshes(m)' = IsMeshes(m)
  BY <1>1, <1>3 DEF IsMeshes
<1>5. \A m, f : Walks(m, f)' = Walks(m, f)
  BY <1>1, <1>3 DEF Walks
<1>6. \A f, p : Waits(f, p)' = Waits(f, p)
  BY <1>1, <1>2 DEF Waits
<1>7. \A m, s, p : Walking(m, s, p)' = Walking(m, s, p)
  BY <1>5, <1>6 DEF Walking
<1>8. \A i : ItemFound(i)' = ItemFound(i) /\ ItemPart(i)' = ItemPart(i)
  BY <1>1 DEF ItemFound, ItemPart, Found
<1>. QED
  BY <1>4, <1>7, <1>8 DEF Items

ItemWalks(m, i, at, s, b) ==
  /\ at = "visit" => ItemFound(i) /\ Walking(m, s, ItemPart(i))
  /\ at \in {"lock", "extend", "done"} =>
       b = IF ItemFound(i) THEN Value(m, ItemPart(i)) ELSE EmptyBox

LEMMA OneWalks ==
  ASSUME WalkInv, model' = model, NEW i \in Items,
         \A j \in Items \ {i} : pc'[j] = pc[j] /\ stack'[j] = stack[j] /\ found'[j] = found[j],
         NEW at, at = pc'[i], NEW s, s = stack'[i], NEW b, b = found'[i],
         \A m : IsMeshes(m) => ItemWalks(m, i, at, s, b)
  PROVE  WalkInv'
<1>1. SUFFICES ASSUME NEW m, IsMeshes(m)', NEW j \in Items'
               PROVE  /\ pc'[j] = "visit" => ItemFound(j)' /\ Walking(m, stack[j], ItemPart(j))'
                      /\ pc'[j] \in {"lock", "extend", "done"} =>
                           found'[j] = IF ItemFound(j)' THEN Value(m, ItemPart(j)') ELSE EmptyBox
  BY DEF WalkInv, Value
<1>2. IsMeshes(m) /\ j \in Items /\ ItemFound(j)' = ItemFound(j) /\ ItemPart(j)' = ItemPart(j)
  BY <1>1, WalkSame
<1>3. PICK s2 : s2 = stack'[j]
  OBVIOUS
<1>4. ItemWalks(m, j, pc'[j], s2, found'[j])
  <2>1. CASE j = i
    BY <1>2, <1>3, <2>1
  <2>2. CASE j # i
    BY <1>2, <1>3, <2>2 DEF WalkInv, ItemWalks
  <2>. QED
    BY <2>1, <2>2
<1>5. pc'[j] = "visit" => ItemFound(j) /\ Walking(m, s2, ItemPart(j))
  BY <1>4 DEF ItemWalks
<1>6. pc'[j] \in {"lock", "extend", "done"} =>
        found'[j] = IF ItemFound(j) THEN Value(m, ItemPart(j)) ELSE EmptyBox
  BY <1>4 DEF ItemWalks
<1>7. \A p : Walking(m, s2, p)' = Walking(m, s2, p)
  BY WalkSame
<1>. QED
  BY <1>2, <1>3, <1>5, <1>6, <1>7

LEMMA UpToNext ==
  ASSUME NEW m, NEW p, NEW n \in Nat, NEW c, c = PartsOf(p)[n + 1]
  PROVE  /\ Found(c) => MeshesUpTo(m, p, n + 1) = MeshesUpTo(m, p, n) \cup m[Part(c)]
         /\ ~Found(c) => MeshesUpTo(m, p, n + 1) = MeshesUpTo(m, p, n)
         /\ MeshesUpTo(m, p, 0) = {}
<1>1. PICK s : s = PartsOf(p)
  OBVIOUS
<1>2. \A k : k \in 1..(n + 1) <=> k \in 1..n \/ k = n + 1
  OBVIOUS
<1>3. {k \in 1..(n + 1) : Found(s[k])} = {k \in 1..n : Found(s[k])} \cup {k \in {n + 1} : Found(s[k])}
  BY <1>2
<1>4. \A j : MeshesUpTo(m, p, j) = UNION {m[Part(s[k])] : k \in {k \in 1..j : Found(s[k])}}
  BY <1>1 DEF MeshesUpTo
<1>5. ASSUME Found(c) PROVE MeshesUpTo(m, p, n + 1) = MeshesUpTo(m, p, n) \cup m[Part(c)]
  <2>1. {k \in {n + 1} : Found(s[k])} = {n + 1}
    BY <1>1, <1>5
  <2>2. PICK K : K = {k \in 1..n : Found(s[k])}
    OBVIOUS
  <2>3. MeshesUpTo(m, p, n + 1) = UNION {m[Part(s[k])] : k \in K \cup {n + 1}}
    BY <1>3, <1>4, <2>1, <2>2
  <2>4. MeshesUpTo(m, p, n) = UNION {m[Part(s[k])] : k \in K}
    BY <1>4, <2>2
  <2>. QED
    BY <1>1, <2>3, <2>4
<1>6. ASSUME ~Found(c) PROVE MeshesUpTo(m, p, n + 1) = MeshesUpTo(m, p, n)
  <2>1. {k \in {n + 1} : Found(s[k])} = {}
    BY <1>1, <1>6
  <2>2. {k \in 1..(n + 1) : Found(s[k])} = {k \in 1..n : Found(s[k])}
    BY <1>3, <2>1
  <2>. QED
    BY <1>4, <2>2
<1>7. MeshesUpTo(m, p, 0) = {}
  BY DEF MeshesUpTo
<1>. QED
  BY <1>5, <1>6, <1>7

LEMMA NotEmptyBox ==
  ASSUME NEW m, IsMeshes(m), NEW p \in Places
  PROVE  m[p] # EmptyBox
<1>1. Origin \notin Places
  BY ObjectGraphAssumption DEF Origin, Places, Parts
<1>. QED
  BY <1>1 DEF IsMeshes, EmptyBox

(* boundingBox returns what the meshes of its object come to.              *)
LEMMA WalkReturns ==
  ASSUME TypeOK, NEW i \in Items, pc[i] = "visit", NEW m, IsMeshes(m), ItemFound(i),
         Walking(m, stack[i], ItemPart(i)), NEW b, b = Value(m, Top(i).place), Return(i, b)
  PROVE  /\ \A j \in Items \ {i} : pc'[j] = pc[j] /\ stack'[j] = stack[j] /\ found'[j] = found[j]
         /\ ItemWalks(m, i, pc'[i], stack'[i], found'[i])
<1>1. PICK s \in Seq(CallFrame) : s = stack[i]
  BY DEF TypeOK
<1>2. PICK p : p = ItemPart(i)
  OBVIOUS
<1>3. Walking(m, s, p) /\ s # <<>>
  BY <1>1, <1>2 DEF Walking
<1>4. PICK t \in Seq(CallFrame) : t = Tail(s)
  BY <1>3, TailFacts
<1>5. Top(i) = s[1] /\ Len(s) \in Nat \ {0}
  BY <1>1, <1>3, TailFacts DEF Top
<1>6. CASE t = <<>>
  <2>1. /\ found' = [found EXCEPT ![i] = b]
        /\ pc' = [pc EXCEPT ![i] = IF b # EmptyBox THEN "lock" ELSE "done"]
        /\ stack' = [stack EXCEPT ![i] = <<>>]
    <3>1. Tail(stack[i]) = <<>>
      BY <1>1, <1>4, <1>6
    <3>. QED
      BY ONLY Zenon, Return(i, b), <3>1 DEF Return
  <2>2. Len(s) = 1
    BY <1>3, <1>4, <1>6, TailFacts
  <2>3. s[1].place = p
    BY <1>3, <2>2 DEF Walking
  <2>4. b = Value(m, p)
    BY <1>5, <2>3
  <2>5. pc'[i] \in {"lock", "done"} /\ found'[i] = b
    BY <2>1 DEF TypeOK
  <2>6. \A j \in Items \ {i} : pc'[j] = pc[j] /\ stack'[j] = stack[j] /\ found'[j] = found[j]
    BY <2>1 DEF TypeOK
  <2>. QED
    BY <1>2, <2>4, <2>5, <2>6 DEF ItemWalks
<1>7. CASE t # <<>>
  <2>1. PICK f \in CallFrame : f = t[1] /\ f = Head(t)
    BY <1>7, TailFacts
  <2>2. Walking(m, t, p) /\ Waits(f, s[1].place)
    BY <1>3, <1>4, <1>7, <2>1, WalkPopped
  <2>3. PICK c : c = PartsOf(f.place)[f.next]
    OBVIOUS
  <2>4. PICK q : q = s[1].place
    OBVIOUS
  <2>5. /\ HasParts(ObjectAt(f.place)) /\ f.next <= Len(PartsOf(f.place))
        /\ Part(c) = q /\ Found(c)
    BY <2>2, <2>3, <2>4 DEF Waits
  <2>6. f.place \in Places /\ f.next \in Nat \ {0} /\ q \in Places
    <3>1. s[1] \in CallFrame
      BY <1>5
    <3>. QED
      BY <2>4, <3>1 DEF CallFrame, Places
  <2>7. PICK e : e = Extended(f, c.transform, b)
    OBVIOUS
  <2>8. PartsOf(f.place) = FindObject(f.place[1], f.place[2]).components
    BY <2>6, ObjectAtIs DEF PartsOf, TypeOK
  <2>9. stack' = [stack EXCEPT ![i] = <<e>> \o Tail(t)] /\ UNCHANGED <<pc, found>>
    BY Zenon, <1>1, <1>4, <1>7, <2>1, <2>3, <2>7, <2>8 DEF Return
  <2>10. b = Value(m, q)
    BY <1>5, <2>4
  <2>11. f.box = MeshesUpTo(m, f.place, f.next - 1)
    <3>1. Walks(m, t[1])
      <4>1. Len(t) \in Nat \ {0}
        BY <1>7, TailFacts
      <4>. QED
        BY <2>2, <4>1 DEF Walking
    <3>. QED
      BY <2>1, <3>1 DEF Walks
  <2>12. MeshesUpTo(m, f.place, f.next) = f.box \cup m[q]
    <3>1. f.next - 1 \in Nat /\ (f.next - 1) + 1 = f.next
      BY <2>6
    <3>2. PICK n \in Nat : n = f.next - 1
      BY <3>1
    <3>3. c = PartsOf(f.place)[n + 1]
      BY <2>3, <3>1, <3>2
    <3>4. PICK place : place = f.place
      OBVIOUS
    <3>5. c = PartsOf(place)[n + 1] /\ Found(c)
      BY <2>5, <3>3, <3>4
    <3>6. MeshesUpTo(m, place, n + 1) = MeshesUpTo(m, place, n) \cup m[Part(c)]
      BY <3>5, UpToNext
    <3>7. Part(c) = q
      BY <2>5
    <3>8. MeshesUpTo(m, place, n + 1) = MeshesUpTo(m, place, n) \cup m[q]
      BY <3>6, <3>7
    <3>. QED
      BY <2>11, <3>1, <3>2, <3>4, <3>8
  <2>13. e.box = f.box \cup m[q]
    <3>1. m[q] # EmptyBox
      BY <2>6, NotEmptyBox
    <3>2. CASE m[q] = {}
      <4>1. b = EmptyBox
        BY <2>10, <3>2 DEF Value
      <4>2. e.box = f.box
        BY <2>7, <4>1 DEF Extended
      <4>. QED
        BY <3>2, <4>2
    <3>3. CASE m[q] # {}
      <4>1. b = m[q] /\ b # EmptyBox /\ b # LimitBox
        BY <2>10, <3>1, <3>3 DEF Value, LimitBox
      <4>2. MulBox(c.transform, b) = b
        BY <4>1 DEF MulBox
      <4>3. e.box = f.box \cup b
        BY <2>7, <4>1, <4>2 DEF Extended
      <4>. QED
        BY <4>1, <4>3
    <3>. QED
      BY <3>2, <3>3
  <2>14. e.place = f.place /\ e.next = f.next + 1
    BY <2>7 DEF Extended
  <2>15. e \in CallFrame
    <3>1. b \in SUBSET Extents
      <4>1. m[q] \subseteq Places
        BY <2>6 DEF IsMeshes
      <4>. QED
        BY <2>10, <4>1, BoxTyped DEF Value, Extents, Places
    <3>. QED
      BY <2>7, <3>1, ExtendedTyped
  <2>16. Walks(m, e)
    <3>1. PartsOf(f.place) \in Seq(Reference)
      BY <2>6, ObjectAtIs DEF TypeOK
    <3>2. Len(PartsOf(f.place)) \in Nat
      BY <3>1
    <3>3. e.next <= Len(PartsOf(e.place)) + 1 /\ e.next - 1 = f.next
      BY <2>5, <2>6, <2>14, <3>2
    <3>. QED
      BY <2>12, <2>13, <2>14, <3>3 DEF Walks
  <2>17. PICK s2 : s2 = <<e>> \o Tail(t)
    OBVIOUS
  <2>18. Walking(m, s2, p)
    BY <2>1, <2>2, <2>14, <2>15, <2>16, <2>17, WalkReplaced
  <2>19. stack'[i] = s2 /\ \A j \in Items \ {i} : stack'[j] = stack[j]
    BY <2>9, <2>17 DEF TypeOK
  <2>. QED
    BY <1>2, <2>9, <2>18, <2>19 DEF ItemWalks
<1>. QED
  BY <1>6, <1>7

-----------------------------------------------------------------------------
(* The call that a goroutine is in.                                        *)
LEMMA TopWalks ==
  ASSUME TypeOK, NEW i \in Items, pc[i] = "visit", NEW m, IsMeshes(m),
         Walking(m, stack[i], ItemPart(i)), NEW f, f = Top(i)
  PROVE  /\ f \in CallFrame /\ f.place \in Places /\ f.next \in Nat \ {0}
         /\ Walks(m, f) /\ f = stack[i][1] /\ stack[i] \in Seq(CallFrame) /\ stack[i] # <<>>
         /\ Visited(i) = ObjectAt(f.place) /\ Visited(i).components = PartsOf(f.place)
         /\ PartsOf(f.place) \in Seq(Reference)
<1>1. PICK s \in Seq(CallFrame) : s = stack[i]
  BY DEF TypeOK
<1>2. s # <<>>
  BY <1>1 DEF TypeOK
<1>3. Len(s) \in Nat \ {0} /\ f = s[1]
  BY <1>1, <1>2, TailFacts DEF Top
<1>4. f \in CallFrame
  BY <1>3
<1>5. f.place \in Places /\ f.next \in Nat \ {0}
  BY <1>4 DEF CallFrame, Places
<1>6. Walks(m, f)
  BY <1>1, <1>3 DEF Walking
<1>7. ObjectAt(f.place) = FindObject(f.place[1], f.place[2]) /\ PartsOf(f.place) \in Seq(Reference)
  BY <1>5, ObjectAtIs DEF TypeOK
<1>8. Visited(i) = ObjectAt(f.place)
  BY <1>7 DEF Visited
<1>9. Visited(i).components = PartsOf(f.place)
  BY <1>8 DEF PartsOf
<1>. QED
  BY <1>1, <1>2, <1>3, <1>4, <1>5, <1>6, <1>7, <1>8, <1>9

LEMMA WalkInit == Init => WalkInv
  BY DEF Init, WalkInv

LEMMA FindWalks == Inv /\ WalkInv /\ (\E i \in Items : Find(i)) => WalkInv'
<1>. SUFFICES ASSUME Inv, WalkInv, NEW i \in Items, Find(i) PROVE WalkInv'
  OBVIOUS
<1>1. TypeOK /\ pc[i] = "find" /\ found[i] = EmptyBox /\ UNCHANGED <<model, found>>
  BY DEF Inv, FoundAtEnd, Find
<1>2. PICK c \in Reference : c = model.items[i]
  BY <1>1, ItemsTyped DEF TypeOK
<1>3. Part(c) \in Places /\ (Found(c) <=> IsFound(ObjectPath(c, ""), c.id))
  BY <1>1, PartIs DEF TypeOK
<1>4. ItemPart(i) = Part(c) /\ ItemFound(i) = Found(c)
  BY <1>2 DEF ItemPart, ItemFound
<1>5. \A j \in Items \ {i} : pc'[j] = pc[j] /\ stack'[j] = stack[j] /\ found'[j] = found[j]
  BY <1>1 DEF TypeOK, Find
<1>6. ASSUME NEW m, IsMeshes(m) PROVE ItemWalks(m, i, pc'[i], stack'[i], found'[i])
  <2>1. CASE Found(c)
    <3>1. pc'[i] = "visit" /\ stack'[i] = <<Call(Part(c))>>
      BY <1>1, <1>2, <1>3, <2>1 DEF Find, TypeOK, Part
    <3>2. PICK f \in CallFrame : f = Call(Part(c))
      BY <1>3, CallTyped DEF Places
    <3>3. f.place = Part(c) /\ f.next = 1 /\ f.box = {}
      BY <3>2 DEF Call, LimitBox
    <3>4. Walks(m, f)
      <4>1. PICK q : q = Part(c)
        OBVIOUS
      <4>2. PartsOf(q) \in Seq(Reference)
        BY <1>1, <1>3, <4>1, ObjectAtIs DEF TypeOK
      <4>3. Len(PartsOf(q)) \in Nat
        BY <4>2
      <4>4. MeshesUpTo(m, q, 0) = {}
        BY UpToNext
      <4>5. f.next - 1 = 0 /\ f.next <= Len(PartsOf(f.place)) + 1 /\ f.place = q
        BY <3>3, <4>1, <4>3
      <4>. QED
        BY <3>3, <4>4, <4>5 DEF Walks
    <3>5. PICK s : s = <<f>>
      OBVIOUS
    <3>6. Len(s) = 1 /\ s[1] = f /\ s # <<>>
      BY <3>5
    <3>7. Walking(m, s, Part(c))
      BY <3>3, <3>4, <3>6 DEF Walking
    <3>. QED
      BY <1>4, <2>1, <3>1, <3>2, <3>5, <3>7 DEF ItemWalks
  <2>2. CASE ~Found(c)
    <3>1. pc'[i] = "done" /\ found'[i] = EmptyBox
      BY <1>1, <1>2, <1>3, <2>2 DEF Find, TypeOK
    <3>. QED
      BY <1>4, <2>2, <3>1 DEF ItemWalks
  <2>. QED
    BY <2>1, <2>2
<1>. QED
  BY <1>1, <1>5, <1>6, OneWalks

LEMMA LeafWalks == Inv /\ WalkInv /\ (\E i \in Items : VisitLeaf(i)) => WalkInv'
<1>. SUFFICES ASSUME Inv, WalkInv, NEW i \in Items, VisitLeaf(i) PROVE WalkInv'
  OBVIOUS
<1>1. TypeOK /\ pc[i] = "visit" /\ ~HasParts(Visited(i)) /\ Return(i, LeafBox(i)) /\ model' = model
  BY DEF Inv, VisitLeaf
<1>2. PICK f : f = Top(i)
  OBVIOUS
<1>3. ASSUME NEW m, IsMeshes(m)
      PROVE  /\ \A j \in Items \ {i} : pc'[j] = pc[j] /\ stack'[j] = stack[j] /\ found'[j] = found[j]
             /\ ItemWalks(m, i, pc'[i], stack'[i], found'[i])
  <2>1. ItemFound(i) /\ Walking(m, stack[i], ItemPart(i))
    BY <1>1, <1>3 DEF WalkInv
  <2>2. f.place \in Places /\ Visited(i) = ObjectAt(f.place)
    BY <1>1, <1>2, <1>3, <2>1, TopWalks
  <2>3. LeafBox(i) = IF ObjectAt(f.place).geometry = "mesh" THEN {f.place} ELSE EmptyBox
    BY <1>2, <2>2 DEF LeafBox
  <2>4. m[f.place] = IF ObjectAt(f.place).geometry = "mesh" THEN {f.place} ELSE {}
    BY <1>1, <1>3, <2>2 DEF IsMeshes
  <2>5. LeafBox(i) = Value(m, f.place)
    BY <2>3, <2>4 DEF Value
  <2>6. PICK b : b = LeafBox(i)
    OBVIOUS
  <2>7. b = Value(m, Top(i).place) /\ Return(i, b)
    BY <1>1, <1>2, <2>5, <2>6
  <2>. QED
    BY <1>1, <1>3, <2>1, <2>7, WalkReturns
<1>4. CASE \E m : IsMeshes(m)
  <2>1. \A j \in Items \ {i} : pc'[j] = pc[j] /\ stack'[j] = stack[j] /\ found'[j] = found[j]
    BY <1>3, <1>4
  <2>. QED
    BY <1>1, <1>3, <2>1, OneWalks
<1>5. CASE ~\E m : IsMeshes(m)
  BY <1>1, <1>5, WalkSame DEF WalkInv
<1>. QED
  BY <1>4, <1>5

LEMMA EndWalks == Inv /\ WalkInv /\ (\E i \in Items : VisitEnd(i)) => WalkInv'
<1>. SUFFICES ASSUME Inv, WalkInv, NEW i \in Items, VisitEnd(i) PROVE WalkInv'
  OBVIOUS
<1>1. /\ TypeOK /\ pc[i] = "visit" /\ HasParts(Visited(i)) /\ Top(i).next > Len(Visited(i).components)
      /\ Return(i, Top(i).box) /\ model' = model
  BY DEF Inv, VisitEnd
<1>2. PICK f : f = Top(i)
  OBVIOUS
<1>3. ASSUME NEW m, IsMeshes(m)
      PROVE  /\ \A j \in Items \ {i} : pc'[j] = pc[j] /\ stack'[j] = stack[j] /\ found'[j] = found[j]
             /\ ItemWalks(m, i, pc'[i], stack'[i], found'[i])
  <2>1. ItemFound(i) /\ Walking(m, stack[i], ItemPart(i))
    BY <1>1, <1>3 DEF WalkInv
  <2>2. /\ f.place \in Places /\ f.next \in Nat \ {0} /\ Walks(m, f) /\ Visited(i) = ObjectAt(f.place)
        /\ Visited(i).components = PartsOf(f.place) /\ PartsOf(f.place) \in Seq(Reference)
    BY <1>1, <1>2, <1>3, <2>1, TopWalks
  <2>3. Len(PartsOf(f.place)) \in Nat
    BY <2>2
  <2>4. f.next - 1 = Len(PartsOf(f.place))
    BY <1>1, <1>2, <2>2, <2>3 DEF Walks
  <2>5. f.box = MeshesUpTo(m, f.place, Len(PartsOf(f.place)))
    BY <2>2, <2>4 DEF Walks
  <2>6. m[f.place] # {} /\ f.box = m[f.place]
    BY <1>1, <1>3, <2>2, <2>5 DEF IsMeshes
  <2>7. PICK b : b = f.box
    OBVIOUS
  <2>8. b = Value(m, Top(i).place) /\ Return(i, b)
    BY <1>1, <1>2, <2>6, <2>7 DEF Value
  <2>. QED
    BY <1>1, <1>3, <2>1, <2>8, WalkReturns
<1>4. CASE \E m : IsMeshes(m)
  <2>1. \A j \in Items \ {i} : pc'[j] = pc[j] /\ stack'[j] = stack[j] /\ found'[j] = found[j]
    BY <1>3, <1>4
  <2>. QED
    BY <1>1, <1>3, <2>1, OneWalks
<1>5. CASE ~\E m : IsMeshes(m)
  BY <1>1, <1>5, WalkSame DEF WalkInv
<1>. QED
  BY <1>4, <1>5

LEMMA ComponentWalks == Inv /\ WalkInv /\ (\E i \in Items : VisitComponent(i)) => WalkInv'
<1>. SUFFICES ASSUME Inv, WalkInv, NEW i \in Items, VisitComponent(i) PROVE WalkInv'
  OBVIOUS
<1>1. /\ TypeOK /\ pc[i] = "visit" /\ HasParts(Visited(i)) /\ Top(i).next <= Len(Visited(i).components)
      /\ UNCHANGED <<model, pc, found>>
  BY DEF Inv, VisitComponent
<1>2. PICK f : f = Top(i)
  OBVIOUS
<1>3. PICK s : s = stack[i]
  OBVIOUS
<1>4. PICK c : c = Component(i)
  OBVIOUS
<1>5. PICK s2 : s2 = stack'[i]
  OBVIOUS
<1>6. /\ \A j \in Items \ {i} : pc'[j] = pc[j] /\ stack'[j] = stack[j] /\ found'[j] = found[j]
      /\ \/ ~IsFound(ObjectPath(c, ""), c.id) /\ s2 = <<Skipped(f)>> \o Tail(s)
         \/ IsFound(ObjectPath(c, ""), c.id) /\ s2 = <<Call(Part(c))>> \o s
         \/ s2 = s
  <2>1. \/ /\ ~IsFound(ObjectPath(c, ""), c.id)
           /\ stack' = [stack EXCEPT ![i] = <<Skipped(f)>> \o Tail(s)]
        \/ /\ IsFound(ObjectPath(c, ""), c.id)
           /\ stack' = [stack EXCEPT ![i] = <<Call(Part(c))>> \o s]
        \/ stack' = stack
    BY <1>2, <1>3, <1>4 DEF VisitComponent, Part
  <2>2. stack \in [Items -> Seq(CallFrame)]
    BY <1>1 DEF TypeOK
  <2>. QED
    BY <1>1, <1>3, <1>5, <2>1, <2>2
<1>7. ASSUME NEW m, IsMeshes(m) PROVE ItemWalks(m, i, "visit", s2, found'[i])
  <2>1. PICK p : p = ItemPart(i)
    OBVIOUS
  <2>2. ItemFound(i) /\ Walking(m, s, p)
    BY <1>1, <1>3, <1>7, <2>1 DEF WalkInv
  <2>3. /\ f \in CallFrame /\ f.place \in Places /\ f.next \in Nat \ {0} /\ Walks(m, f)
        /\ f = s[1] /\ s \in Seq(CallFrame) /\ Visited(i) = ObjectAt(f.place)
        /\ Visited(i).components = PartsOf(f.place) /\ PartsOf(f.place) \in Seq(Reference)
    BY <1>1, <1>2, <1>3, <1>7, <2>1, <2>2, TopWalks
  <2>4. f.next <= Len(PartsOf(f.place)) /\ c = PartsOf(f.place)[f.next] /\ HasParts(ObjectAt(f.place))
    BY <1>1, <1>2, <1>4, <2>3 DEF Component
  <2>5. f.next \in 1..Len(PartsOf(f.place)) /\ Len(PartsOf(f.place)) \in Nat
    BY <2>3, <2>4
  <2>6. c \in Reference
    BY <2>3, <2>4, <2>5
  <2>7. Part(c) \in Places /\ (Found(c) <=> IsFound(ObjectPath(c, ""), c.id))
    BY <1>1, <2>6, PartIs DEF TypeOK
  <2>8. CASE ~Found(c) /\ s2 = <<Skipped(f)>> \o Tail(s)
    <3>1. PICK e : e = Skipped(f)
      OBVIOUS
    <3>2. e.place = f.place /\ e.next = f.next + 1 /\ e.box = f.box /\ e \in CallFrame
      BY <2>3, <3>1 DEF Skipped, CallFrame
    <3>3. Walks(m, e)
      <4>1. PICK n \in Nat : n = f.next - 1 /\ n + 1 = f.next
        BY <2>3
      <4>2. PICK place : place = f.place
        OBVIOUS
      <4>3. c = PartsOf(place)[n + 1]
        BY <2>4, <4>1, <4>2
      <4>4. MeshesUpTo(m, place, n + 1) = MeshesUpTo(m, place, n)
        BY <2>8, <4>3, UpToNext
      <4>5. f.box = MeshesUpTo(m, place, n)
        BY <2>3, <4>1, <4>2 DEF Walks
      <4>6. e.next - 1 = n + 1 /\ e.next <= Len(PartsOf(place)) + 1 /\ e.place = place
        BY <2>5, <3>2, <4>1, <4>2
      <4>. QED
        BY <3>2, <4>4, <4>5, <4>6 DEF Walks
    <3>4. Walking(m, s2, p)
      BY <2>2, <2>3, <2>8, <3>1, <3>2, <3>3, WalkReplaced
    <3>. QED
      BY <2>1, <2>2, <3>4 DEF ItemWalks
  <2>9. CASE Found(c) /\ s2 = <<Call(Part(c))>> \o s
    <3>1. PICK q \in Places : q = Part(c)
      BY <2>7
    <3>2. PICK e \in CallFrame : e = Call(q)
      BY CallTyped DEF Places
    <3>3. e.place = q /\ e.next = 1 /\ e.box = {}
      BY <3>2 DEF Call, LimitBox
    <3>4. Walks(m, e)
      <4>1. PartsOf(q) \in Seq(Reference)
        BY <1>1, ObjectAtIs DEF TypeOK
      <4>2. Len(PartsOf(q)) \in Nat
        BY <4>1
      <4>3. MeshesUpTo(m, q, 0) = {}
        BY UpToNext
      <4>4. e.next - 1 = 0 /\ e.next <= Len(PartsOf(e.place)) + 1
        BY <3>3, <4>2
      <4>. QED
        BY <3>3, <4>3, <4>4 DEF Walks
    <3>5. Waits(f, q)
      BY <2>4, <2>9, <3>1 DEF Waits
    <3>6. s2 = <<e>> \o s /\ Waits(s[1], q)
      BY <2>3, <2>9, <3>1, <3>2, <3>5
    <3>7. Walking(m, s2, p)
      BY <2>2, <2>3, <3>3, <3>4, <3>6, WalkPushed
    <3>. QED
      BY <2>1, <2>2, <3>7 DEF ItemWalks
  <2>10. CASE s2 = s
    BY <2>1, <2>2, <2>10 DEF ItemWalks
  <2>. QED
    BY <1>6, <2>7, <2>8, <2>9, <2>10
<1>8. pc'[i] = "visit"
  BY <1>1
<1>9. PICK at : at = pc'[i]
  OBVIOUS
<1>10. \A m : IsMeshes(m) => ItemWalks(m, i, at, s2, found'[i])
  BY <1>7, <1>8, <1>9
<1>. QED
  BY <1>1, <1>5, <1>6, <1>9, <1>10, OneWalks

LEMMA WalkStays ==
  ASSUME WalkInv, UNCHANGED <<model, pc, stack, found>>
  PROVE  WalkInv'
<1>1. SUFFICES ASSUME NEW m, IsMeshes(m)', NEW j \in Items'
               PROVE  /\ pc'[j] = "visit" => ItemFound(j)' /\ Walking(m, stack[j], ItemPart(j))'
                      /\ pc'[j] \in {"lock", "extend", "done"} =>
                           found'[j] = IF ItemFound(j)' THEN Value(m, ItemPart(j)') ELSE EmptyBox
  BY DEF WalkInv, Value
<1>2. IsMeshes(m) /\ j \in Items /\ ItemFound(j)' = ItemFound(j) /\ ItemPart(j)' = ItemPart(j)
  BY <1>1, WalkSame
<1>3. PICK s : s = stack'[j]
  OBVIOUS
<1>4. pc'[j] = "visit" => ItemFound(j) /\ Walking(m, s, ItemPart(j))
  BY <1>2, <1>3 DEF WalkInv
<1>5. pc'[j] \in {"lock", "extend", "done"} =>
        found'[j] = IF ItemFound(j) THEN Value(m, ItemPart(j)) ELSE EmptyBox
  BY <1>2 DEF WalkInv
<1>6. \A p : Walking(m, s, p)' = Walking(m, s, p)
  BY WalkSame
<1>. QED
  BY <1>2, <1>3, <1>4, <1>5, <1>6

(* A goroutine that has its box keeps it.                                  *)
LEMMA MutexWalks ==
  Inv /\ WalkInv /\ (\E i \in Items : Lock(i) \/ Extend(i)) => WalkInv'
<1>. SUFFICES ASSUME Inv, WalkInv, NEW i \in Items, Lock(i) \/ Extend(i) PROVE WalkInv'
  OBVIOUS
<1>1. /\ pc[i] \in {"lock", "extend"} /\ pc'[i] \in {"extend", "done"} /\ UNCHANGED <<model, stack, found>>
      /\ \A j \in Items \ {i} : pc'[j] = pc[j]
  BY DEF Lock, Extend, Inv, TypeOK
<1>2. PICK at : at = pc'[i]
  OBVIOUS
<1>3. \A m : IsMeshes(m) => ItemWalks(m, i, at, stack'[i], found'[i])
  BY <1>1, <1>2 DEF WalkInv, ItemWalks
<1>. QED
  BY <1>1, <1>2, <1>3, OneWalks

LEMMA WalkInductive == Inv /\ WalkInv /\ [Next]_vars => WalkInv'
<1>. SUFFICES ASSUME Inv, WalkInv, [Next]_vars PROVE WalkInv'
  OBVIOUS
<1>1. CASE Wait \/ UNCHANGED vars
  BY <1>1, WalkStays DEF Wait, vars
<1>2. CASE \E i \in Items : Step(i)
  BY <1>2, FindWalks, LeafWalks, EndWalks, ComponentWalks, MutexWalks DEF Step
<1>. QED
  BY <1>1, <1>2 DEF Next

LEMMA ReturnedExact == Inv /\ WalkInv => RegularBoxIsExact
<1>. SUFFICES ASSUME Inv, WalkInv, phase = "returned", model.items # <<>>, PathsGiven, PartsHaveMeshes
              PROVE  box = BuiltMeshes
  BY DEF RegularBoxIsExact
<1>1. model \in Model /\ \A i \in Items : pc[i] = "done"
  BY DEF Inv, TypeOK, AllDone
<1>2. PICK m : m = [p \in Places |-> MeshesOf(p)] /\ IsMeshes(m)
  BY <1>1, MeshesAre
<1>3. box = UNION {Placed(i) : i \in {j \in Items : found[j] # EmptyBox}}
  BY <1>1 DEF Inv, BoxOfMerged, Merged
<1>4. ASSUME NEW i \in Items
      PROVE  /\ ItemPart(i) \in Places /\ ItemPart(i) = Place(ObjectPath(model.items[i], ""), model.items[i].id)
             /\ ItemFound(i) <=> ItemValid(model.items[i])
             /\ found[i] = IF ItemFound(i) THEN Value(m, ItemPart(i)) ELSE EmptyBox
  <2>1. model.items[i] \in Reference
    BY <1>1, ItemsTyped
  <2>2. ItemPart(i) \in Places /\ (ItemFound(i) <=> ItemValid(model.items[i]))
    BY <1>1, <2>1, PartIs DEF ItemPart, ItemFound, ItemValid
  <2>3. found[i] = IF ItemFound(i) THEN Value(m, ItemPart(i)) ELSE EmptyBox
    BY <1>1, <1>2 DEF WalkInv
  <2>. QED
    BY <2>2, <2>3 DEF ItemPart, Part
<1>5. ASSUME NEW x \in box PROVE x \in BuiltMeshes
  <2>1. PICK i \in Items : found[i] # EmptyBox /\ x \in Placed(i)
    BY <1>3, <1>5
  <2>2. ItemFound(i) /\ found[i] = m[ItemPart(i)] /\ found[i] # {}
    BY <1>4, <2>1 DEF Value
  <2>3. x \in MeshesOf(ItemPart(i))
    BY <1>2, <1>4, <2>1, <2>2 DEF Placed, MulBox, LimitBox
  <2>4. ItemPart(i) \in ItemPlaces
    BY <1>4, <2>2 DEF ItemPlaces
  <2>. QED
    BY <2>3, <2>4 DEF BuiltMeshes
<1>6. ASSUME NEW x \in BuiltMeshes PROVE x \in box
  <2>1. PICK i \in Items : ItemValid(model.items[i]) /\ x \in MeshesOf(ItemPart(i))
    BY <1>4, <1>6 DEF BuiltMeshes, ItemPlaces
  <2>2. ItemFound(i) /\ ItemPart(i) \in Places /\ x \in m[ItemPart(i)]
    BY <1>2, <1>4, <2>1
  <2>3. m[ItemPart(i)] # EmptyBox
    BY <1>2, <2>2, NotEmptyBox
  <2>4. found[i] = m[ItemPart(i)] /\ found[i] # {}
    BY <1>4, <2>2 DEF Value
  <2>5. Placed(i) = found[i]
    BY <2>4 DEF Placed, MulBox, LimitBox
  <2>. QED
    BY <1>3, <2>2, <2>3, <2>4, <2>5
<1>. QED
  BY <1>5, <1>6

(***************************************************************************)
(* The box of objects that name the parts they refer to and that come to   *)
(* meshes encloses the meshes of the build, no more and no less, however   *)
(* deep the objects are nested (core.go:235-260, 405-432).                 *)
(***************************************************************************)
THEOREM RegularBoxAlwaysExact == Spec => []RegularBoxIsExact
<1>1. Init => Inv /\ WalkInv
  BY InvInit, WalkInit
<1>2. Inv /\ WalkInv /\ [Next]_vars => (Inv /\ WalkInv)'
  BY InvInductive, WalkInductive
<1>3. Inv /\ WalkInv => RegularBoxIsExact
  BY ReturnedExact
<1>. QED
  BY <1>1, <1>2, <1>3, PTL DEF Spec

-----------------------------------------------------------------------------
(***************************************************************************)
(* The walk of the slices extension: r[p] is what is reached from p.       *)
(***************************************************************************)
IsReach(r) ==
  \A p \in Places :
    /\ p \in r[p] /\ r[p] \subseteq Places
    /\ \A q \in Places : Refers(p, q) => q \in r[p] /\ p \notin r[q]
    /\ \A q \in r[p] : /\ r[q] \subseteq r[p]
                       /\ q = p \/ \E o \in Places : Refers(p, o) /\ q \in r[o]

Regular(r) == IsReach(r) /\ GeometryOrParts /\ PathsOfTarget /\ NoNamesakes

There(ref) == ObjectAt(Leads(ref)) # NoObject

(* Nothing that p is made of refers to the target with a transform.        *)
Straight(r, p) == \A q \in r[p] : \A k \in 1..Len(PartsOf(q)) : ~Tilts(PartsOf(q)[k])

StraightRef(r, ref) == ~Tilts(ref) /\ (There(ref) => Straight(r, Leads(ref)))

TransformCall == [place : Places, next : Nat \ {0}]

(* A call has accepted the components before its next one, ...             *)
Checked(r, f) ==
  /\ f.next <= Len(PartsOf(f.place)) + 1
  /\ \A k \in 1..(f.next - 1) : StraightRef(r, PartsOf(f.place)[k])

(* ... but the last of them, while it waits for the call for that one.     *)
Pending(r, f, q) ==
  /\ f.next - 1 \in 1..Len(PartsOf(f.place))
  /\ \A k \in 1..(f.next - 2) : StraightRef(r, PartsOf(f.place)[k])
  /\ ~Tilts(PartsOf(f.place)[f.next - 1]) /\ There(PartsOf(f.place)[f.next - 1])
  /\ Leads(PartsOf(f.place)[f.next - 1]) = q

Line(r, s, p) ==
  /\ s # <<>> /\ s[Len(s)].place = p
  /\ \A k \in 2..Len(s) : Pending(r, s[k], s[k - 1].place)
  /\ \A k \in 1..Len(s) : \A j \in 1..k : s[j].place \in r[s[k].place]

Tilted(r) == \E i \in Items : ~StraightRef(r, model.items[i])

TransformsAt(r, v, i, s) ==
  /\ v # "overflow"
  /\ v = "refused" => Tilted(r)
  /\ v = "planar" => ~Tilted(r)
  /\ v = "running" =>
       /\ \A j \in Items : j < i => StraightRef(r, model.items[j])
       /\ s # <<>> => /\ i \in Items /\ ~Tilts(model.items[i]) /\ There(model.items[i])
                      /\ Line(r, s, Leads(model.items[i])) /\ Checked(r, s[1])

TransformInv == \A r : Regular(r) /\ verdict # "none" => TransformsAt(r, verdict, item, calls)

SliceTyped ==
  /\ verdict \in {"none", "running", "planar", "refused", "overflow"}
  /\ calls \in Seq(TransformCall)
  /\ verdict = "none" => calls = <<>>
  /\ verdict # "none" => phase = "returned" /\ target \in Places /\ item \in Nat \ {0}

LEMMA ReachOrders == Acyclic => IsReach([p \in Places |-> Reach(p)])
<1>. SUFFICES ASSUME Acyclic PROVE IsReach([p \in Places |-> Reach(p)])
  OBVIOUS
<1>1. PICK r : r = [p \in Places |-> Reach(p)]
  OBVIOUS
<1>2. ASSUME NEW p \in Places
      PROVE  /\ p \in r[p] /\ r[p] \subseteq Places
             /\ \A q \in Places : Refers(p, q) => q \in r[p] /\ p \notin r[q]
             /\ \A q \in r[p] : /\ r[q] \subseteq r[p]
                                /\ q = p \/ \E o \in Places : Refers(p, o) /\ q \in r[o]
  <2>1. r[p] = Reach(p) /\ \A q \in Places : r[q] = Reach(q)
    BY <1>1
  <2>2. p \in Reach(p) /\ Reach(p) \subseteq Places
    BY ReachIs
  <2>3. \A q \in Places : Refers(p, q) => q \in Reach(p) /\ p \notin Reach(q)
    BY ReachFrom DEF Acyclic
  <2>4. \A q \in Reach(p) : /\ Reach(q) \subseteq Reach(p)
                            /\ q = p \/ \E o \in Places : Refers(p, o) /\ q \in Reach(o)
    BY ReachFrom
  <2>. QED
    BY <2>1, <2>2, <2>3, <2>4
<1>. QED
  BY <1>1, <1>2 DEF IsReach

(* Where the walk and Validate take a reference to lead.                   *)
LEMMA LeadsTyped ==
  ASSUME target \in Places, NEW ref \in Reference
  PROVE  /\ Leads(ref) \in Places /\ Place(Leads(ref)[1], ref.id) = Leads(ref)
         /\ There(ref) <=> IsFound(Leads(ref)[1], ref.id)
         /\ Leads(ref)[2] = ref.id
<1>1. ref.path \in Paths /\ ref.id \in IDs /\ target[1] \in Parts
  BY DEF Reference, Places
<1>2. ObjectPath(ref, target[1]) \in Parts
  BY <1>1 DEF ObjectPath, Paths
<1>3. FindResources(ObjectPath(ref, target[1])) = ObjectPath(ref, target[1])
  BY <1>2, ObjectGraphAssumption DEF FindResources, Parts
<1>4. Leads(ref) \in Places
  BY <1>1, <1>2 DEF Leads, Places
<1>5. Leads(ref)[1] = ObjectPath(ref, target[1]) /\ Leads(ref)[2] = ref.id
  BY DEF Leads
<1>6. Place(Leads(ref)[1], ref.id) = Leads(ref)
  BY <1>3, <1>5 DEF Place, Leads
<1>7. There(ref) <=> IsFound(Leads(ref)[1], ref.id)
  BY <1>3, <1>5 DEF There, IsFound, FindObject, ObjectAt
<1>. QED
  BY <1>4, <1>5, <1>6, <1>7

LEMMA ComponentsIs ==
  ASSUME model \in Model, NEW p \in Places
  PROVE  /\ Components(p) = PartsOf(p) /\ PartsOf(p) \in Seq(Reference)
         /\ Len(PartsOf(p)) \in Nat /\ DOMAIN Components(p) = 1..Len(PartsOf(p))
         /\ GeometryOrParts /\ PartsOf(p) # <<>> => HasParts(ObjectAt(p))
<1>1. ObjectAt(p) = FindObject(p[1], p[2]) /\ PartsOf(p) \in Seq(Reference)
  BY ObjectAtIs
<1>2. Components(p) = PartsOf(p)
  BY <1>1 DEF Components, PartsOf
<1>3. PICK s \in Seq(Reference) : s = PartsOf(p)
  BY <1>1
<1>4. Len(s) \in Nat /\ DOMAIN s = 1..Len(s)
  OBVIOUS
<1>5. GeometryOrParts /\ PartsOf(p) # <<>> => HasParts(ObjectAt(p))
  BY <1>1, <1>2 DEF GeometryOrParts, HasParts, PartsOf
<1>. QED
  BY <1>2, <1>3, <1>4, <1>5

LEMMA RefersLeads ==
  ASSUME model \in Model, target \in Places, GeometryOrParts, PathsOfTarget, NEW p \in Places, NEW q \in Places
  PROVE  Refers(p, q) <=> \E k \in 1..Len(PartsOf(p)) : q = Leads(PartsOf(p)[k]) /\ There(PartsOf(p)[k])
<1>1. PICK s \in Seq(Reference) : s = PartsOf(p) /\ s = Components(p) /\ DOMAIN s = 1..Len(s)
  BY ComponentsIs
<1>2. ASSUME NEW k \in 1..Len(s) PROVE Place(ObjectPath(s[k], p[1]), s[k].id) = Leads(s[k])
  <2>1. p[1] = target[1] \/ s[k].path # ""
    BY <1>1, <1>2 DEF PathsOfTarget
  <2>2. ObjectPath(s[k], p[1]) = ObjectPath(s[k], target[1])
    BY <2>1 DEF ObjectPath
  <2>3. ObjectPath(s[k], p[1]) = Leads(s[k])[1]
    BY <2>2 DEF Leads
  <2>4. s[k] \in Reference
    OBVIOUS
  <2>. QED
    BY <2>3, <2>4, LeadsTyped
<1>3. Refers(p, q) <=> /\ HasParts(ObjectAt(p))
                       /\ \E k \in 1..Len(s) : q = Place(ObjectPath(s[k], p[1]), s[k].id)
                       /\ ObjectAt(q) # NoObject
  BY <1>1 DEF Refers, ObjectAt, PartsOf
<1>4. (\E k \in 1..Len(s) : TRUE) => HasParts(ObjectAt(p))
  <2>1. (\E k \in 1..Len(s) : TRUE) => s # <<>>
    OBVIOUS
  <2>. QED
    BY <1>1, <2>1, ComponentsIs
<1>. QED
  BY <1>1, <1>2, <1>3, <1>4 DEF There

LEMMA ItemLeads ==
  ASSUME model \in Model, target \in Places, PathsOfTarget, NEW i \in Items
  PROVE  /\ model.items[i] \in Reference /\ Leads(model.items[i]) \in Places
         /\ Leads(model.items[i]) = Place(ObjectPath(model.items[i], ""), model.items[i].id)
         /\ There(model.items[i]) <=> ItemValid(model.items[i])
<1>1. PICK ref \in Reference : ref = model.items[i]
  BY ItemsTyped
<1>2. ref.path # "" \/ target[1] = RootPath
  BY <1>1 DEF PathsOfTarget
<1>3. FindResources(ObjectPath(ref, "")) = FindResources(ObjectPath(ref, target[1]))
  BY <1>2, ObjectGraphAssumption DEF FindResources, ObjectPath
<1>4. Leads(ref) = Place(ObjectPath(ref, ""), ref.id)
  BY <1>3, LeadsTyped DEF Place, Leads
<1>5. There(ref) <=> IsFound(ObjectPath(ref, ""), ref.id)
  BY <1>3, LeadsTyped DEF IsFound, FindObject, Leads
<1>. QED
  BY <1>1, <1>4, <1>5, LeadsTyped DEF ItemValid

(* What an object is made of does not lead back to it.                     *)
LEMMA StraightFrom ==
  ASSUME model \in Model, target \in Places, NEW r, Regular(r), NEW p \in Places,
         \A k \in 1..Len(PartsOf(p)) : StraightRef(r, PartsOf(p)[k])
  PROVE  Straight(r, p)
<1>1. SUFFICES ASSUME NEW q \in r[p], NEW k \in 1..Len(PartsOf(q)) PROVE ~Tilts(PartsOf(q)[k])
  BY DEF Straight
<1>2. CASE q = p
  BY <1>1, <1>2 DEF StraightRef
<1>3. CASE q # p
  <2>1. PICK o \in Places : Refers(p, o) /\ q \in r[o]
    BY <1>1, <1>3 DEF Regular, IsReach
  <2>2. PICK n \in 1..Len(PartsOf(p)) : o = Leads(PartsOf(p)[n]) /\ There(PartsOf(p)[n])
    BY <2>1, RefersLeads DEF Regular
  <2>3. Straight(r, o)
    BY <2>2 DEF StraightRef
  <2>. QED
    BY <1>1, <2>1, <2>3 DEF Straight
<1>. QED
  BY <1>2, <1>3

LEMMA LineReplaced ==
  ASSUME NEW r, NEW s \in Seq(TransformCall), NEW p, Line(r, s, p), NEW f \in TransformCall,
         f.place = s[1].place, NEW s2, s2 = <<f>> \o Tail(s)
  PROVE  Line(r, s2, p) /\ s2 \in Seq(TransformCall) /\ s2[1] = f
<1>1. s # <<>>
  BY DEF Line
<1>2. PICK t \in Seq(TransformCall) : t = Tail(s)
  BY <1>1, TailFacts
<1>3. /\ Len(t) = Len(s) - 1 /\ Len(s) \in Nat \ {0}
      /\ \A k \in 1..(Len(s) - 1) : t[k] = s[k + 1]
  BY <1>1, <1>2, TailFacts
<1>4. /\ s2 \in Seq(TransformCall) /\ Len(s2) = Len(s) /\ s2[1] = f
      /\ \A k \in 1..Len(t) : s2[k + 1] = t[k]
  BY <1>2, <1>3, PushFacts
<1>5. ASSUME NEW k \in 2..Len(s) PROVE s2[k] = s[k]
  <2>1. k - 1 \in 1..Len(t) /\ k - 1 \in 1..(Len(s) - 1) /\ (k - 1) + 1 = k
    BY <1>3
  <2>. QED
    BY <1>3, <1>4, <2>1
<1>6. \A k \in 1..Len(s) : s2[k].place = s[k].place
  <2>1. \A k \in 1..Len(s) : k = 1 \/ k \in 2..Len(s)
    BY <1>3
  <2>. QED
    BY <1>4, <1>5, <2>1
<1>7. ASSUME NEW k \in 2..Len(s2) PROVE Pending(r, s2[k], s2[k - 1].place)
  <2>1. k \in 2..Len(s) /\ k - 1 \in 1..Len(s)
    BY <1>3, <1>4
  <2>. QED
    BY <1>5, <1>6, <2>1 DEF Line
<1>8. s2 # <<>> /\ s2[Len(s2)].place = p
  <2>1. Len(s) \in 1..Len(s)
    BY <1>3
  <2>2. s2 # <<>>
    BY <1>3, <1>4
  <2>. QED
    BY <1>4, <1>6, <2>1, <2>2 DEF Line
<1>9. ASSUME NEW k \in 1..Len(s2), NEW j \in 1..k PROVE s2[j].place \in r[s2[k].place]
  <2>1. k \in 1..Len(s) /\ j \in 1..Len(s)
    BY <1>3, <1>4
  <2>. QED
    BY <1>6, <2>1 DEF Line
<1>. QED
  BY <1>4, <1>7, <1>8, <1>9 DEF Line

LEMMA LinePopped ==
  ASSUME NEW r, NEW s \in Seq(TransformCall), NEW p, Line(r, s, p), Tail(s) # <<>>,
         NEW t, t = Tail(s)
  PROVE  /\ t \in Seq(TransformCall) /\ t # <<>> /\ Line(r, t, p)
         /\ t[1] \in TransformCall /\ Pending(r, t[1], s[1].place)
<1>1. s # <<>>
  BY DEF Line
<1>2. /\ t \in Seq(TransformCall) /\ Len(t) = Len(s) - 1 /\ Len(s) \in Nat \ {0}
      /\ \A k \in 1..(Len(s) - 1) : t[k] = s[k + 1]
  BY <1>1, TailFacts
<1>3. Len(s) # 1
  BY <1>1, TailFacts
<1>4. \A k \in 1..Len(t) : k + 1 \in 1..Len(s) /\ k + 1 \in 2..Len(s) /\ t[k] = s[k + 1]
  BY <1>2
<1>5. ASSUME NEW k \in 2..Len(t) PROVE Pending(r, t[k], t[k - 1].place)
  <2>1. k \in 1..Len(t) /\ k - 1 \in 1..Len(t) /\ (k - 1) + 1 = k /\ (k + 1) - 1 = k
    BY <1>2
  <2>2. k + 1 \in 2..Len(s) /\ t[k] = s[k + 1] /\ t[k - 1] = s[k]
    BY <1>4, <2>1
  <2>. QED
    BY <2>1, <2>2 DEF Line
<1>6. 1 \in 1..Len(t) /\ t[1] = s[2] /\ 2 \in 2..Len(s) /\ 2 - 1 = 1
  BY <1>2, <1>3
<1>7. t[Len(t)] = s[Len(s)]
  BY <1>2, <1>3
<1>8. ASSUME NEW k \in 1..Len(t), NEW j \in 1..k PROVE t[j].place \in r[t[k].place]
  <2>1. k + 1 \in 1..Len(s) /\ j + 1 \in 1..(k + 1) /\ j \in 1..Len(t)
    BY <1>2
  <2>2. t[k] = s[k + 1] /\ t[j] = s[j + 1]
    BY <1>4, <2>1
  <2>. QED
    BY <2>1, <2>2 DEF Line
<1>. QED
  BY <1>2, <1>5, <1>6, <1>7, <1>8 DEF Line

(* Everything in line leads to what the innermost call refers to.          *)
LEMMA LineLeads ==
  ASSUME model \in Model, target \in Places, NEW r, Regular(r),
         NEW s \in Seq(TransformCall), NEW p, Line(r, s, p), NEW q \in Places, Pending(r, s[1], q)
  PROVE  \A k \in 1..Len(s) : s[k].place \in Places /\ q \in r[s[k].place] /\ q # s[k].place
<1>1. s # <<>>
  BY DEF Line
<1>2. Len(s) \in Nat \ {0}
  BY <1>1, TailFacts
<1>3. PICK a \in Places : a = s[1].place
  <2>1. s[1] \in TransformCall
    BY <1>2
  <2>. QED
    BY <2>1 DEF TransformCall
<1>4. Refers(a, q)
  BY <1>3, RefersLeads DEF Pending, Regular
<1>5. q \in r[a] /\ a \notin r[q]
  BY <1>4 DEF Regular, IsReach
<1>6. ASSUME NEW k \in 1..Len(s) PROVE s[k].place \in Places /\ q \in r[s[k].place] /\ q # s[k].place
  <2>1. s[k] \in TransformCall
    OBVIOUS
  <2>2. PICK b \in Places : b = s[k].place
    BY <2>1 DEF TransformCall
  <2>3. 1 \in 1..k
    BY <1>2
  <2>4. a \in r[b]
    BY <1>3, <2>2, <2>3 DEF Line
  <2>5. r[a] \subseteq r[b]
    BY <2>4 DEF Regular, IsReach
  <2>. QED
    BY <1>5, <2>2, <2>4, <2>5
<1>. QED
  BY <1>6

LEMMA LinePushed ==
  ASSUME model \in Model, target \in Places, NEW r, Regular(r),
         NEW s \in Seq(TransformCall), NEW p, Line(r, s, p), NEW q \in Places, Pending(r, s[1], q),
         NEW g \in TransformCall, g.place = q, NEW s2, s2 = <<g>> \o s
  PROVE  Line(r, s2, p) /\ s2 \in Seq(TransformCall) /\ s2[1] = g
<1>1. s # <<>>
  BY DEF Line
<1>2. Len(s) \in Nat \ {0}
  BY <1>1, TailFacts
<1>3. /\ Len(s2) = Len(s) + 1 /\ s2[1] = g /\ s2 \in Seq(TransformCall)
      /\ \A k \in 1..Len(s) : s2[k + 1] = s[k]
  BY PushFacts
<1>4. ASSUME NEW k \in 1..Len(s2) PROVE k = 1 \/ (k - 1 \in 1..Len(s) /\ s2[k] = s[k - 1])
  <2>1. CASE k = 1
    BY <2>1
  <2>2. CASE k # 1
    <3>1. k - 1 \in 1..Len(s) /\ (k - 1) + 1 = k
      BY <1>2, <1>3, <2>2
    <3>. QED
      BY <1>3, <3>1
  <2>. QED
    BY <2>1, <2>2
<1>5. s2 # <<>> /\ s2[Len(s2)].place = p
  <2>1. s2[Len(s2)] = s[Len(s)]
    BY <1>2, <1>3
  <2>2. s2 # <<>>
    BY <1>2, <1>3
  <2>. QED
    BY <2>1, <2>2 DEF Line
<1>6. ASSUME NEW k \in 2..Len(s2) PROVE Pending(r, s2[k], s2[k - 1].place)
  <2>1. k \in 1..Len(s2) /\ k - 1 \in 1..Len(s2)
    BY <1>2, <1>3
  <2>2. CASE k = 2
    <3>1. s2[2] = s[1] /\ s2[1] = g
      BY <1>2, <1>3
    <3>. QED
      BY <2>2, <3>1
  <2>3. CASE k # 2
    <3>1. k - 1 \in 2..Len(s) /\ s2[k] = s[k - 1]
      BY <1>2, <1>3, <1>4, <2>1, <2>3
    <3>2. (k - 1) - 1 \in 1..Len(s) /\ s2[k - 1] = s[(k - 1) - 1]
      BY <1>2, <1>3, <1>4, <2>1, <2>3
    <3>. QED
      BY <3>1, <3>2 DEF Line
  <2>. QED
    BY <2>2, <2>3
<1>7. \A k \in 1..Len(s) : q \in r[s[k].place]
  BY LineLeads
<1>8. q \in r[q]
  BY DEF Regular, IsReach
<1>9. ASSUME NEW k \in 1..Len(s2), NEW j \in 1..k PROVE s2[j].place \in r[s2[k].place]
  <2>1. j \in 1..Len(s2)
    BY <1>2, <1>3
  <2>2. CASE k = 1
    <3>1. j = 1
      BY <2>2
    <3>. QED
      BY <1>3, <1>8, <2>2, <3>1
  <2>3. CASE k # 1 /\ j = 1
    BY <1>3, <1>4, <1>7, <2>3
  <2>4. CASE k # 1 /\ j # 1
    <3>1. /\ k - 1 \in 1..Len(s) /\ s2[k] = s[k - 1] /\ s2[j] = s[j - 1]
          /\ j - 1 \in 1..Len(s)
      BY <1>4, <2>1, <2>4
    <3>2. j - 1 \in 1..(k - 1)
      BY <3>1
    <3>. QED
      BY <3>1, <3>2 DEF Line
  <2>. QED
    BY <2>2, <2>3, <2>4
<1>. QED
  BY <1>3, <1>5, <1>6, <1>9 DEF Line

LEMMA LineStarts ==
  ASSUME NEW r, IsReach(r), NEW q \in Places, NEW g, g = [place |-> q, next |-> 1], NEW s, s = <<g>>
  PROVE  Line(r, s, q) /\ s \in Seq(TransformCall) /\ s[1] = g
<1>1. g \in TransformCall /\ g.place = q
  BY DEF TransformCall
<1>2. Len(s) = 1 /\ s[1] = g /\ s # <<>> /\ s \in Seq(TransformCall)
  BY <1>1
<1>3. q \in r[q]
  BY DEF IsReach
<1>. QED
  BY <1>1, <1>2, <1>3 DEF Line

LEMMA CheckedStarts ==
  ASSUME model \in Model, NEW r, NEW q \in Places, NEW g, g = [place |-> q, next |-> 1]
  PROVE  Checked(r, g)
<1>1. Len(PartsOf(q)) \in Nat
  BY ComponentsIs
<1>2. g.place = q /\ g.next = 1
  OBVIOUS
<1>3. g.next <= Len(PartsOf(g.place)) + 1
  BY <1>1, <1>2
<1>4. 1..(g.next - 1) = {}
  BY <1>2
<1>. QED
  BY <1>3, <1>4 DEF Checked

-----------------------------------------------------------------------------
(* What a step does to a walk, when the model and the target stay.         *)
LEMMA TransformSame ==
  ASSUME model' = model, target' = target
  PROVE  /\ \A r : Regular(r)' = Regular(r)
         /\ \A r, v, i, s : TransformsAt(r, v, i, s)' = TransformsAt(r, v, i, s)
<1>1. /\ \A p : ObjectAt(p)' = ObjectAt(p) /\ PartsOf(p)' = PartsOf(p) /\ Components(p)' = Components(p)
      /\ Items' = Items
  BY DEF ObjectAt, PartsOf, Components, FindObject, Items
<1>2. \A ref : Leads(ref)' = Leads(ref) /\ Tilts(ref)' = Tilts(ref)
  BY DEF Leads, Tilts
<1>3. \A ref : There(ref)' = There(ref)
  BY <1>1, <1>2 DEF There
<1>4. \A r, p : Straight(r, p)' = Straight(r, p)
  BY <1>1, <1>2 DEF Straight
<1>5. \A r, ref : StraightRef(r, ref)' = StraightRef(r, ref)
  BY <1>2, <1>3, <1>4 DEF StraightRef
<1>6. \A r, f : Checked(r, f)' = Checked(r, f)
  BY <1>1, <1>5 DEF Checked
<1>7. \A r, f, q : Pending(r, f, q)' = Pending(r, f, q)
  BY <1>1, <1>2, <1>3, <1>5 DEF Pending
<1>8. \A r, s, p : Line(r, s, p)' = Line(r, s, p)
  BY <1>7 DEF Line
<1>9. \A r : Tilted(r)' = Tilted(r)
  BY <1>1, <1>5 DEF Tilted
<1>10. \A r, v, i, s : TransformsAt(r, v, i, s)' = TransformsAt(r, v, i, s)
  BY <1>1, <1>2, <1>3, <1>5, <1>6, <1>8, <1>9 DEF TransformsAt
<1>11. \A p, q : Refers(p, q)' = Refers(p, q)
  BY DEF Refers
<1>12. \A r : IsReach(r)' = IsReach(r)
  BY <1>11 DEF IsReach
<1>13. GeometryOrParts' = GeometryOrParts /\ PathsOfTarget' = PathsOfTarget /\ NoNamesakes' = NoNamesakes
  BY <1>1, <1>2 DEF GeometryOrParts, PathsOfTarget, NoNamesakes, FindObject
<1>. QED
  BY <1>10, <1>12, <1>13 DEF Regular

LEMMA TransformStep ==
  ASSUME SliceTyped, TransformInv, verdict = "running", model' = model, target' = target,
         phase' = phase, verdict' \in {"running", "refused", "planar", "overflow"},
         calls' \in Seq(TransformCall), item' \in Nat \ {0},
         NEW v, v = verdict', NEW i, i = item', NEW s, s = calls',
         \A r : Regular(r) /\ TransformsAt(r, "running", item, calls) => TransformsAt(r, v, i, s)
  PROVE  SliceTyped' /\ TransformInv'
<1>1. SliceTyped'
  BY DEF SliceTyped
<1>2. ASSUME NEW r, Regular(r)' PROVE TransformsAt(r, verdict, item, calls)'
  <2>1. TransformsAt(r, v, i, s)
    BY <1>2, TransformSame DEF TransformInv
  <2>2. TransformsAt(r, v, i, s)'
    BY <2>1, TransformSame
  <2>. QED
    BY <2>2 DEF TransformsAt, Tilted
<1>. QED
  BY <1>1, <1>2 DEF TransformInv

(* The object of a reference is visited, unless it is not found.           *)
LEMMA VisitIs ==
  ASSUME target \in Places, NEW ref \in Reference, NEW waiting, Visit(ref, waiting),
         NEW g, g = [place |-> Leads(ref), next |-> 1]
  PROVE  /\ There(ref) => /\ calls' = <<g>> \o waiting
                          /\ verdict' = IF InCall(Leads(ref)) THEN "overflow" ELSE verdict
         /\ ~There(ref) => calls' = waiting /\ verdict' = verdict
<1>1. PICK p \in Places : p = Leads(ref)
  BY LeadsTyped
<1>2. Place(p[1], ref.id) = p /\ p[2] = ref.id /\ (There(ref) <=> IsFound(p[1], ref.id))
  BY <1>1, LeadsTyped
<1>3. /\ verdict' = IF IsFound(p[1], p[2]) /\ InCall(p) THEN "overflow" ELSE verdict
      /\ calls' = IF IsFound(p[1], p[2]) THEN <<[place |-> p, next |-> 1]>> \o waiting ELSE waiting
  BY <1>1, <1>2 DEF Visit
<1>. QED
  BY <1>1, <1>2, <1>3

LEMMA ItemStep ==
  ASSUME Inv, SliceTyped, TransformInv, CheckItem
  PROVE  SliceTyped' /\ TransformInv'
<1>1. /\ verdict = "running" /\ calls = <<>> /\ item \in Items /\ UNCHANGED <<vars, target>>
      /\ model \in Model /\ target \in Places /\ item \in Nat \ {0}
  BY DEF CheckItem, SliceTyped, Inv, TypeOK
<1>2. model' = model /\ target' = target /\ phase' = phase
  BY <1>1 DEF vars
<1>3. PICK ref \in Reference : ref = model.items[item]
  BY <1>1, ItemsTyped
<1>4. PICK g : g = [place |-> Leads(ref), next |-> 1]
  OBVIOUS
<1>5. PICK s : s = calls'
  OBVIOUS
<1>6. PICK v : v = verdict'
  OBVIOUS
<1>7. PICK i : i = item'
  OBVIOUS
<1>8. \/ Tilts(ref) /\ v = "refused" /\ s = <<>> /\ i = item
      \/ ~Tilts(ref) /\ There(ref) /\ s = <<g>> /\ v = "running" /\ i = item
      \/ ~Tilts(ref) /\ ~There(ref) /\ s = <<>> /\ v = "running" /\ i = item + 1
  <2>1. CASE Tilts(ref) /\ Refuse
    BY <1>1, <1>5, <1>6, <1>7, <2>1 DEF Refuse
  <2>2. CASE ~Tilts(ref) /\ Visit(ref, <<>>) /\ item' = IF calls' = <<>> THEN item + 1 ELSE item
    <3>1. ~InCall(Leads(ref))
      BY <1>1 DEF InCall
    <3>2. <<g>> \o <<>> = <<g>> /\ <<g>> # <<>>
      OBVIOUS
    <3>3. /\ There(ref) => calls' = <<g>> /\ verdict' = verdict
          /\ ~There(ref) => calls' = <<>> /\ verdict' = verdict
      BY <1>1, <1>4, <2>2, <3>1, <3>2, VisitIs
    <3>. QED
      BY <1>1, <1>5, <1>6, <1>7, <2>2, <3>2, <3>3
  <2>. QED
    BY <1>3, <2>1, <2>2 DEF CheckItem
<1>9. s \in Seq(TransformCall) /\ i \in Nat \ {0}
  <2>1. g \in TransformCall
    BY <1>1, <1>4, LeadsTyped DEF TransformCall
  <2>2. <<g>> \in Seq(TransformCall) /\ <<>> \in Seq(TransformCall)
    BY <2>1
  <2>3. s \in Seq(TransformCall)
    BY <1>8, <2>2
  <2>4. i \in Nat \ {0}
    BY <1>1, <1>8
  <2>. QED
    BY <2>3, <2>4
<1>10. ASSUME NEW r, Regular(r), TransformsAt(r, "running", item, calls)
       PROVE  TransformsAt(r, v, i, s)
  <2>1. \A j \in Items : j < item => StraightRef(r, model.items[j])
    BY <1>10 DEF TransformsAt
  <2>2. CASE Tilts(ref) /\ v = "refused"
    BY <1>1, <1>3, <2>2 DEF TransformsAt, Tilted, StraightRef
  <2>3. CASE ~Tilts(ref) /\ There(ref) /\ s = <<g>> /\ v = "running" /\ i = item
    <3>1. PICK q \in Places : q = Leads(ref)
      BY <1>1, LeadsTyped
    <3>2. Line(r, s, q) /\ s[1] = g
      BY <1>4, <1>10, <2>3, <3>1, LineStarts DEF Regular
    <3>3. Checked(r, g)
      BY <1>1, <1>4, <3>1, CheckedStarts
    <3>. QED
      BY <1>1, <1>3, <2>1, <2>3, <3>1, <3>2, <3>3 DEF TransformsAt
  <2>4. CASE ~Tilts(ref) /\ ~There(ref) /\ s = <<>> /\ v = "running" /\ i = item + 1
    <3>1. StraightRef(r, ref)
      BY <2>4 DEF StraightRef
    <3>2. ASSUME NEW j \in Items, j < i PROVE StraightRef(r, model.items[j])
      <4>1. j \in Nat /\ (j < item \/ j = item)
        BY <1>1, <2>4, <3>2 DEF Items
      <4>. QED
        BY <1>3, <2>1, <3>1, <4>1
    <3>. QED
      BY <2>4, <3>2 DEF TransformsAt
  <2>. QED
    BY <1>8, <2>2, <2>3, <2>4
<1>. QED
  BY <1>1, <1>2, <1>5, <1>6, <1>7, <1>8, <1>9, <1>10, TransformStep

(* The loop goes on when an object has been gone through.                  *)
LEMMA ReturnStep ==
  ASSUME Inv, SliceTyped, TransformInv, verdict = "running", calls # <<>>, ReturnTrue,
         UNCHANGED <<vars, target>>,
         \A r : Regular(r) => Straight(r, Head(calls).place)
  PROVE  SliceTyped' /\ TransformInv'
<1>1. /\ model' = model /\ target' = target /\ phase' = phase /\ verdict' = "running"
      /\ model \in Model /\ target \in Places /\ item \in Nat \ {0}
  BY DEF SliceTyped, Inv, TypeOK, ReturnTrue, vars
<1>2. PICK c \in Seq(TransformCall) : c = calls /\ c # <<>>
  BY DEF SliceTyped
<1>3. PICK s \in Seq(TransformCall) : s = Tail(c)
  BY <1>2, TailFacts
<1>4. PICK i : i = item'
  OBVIOUS
<1>5. calls' = s /\ i = IF s = <<>> THEN item + 1 ELSE item
  BY <1>2, <1>3, <1>4 DEF ReturnTrue
<1>6. PICK v : v = "running"
  OBVIOUS
<1>7. PICK q : q = c[1].place
  OBVIOUS
<1>8. Head(calls).place = q /\ Len(c) \in Nat \ {0} /\ (s = <<>> <=> Len(c) = 1)
  BY <1>2, <1>3, <1>7, TailFacts
<1>9. ASSUME NEW r, Regular(r), TransformsAt(r, "running", item, calls)
      PROVE  TransformsAt(r, v, i, s)
  <2>1. PICK ref : ref = model.items[item]
    OBVIOUS
  <2>2. /\ \A j \in Items : j < item => StraightRef(r, model.items[j])
        /\ item \in Items /\ ~Tilts(ref) /\ There(ref) /\ Line(r, c, Leads(ref))
    BY <1>2, <1>9, <2>1 DEF TransformsAt
  <2>3. Straight(r, q)
    BY <1>8, <1>9
  <2>4. CASE s = <<>>
    <3>1. q = Leads(ref)
      BY <1>7, <1>8, <2>2, <2>4 DEF Line
    <3>2. StraightRef(r, ref)
      BY <2>2, <2>3, <3>1 DEF StraightRef
    <3>3. ASSUME NEW j \in Items, j < i PROVE StraightRef(r, model.items[j])
      <4>1. j \in Nat /\ (j < item \/ j = item)
        BY <1>1, <1>5, <2>4, <3>3 DEF Items
      <4>. QED
        BY <2>1, <2>2, <3>2, <4>1
    <3>. QED
      BY <1>6, <2>4, <3>3 DEF TransformsAt
  <2>5. CASE s # <<>>
    <3>1. Line(r, s, Leads(ref)) /\ Pending(r, s[1], q) /\ s[1] \in TransformCall
      BY <1>3, <1>7, <2>2, <2>5, LinePopped
    <3>2. PICK f \in TransformCall : f = s[1]
      BY <3>1
    <3>3. f.place \in Places /\ f.next \in Nat \ {0}
      BY <3>2 DEF TransformCall
    <3>4. PICK t : t = PartsOf(f.place)
      OBVIOUS
    <3>5. Len(t) \in Nat
      BY <1>1, <3>3, <3>4, ComponentsIs
    <3>6. /\ f.next - 1 \in 1..Len(t) /\ \A k \in 1..(f.next - 2) : StraightRef(r, t[k])
          /\ ~Tilts(t[f.next - 1]) /\ Leads(t[f.next - 1]) = q
      BY <3>1, <3>2, <3>4 DEF Pending
    <3>7. StraightRef(r, t[f.next - 1])
      BY <2>3, <3>6 DEF StraightRef
    <3>8. ASSUME NEW k \in 1..(f.next - 1) PROVE StraightRef(r, t[k])
      <4>1. k \in 1..(f.next - 2) \/ k = f.next - 1
        BY <3>3
      <4>. QED
        BY <3>6, <3>7, <4>1
    <3>9. f.next <= Len(t) + 1
      BY <3>3, <3>5, <3>6
    <3>10. Checked(r, f)
      BY <3>4, <3>8, <3>9 DEF Checked
    <3>. QED
      BY <1>5, <1>6, <2>1, <2>2, <2>5, <3>1, <3>2, <3>10 DEF TransformsAt
  <2>. QED
    BY <2>4, <2>5
<1>10. i \in Nat \ {0}
  BY <1>1, <1>5
<1>. QED
  BY <1>1, <1>4, <1>5, <1>6, <1>9, <1>10, TransformStep

(* The innermost call, and what its object is made of.                     *)
LEMMA HeadIs ==
  ASSUME Inv, SliceTyped, calls # <<>>, NEW f, f = Head(calls)
  PROVE  /\ f \in TransformCall /\ f.place \in Places /\ f.next \in Nat \ {0} /\ f = calls[1]
         /\ Components(f.place) = PartsOf(f.place) /\ PartsOf(f.place) \in Seq(Reference)
         /\ Len(PartsOf(f.place)) \in Nat /\ DOMAIN Components(f.place) = 1..Len(PartsOf(f.place))
<1>1. PICK c \in Seq(TransformCall) : c = calls
  BY DEF SliceTyped
<1>2. Len(c) \in Nat \ {0} /\ f = c[1]
  BY <1>1, TailFacts
<1>3. f \in TransformCall
  BY <1>2
<1>4. f.place \in Places /\ f.next \in Nat \ {0}
  BY <1>3 DEF TransformCall
<1>. QED
  BY <1>1, <1>2, <1>3, <1>4, ComponentsIs DEF Inv, TypeOK

LEMMA EndComponentsStep ==
  ASSUME Inv, SliceTyped, TransformInv, EndComponents
  PROVE  SliceTyped' /\ TransformInv'
<1>1. PICK f : f = Head(calls)
  OBVIOUS
<1>2. /\ verdict = "running" /\ calls # <<>> /\ f.next > Len(Components(f.place))
      /\ ReturnTrue /\ UNCHANGED <<vars, target>>
      /\ model \in Model /\ target \in Places
  BY <1>1 DEF EndComponents, SliceTyped, Inv, TypeOK
<1>3. /\ f.place \in Places /\ f.next \in Nat \ {0} /\ f = calls[1]
      /\ Components(f.place) = PartsOf(f.place) /\ Len(PartsOf(f.place)) \in Nat
  BY <1>1, <1>2, HeadIs
<1>4. ASSUME NEW r, Regular(r) PROVE Straight(r, f.place)
  <2>1. Checked(r, f)
    BY <1>2, <1>3, <1>4 DEF TransformInv, TransformsAt
  <2>2. f.next - 1 = Len(PartsOf(f.place))
    BY <1>2, <1>3, <2>1 DEF Checked
  <2>3. \A k \in 1..Len(PartsOf(f.place)) : StraightRef(r, PartsOf(f.place)[k])
    BY <2>1, <2>2 DEF Checked
  <2>. QED
    BY <1>2, <1>3, <1>4, <2>3, StraightFrom
<1>. QED
  BY <1>1, <1>2, <1>4, ReturnStep

LEMMA ComponentStepOf ==
  ASSUME Inv, SliceTyped, TransformInv, CheckComponent
  PROVE  SliceTyped' /\ TransformInv'
<1>1. PICK f : f = Head(calls)
  OBVIOUS
<1>2. PICK c : c = Components(f.place)[f.next]
  OBVIOUS
<1>3. /\ verdict = "running" /\ calls # <<>> /\ f.next <= Len(Components(f.place))
      /\ UNCHANGED <<vars, target>>
      /\ model \in Model /\ target \in Places /\ item \in Nat \ {0}
  BY <1>1 DEF CheckComponent, SliceTyped, Inv, TypeOK
<1>4. model' = model /\ target' = target /\ phase' = phase
  BY <1>3 DEF vars
<1>5. /\ f \in TransformCall /\ f.place \in Places /\ f.next \in Nat \ {0} /\ f = calls[1]
      /\ Components(f.place) = PartsOf(f.place) /\ PartsOf(f.place) \in Seq(Reference)
      /\ Len(PartsOf(f.place)) \in Nat /\ DOMAIN Components(f.place) = 1..Len(PartsOf(f.place))
  BY <1>1, <1>3, HeadIs
<1>6. f.next \in 1..Len(PartsOf(f.place)) /\ c = PartsOf(f.place)[f.next]
  BY <1>2, <1>3, <1>5
<1>7. c \in Reference
  BY <1>5, <1>6
<1>8. PICK q \in Places : q = Leads(c) /\ q[2] = c.id
  BY <1>3, <1>7, LeadsTyped
<1>9. PICK w \in Seq(TransformCall) : w = calls
  BY DEF SliceTyped
<1>10. PICK h \in TransformCall : h = [f EXCEPT !.next = @ + 1]
  <2>1. PICK h : h = [f EXCEPT !.next = @ + 1]
    OBVIOUS
  <2>2. h \in TransformCall
    BY ONLY <1>5, <2>1 DEF TransformCall
  <2>. QED
    BY <2>1, <2>2
<1>11. h.place = f.place /\ h.next = f.next + 1
  BY <1>5, <1>10 DEF TransformCall
<1>12. PICK g \in TransformCall : g = [place |-> q, next |-> 1]
  <2>1. PICK g : g = [place |-> q, next |-> 1]
    OBVIOUS
  <2>2. g \in TransformCall
    BY <2>1 DEF TransformCall
  <2>. QED
    BY <2>1, <2>2
<1>13. Tail(w) \in Seq(TransformCall)
  BY <1>3, <1>9, TailFacts
<1>14. PICK w2 \in Seq(TransformCall) : w2 = <<h>> \o Tail(w)
  BY <1>13, PushFacts
<1>15. PICK s : s = calls'
  OBVIOUS
<1>16. PICK v : v = verdict'
  OBVIOUS
<1>17. PICK i : i = item'
  OBVIOUS
<1>18. \/ Tilts(c) /\ Refuse
       \/ ~Tilts(c) /\ Circular(f.place, c)
       \/ ~Tilts(c) /\ ~Circular(f.place, c) /\ Visit(c, w2) /\ UNCHANGED item
  BY <1>1, <1>2, <1>9, <1>10, <1>14 DEF CheckComponent
<1>19. CASE Tilts(c) /\ Refuse
  <2>1. v = "refused" /\ i = item /\ s = w
    BY <1>9, <1>15, <1>16, <1>17, <1>19 DEF Refuse
  <2>2. ASSUME NEW r, Regular(r), TransformsAt(r, "running", item, calls)
        PROVE  TransformsAt(r, v, i, s)
    <3>1. PICK ref : ref = model.items[item]
      OBVIOUS
    <3>2. item \in Items /\ There(ref) /\ Line(r, w, Leads(ref))
      BY <1>3, <1>9, <2>2, <3>1 DEF TransformsAt
    <3>3. Len(w) \in Nat \ {0}
      BY <1>3, <1>9, TailFacts
    <3>4. f.place \in r[Leads(ref)]
      BY <1>5, <1>9, <3>2, <3>3 DEF Line
    <3>5. ~Straight(r, Leads(ref))
      BY <1>6, <1>19, <3>4 DEF Straight
    <3>6. Tilted(r)
      BY <3>1, <3>2, <3>5 DEF Tilted, StraightRef
    <3>. QED
      BY <2>1, <3>6 DEF TransformsAt
  <2>. QED
    BY <1>3, <1>4, <1>9, <1>15, <1>16, <1>17, <2>1, <2>2, TransformStep
<1>20. CASE ~Tilts(c) /\ Circular(f.place, c)
  <2>1. \A r : ~Regular(r)
    <3>1. Leads(c)[1] = target[1] /\ c.id = f.place[2]
      BY <1>20 DEF Circular
    <3>2. Leads(c) = <<target[1], f.place[2]>>
      BY <3>1 DEF Leads
    <3>3. ~NoNamesakes
      BY <1>2, <1>5, <1>6, <3>2 DEF NoNamesakes
    <3>. QED
      BY <3>3 DEF Regular
  <2>2. CASE ReturnTrue
    BY <1>3, <2>1, <2>2, ReturnStep
  <2>3. CASE ~ReturnTrue
    BY <1>1, <1>2, <1>20, <2>3 DEF CheckComponent
  <2>. QED
    BY <2>2, <2>3
<1>21. CASE ~Tilts(c) /\ ~Circular(f.place, c) /\ Visit(c, w2) /\ UNCHANGED item
  <2>1. /\ There(c) => s = <<g>> \o w2 /\ v = IF InCall(q) THEN "overflow" ELSE "running"
        /\ ~There(c) => s = w2 /\ v = "running"
        /\ i = item
    BY <1>3, <1>7, <1>8, <1>12, <1>15, <1>16, <1>17, <1>21, VisitIs
  <2>2. s \in Seq(TransformCall)
    <3>1. <<g>> \o w2 \in Seq(TransformCall)
      BY PushFacts
    <3>. QED
      BY <2>1, <3>1
  <2>3. ASSUME NEW r, Regular(r), TransformsAt(r, "running", item, calls)
        PROVE  TransformsAt(r, v, i, s)
    <3>1. PICK ref : ref = model.items[item]
      OBVIOUS
    <3>2. /\ \A j \in Items : j < item => StraightRef(r, model.items[j])
          /\ item \in Items /\ ~Tilts(ref) /\ There(ref) /\ Line(r, w, Leads(ref)) /\ Checked(r, f)
      BY <1>3, <1>5, <1>9, <2>3, <3>1 DEF TransformsAt
    <3>3. Line(r, w2, Leads(ref)) /\ w2[1] = h
      <4>1. h.place = w[1].place
        BY <1>5, <1>9, <1>11
      <4>2. PICK p : p = Leads(ref)
        OBVIOUS
      <4>3. Line(r, w, p)
        BY <3>2, <4>2
      <4>4. Line(r, w2, p)
        BY <1>9, <1>10, <1>14, <4>1, <4>3, LineReplaced
      <4>5. w2[1] = h
        BY <1>13, <1>14, PushFacts
      <4>. QED
        BY <4>2, <4>4, <4>5
    <3>4. h.next - 1 = f.next /\ h.next - 2 = f.next - 1
      BY <1>5, <1>11
    <3>5. CASE There(c)
      <4>1. Pending(r, h, q)
        BY <1>6, <1>8, <1>11, <1>21, <3>2, <3>4, <3>5 DEF Pending, Checked
      <4>2. Line(r, <<g>> \o w2, Leads(ref)) /\ (<<g>> \o w2)[1] = g
        <5>1. g.place = q
          BY <1>12
        <5>. QED
          BY <1>3, <2>3, <3>3, <4>1, <5>1, LinePushed
      <4>3. Checked(r, g)
        BY <1>3, <1>12, CheckedStarts
      <4>4. ~InCall(q)
        <5>1. SUFFICES ASSUME NEW k \in 1..Len(w), w[k].place = q PROVE FALSE
          <6>1. DOMAIN w = 1..Len(w)
            OBVIOUS
          <6>. QED
            BY <1>9, <6>1 DEF InCall
        <5>2. w # <<>> /\ Len(w) \in Nat \ {0}
          BY <1>3, <1>9, TailFacts
        <5>3. f.place \in r[q]
          <6>1. 1 \in 1..k
            OBVIOUS
          <6>. QED
            BY <1>5, <1>9, <3>2, <5>1, <6>1 DEF Line
        <5>4. Refers(f.place, q)
          BY <1>3, <1>5, <1>6, <1>8, <2>3, <3>5, RefersLeads DEF Regular
        <5>. QED
          BY <1>5, <2>3, <5>3, <5>4 DEF Regular, IsReach
      <4>5. v = "running" /\ s = <<g>> \o w2
        BY <2>1, <3>5, <4>4
      <4>. QED
        BY <2>1, <3>1, <3>2, <4>2, <4>3, <4>5 DEF TransformsAt
    <3>6. CASE ~There(c)
      <4>1. StraightRef(r, c)
        BY <1>21, <3>6 DEF StraightRef
      <4>2. \A k \in 1..(h.next - 1) : StraightRef(r, PartsOf(f.place)[k])
        <5>1. \A k \in 1..f.next : k \in 1..(f.next - 1) \/ k = f.next
          BY <1>5
        <5>. QED
          BY <1>6, <3>2, <3>4, <4>1, <5>1 DEF Checked
      <4>3. h.next <= Len(PartsOf(h.place)) + 1
        BY <1>5, <1>6, <1>11
      <4>4. Checked(r, h)
        BY <1>11, <4>2, <4>3 DEF Checked
      <4>5. v = "running" /\ s = w2
        BY <2>1, <3>6
      <4>. QED
        BY <2>1, <3>1, <3>2, <3>3, <4>4, <4>5 DEF TransformsAt
    <3>. QED
      BY <3>5, <3>6
  <2>4. v \in {"running", "overflow"}
    BY <2>1
  <2>. QED
    BY <1>3, <1>4, <1>15, <1>16, <1>17, <2>1, <2>2, <2>3, <2>4, TransformStep
<1>. QED
  BY <1>18, <1>19, <1>20, <1>21

LEMMA EndStepOf ==
  ASSUME Inv, SliceTyped, TransformInv, EndTransforms
  PROVE  SliceTyped' /\ TransformInv'
<1>1. /\ verdict = "running" /\ calls = <<>> /\ item \notin Items /\ verdict' = "planar"
      /\ UNCHANGED <<vars, target, item, calls>>
      /\ model \in Model /\ target \in Places /\ item \in Nat \ {0} /\ calls \in Seq(TransformCall)
  BY DEF EndTransforms, SliceTyped, Inv, TypeOK
<1>2. model' = model /\ target' = target /\ phase' = phase
  BY <1>1 DEF vars
<1>3. PICK n \in Nat : Items = 1..n
  BY <1>1, ItemsTyped
<1>4. ASSUME NEW r, Regular(r), TransformsAt(r, "running", item, calls)
      PROVE  TransformsAt(r, "planar", item, calls)
  <2>1. \A j \in Items : j < item
    BY <1>1, <1>3
  <2>2. ~Tilted(r)
    BY <1>4, <2>1 DEF TransformsAt, Tilted
  <2>. QED
    BY <2>2 DEF TransformsAt
<1>5. PICK v : v = "planar"
  OBVIOUS
<1>. QED
  BY <1>1, <1>2, <1>4, <1>5, TransformStep

LEMMA StartStepOf ==
  ASSUME Inv, SliceTyped, TransformInv, StartTransforms
  PROVE  SliceTyped' /\ TransformInv'
<1>1. /\ phase = "returned" /\ target' \in Parts \X IDs /\ item' = 1 /\ verdict' = "running"
      /\ UNCHANGED <<vars, calls>> /\ calls = <<>> /\ model \in Model
  BY DEF StartTransforms, SliceTyped, Inv, TypeOK
<1>2. phase' = phase /\ model' = model
  BY <1>1 DEF vars
<1>3. SliceTyped'
  BY <1>1, <1>2 DEF SliceTyped, Places
<1>4. Items' = Items /\ \A j \in Items : j \in Nat \ {0}
  BY <1>2 DEF Items
<1>5. ASSUME NEW r PROVE TransformsAt(r, verdict, item, calls)'
  BY <1>1, <1>4 DEF TransformsAt
<1>. QED
  BY <1>3, <1>5 DEF TransformInv

LEMMA SliceStutter ==
  ASSUME Inv, SliceTyped, TransformInv, UNCHANGED sliceVars, [Next]_vars, Next \/ UNCHANGED vars
  PROVE  SliceTyped' /\ TransformInv'
<1>1. UNCHANGED <<target, item, calls, verdict>>
  BY DEF sliceVars
<1>2. CASE Next
  <2>1. phase = "running" /\ verdict = "none"
    BY <1>2 DEF Next, SliceTyped
  <2>. QED
    BY <1>1, <2>1 DEF SliceTyped, TransformInv
<1>3. CASE UNCHANGED vars
  <2>1. model' = model /\ phase' = phase
    BY <1>3 DEF vars
  <2>2. SliceTyped'
    BY <1>1, <2>1 DEF SliceTyped
  <2>3. ASSUME NEW r, Regular(r)', verdict' # "none" PROVE TransformsAt(r, verdict, item, calls)'
    <3>1. PICK v : v = verdict
      OBVIOUS
    <3>2. PICK i : i = item
      OBVIOUS
    <3>3. PICK s : s = calls
      OBVIOUS
    <3>4. TransformsAt(r, v, i, s)
      BY <1>1, <2>1, <2>3, <3>1, <3>2, <3>3, TransformSame DEF TransformInv
    <3>5. TransformsAt(r, v, i, s)'
      BY <1>1, <2>1, <3>4, TransformSame
    <3>6. v = verdict' /\ i = item' /\ s = calls'
      BY <1>1, <3>1, <3>2, <3>3
    <3>. QED
      BY <3>5, <3>6 DEF TransformsAt, Tilted
  <2>. QED
    BY <2>2, <2>3 DEF TransformInv
<1>. QED
  BY <1>2, <1>3

LEMMA SliceInitial == SliceInit => Inv /\ SliceTyped /\ TransformInv
<1>. SUFFICES ASSUME SliceInit PROVE Inv /\ SliceTyped /\ TransformInv
  OBVIOUS
<1>1. Inv
  BY InvInit DEF SliceInit
<1>2. <<>> \in Seq(TransformCall)
  OBVIOUS
<1>. QED
  BY <1>1, <1>2 DEF SliceInit, SliceTyped, TransformInv

LEMMA SliceInductive ==
  Inv /\ SliceTyped /\ TransformInv /\ [SliceNext]_<<vars, sliceVars>> => (Inv /\ SliceTyped /\ TransformInv)'
<1>. SUFFICES ASSUME Inv, SliceTyped, TransformInv, [SliceNext]_<<vars, sliceVars>>
              PROVE  Inv' /\ SliceTyped' /\ TransformInv'
  OBVIOUS
<1>1. CASE StartTransforms \/ CheckItem \/ CheckComponent \/ EndComponents \/ EndTransforms
  <2>1. UNCHANGED vars
    BY <1>1 DEF StartTransforms, CheckItem, CheckComponent, EndComponents, EndTransforms
  <2>2. Inv'
    BY <2>1, InvStutter
  <2>. QED
    BY <1>1, <2>2, StartStepOf, ItemStep, ComponentStepOf, EndComponentsStep, EndStepOf
<1>2. CASE (Next \/ UNCHANGED vars) /\ UNCHANGED sliceVars
  <2>1. Inv'
    BY <1>2, InvInductive
  <2>. QED
    BY <1>2, <2>1, SliceStutter
<1>. QED
  BY <1>1, <1>2 DEF SliceNext

LEMMA TiltedIs ==
  ASSUME Inv, SliceTyped, verdict # "none", PathsOfTarget,
         NEW r, r = [p \in Places |-> Reach(p)]
  PROVE  Tilted(r) <=> \E ref \in BuildReferences : Tilts(ref)
<1>1. model \in Model /\ target \in Places
  BY DEF Inv, TypeOK, SliceTyped
<1>2. PICK B : B = UNION {Reach(q) : q \in ItemPlaces}
  OBVIOUS
<1>3. ASSUME NEW i \in Items
      PROVE  /\ Leads(model.items[i]) \in Places
             /\ There(model.items[i]) => Leads(model.items[i]) \in ItemPlaces
  BY <1>1, ItemLeads DEF ItemPlaces
<1>4. ASSUME NEW q \in ItemPlaces
      PROVE  \E i \in Items : There(model.items[i]) /\ q = Leads(model.items[i])
  BY <1>1, ItemLeads DEF ItemPlaces
<1>5. ItemPlaces \subseteq Places
  BY <1>3, <1>4
<1>6. B \subseteq Places
  BY <1>2, <1>5, ReachIs
<1>7. \A ref : ref \in BuildReferences <=>
        \/ \E i \in Items : ref = model.items[i]
        \/ \E p \in B : \E k \in 1..Len(PartsOf(p)) : ref = PartsOf(p)[k]
  <2>1. \A p \in B : Components(p) = PartsOf(p) /\ DOMAIN Components(p) = 1..Len(PartsOf(p))
    BY <1>1, <1>6, ComponentsIs
  <2>2. BuildReferences = {model.items[i] : i \in Items}
                          \cup UNION {{Components(p)[k] : k \in DOMAIN Components(p)} : p \in B}
    BY <1>2 DEF BuildReferences
  <2>. QED
    BY <2>1, <2>2
<1>8. ASSUME Tilted(r) PROVE \E ref \in BuildReferences : Tilts(ref)
  <2>1. PICK i \in Items : ~StraightRef(r, model.items[i])
    BY <1>8 DEF Tilted
  <2>2. CASE Tilts(model.items[i])
    BY <1>7, <2>2
  <2>3. CASE ~Tilts(model.items[i])
    <3>1. There(model.items[i]) /\ ~Straight(r, Leads(model.items[i]))
      BY <2>1, <2>3 DEF StraightRef
    <3>2. PICK p : p = Leads(model.items[i])
      OBVIOUS
    <3>3. PICK q \in r[p] : \E k \in 1..Len(PartsOf(q)) : Tilts(PartsOf(q)[k])
      BY <3>1, <3>2 DEF Straight
    <3>4. p \in ItemPlaces /\ r[p] = Reach(p)
      BY <1>3, <1>5, <3>1, <3>2
    <3>5. q \in B
      BY <1>2, <3>3, <3>4
    <3>. QED
      BY <1>7, <3>3, <3>5
  <2>. QED
    BY <2>2, <2>3
<1>9. ASSUME NEW ref \in BuildReferences, Tilts(ref) PROVE Tilted(r)
  <2>1. CASE \E i \in Items : ref = model.items[i]
    BY <1>9, <2>1 DEF Tilted, StraightRef
  <2>2. CASE \E p \in B : \E k \in 1..Len(PartsOf(p)) : ref = PartsOf(p)[k]
    <3>1. PICK p \in B : \E k \in 1..Len(PartsOf(p)) : ref = PartsOf(p)[k]
      BY <2>2
    <3>2. PICK q \in ItemPlaces : p \in Reach(q)
      BY <1>2, <3>1
    <3>3. p \in r[q]
      BY <1>5, <3>2
    <3>4. ~Straight(r, q)
      BY <1>9, <3>1, <3>3 DEF Straight
    <3>. QED
      BY <1>4, <3>2, <3>4 DEF Tilted, StraightRef
  <2>. QED
    BY <1>7, <2>1, <2>2
<1>. QED
  BY <1>8, <1>9

LEMMA EndedExact == Inv /\ SliceTyped /\ TransformInv => TransformsExact
<1>. SUFFICES ASSUME Inv, SliceTyped, TransformInv,
                     Ended, Acyclic, GeometryOrParts, PathsOfTarget, NoNamesakes
              PROVE  verdict = IF \E ref \in BuildReferences : Tilts(ref) THEN "refused" ELSE "planar"
  BY DEF TransformsExact
<1>1. PICK r : r = [p \in Places |-> Reach(p)]
  OBVIOUS
<1>2. Regular(r)
  BY <1>1, ReachOrders DEF Regular
<1>3. verdict \in {"refused", "planar", "overflow"}
  BY DEF Ended, SliceTyped
<1>4. TransformsAt(r, verdict, item, calls)
  BY <1>2, <1>3 DEF TransformInv
<1>5. Tilted(r) <=> \E ref \in BuildReferences : Tilts(ref)
  BY <1>1, <1>3, TiltedIs
<1>. QED
  BY <1>3, <1>4, <1>5 DEF TransformsAt

(***************************************************************************)
(* The walk of the slices extension ends and refuses the object exactly    *)
(* when the build puts it in place by a transform that is not planar, for  *)
(* models of any size and objects nested to any depth (slices/validate.go: *)
(* 188-229).                                                               *)
(***************************************************************************)
THEOREM TransformsAlwaysExact == SliceSpec => []TransformsExact
<1>1. Inv /\ SliceTyped /\ TransformInv => TransformsExact
  BY EndedExact
<1>. QED
  BY <1>1, SliceInitial, SliceInductive, PTL DEF SliceSpec

(* Whatever is proved of Spec holds while objects are validated as well.   *)
LEMMA SliceKeepsTheBox == SliceSpec => Spec
<1>1. SliceInit => Init
  BY DEF SliceInit
<1>2. [SliceNext]_<<vars, sliceVars>> => [Next]_vars
  BY DEF SliceNext, StartTransforms, CheckItem, CheckComponent, EndComponents, EndTransforms
<1>. QED
  BY <1>1, <1>2, PTL DEF SliceSpec, Spec
=============================================================================
