-------------------------- MODULE SliceTransforms --------------------------
(***************************************************************************)
(* validateBuildTransforms and validateObjectTransforms (slices/           *)
(* validate.go): for an object with slices, Validate walks the build to    *)
(* find references that put it in place by a transform that is not planar. *)
(* A transform of ObjectGraph stands for one that is not planar; a planar  *)
(* one is like none.  The model is validated after its box was taken.      *)
(***************************************************************************)
EXTENDS ObjectGraph

VARIABLES
  target,  \* the part and the ID of the object with slices
  item,    \* the build item that is looked at
  calls,   \* the calls of validateObjectTransforms, the innermost first
  verdict  \* "none", "running", "planar", "refused" or "overflow"

sliceVars == <<target, item, calls, verdict>>

SliceInit ==
  /\ Init
  /\ target = <<"", 0>> /\ item = 0 /\ calls = <<>> /\ verdict = "none"

-----------------------------------------------------------------------------
(* A path that is left out is that of the target, whatever part the        *)
(* reference is in.                                                        *)
Leads(ref) == <<ObjectPath(ref, target[1]), ref.id>>

Tilts(ref) == Leads(ref) = target /\ ref.transform

(* Mutant: the loop ends at a component that is the target. *)
Circular_Target(place, c) == Leads(c) = target

(* "avoid circular references": of a component that has the ID of the      *)
(* object it is in, and the path of the target.                            *)
Circular(place, c) == c.id = place[2] /\ Leads(c)[1] = target[1]

InCall(place) == \E k \in DOMAIN calls : calls[k].place = place

(* The object of a reference is visited if it is found; a call that is     *)
(* made inside itself never returns.                                       *)
Visit(ref, waiting) ==
  LET place == Place(Leads(ref)[1], ref.id)
  IN  /\ verdict' = IF IsFound(place[1], place[2]) /\ InCall(place) THEN "overflow" ELSE verdict
      /\ calls' = IF IsFound(place[1], place[2])
                  THEN <<[place |-> place, next |-> 1]>> \o waiting ELSE waiting

(* Returning true: to the loop of the caller, or to that of the items.     *)
ReturnTrue ==
  /\ calls' = Tail(calls)
  /\ item' = IF Tail(calls) = <<>> THEN item + 1 ELSE item
  /\ UNCHANGED verdict

Refuse == verdict' = "refused" /\ UNCHANGED <<item, calls>>

StartTransforms ==
  /\ phase = "returned" /\ verdict = "none"
  /\ target' \in {p \in Parts \X IDs : IsFound(p[1], p[2])}
  /\ item' = 1 /\ verdict' = "running"
  /\ UNCHANGED <<vars, calls>>

CheckItem ==
  /\ verdict = "running" /\ calls = <<>> /\ item \in Items
  /\ LET ref == model.items[item]
     IN \/ Tilts(ref) /\ Refuse
        \/ /\ ~Tilts(ref)
           /\ Visit(ref, <<>>)
           /\ item' = IF calls' = <<>> THEN item + 1 ELSE item
  /\ UNCHANGED <<vars, target>>

Components(place) == FindObject(place[1], place[2]).components

CheckComponent ==
  /\ verdict = "running" /\ calls # <<>>
  /\ Head(calls).next <= Len(Components(Head(calls).place))
  /\ LET call == Head(calls)
         c    == Components(call.place)[call.next]
     IN \/ Tilts(c) /\ Refuse
        \/ ~Tilts(c) /\ Circular(call.place, c) /\ ReturnTrue
        \/ /\ ~Tilts(c) /\ ~Circular(call.place, c)
           /\ Visit(c, <<[call EXCEPT !.next = @ + 1]>> \o Tail(calls))
           /\ UNCHANGED item
  /\ UNCHANGED <<vars, target>>

EndComponents ==
  /\ verdict = "running" /\ calls # <<>>
  /\ Head(calls).next > Len(Components(Head(calls).place))
  /\ ReturnTrue
  /\ UNCHANGED <<vars, target>>

EndTransforms ==
  /\ verdict = "running" /\ calls = <<>> /\ item \notin Items
  /\ verdict' = "planar"
  /\ UNCHANGED <<vars, target, item, calls>>

SliceNext ==
  \/ Next /\ UNCHANGED sliceVars
  \/ StartTransforms \/ CheckItem \/ CheckComponent \/ EndComponents \/ EndTransforms

SliceSpec == SliceInit /\ [][SliceNext]_<<vars, sliceVars>> /\ Fairness

-----------------------------------------------------------------------------
(* The references of a part name the part they lead to, unless that is the *)
(* part of the target.                                                     *)
PathsOfTarget ==
  /\ \A i \in Items : model.items[i].path # "" \/ target[1] = RootPath
  /\ \A p \in Places : p[1] # target[1] =>
       \A k \in DOMAIN Components(p) : Components(p)[k].path # ""

(* The references that the build is made of.                               *)
BuildReferences ==
  {model.items[i] : i \in Items}
  \cup UNION {{Components(p)[k] : k \in DOMAIN Components(p)} : p \in UNION {Reach(q) : q \in ItemPlaces}}

(* No component in the target's part has the ID of the object it is in.    *)
NoNamesakes ==
  \A p \in Places : \A k \in DOMAIN Components(p) :
    Leads(Components(p)[k]) # <<target[1], p[2]>>

(* Objects are made of a geometry or of components, as Validate wants.     *)
GeometryOrParts ==
  \A p \in Places : Components(p) # <<>> => FindObject(p[1], p[2]).geometry = "none"

Ended == verdict \notin {"none", "running"}

(***************************************************************************)
(* For models without recursive objects, and without objects of a geometry *)
(* and components, whose references name their parts and whose components  *)
(* have other IDs than their objects, the walk ends, and it refuses the    *)
(* object exactly when some item or component that the build comes to      *)
(* refers to it with a transform that is not planar, however many objects  *)
(* lie between (slices/validate.go:188-229).  The transforms of the        *)
(* objects in between are not looked at.                                   *)
(***************************************************************************)
TransformsExact ==
  Ended /\ Acyclic /\ GeometryOrParts /\ PathsOfTarget /\ NoNamesakes =>
    verdict = IF \E ref \in BuildReferences : Tilts(ref) THEN "refused" ELSE "planar"

(***************************************************************************)
(* "any transform applied to an object that references a slice stack MUST  *)
(* be planar" (slices/slices.go:38): the walk does not accept an object    *)
(* that the build tilts.  It stops at a component with the ID of its       *)
(* object even if that is in another part.                                 *)
(***************************************************************************)
TiltedObjectsAreRefused ==
  verdict = "planar" /\ Acyclic /\ PathsOfTarget =>
    \A ref \in BuildReferences : ~Tilts(ref)
=============================================================================
