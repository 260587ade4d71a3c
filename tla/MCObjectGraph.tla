--------------------------- MODULE MCObjectGraph ---------------------------
(* Models with two objects in the root part and two in a child part.       *)
EXTENDS ObjectGraph, TLC

MCRootPath == "/3D/3dmodel.model"
Child      == "/3D/child.model"
MCChilds   == {Child}
MCIDs      == {1, 2}

Ref(path, id, transform) == [path |-> path, id |-> id, transform |-> transform]
Leaf(geometry) == [geometry |-> geometry, compound |-> FALSE, components |-> <<>>]
Of(components) == [geometry |-> "none", compound |-> TRUE, components |-> components]

(* An object of the root part refers to any of the three other places, or  *)
(* to two of them; one of a child part with or without a path.             *)
RootRefs  == {Ref("", 1, FALSE), Ref("", 2, TRUE), Ref(Child, 1, TRUE)}
ChildRefs == {Ref("", 1, FALSE), Ref(Child, 1, TRUE), Ref("", 2, TRUE)}

RootObjects ==
  {NoObject, Leaf("mesh"), Leaf("none"), Of(<<>>)}
  \cup {Of(<<r>>) : r \in RootRefs}
  \cup {Of(<<Ref(MCRootPath, 2, FALSE), Ref(Child, 1, FALSE)>>), Of(<<Ref(Child, 2, FALSE), Ref("", 1, TRUE)>>),
          Of(<<Ref(Child, 1, FALSE), Ref(Child, 1, TRUE)>>)}

ChildObjects == {NoObject, Leaf("mesh"), Leaf("noVertices")} \cup {Of(<<r>>) : r \in ChildRefs}

MCModels ==
  {[resources |-> (MCRootPath :> (1 :> a @@ 2 :> b)) @@ (Child :> (1 :> c @@ 2 :> d)), items |-> items] :
     a \in RootObjects, b \in RootObjects, c \in ChildObjects, d \in ChildObjects,
     items \in {<<>>, <<Ref("", 1, TRUE)>>, <<Ref(Child, 2, FALSE)>>,
                <<Ref(MCRootPath, 1, FALSE), Ref(MCRootPath, 2, TRUE)>>}}
=============================================================================
