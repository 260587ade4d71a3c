----------------------------- MODULE MCModelData ------------------------------
(* The data of a model, one of six in every behaviour while the others have   *)
(* nothing to do:                                                             *)
(*  - lists of triangles or segments over three groups and three indices,     *)
(*    with every default of the object;                                       *)
(*  - lattices of beams, with radii of a tenth of what can be written, one of *)
(*    them too small for it;                                                  *)
(*  - models of a root part and a child that are validated;                   *)
(*  - meshes of four and five triangles over four vertices, in every          *)
(*    combination (the order of the triangles of a mesh does not count);      *)
(*  - models of up to two objects in each of three parts, whose meshes are    *)
(*    checked by goroutines;                                                  *)
(*  - imports of up to five faces over points two of which are less than a    *)
(*    micron apart.                                                           *)
EXTENDS PropertyAttributes, BeamAttributes, ResourceValidation,
        MeshCoherency, ModelCoherency, MeshBuilding

MCRadii   == {0, 1, 10, 20}
MCRounded == [r \in MCRadii |-> IF r = 1 THEN 0 ELSE r]

-----------------------------------------------------------------------------
Child == "/c"
Root  == "/m"
MCPartOrder == <<Child, Root>>

Pkg(child, root, objs, exts, req) ==
  [resources |-> (Child :> [assets |-> child, objects |-> <<>>])
                 @@ (Root :> [assets |-> root, objects |-> objs]),
   extensions |-> exts, required |-> req]

Full(n) == [k \in 1..n |-> TRUE]

Group(group, id, n)   == [kind |-> group, id |-> id, elements |-> Full(n)]
TexGroup(id, texture) == [kind |-> "texgroup", id |-> id, elements |-> <<TRUE>>, texture |-> texture]
Texture(id, attached) == [kind |-> "texture", id |-> id, fields |-> TRUE, attached |-> attached]
Multi(pids, indices)  == [kind |-> "multi", id |-> 8, elements |-> IF pids = <<>> THEN <<>> ELSE <<indices>>, pids |-> pids,
                          blends |-> 1]
Composite(mat, index) == [kind |-> "composite", id |-> 7, elements |-> <<TRUE>>, material |-> mat,
                          indices |-> <<index>>]
Stack(id, bottom, slices, refs) ==
  [kind |-> "stack", id |-> id, bottom |-> bottom, slices |-> slices, refs |-> refs]
Slice(top, polygons)  == [top |-> top, vertices |-> 2, polygons |-> polygons]
Polygon(n, closed)    == [segments |-> n, closed |-> closed]
Ref(path, id)         == [path |-> path, id |-> id]

Mesh(n, triangles, lat) == [vertices |-> n, triangles |-> triangles, lattice |-> lat]
Solid(id, type, pid, pindex, geometry, sliced) ==
  [id |-> id, type |-> type, pid |-> pid, pindex |-> pindex, mesh |-> geometry,
   components |-> <<>>, sliced |-> sliced]

(* A triangle over groups that are there, twice there, empty or missing.     *)
Corners == [v : {<<0, 1, 2>>, <<1, 1, 3>>}, pid : 0..2,
              p : {<<0, 0, 0>>, <<1, 1, 1>>, <<1, 1, 0>>}]

Groups == {<<>>, <<Group("base", 1, 1)>>, <<Group("base", 0, 1)>>, <<Texture(1, TRUE)>>,
           <<Group("base", 1, 1), Group("color", 2, 2)>>, <<Group("base", 1, 1), Group("color", 1, 2)>>,
           <<Texture(1, TRUE), TexGroup(2, 1)>>}

OnTriangles ==
  {Pkg(<<>>, groups, <<Solid(id, type, pid, pindex, <<Mesh(3 - pindex, <<t>>, <<>>)>>, <<>>)>>, {"materials"}, {}) :
     groups \in Groups, id \in {0, 1, 3}, pid \in {0, 2}, pindex \in {0, 1},
     type \in {"support", "solidsupport"}, t \in Corners}

(* Stacks of the child, and one of the root that refers to them.             *)
Tops == UNION {[1..n -> {[top |-> top, vertices |-> 0, polygons |-> <<>>] : top \in {0, 1, 2, NaN}}] : n \in 0..2}

OnStacks ==
  {Pkg(<<Stack(1, 0, a, <<>>), Stack(2, 2, b, refsOfChild)>>, <<Stack(5, 0, <<>>, refs)>>, <<>>,
       {"slices"}, {}) :
     a \in Tops, b \in {<<[top |-> n, vertices |-> 0, polygons |-> <<>>]>> : n \in 1..3} \cup {<<>>},
     refsOfChild \in {<<>>, <<Ref(Root, 5)>>},
     refs \in {<<>>, <<Ref(Child, 1), Ref(Child, 2)>>, <<Ref(Child, 1), Ref(Child, 1)>>,
               <<Ref(Root, 5)>>, <<Ref(Child, 0), Ref("", 1), Ref(Child, 9)>>}}

OnSliced ==
  {Pkg(<<Stack(1, 0, <<Slice(1, <<p>>)>>, <<>>)>>,
       <<Stack(5, 0, slices, refs), Group("base", 6, 1)>>,
       <<Solid(3, type, 0, 0, <<Mesh(3, [k \in 1..4 |-> [v |-> <<0, 1, 2>>, pid |-> 0, p |-> <<0, 0, 0>>]],
                                     <<>>)>>,
               <<[stack |-> stack, low |-> low]>>)>>, {"slices"}, req) :
     p \in [segments : 0..1, closed : BOOLEAN], refs \in {<<>>, <<Ref(Child, 1)>>},
     slices \in {<<>>, <<Slice(1, <<>>)>>, <<Slice(1, <<Polygon(1, FALSE)>>)>>,
                <<[Slice(1, <<Polygon(1, TRUE)>>) EXCEPT !.vertices = 1]>>},
     type \in {"model", "other"}, stack \in {0, 5, 6, 9}, low \in BOOLEAN, req \in {{}, {"slices"}}}

(* Multis and composites, and the objects that take their properties.        *)
OnMaterials ==
  {Pkg(<<>>, <<Group("base", 1, 1), Group("color", 2, 2), Texture(4, index # 2), TexGroup(5, 4 * mat),
               Composite(mat, index), Multi(pids, <<index, index>>)>>,
       <<Solid(3, "support", pid, index, [k \in 1..(index % 2) |-> Mesh(3, <<>>, <<>>)], <<>>)>>, {"materials"}, {}) :
     mat \in {0, 1, 2, 9}, index \in 0..2, pid \in {1, 7, 8},
     pids \in {<<>>} \cup {<<a, b>> : a, b \in {1, 2, 5, 8, 9}}}

BeamsLattice(r, clipping, rep, v, set) ==
  [radius |-> 1, minLength |-> TRUE, clips |-> r[1] # 0, clipping |-> clipping,
   representation |-> rep, beams |-> <<[v |-> v, r |-> r]>>, sets |-> <<set>>]

OnLattices ==
  {Pkg(<<>>, <<>>,
       <<Solid(2, type, 0, 0, <<Mesh(3, [k \in 1..4 |-> [v |-> <<0, 1, 2>>, pid |-> 0, p |-> <<0, 0, 0>>]],
                                     before)>>, <<>>),
         Solid(3, "model", 0, 0, <<Mesh(3, <<>>, <<BeamsLattice(r, clipping, rep, v, set)>>)>>, <<>>),
         [id |-> 4, type |-> "model", pid |-> c, pindex |-> 0, mesh |-> <<>>,
          components |-> <<<<[path |-> "", id |-> c], [path |-> Child, id |-> 2]>>>>, sliced |-> <<>>]>>,
       {"beamlattice"}, {}) :
     type \in {"model", "support"}, r \in {<<0, 2>>, <<1, 2>>, <<2, 3>>, <<2, 2>>}, c \in {0, 4},
     clipping \in {0, 2, 3}, rep \in {4}, v \in {<<0, 1>>, <<1, 1>>, <<0, 3>>}, set \in {<<>>, <<0>>, <<1>>},
     before \in {<<>>, <<BeamsLattice(<<0, 0>>, 0, 0, <<0, 1>>, <<>>)>>}}

MCPackages == OnTriangles \cup OnStacks \cup OnSliced \cup OnMaterials \cup OnLattices

-----------------------------------------------------------------------------
(* The triangles of a tetrahedron in both orientations, two without an area. *)
Outward   == <<<<1, 2, 3>>, <<1, 3, 4>>, <<1, 4, 2>>, <<2, 4, 3>>>>
Inward    == [k \in 1..4 |-> <<Outward[k][1], Outward[k][3], Outward[k][2]>>]
FaceOrder == Outward \o Inward \o <<<<2, 2, 3>>, <<4, 4, 4>>>>

Ascending(s) == \A k \in 1..(Len(s) - 1) : s[k] <= s[k + 1]
Lists(n) == {[k \in 1..n |-> FaceOrder[s[k]]] : s \in {s \in [1..n -> DOMAIN FaceOrder] : Ascending(s)}}

NoMesh   == [vertices |-> 0, triangles |-> <<>>]
MCMeshes == {[vertices |-> 4, triangles |-> t] : t \in Lists(4) \cup Lists(5)}
             \cup {[vertices |-> 2, triangles |-> <<<<1, 2, 1>>>>],
                   [vertices |-> 4, triangles |-> Outward \o Inward],
                   [vertices |-> 4, triangles |-> Outward \o Outward], NoMesh}

NoLayout == [sizes |-> [p \in {"root"} |-> 0], bad |-> {}]
LayoutsOf(sizes) ==
  {[sizes |-> sizes, bad |-> b] : b \in SUBSET {<<p, k>> \in (DOMAIN sizes) \X (1..2) : k <= sizes[p]}}
MCLayouts ==
  LayoutsOf([root |-> 1, c |-> 1, d |-> 1]) \cup LayoutsOf([root |-> 0, c |-> 2, d |-> 1])
  \cup LayoutsOf([root |-> 2, c |-> 0]) \cup {NoLayout}

(* Points a and b are in one cell.                                         *)
MCCell == [a |-> 1, b |-> 1, c |-> 2, d |-> 3]
MCFaces == {<<"a", "c", "d">>, <<"b", "d", "c">>, <<"c", "c", "a">>}
Stl(ascii, faces, rest, fails) == [ascii |-> ascii, faces |-> faces, rest |-> rest, fails |-> fails]
MCFiles ==
  {Stl(ascii, faces, <<>>, fails) : ascii, fails \in BOOLEAN,
      faces \in UNION {[1..n -> MCFaces] : n \in 1..3}}
  \cup {Stl(TRUE, <<<<"a", "c", "d">>>>, <<"b", "c">>, FALSE),
        Stl(TRUE, [k \in 1..5 |-> <<"a", "c", "d">>], <<>>, FALSE),
        Stl(FALSE, [k \in 1..5 |-> <<"b", "c", "d">>], <<>>, FALSE),
        Stl(FALSE, <<>>, <<>>, FALSE)}
MCInitialIDs == {<<>>, <<1>>, <<2>>, <<3, 1>>, <<2, 1, 5>>, <<1, 1, 2>>, <<0, 2>>}

NoMeshToCheck == mesh = NoMesh /\ phase = "done" /\ e = 1 /\ pairMatching = <<>>
                 /\ edgeCounter = 0 /\ positive = <<>> /\ negative = <<>> /\ coherent = "none"
NoModelToCheck == layout = NoLayout /\ started = {"root"} /\ gpc = <<>> /\ wg = 0 /\ mu = NoOne
                  /\ read = <<>> /\ list = <<>> /\ checked = TRUE
NothingToImport == /\ stl = Stl(FALSE, <<>>, <<>>, FALSE) /\ mb = NewMeshBuilder
                   /\ faceCheck = checkEveryFaces /\ canceled = FALSE /\ decodeErr = "nil"
                   /\ returned = TRUE /\ ids = <<>> /\ added = <<>> /\ imports = MaxImports

NoElements ==
  /\ kind = "triangle" /\ object = [pid |-> 0, pindex |-> 0]
  /\ elems = <<>> /\ attrs = [a \in AttrNames |-> 0] /\ out = <<>> /\ decoded = <<>>

NoBeams ==
  /\ lattice = [radius |-> 0, cap |-> CapModeSphere]
  /\ beams = <<>> /\ written = <<>> /\ opened = TRUE /\ decodedBeams = <<>>
  /\ defaults = ReadLattice

NoPackage ==
  /\ package = Pkg(<<>>, <<>>, <<>>, {}, {})
  /\ part = Len(PartOrder) + 1 /\ place = 1 /\ seen = {} /\ errs = {}

MCInit ==
  \/ Init /\ NoBeams /\ NoPackage /\ NoMeshToCheck /\ NoModelToCheck /\ NothingToImport
  \/ NoElements /\ BeamInit /\ NoPackage /\ NoMeshToCheck /\ NoModelToCheck /\ NothingToImport
  \/ NoElements /\ NoBeams /\ ValidateInit /\ NoMeshToCheck /\ NoModelToCheck /\ NothingToImport
  \/ NoElements /\ NoBeams /\ NoPackage /\ CoherencyInit /\ NoModelToCheck /\ NothingToImport
  \/ NoElements /\ NoBeams /\ NoPackage /\ NoMeshToCheck /\ ModelInit /\ NothingToImport
  \/ NoElements /\ NoBeams /\ NoPackage /\ NoMeshToCheck /\ NoModelToCheck /\ BuildInit

MCNext ==
  \/ Next /\ UNCHANGED <<beamVars, validateVars, coherencyVars, modelVars, buildVars>>
  \/ BeamNext /\ UNCHANGED <<vars, validateVars, coherencyVars, modelVars, buildVars>>
  \/ ValidateNext /\ UNCHANGED <<vars, beamVars, coherencyVars, modelVars, buildVars>>
  \/ CoherencyNext /\ UNCHANGED <<vars, beamVars, validateVars, modelVars, buildVars>>
  \/ ModelNext /\ UNCHANGED <<vars, beamVars, validateVars, coherencyVars, buildVars>>
  \/ BuildNext /\ UNCHANGED <<vars, beamVars, validateVars, coherencyVars, modelVars>>

MCSpec ==
  /\ MCInit
  /\ [][MCNext]_<<vars, beamVars, validateVars, coherencyVars, modelVars, buildVars>>
  /\ ModelFairness
=============================================================================
