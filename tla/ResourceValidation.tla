------------------------- MODULE ResourceValidation ------------------------
(***************************************************************************)
(* Model.Validate on the resources of a model (Resources.validate and      *)
(* Object.Validate in validate.go) with the validators of the materials,   *)
(* slices and beam lattice extensions, which are called for every asset    *)
(* and every object when the model declares the extension.                 *)
(*                                                                         *)
(* What may be absent is a sequence of at most one element; a value that   *)
(* only is there or not is a BOOLEAN.  Relationships, metadata and items   *)
(* are left out, the transforms of sliced objects are in SliceTransforms.  *)
(***************************************************************************)
EXTENDS Integers, Sequences, FiniteSets

CONSTANTS
  PartOrder,  \* the paths of the children, sorted, and that of the root part
  Packages,   \* what to validate: [resources |-> [path -> [assets, objects]],
              \*  extensions |-> those declared, required |-> those required],
              \*  with objects [id, type, pid, pindex, mesh, components, sliced]
  NaN         \* a ztop that is not a number

PartPaths == {PartOrder[k] : k \in DOMAIN PartOrder}

PropertyGroups == {"base", "color", "texgroup", "composite", "multi"}
SolidTypes     == {"model", "solidsupport"}

Triangle == [v : [1..3 -> Nat], pid : Nat, p : [1..3 -> Nat]]

IsSeq(s) == s \in Seq({s[k] : k \in DOMAIN s})

ASSUME PackagesAssumption ==
  /\ IsSeq(PartOrder)
  /\ \A p \in Packages :
       /\ DOMAIN p.resources = PartPaths
       /\ \A path \in PartPaths :
            LET assets  == p.resources[path].assets
                objects == p.resources[path].objects
            IN  /\ IsSeq(assets) /\ IsSeq(objects)
                /\ \A k \in DOMAIN assets :
                     /\ assets[k].kind \in PropertyGroups => IsSeq(assets[k].elements)
                     /\ assets[k].kind = "stack" =>
                          /\ IsSeq(assets[k].slices) /\ IsSeq(assets[k].refs)
                          /\ \A n \in DOMAIN assets[k].slices :
                               assets[k].slices[n].top = NaN \/ assets[k].slices[n].top \in Int
                /\ \A k \in DOMAIN objects :
                     objects[k].mesh # <<>> => objects[k].mesh[1].triangles \in Seq(Triangle)

VARIABLES
  package,  \* the model that is validated
  part,     \* the position in PartOrder
  place,    \* the next resource of the part, its assets before its objects
  seen,     \* the IDs met in the part
  errs      \* the errors, each with the path and the place of its resource

validateVars == <<package, part, place, seen, errs>>

ValidateInit ==
  /\ package \in Packages
  /\ part = 1 /\ place = 1
  /\ seen = {} /\ errs = {}

-----------------------------------------------------------------------------
Err(condition, name) == IF condition THEN {name} ELSE {}

Declared(ext) == ext \in package.extensions

AssetsOf(path)  == package.resources[path].assets
ObjectsOf(path) == package.resources[path].objects

(* FindAsset and FindObject, which take the first with the ID.             *)
WithID(rs, id) == {k \in DOMAIN rs : rs[k].id = id}
First(rs, id)  == rs[CHOOSE k \in WithID(rs, id) : \A j \in WithID(rs, id) : k <= j]

HasAsset(path, id)  == path \in DOMAIN package.resources /\ WithID(AssetsOf(path), id) # {}
FindAsset(path, id) == First(AssetsOf(path), id)
IsA(path, id, type) == HasAsset(path, id) /\ FindAsset(path, id).kind = type

(* BaseMaterials and ColorGroup: an element is whether it has its fields.  *)
GroupErrors(r) ==
  Err(r.id = 0, "ErrMissingID") \cup Err(r.elements = <<>>, "ErrEmptyResourceProps")
  \cup Err(\E k \in DOMAIN r.elements : ~r.elements[k], "MissingFieldError")

TextureGroupErrors(path, r) ==
  Err(r.id = 0, "ErrMissingID") \cup Err(r.elements = <<>>, "ErrEmptyResourceProps")
  \cup Err(r.texture = 0, "MissingFieldError")
  \cup Err(r.texture # 0 /\ ~IsA(path, r.texture, "texture"), "ErrTextureReference")

TextureErrors(r) ==
  Err(r.id = 0, "ErrMissingID") \cup Err(~r.fields, "MissingFieldError")
  \cup Err(r.fields /\ ~r.attached, "ErrMissingTexturePart")

(* The length of a group that a multi indexes, as validateMultiProps has   *)
(* it: groups of textures and of multis have none.                         *)
MultiLength(path, pid) ==
  IF \E group \in {"base", "composite", "color"} : IsA(path, pid, group)
  THEN Len(FindAsset(path, pid).elements) ELSE 0

MultiErrors(path, r) ==
  LET K(group) == {k \in DOMAIN r.pids : IsA(path, r.pids[k], group)}
  IN  Err(r.id = 0, "ErrMissingID") \cup Err(r.elements = <<>>, "ErrEmptyResourceProps")
      \cup Err(r.pids = <<>>, "MissingFieldError")
      \cup Err(r.blends > Len(r.pids) - 1, "ErrMultiBlend")
      \cup Err((K("base") \cup K("composite")) \ {1} # {}, "ErrMaterialMulti")
      \cup Err(K("multi") # {}, "ErrMultiRefMulti")
      \cup Err(Cardinality(K("color")) > 1, "ErrMultiColors")
      \cup Err(\E k \in DOMAIN r.pids : ~HasAsset(path, r.pids[k]), "ErrMissingResource")
      \cup Err(\E j \in DOMAIN r.elements : \E k \in DOMAIN r.elements[j] \cap DOMAIN r.pids :
                 MultiLength(path, r.pids[k]) < r.elements[j][k], "ErrIndexOutOfBounds")

CompositeErrors(path, r) ==
  Err(r.id = 0, "ErrMissingID") \cup Err(r.elements = <<>>, "ErrEmptyResourceProps")
  \cup Err(r.material = 0 \/ r.indices = <<>>, "MissingFieldError")
  \cup (IF r.material = 0 THEN {}
        ELSE IF ~HasAsset(path, r.material) THEN {"ErrMissingResource"}
        ELSE IF ~IsA(path, r.material, "base") THEN {"ErrCompositeBase"}
        ELSE Err(\E k \in DOMAIN r.indices :
                   r.indices[k] > Len(FindAsset(path, r.material).elements), "ErrIndexOutOfBounds"))

MaterialErrors(path, r) ==
  CASE r.kind = "color"     -> GroupErrors(r)
    [] r.kind = "texgroup"  -> TextureGroupErrors(path, r)
    [] r.kind = "texture"   -> TextureErrors(r)
    [] r.kind = "multi"     -> MultiErrors(path, r)
    [] r.kind = "composite" -> CompositeErrors(path, r)
    [] OTHER                -> {}

-----------------------------------------------------------------------------
(* Every comparison with NaN is false.                                     *)
AtMost(x, y) == NaN \notin {x, y} /\ x <= y
Below(x, y)  == NaN \notin {x, y} /\ x < y

(* validateSlices; a slice has its ztop, the number of its vertices and    *)
(* its polygons, which have the number of their segments and are closed or *)
(* not.                                                                    *)
SliceErrors(r, k) ==
  LET slice == r.slices[k]
  IN  Err(slice.top = 0, "MissingFieldError")
      \cup Err(slice.top # 0 /\ Below(slice.top, r.bottom), "ErrSliceSmallTopZ")
      \cup Err(k > 1 /\ AtMost(slice.top, r.slices[k - 1].top), "ErrSliceNoMonotonic")
      \cup Err(/\ slice.polygons # <<>> \/ slice.vertices # 0
               /\ slice.vertices < 2, "ErrSliceInsufficientVertices")
      \cup Err(slice.polygons = <<>> /\ slice.vertices # 0, "ErrSliceInsufficientPolygons")
      \cup Err(\E p \in DOMAIN slice.polygons : slice.polygons[p].segments < 1,
               "ErrSliceInsufficientSegments")

RefGiven(path, ref) == ref.path \notin {"", path} /\ ref.id # 0

RefStack(path, ref) == RefGiven(path, ref) /\ IsA(ref.path, ref.id, "stack")

(* The slices of the stack that a reference names.                         *)
RefSlices(ref) == FindAsset(ref.path, ref.id).slices

(* Mutant: the height that is kept is that of the first slice. *)
LastTop_First(path, refs, i) ==
  LET before == {j \in 1..(i - 1) : RefStack(path, refs[j]) /\ RefSlices(refs[j]) # <<>>}
  IN  IF before = {} THEN <<>>
      ELSE <<Head(RefSlices(refs[CHOOSE j \in before : \A n \in before : n <= j])).top>>

(* lastTopZ in validateRefs: that of the stack before, unless there is none.  *)
LastTop(path, refs, i) ==
  LET before == {j \in 1..(i - 1) : RefStack(path, refs[j]) /\ RefSlices(refs[j]) # <<>>}
  IN  IF before = {} THEN <<>>
      ELSE LET slices == RefSlices(refs[CHOOSE j \in before : \A n \in before : n <= j])
           IN  <<slices[Len(slices)].top>>

RefErrors(path, r, i) ==
  LET ref == r.refs[i]
  IN  Err(ref.path = "" \/ ref.id = 0, "MissingFieldError")
      \cup Err(ref.path = path, "ErrSliceRefSamePart")
      \cup (IF ~RefGiven(path, ref) THEN {}
            ELSE IF ~HasAsset(ref.path, ref.id) THEN {"ErrMissingResource"}
            ELSE IF ~RefStack(path, ref) THEN {"ErrNonSliceStack"}
            ELSE Err(FindAsset(ref.path, ref.id).refs # <<>>, "ErrSliceRefRef")
                 \cup Err(/\ RefSlices(ref) # <<>> /\ LastTop(path, r.refs, i) # <<>>
                          /\ AtMost(RefSlices(ref)[1].top, LastTop(path, r.refs, i)[1]),
                          "ErrSliceNoMonotonic"))

StackErrors(path, r) ==
  IF r.kind # "stack" THEN {}
  ELSE Err((r.slices = <<>>) = (r.refs = <<>>), "ErrSlicesAndRefs")
       \cup (UNION {RefErrors(path, r, i) : i \in DOMAIN r.refs})
       \cup (UNION {SliceErrors(r, k) : k \in DOMAIN r.slices})

PolygonsClosed(slices) ==
  \A k \in DOMAIN slices : \A p \in DOMAIN slices[k].polygons :
    slices[k].polygons[p].segments > 0 => slices[k].polygons[p].closed

(* checkAllClosed.                                                         *)
AllClosed(r) ==
  /\ PolygonsClosed(r.slices)
  /\ \A i \in DOMAIN r.refs :
       IsA(r.refs[i].path, r.refs[i].id, "stack") => PolygonsClosed(RefSlices(r.refs[i]))

SlicedErrors(path, o) ==
  IF o.sliced = <<>> THEN {}
  ELSE LET id == o.sliced[1].stack
       IN  Err(id = 0, "MissingFieldError")
           \cup Err(id # 0 /\ ~HasAsset(path, id), "ErrMissingResource")
           \cup Err(id # 0 /\ HasAsset(path, id) /\ ~IsA(path, id, "stack"), "ErrNonSliceStack")
           \cup Err(/\ id # 0 /\ IsA(path, id, "stack") /\ o.type \in SolidTypes
                    /\ ~AllClosed(FindAsset(path, id)), "ErrSlicePolygonNotClosed")
           \cup Err(o.sliced[1].low /\ "slices" \notin package.required, "ErrSliceExtRequired")

-----------------------------------------------------------------------------
(* Mutant: a triangle of the object's group is passed over. *)
IsDefault_Group(o, t) == t.pid = o.pid

(* A triangle with the properties of its object is passed over.            *)
IsDefault(o, t) == t.pid = o.pid /\ \A c \in 1..3 : t.p[c] = o.pindex

PropertyErrors(path, pid, indices) ==
  IF ~HasAsset(path, pid) THEN {"ErrMissingResource"}
  ELSE Err(/\ FindAsset(path, pid).kind \in PropertyGroups
           /\ \E i \in indices : i >= Len(FindAsset(path, pid).elements), "ErrIndexOutOfBounds")

TriangleErrors(path, o, t) ==
  Err(t.v[1] = t.v[2] \/ t.v[1] = t.v[3] \/ t.v[2] = t.v[3], "ErrDuplicatedIndices")
  \cup Err(\E c \in 1..3 : t.v[c] >= o.mesh[1].vertices, "ErrIndexOutOfBounds")
  \cup (IF t.pid = 0 \/ IsDefault(o, t) THEN {}
        ELSE PropertyErrors(path, t.pid, {t.p[1], t.p[2], t.p[3]}))

(* The mesh of an object, with its default properties.                     *)
MeshErrors(path, o) ==
  IF o.mesh = <<>> THEN {}
  ELSE LET m == o.mesh[1]
       IN  (IF o.pid = 0 THEN {} ELSE PropertyErrors(path, o.pid, {o.pindex}))
           \cup Err(o.type \in SolidTypes /\ m.vertices < 3, "ErrInsufficientVertices")
           \cup Err(/\ o.type \in SolidTypes
                    /\ Len(m.triangles) <= 3 /\ m.lattice = <<>>, "ErrInsufficientTriangles")
           \cup UNION {TriangleErrors(path, o, m.triangles[t]) : t \in DOMAIN m.triangles}

ComponentErrors(path, o, c) ==
  LET target == IF c.path = "" THEN path ELSE c.path
  IN  IF c.id = 0 THEN {"MissingFieldError"}
      ELSE IF target \notin DOMAIN package.resources \/ WithID(ObjectsOf(target), c.id) = {}
           THEN {"ErrMissingResource"}
      ELSE Err(c.id = o.id /\ target = path, "ErrRecursion")

PartsErrors(path, o) ==
  IF o.components \in {<<>>, <<<<>>>>} THEN {}
  ELSE Err(o.pid # 0, "ErrComponentsPID")
       \cup UNION {ComponentErrors(path, o, o.components[1][k]) : k \in DOMAIN o.components[1]}

(* validateRefMesh: the objects up to the one with the lattice.            *)
RefMeshErrors(path, o, id) ==
  LET objects == ObjectsOf(path)
      known   == WithID(objects, id) \cup WithID(objects, o.id)
      k       == CHOOSE k \in known : \A j \in known : k <= j
  IN  IF id = o.id THEN {"ErrRecursion"}
      ELSE IF objects[k].id = o.id THEN {"ErrMissingResource"}
      ELSE Err(\/ objects[k].mesh = <<>> \/ objects[k].type # "model"
               \/ objects[k].mesh[1].lattice # <<>>, "ErrLatticeInvalidMesh")

BeamErrors(o, bl, b) ==
  Err(b.v[1] = b.v[2], "ErrLatticeSameVertex")
  \cup Err(b.v[1] # b.v[2] /\ \E n \in 1..2 : b.v[n] >= o.mesh[1].vertices, "ErrIndexOutOfBounds")
  \cup Err(b.r[1] \notin {0, bl.radius} /\ b.r[1] # b.r[2], "ErrLatticeBeamR2")

LatticeErrors(path, o) ==
  IF o.mesh = <<>> THEN {}
  ELSE IF o.mesh[1].lattice = <<>> THEN {}
  ELSE LET bl == o.mesh[1].lattice[1]
       IN  Err(o.type \notin SolidTypes, "ErrLatticeObjType")
           \cup Err(bl.radius = 0 \/ ~bl.minLength, "MissingFieldError")
           \cup Err(~bl.clips /\ bl.clipping = 0, "ErrLatticeClippedNoMesh")
           \cup (UNION {RefMeshErrors(path, o, id) :
                          id \in {bl.clipping, bl.representation} \ {0}})
           \cup (UNION {BeamErrors(o, bl, bl.beams[n]) : n \in DOMAIN bl.beams})
           \cup Err(\E n \in DOMAIN bl.sets : \E k \in DOMAIN bl.sets[n] :
                      bl.sets[n][k] >= Len(bl.sets[n]), "ErrIndexOutOfBounds")

ObjectErrors(path, o) ==
  Err(o.id = 0, "ErrMissingID")
  \cup Err(o.pindex # 0 /\ o.pid = 0, "MissingFieldError")
  \cup Err((o.mesh = <<>>) = (o.components = <<>>), "ErrInvalidObject")
  \cup MeshErrors(path, o) \cup PartsErrors(path, o)
  \cup (IF Declared("slices") THEN SlicedErrors(path, o) ELSE {})
  \cup (IF Declared("beamlattice") THEN LatticeErrors(path, o) ELSE {})

AssetErrors(path, r) ==
  (IF r.kind = "base" THEN GroupErrors(r) ELSE {})
  \cup (IF Declared("materials") THEN MaterialErrors(path, r) ELSE {})
  \cup (IF Declared("slices") THEN StackErrors(path, r) ELSE {})

-----------------------------------------------------------------------------
Checked == part > Len(PartOrder)
Path    == PartOrder[part]

(* An iteration of one of the loops of Resources.validate.                 *)
Validate(r, found) ==
  /\ errs' = errs \cup {<<Path, place, name>> :
                          name \in found \cup Err(r.id # 0 /\ r.id \in seen, "ErrDuplicatedID")}
  /\ seen' = seen \cup {r.id}
  /\ place' = place + 1
  /\ UNCHANGED <<package, part>>

ValidateAsset ==
  /\ ~Checked /\ place <= Len(AssetsOf(Path))
  /\ Validate(AssetsOf(Path)[place], AssetErrors(Path, AssetsOf(Path)[place]))

ObjectAt == ObjectsOf(Path)[place - Len(AssetsOf(Path))]

ValidateObject ==
  /\ ~Checked /\ place > Len(AssetsOf(Path))
  /\ place <= Len(AssetsOf(Path)) + Len(ObjectsOf(Path))
  /\ Validate(ObjectAt, ObjectErrors(Path, ObjectAt))

NextPart ==
  /\ ~Checked /\ place > Len(AssetsOf(Path)) + Len(ObjectsOf(Path))
  /\ part' = part + 1 /\ place' = 1 /\ seen' = {}
  /\ UNCHANGED <<package, errs>>

ValidateNext == ValidateAsset \/ ValidateObject \/ NextPart

ValidateSpec == ValidateInit /\ [][ValidateNext]_validateVars

-----------------------------------------------------------------------------
Accepted == Checked /\ errs = {}

(***************************************************************************)
(* Whoever looks up the properties of a triangle in a model that Validate  *)
(* accepts finds them: its group is the only asset of the part with the    *)
(* ID, and has as many elements as it takes, although validateMesh passes  *)
(* over the triangles with the properties of their object, and although    *)
(* the IDs are compared in another loop.                                   *)
(***************************************************************************)
Resolves(path, pid, index) ==
  \E k \in DOMAIN AssetsOf(path) :
    /\ WithID(AssetsOf(path), pid) = {k}
    /\ AssetsOf(path)[k].kind \in PropertyGroups => index < Len(AssetsOf(path)[k].elements)

TrianglesResolve(path, o) ==
  \A t \in DOMAIN o.mesh[1].triangles :
    o.mesh[1].triangles[t].pid # 0 =>
      \A c \in 1..3 : Resolves(path, o.mesh[1].triangles[t].pid, o.mesh[1].triangles[t].p[c])

AcceptedIndicesResolve ==
  Accepted =>
    \A path \in PartPaths : \A k \in DOMAIN ObjectsOf(path) :
      ObjectsOf(path)[k].mesh # <<>> => TrianglesResolve(path, ObjectsOf(path)[k])

(***************************************************************************)
(* The slices of a stack that Validate accepts ascend, also when they are  *)
(* in the stacks of other parts that it refers to, each of which is        *)
(* checked by itself, or has none at all.                                  *)
(***************************************************************************)
Ascend(slices) ==
  \A j, k \in DOMAIN slices : j < k => slices[j].top < slices[k].top

OnTop(lower, upper) ==
  \A j \in DOMAIN lower, k \in DOMAIN upper : lower[j].top < upper[k].top

Stacks == {r \in UNION {{AssetsOf(path)[k] : k \in DOMAIN AssetsOf(path)} : path \in PartPaths} :
             r.kind = "stack"}

Numbers == \A r \in Stacks : \A k \in DOMAIN r.slices : r.slices[k].top # NaN

AcceptedStacksAscend ==
  Accepted /\ Declared("slices") /\ Numbers =>
    \A r \in Stacks :
      /\ Ascend(r.slices)
      /\ \A i, j \in DOMAIN r.refs :
           i < j => OnTop(RefSlices(r.refs[i]), RefSlices(r.refs[j]))
=============================================================================
