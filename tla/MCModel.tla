------------------------------ MODULE MCModel --------------------------------
(* Files for ModelFile: seven valid ones, and what becomes of them when an    *)
(* element of any name is put around some of their tokens or between two of   *)
(* them, when attributes do not parse, or when the file is cut.  Models for   *)
(* ModelEncoder: every list empty, with one and with two elements, and every  *)
(* kind of asset and object next to every other.                              *)
EXTENDS ModelEncoder

El(name, body) == <<Start(name, FALSE)>> \o body \o <<End(name)>>
Core(local, body) == El(<<"core", local>>, body)
Leaf(local) == Core(local, <<>>)

Mesh == Core("mesh", Core("vertices", Leaf("vertex") \o Leaf("vertex"))
                     \o Core("triangles", Leaf("triangle")))

MeshFile ==
  Core("model", Core("resources", Core("basematerials", Leaf("base") \o Leaf("base"))
                                  \o Core("object", Mesh)))

BuildFile ==
  Core("model",
       Core("metadata", <<Text>>)
       \o Core("resources", El(<<"materials", "texture2d">>, <<>>)
                            \o Core("object", Core("components", Leaf("component"))))
       \o Core("build", Core("item", Core("metadatagroup", Core("metadata", <<Text>>)))
                        \o Leaf("item")))

UnknownFile ==
  Core("model", El(<<"unknown", "other">>, Core("object", <<Text>>))
                \o Core("resources", El(<<"unknown", "other">>, <<>>)
                                     \o Core("object", Core("mesh",
                                          El(<<"unknown", "other">>, <<>>)))))

(* The elements of the extensions.                                         *)
Mat(local, body) == El(<<"materials", local>>, body)
Sli(local, body) == El(<<"slices", local>>, body)
Lat(local, body) == El(<<"beamlattice", local>>, body)

MaterialsFile ==
  Core("model", Core("resources",
    Mat("colorgroup", Mat("color", <<>>) \o <<Bare(<<"materials", "color">>), End(<<"materials", "color">>)>>)
    \o Mat("texture2dgroup", Mat("tex2coord", <<>>))
    \o Mat("compositematerials", Mat("composite", <<>>))
    \o Mat("multiproperties", Mat("multi", <<>>) \o Mat("multi", <<>>))))

SlicesFile ==
  Core("model", Core("resources",
    Sli("slicestack",
        Sli("slice", Sli("vertices", Sli("vertex", <<>>) \o Sli("vertex", <<>>))
                     \o Sli("polygon", Sli("segment", <<>>))
                     \o Sli("polygon", Sli("segment", <<>>)))
        \o Sli("sliceref", <<>>))))

Lattice(n) ==
  Lat("beamlattice",
      Lat("beams", FlattenSeq([k \in 1..n |-> Lat("beam", <<>>)]))
      \o Lat("beamsets", Lat("beamset", Lat("ref", <<>>)) \o Lat("beamset", <<>>)))

LatticeFile ==
  Core("model", Core("resources", Core("object", Core("mesh",
    Core("vertices", <<>>) \o El(<<"unknown", "other">>, <<>>) \o Lattice(1)))))

(* Two lattices in a mesh, and a text in two pieces.                       *)
OddFile ==
  Core("model", Core("metadata", <<Text>> \o El(<<"core", "other">>, <<>>) \o <<Text>>)
                \o Core("resources", Core("object", Core("mesh", Lattice(1) \o Lattice(2)))))

ValidFiles == {MeshFile, BuildFile, UnknownFile}
ExtFiles   == {MaterialsFile, SlicesFile, LatticeFile}

(* Tokens j..k of a file are some whole elements.                          *)
Level0(s, j, k) ==
  Cardinality({m \in j..k : s[m].op = "start"}) - Cardinality({m \in j..k : s[m].op = "end"})
Balanced(s, j, k) ==
  /\ Level0(s, j, k) = 0
  /\ \A m \in j..k : Level0(s, j, m) >= 0

Around(s, j, k, name) ==
  SubSeq(s, 1, j - 1) \o El(name, SubSeq(s, j, k)) \o SubSeq(s, k + 1, Len(s))

WrapNames == {<<"core", l>> : l \in {"model", "resources", "object", "mesh", "vertices",
                                     "vertex", "metadata", "item", "components", "other"}}
             \cup {<<"unknown", "other">>, <<"unknown", "object">>, <<"beamlattice", "beamlattice">>}
ExtWrapNames == {<<"core", "other">>, <<"core", "mesh">>, <<"unknown", "other">>,
                 <<"materials", "color">>, <<"materials", "colorgroup">>,
                 <<"slices", "slice">>, <<"slices", "vertices">>, <<"slices", "polygon">>,
                 <<"beamlattice", "beams">>, <<"beamlattice", "beamlattice">>}

WrappedIn(files, names) ==
  UNION {{Around(s, j, k, name) : name \in names} :
           <<s, j, k>> \in {<<s, j, k>> \in files \X (1..40) \X (0..40) :
                              /\ j <= Len(s) + 1 /\ k <= Len(s)
                              /\ k >= j - 1 /\ Balanced(s, j, k)}}
Wrapped == WrappedIn(ValidFiles, WrapNames) \cup WrappedIn(ExtFiles, ExtWrapNames)

Spoil(s, S) == [k \in DOMAIN s |-> IF k \in S THEN [s[k] EXCEPT !.bad = ~s[k].bare] ELSE s[k]]
Starts(s) == {k \in DOMAIN s : s[k].op = "start"}
Spoiled == UNION {{Spoil(s, {j, k}) : j, k \in Starts(s)} : s \in ValidFiles \cup ExtFiles \cup {OddFile}}

SpoiledAround ==
  UNION {{Spoil(s, Starts(s)) : s \in {Around(v, j, j - 1, name) : j \in 2..Len(v)}} :
           <<v, name>> \in (ValidFiles \X WrapNames) \cup (ExtFiles \X ExtWrapNames)}

Cut == UNION {{SubSeq(s, 1, k) : k \in DOMAIN s} \cup {SubSeq(s, 1, k) \o <<Malformed>> : k \in DOMAIN s}
              \cup {SubSeq(s, 1, k - 1) \o SubSeq(s, k + 1, Len(s)) : k \in DOMAIN s}
              : s \in ValidFiles \cup {OddFile}}

(* An unknown element with a text in it.                                   *)
MCUnknownText == {UnknownFile}

MCFiles == ValidFiles \cup ExtFiles \cup {OddFile} \cup Wrapped \cup Spoiled \cup SpoiledAround \cup Cut

-----------------------------------------------------------------------------
UnknownElement(body) == <<Start(<<"unknown", "other">>, FALSE)>> \o body \o <<End(<<"unknown", "other">>)>>
SomeTokens == UnknownElement(<<Open("object"), Text, Close("object")>>)

Asset(kind, count, slices, tokens) ==
  [kind |-> kind, count |-> count, slices |-> slices, tokens |-> tokens]
GroupOf(kind, n) == Asset(kind, n, <<>>, <<>>)
Base(n)        == GroupOf("basematerials", n)
Stack(slices, refs) == Asset("slicestack", refs, slices, <<>>)
Slice(v, ply)  == [vertices |-> v, polygons |-> ply]

AnyTokens(tokens)     == [kind |-> "any", tokens |-> tokens, beams |-> 0, sets |-> <<>>]
AnyLattice(beams, sets) == [kind |-> "beamlattice", tokens |-> <<>>, beams |-> beams, sets |-> sets]

Object(shape, md, v, t, any, c) ==
  [metadata |-> md, shape |-> shape, vertices |-> v, triangles |-> t, any |-> any, components |-> c]

MCObjects ==
  {Object("none", <<TRUE>>, 0, 0, <<>>, 0), Object("mesh", <<>>, 0, 0, <<>>, 0),
   Object("mesh", <<FALSE>>, 2, 1, <<AnyTokens(UnknownElement(<<>>))>>, 0),
   Object("components", <<>>, 0, 0, <<>>, 0), Object("components", <<TRUE, FALSE>>, 0, 0, <<>>, 2)}

Neighbours == {o \in MCObjects : o.metadata # <<>>}

UpTo2 == {<<>>} \cup {<<x>> : x \in MCObjects} \cup {<<x, y>> : x, y \in Neighbours}

Models0(metadata, assets, objects, items, any) ==
  { [metadata |-> md, assets |-> a, objects |-> o, items |-> it, any |-> e] :
      md \in metadata, a \in assets, o \in objects, it \in items, e \in any }

CoreModels ==
  Models0({<<>>, <<FALSE, TRUE>>},
          {<<>>, <<Base(0)>>, <<Base(2), Asset("asset", 0, <<>>, SomeTokens)>>,
           <<GroupOf("texture2d", 0), Base(1)>>},
          UpTo2,
          {<<>>, <<<<>>>>, <<<<TRUE>>, <<>>>>, <<<<>>, <<FALSE>>>>},
          {<<>>, <<AnyTokens(SomeTokens)>>})

(* Every asset of the extensions next to every other, and before a mesh    *)
(* with a beam lattice.                                                    *)
ExtAssets ==
  {GroupOf(kind, n) : kind \in DOMAIN GroupItem, n \in {0, 2}}
  \cup {Stack(<<>>, 0), Stack(<<>>, 2), Stack(<<Slice(0, <<>>), Slice(2, <<0, 2>>)>>, 1),
        Stack(<<Slice(1, <<1>>)>>, 0), GroupOf("texture2d", 0), Base(1)}

LatticeObject(beams, sets) ==
  <<Object("mesh", <<TRUE>>, 1, 0, <<AnyLattice(beams, sets)>>, 0)>>

ExtModels ==
  Models0({<<>>}, {<<a, b>> : a, b \in ExtAssets}, {LatticeObject(1, <<2, 1>>)}, {<<<<>>>>}, {<<>>})
  \cup Models0({<<>>}, {<<>>}, {LatticeObject(0, <<>>), LatticeObject(2, <<0>>)}, {<<>>}, {<<>>})

MCModels == CoreModels \cup ExtModels

MCNoModels == {}
=============================================================================
