-------------------------- MODULE ExtensionDecoders --------------------------
(***************************************************************************)
(* The element decoders of the extensions that have elements: materials,   *)
(* slices and beam lattice (the decoder.go of each), as in                 *)
(* ElementDecoders.                                                        *)
(***************************************************************************)
EXTENDS ElementDecoders

(* CreateElementDecoder of the materials, which asserts that the parent is *)
(* a Resources.                                                            *)
MaterialsCreates ==
  In("materials", {"colorgroup", "texture2dgroup", "texture2d", "compositematerials",
                   "multiproperties"})

(* Start returns the error without a level.                                *)
colorGroupDecoder ==
  [Group("Assets", In("materials", {"color"})) EXCEPT !.level = "none"]

(* Kept only when it has a color.                                          *)
colorDecoder == [Entry("Colors") EXCEPT !.keeps = "attr"]

tex2DCoordDecoder == Entry("Coords")

tex2DGroupDecoder == Group("Assets", In("materials", {"tex2coord"}))

texture2DDecoder == [Group("Assets", {}) EXCEPT !.wraps = "no"]

compositeMaterialsDecoder == Group("Assets", In("materials", {"composite"}))

compositeDecoder == Entry("Composites")

multiPropertiesDecoder == Group("Assets", In("materials", {"multi"}))

(* Start adds a level of the resource, with the index of the multi.        *)
multiDecoder == [Entry("Multis") EXCEPT !.level = "asset"]

MaterialsDecoders ==
  [colorgroup |-> colorGroupDecoder, color |-> colorDecoder,
   texture2dgroup |-> tex2DGroupDecoder, tex2coord |-> tex2DCoordDecoder,
   texture2d |-> texture2DDecoder, compositematerials |-> compositeMaterialsDecoder,
   composite |-> compositeDecoder, multiproperties |-> multiPropertiesDecoder,
   multi |-> multiDecoder]

-----------------------------------------------------------------------------
SlicesCreates == In("slices", {"slicestack"})  \* asserts a Resources

sliceStackDecoder == Group("Assets", In("slices", {"slice", "sliceref"}))

sliceRefDecoder == Entry("Refs")

sliceDecoder == Group("Slices", In("slices", {"vertices", "polygon"}))

polygonVerticesDecoder == ListOf(In("slices", {"vertex"}))

polygonVertexDecoder == Entry("Vertices")

(* Mutant: a polygon is counted as if it were not kept yet. *)
polygonDecoder_Next ==
  [Entry("Polygons") EXCEPT !.children = In("slices", {"segment"}), !.wraps = "next"]

(* A polygon is kept when its segments are read, the other groups are not. *)
polygonDecoder ==
  [Entry("Polygons") EXCEPT !.children = In("slices", {"segment"}), !.wraps = "last"]

(* Mutant: the errors of the segments are dropped. *)
polygonSegmentDecoder_Silent == [Entry("Segments") EXCEPT !.reports = FALSE]

polygonSegmentDecoder == Entry("Segments")

SlicesDecoders ==
  [slicestack |-> sliceStackDecoder, sliceref |-> sliceRefDecoder, slice |-> sliceDecoder,
   vertices |-> polygonVerticesDecoder, vertex |-> polygonVertexDecoder,
   polygon |-> polygonDecoder, segment |-> polygonSegmentDecoder]

-----------------------------------------------------------------------------
LatticeCreates == In("beamlattice", {"beamlattice"})  \* asserts a Mesh

beamLatticeDecoder ==
  [Entry("Any") EXCEPT !.children = In("beamlattice", {"beams", "beamsets"}),
                       !.fills = "lattice", !.wraps = "plain"]

beamsDecoder == ListOf(In("beamlattice", {"beam"}))

beamDecoder == Entry("Beams")

beamSetsDecoder == ListOf(In("beamlattice", {"beamset"}))

beamSetDecoder == [Group("BeamSets", In("beamlattice", {"ref"})) EXCEPT !.reports = FALSE]

beamRefDecoder == Entry("Refs")

LatticeDecoders ==
  [beamlattice |-> beamLatticeDecoder, beams |-> beamsDecoder, beam |-> beamDecoder,
   beamsets |-> beamSetsDecoder, beamset |-> beamSetDecoder, ref |-> beamRefDecoder]
=============================================================================
