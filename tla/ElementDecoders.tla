--------------------------- MODULE ElementDecoders ---------------------------
(***************************************************************************)
(* The element decoders of the core namespace (decoder.go), each as what   *)
(* its methods do with elements and with errors.  A decoder is a record:   *)
(*   children  the elements that Child makes a decoder for                 *)
(*   creates   the type of the struct that Child offers, with the elements *)
(*             of other namespaces, to the CreateElementDecoder of an      *)
(*             extension; elements of unknown namespaces are kept there    *)
(*   captures  it keeps the tokens of the elements inside it               *)
(*   fills     the struct its children fill: its own, its parent's, or one *)
(*             that no element makes                                       *)
(*   field     the field of the parent's struct it is kept in              *)
(*   keeps     when: in Start, in End, or in Start as the only one         *)
(*   wraps     the level Wrap adds to an error: without an index, with the *)
(*             index of the next one to be kept or of the last one kept    *)
(*   reports   Start reports an attribute that does not parse              *)
(*   level     the level Start itself adds to that error                   *)
(***************************************************************************)
EXTENDS Integers, Sequences

In(namespace, locals) == {namespace} \X locals

Plain ==
  [children |-> {}, creates |-> "none", captures |-> FALSE, fills |-> "own",
   field |-> "", keeps |-> "no", wraps |-> "no", reports |-> FALSE, level |-> "own"]

(* The common forms: a list of its parent's, an entry of a list, and a     *)
(* struct that is complete when its element ends.                          *)
ListOf(children) == [Plain EXCEPT !.children = children, !.fills = "parent"]

Entry(field) ==
  [Plain EXCEPT !.field = field, !.keeps = "start", !.reports = TRUE]

Group(field, children) ==
  [Plain EXCEPT !.children = children, !.field = field, !.keeps = "end",
                !.wraps = "next", !.reports = TRUE]

-----------------------------------------------------------------------------
topLevelDecoder == [Plain EXCEPT !.children = In("core", {"model"}), !.fills = "model"]

modelDecoder ==
  [Plain EXCEPT !.children = In("core", {"resources", "build", "metadata"}),
                !.creates = "Model", !.fills = "model", !.reports = TRUE, !.level = "none"]

metadataGroupDecoder == ListOf(In("core", {"metadata"}))

metadataDecoder == [Group("Metadata", {}) EXCEPT !.wraps = "no", !.reports = FALSE]

buildDecoder ==
  [Plain EXCEPT !.children = In("core", {"item"}), !.fills = "build", !.field = "Build",
                !.wraps = "plain", !.reports = TRUE]

buildItemDecoder == Group("Items", In("core", {"metadatagroup"}))

resourceDecoder ==
  [Plain EXCEPT !.children = In("core", {"object", "basematerials"}),
                !.creates = "Resources", !.fills = "resources", !.field = "Resources",
                !.wraps = "plain", !.reports = TRUE]

baseMaterialsDecoder == Group("Assets", In("core", {"base"}))

baseMaterialDecoder == Entry("Materials")

meshDecoder ==
  [Plain EXCEPT !.children = In("core", {"vertices", "triangles"}), !.creates = "Mesh",
                !.field = "Mesh", !.keeps = "only", !.wraps = "plain", !.reports = TRUE]

verticesDecoder == ListOf(In("core", {"vertex"}))

vertexDecoder == Entry("Vertices")

trianglesDecoder == ListOf(In("core", {"triangle"}))

triangleDecoder == Entry("Triangles")

objectDecoder == Group("Objects", In("core", {"mesh", "components", "metadatagroup"}))

componentsDecoder ==
  [Plain EXCEPT !.children = In("core", {"component"}), !.field = "Components",
                !.keeps = "only", !.wraps = "plain", !.reports = TRUE]

componentDecoder == Entry("Component")

unknownAssetDecoder == [Group("Assets", {}) EXCEPT !.wraps = "no", !.captures = TRUE]

anyUnknownDecoder == [unknownAssetDecoder EXCEPT !.field = "Any", !.reports = FALSE]

(* By the local name of the element; the last three have no name of their  *)
(* own.                                                                    *)
CoreDecoders ==
  [model |-> modelDecoder, metadatagroup |-> metadataGroupDecoder,
   metadata |-> metadataDecoder, build |-> buildDecoder, item |-> buildItemDecoder,
   resources |-> resourceDecoder, basematerials |-> baseMaterialsDecoder,
   base |-> baseMaterialDecoder, mesh |-> meshDecoder, vertices |-> verticesDecoder,
   vertex |-> vertexDecoder, triangles |-> trianglesDecoder,
   triangle |-> triangleDecoder, object |-> objectDecoder,
   components |-> componentsDecoder, component |-> componentDecoder,
   top |-> topLevelDecoder, asset |-> unknownAssetDecoder, any |-> anyUnknownDecoder]
=============================================================================
